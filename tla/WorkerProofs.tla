---------------------------- MODULE WorkerProofs ----------------------------
(***************************************************************************)
(* Proofs, for every value of the constants, of Worker's type invariant    *)
(* and of the invariants of WorkerProperties that hold whatever fails.     *)
(***************************************************************************)
EXTENDS WorkerProperties, TLAPS

USE DEF None

----------------------------------------------------------------------------
(* What the helpers return.                                                *)

LEMMA FreshId ==
    ASSUME NEW S, FreeIds(S) /= {}
    PROVE  Fresh(S) \in Ids
BY DEF Fresh, FreeIds

LEMMA ForwardOfType ==
    ASSUME TypeOK, NEW a \in Apps, Ready(a[1]), NEW lp \in LPorts
    PROVE  ForwardOf(a, lp) \in Forwards
BY DEF ForwardOf, Forwards, Ready, Apps

LEMMA HeldType ==
    ASSUME TypeOK, NEW S \in SUBSET Apps
    PROVE  Held(app, S) \subseteq Forwards
<1> SUFFICES ASSUME NEW a \in S, Claimed(app[a]), Ready(a[1])
             PROVE  ForwardOf(a, app[a].lport) \in Forwards
    BY DEF Held
<1>1. app[a].lport \in LPorts
    BY DEF TypeOK, AppW, Ports, Claimed
<1> QED BY <1>1, ForwardOfType

LEMMA RowType == \A t \in Forwards : Row(t) \in Apps
BY DEF Row, Forwards, Apps

LEMMA StartForwardsType ==
    ASSUME TypeOK, NEW A \in [Apps -> AppW], NEW F \in SUBSET Fwds,
           NEW S \in SUBSET Apps, \A a \in S : Ready(a[1]),
           StartForwards(A, F, S)
    PROVE  app' \in [Apps -> AppW] /\ fwds' \subseteq Fwds
<1>1. PICK pick \in [S -> Ports] :
         /\ app' = [a \in Apps |->
                IF a \notin S THEN A[a]
                ELSE IF pick[a] = None THEN [A[a] EXCEPT !.status = "error"]
                ELSE [A[a] EXCEPT !.status = "pending", !.lport = pick[a]]]
         /\ fwds' = F \cup
                {NewFwd(F, a, pick[a], {}, A[a].pinned) :
                    a \in {b \in S : pick[b] /= None}}
    BY DEF StartForwards
<1>2. app' \in [Apps -> AppW]
    BY <1>1 DEF AppW, Statuses
<1>3. ASSUME NEW a \in S, pick[a] /= None
      PROVE  NewFwd(F, a, pick[a], {}, A[a].pinned) \in Fwds
    <2>1. Fresh(OfRow(F, a)) \in Ids
        BY FreshId DEF StartForwards
    <2>2. ForwardOf(a, pick[a]) \in Forwards
        BY <1>3, ForwardOfType DEF Ports
    <2>3. A[a].pinned \in BOOLEAN
        BY DEF AppW
    <2> QED BY <2>1, <2>2, <2>3 DEF NewFwd, Fwds
<1> QED BY <1>1, <1>2, <1>3

LEMMA AutoForwardPassType ==
    ASSUME TypeOK, NEW A \in [Apps -> AppW], NEW F \in SUBSET Fwds,
           NEW S \in SUBSET Apps, AutoForwardPass(A, F, S)
    PROVE  app' \in [Apps -> AppW] /\ fwds' \subseteq Fwds
<1>1. Wanted(A, S) \in SUBSET Apps /\ \A a \in Wanted(A, S) : Ready(a[1])
    BY DEF Wanted
<1>2. StartForwards(A, F, Wanted(A, S))
    BY DEF AutoForwardPass
<1> QED BY <1>1, <1>2, StartForwardsType

LEMMA SpawnCancelsType ==
    ASSUME TypeOK, NEW T \in SUBSET Forwards, SpawnCancels(T)
    PROVE  cancels' \subseteq Cancels /\ cooldown' \subseteq LPorts
<1>1. cooldown' \subseteq LPorts
    BY DEF TypeOK, SpawnCancels, Forwards
<1>2. ASSUME NEW h \in {t.host : t \in T}
      PROVE  [id |-> Fresh(OfHost(cancels, h)), host |-> h, pc |-> "batch",
              todo |-> OfHost(T, h), sent |-> {}] \in Cancels
    <2>1. Fresh(OfHost(cancels, h)) \in Ids
        BY FreshId DEF SpawnCancels
    <2>2. h \in Hosts
        BY DEF Forwards
    <2> QED BY <2>1, <2>2 DEF Cancels, OfHost
<1> QED BY <1>1, <1>2 DEF SpawnCancels, TypeOK

LEMMA SpawnScansType ==
    ASSUME TypeOK, NEW S \in SUBSET Hosts, \A h \in S : host'[h].master \in Vias,
           SpawnScans(S)
    PROVE  scans' \subseteq Scans
<1>1. ASSUME NEW h \in S
      PROVE  [id |-> Fresh(OfHost(scans, h)), host |-> h, via |-> host'[h].master,
              res |-> "none", ports |-> {}] \in Scans
    <2>1. Fresh(OfHost(scans, h)) \in Ids
        BY FreshId DEF SpawnScans
    <2> QED BY <2>1 DEF Scans
<1> QED BY <1>1 DEF SpawnScans, TypeOK

LEMMA SpawnTeardownsType ==
    ASSUME TypeOK, NEW S,
           S \subseteq [host : Hosts, via : Vias, todo : SUBSET Forwards],
           SpawnTeardowns(S)
    PROVE  teardowns' \subseteq Teardowns
<1>1. ASSUME NEW t \in S
      PROVE  [id |-> Fresh(OfHost(teardowns, t.host)), host |-> t.host,
              via |-> t.via, todo |-> t.todo] \in Teardowns
    <2>1. Fresh(OfHost(teardowns, t.host)) \in Ids
        BY FreshId DEF SpawnTeardowns
    <2> QED BY <2>1 DEF Teardowns
<1> QED BY <1>1 DEF SpawnTeardowns, TypeOK

LEMMA MuxCancelType ==
    ASSUME TypeOK, NEW T, NEW res, MuxCancel(T, res)
    PROVE  tunnels' \subseteq Forwards
BY DEF TypeOK, NetTypeOK, MuxCancel

LEMMA MuxForwardType ==
    ASSUME TypeOK, NEW t \in Forwards, NEW res, MuxForward(t, res)
    PROVE  tunnels' \subseteq Forwards
BY DEF TypeOK, NetTypeOK, MuxForward

----------------------------------------------------------------------------
(* The type invariant, action by action.                                   *)

LEMMA TickType ==
    ASSUME TypeOK, NEW present \in SUBSET Hosts, NEW claims \in [Apps -> Ports],
           NEW due, NEW retry, Tick(present, claims, due, retry)
    PROVE  TypeOK'
<1> DEFINE gone == {h \in Hosts : Known(h)} \ present
           H == [h \in Hosts |-> IF h \notin present THEN NoHost
                                 ELSE IF Known(h) THEN host[h] ELSE NewHost]
           dial == {h \in present : MayDial(H[h], h \in retry)}
           probe == WillScan(H, present \cap due)
<1>1. H \in [Hosts -> HostW]
    BY DEF TypeOK, HostW, NoHost, NewHost, Masters, Vias
<1> HIDE DEF H
<1>2. host' = [h \in Hosts |->
               CASE h \in dial -> [H[h] EXCEPT !.master = "connecting",
                                               !.connecting = TRUE]
                 [] h \in probe -> [H[h] EXCEPT !.scanning = TRUE]
                 [] OTHER -> H[h]]
    BY DEF Tick, H
<1>3. host' \in [Hosts -> HostW]
    BY <1>1, <1>2 DEF HostW, Masters
<1>4. ext' \in [Apps -> Ports]
    BY DEF Tick, Ports, Apps
<1>5. app' \in [Apps -> AppW]
    BY DEF Tick, TypeOK, NoApp, AppW, Statuses, Ports, Overrides, Tiers
<1>6. connects' \subseteq Connects
    <2>1. ASSUME NEW h \in dial
          PROVE  [id |-> Fresh(OfHost(connects, h)), host |-> h,
                  res |-> "none"] \in Connects
        <3>1. FreeIds(OfHost(connects, h)) /= {}
            BY DEF Tick, H
        <3> QED BY <3>1, FreshId DEF Connects
    <2> QED BY <2>1 DEF Tick, TypeOK, H
<1>7. scans' \subseteq Scans
    <2>1. probe \subseteq Hosts /\ SpawnScans(probe)
        BY DEF WillScan, Tick, H
    <2>2. ASSUME NEW h \in probe PROVE host'[h].master \in Vias
        BY <1>1, <1>2 DEF WillScan, MayDial, HostW, Vias
    <2> QED BY <2>1, <2>2, SpawnScansType
<1>8. teardowns' \subseteq Teardowns
    <2>1. ASSUME NEW h \in gone
          PROVE TeardownOf(h) \subseteq
                   [host : Hosts, via : Vias, todo : SUBSET Forwards]
        BY HeldType DEF TeardownOf, Ready, AppsOf
    <2>2. SpawnTeardowns(UNION {TeardownOf(h) : h \in gone})
        BY DEF Tick
    <2> QED BY <2>1, <2>2, SpawnTeardownsType
<1> QED
    BY <1>3, <1>4, <1>5, <1>6, <1>7, <1>8
    DEF Tick, TypeOK, NetTypeOK, netVars

LEMMA MasterType ==
    ASSUME TypeOK, NEW c \in connects, Connect(c) \/ MasterDone(c)
    PROVE  TypeOK'
<1> USE DEF Vias
<1>0. c \in Connects
    BY DEF TypeOK
<1>1. CASE Connect(c)
    <2>1. PICK res \in Vias \cup {"fail"} :
             connects' = (connects \ {c}) \cup {[c EXCEPT !.res = res]}
        BY <1>1 DEF Connect
    <2>2. connects' \subseteq Connects
        BY <1>0, <2>1 DEF TypeOK, Connects
    <2>3. live' \subseteq Hosts \X Vias
        BY <1>0, <1>1 DEF Connect, TypeOK, NetTypeOK, Connects
    <2> QED BY <1>1, <2>2, <2>3 DEF Connect, TypeOK, NetTypeOK
<1>2. CASE MasterDone(c)
    <2>1. connects' \subseteq Connects
        BY <1>2 DEF MasterDone, TypeOK
    <2>2. CASE ~Known(c.host)
        <3>1. CloseLate(c) \subseteq
                 [host : Hosts, via : Vias, todo : SUBSET Forwards]
            BY <1>0 DEF CloseLate, Connects
        <3>2. teardowns' \subseteq Teardowns
            BY <1>2, <2>2, <3>1, SpawnTeardownsType DEF MasterDone
        <3> QED BY <1>2, <2>1, <2>2, <3>2
                DEF MasterDone, TypeOK, NetTypeOK, netVars
    <2>3. CASE Known(c.host)
        <3>0. host' = [host EXCEPT ![c.host] = Connected(c.host, c.res)]
            BY <1>2, <2>3 DEF MasterDone
        <3>1. host' \in [Hosts -> HostW]
            <4>1. Connected(c.host, c.res) \in HostW
                BY <1>0 DEF Connected, TypeOK, HostW, Masters, Connects
            <4> QED BY <3>0, <4>1 DEF TypeOK
        <3>2. scans' \subseteq Scans
            <4> DEFINE S == IF c.res \in Vias /\ ~host[c.host].scanning
                            THEN {c.host} ELSE {}
            <4>1. S \in SUBSET Hosts /\ SpawnScans(S)
                BY <1>0, <1>2, <2>3 DEF MasterDone, Connects
            <4>2. \A h \in S : host'[h].master \in Vias
                BY <1>0, <3>0 DEF Connected, TypeOK, Connects
            <4> QED BY <4>1, <4>2, SpawnScansType
        <3> QED BY <1>2, <2>1, <2>3, <3>1, <3>2
                DEF MasterDone, TypeOK, NetTypeOK, netVars
    <2> QED BY <2>2, <2>3
<1> QED BY <1>1, <1>2

LEMMA TeardownType ==
    ASSUME TypeOK, NEW d \in teardowns, Teardown(d)
    PROVE  TypeOK'
<1>0. d \in Teardowns
    BY DEF TypeOK
<1>1. live' \subseteq Hosts \X Vias
    BY DEF Teardown, MasterExit, TypeOK, NetTypeOK
<1>2. tunnels' \subseteq Forwards
    BY MuxCancelType DEF Teardown, MasterExit, TypeOK, NetTypeOK
<1>3. teardowns' \subseteq Teardowns
    <2>1. ASSUME NEW t PROVE [d EXCEPT !.todo = @ \ {t}] \in Teardowns
        BY <1>0 DEF Teardowns
    <2> QED BY <2>1 DEF Teardown, TypeOK
<1> QED BY <1>1, <1>2, <1>3 DEF Teardown, TypeOK, NetTypeOK

LEMMA ScannedRowType ==
    ASSUME TypeOK, NEW a \in Apps, NEW t \in Tiers
    PROVE  Scanned(a, t) \in AppW
<1>1. ExtValid(a) \in Ports
    BY DEF ExtValid, Ports
<1>2. mem[a] \in Entry /\ app[a] \in AppW
    BY DEF TypeOK
<1> QED BY <1>1, <1>2 DEF Scanned, NoApp, AppW, Statuses, Entry

LEMMA ScannedType ==
    ASSUME TypeOK, NEW h, NEW P \in SUBSET RPorts, NEW tier \in [P -> Tiers]
    PROVE  Rescanned(h, P, tier) \in [Apps -> AppW]
<1>1. NoApp \in AppW
    BY DEF NoApp, AppW, Statuses, Ports, Overrides, Tiers
<1> QED BY <1>1, ScannedRowType DEF Rescanned, TypeOK, Apps

LEMMA ScanType ==
    ASSUME TypeOK, TierAssumption, NEW s \in scans,
           Scan(s) \/ ScanFailed(s) \/ ScanDone(s) \/ ScanIgnored(s)
    PROVE  TypeOK'
<1>0. s \in Scans
    BY DEF TypeOK
<1>1. CASE Scan(s)
    <2>1. PICK t : /\ \/ \E found \in SUBSET RPorts :
                            t = [s EXCEPT !.res = "ok", !.ports = found]
                      \/ t = [s EXCEPT !.res = "fail"]
                   /\ scans' = (scans \ {s}) \cup {t}
        BY <1>1 DEF Scan
    <2>2. t \in Scans
        BY <1>0, <2>1 DEF Scans
    <2>3. scans' \subseteq Scans
        BY <2>1, <2>2 DEF TypeOK
    <2> QED BY <1>1, <2>3 DEF Scan, TypeOK, NetTypeOK, netVars
<1>2. CASE ScanFailed(s)
    <2>1. scans' \subseteq Scans /\ s.host \in Hosts
        BY <1>0, <1>2 DEF ScanFailed, TypeOK, Scans
    <2>2. host' \in [Hosts -> HostW]
        <3> DEFINE w(m) == [ScanOver(s.host) EXCEPT !.master = m]
        <3>1. PICK m : /\ m \in {"failed", ScanOver(s.host).master}
                       /\ host' = [host EXCEPT ![s.host] = w(m)]
            BY <1>2, Zenon DEF ScanFailed
        <3>2. ScanOver(s.host) \in HostW
            BY <2>1 DEF ScanOver, TypeOK, HostW
        <3>3. w(m) \in HostW
            BY <3>1, <3>2 DEF HostW, Masters
        <3> QED BY <3>1, <3>3 DEF TypeOK
    <2>3. app' \in [Apps -> AppW]
        BY <1>2 DEF ScanFailed, TypeOK, AppW, Statuses
    <2> QED BY <1>2, <2>1, <2>2, <2>3 DEF ScanFailed, TypeOK, NetTypeOK, netVars
<1>3. CASE ScanDone(s)
    <2> DEFINE h == s.host
    <2>1. scans' \subseteq Scans /\ h \in Hosts /\ s.ports \in SUBSET RPorts
        BY <1>0, <1>3 DEF ScanDone, TypeOK, Scans
    <2>2. host' \in [Hosts -> HostW]
        BY <1>3, <2>1 DEF ScanDone, ScanOver, TypeOK, HostW
    <2>3. cancels' \subseteq Cancels /\ cooldown' \subseteq LPorts
        <3> DEFINE S == {a \in AppsOf(h) : a[2] \notin s.ports}
        <3>1. S \in SUBSET Apps
            BY DEF AppsOf
        <3>2. Held(app, S) \in SUBSET Forwards
            BY <3>1, HeldType
        <3>3. SpawnCancels(Held(app, S))
            BY <1>3 DEF ScanDone
        <3> QED BY <3>2, <3>3, SpawnCancelsType
    <2>4. app' \in [Apps -> AppW] /\ fwds' \subseteq Fwds
        <3>1. PICK tier \in [s.ports -> Tiers] :
                 AutoForwardPass(Rescanned(h, s.ports, tier), fwds, AppsOf(h))
            BY <1>3 DEF ScanDone
        <3> DEFINE A == Rescanned(h, s.ports, tier)
        <3>2. A \in [Apps -> AppW]
            BY <2>1, ScannedType
        <3>3. AutoForwardPass(A, fwds, AppsOf(h))
            BY <3>1
        <3> HIDE DEF A
        <3> QED BY <3>2, <3>3, AutoForwardPassType DEF AppsOf, TypeOK
    <2> QED BY <1>3, <2>1, <2>2, <2>3, <2>4
            DEF ScanDone, TypeOK, NetTypeOK, netVars
<1>4. CASE ScanIgnored(s)
    BY <1>4 DEF ScanIgnored, TypeOK, NetTypeOK, netVars
<1> QED BY <1>1, <1>2, <1>3, <1>4

LEMMA FwdRequestType ==
    ASSUME TypeOK, NEW f \in fwds, CancelOld(f) \/ Bind(f)
    PROVE  TypeOK'
<1>0. f \in Fwds
    BY DEF TypeOK
<1>1. CASE CancelOld(f)
    <2>1. tunnels' \subseteq Forwards
        BY <1>1, MuxCancelType DEF CancelOld
    <2>2. fwds' \subseteq Fwds
        BY <1>0, <1>1 DEF CancelOld, TypeOK, Fwds
    <2> QED BY <1>1, <2>1, <2>2 DEF CancelOld, TypeOK, NetTypeOK
<1>2. CASE Bind(f)
    <2>0. f.to \in Forwards
        BY <1>0 DEF Fwds
    <2>1. tunnels' \subseteq Forwards
        BY <1>2, <2>0, MuxForwardType DEF Bind
    <2>2. fwds' \subseteq Fwds
        BY <1>0, <1>2 DEF Bind, TypeOK, Fwds
    <2> QED BY <1>2, <2>1, <2>2 DEF Bind, TypeOK, NetTypeOK
<1> QED BY <1>1, <1>2

LEMMA FwdDoneType ==
    ASSUME TypeOK, NEW f \in fwds, FwdDone(f)
    PROVE  TypeOK'
<1>0. f \in Fwds /\ f.to \in Forwards /\ Row(f.to) \in Apps
    BY RowType DEF TypeOK, Fwds
<1>1. CASE FwdIgnored(f)
    BY <1>1 DEF FwdIgnored, TypeOK, NetTypeOK, netVars
<1>2. CASE FwdStale(f)
    <2>1. Stray(f) \in SUBSET Forwards
        BY <1>0, ForwardOfType DEF Stray, Row, Forwards
    <2>2. cancels' \subseteq Cancels /\ cooldown' \subseteq LPorts
        BY <1>2, <2>1, SpawnCancelsType DEF FwdStale
    <2> QED BY <1>2, <2>2 DEF FwdStale, TypeOK, NetTypeOK, netVars
<1>3. CASE FwdUp(f)
    <2>1. f.pin \in BOOLEAN /\ f.to.lport \in Ports
        BY <1>0 DEF Fwds, Forwards, Ports
    <2>2. app' \in [Apps -> AppW]
        BY <1>0, <1>3, <2>1 DEF FwdUp, TypeOK, AppW, Statuses
    <2>3. mem' \in [Apps -> Entry] /\ disk' \in [Apps -> Entry]
        BY <1>0, <1>3, <2>1 DEF FwdUp, Remember, TypeOK, Entry
    <2> QED BY <1>3, <2>2, <2>3 DEF FwdUp, TypeOK, NetTypeOK, netVars
<1>4. CASE FwdRetry(f)
    <2> DEFINE A == [app EXCEPT ![Row(f.to)] = [@ EXCEPT !.status = "off",
                        !.lport = None, !.retried = TRUE]]
    <2>1. A \in [Apps -> AppW]
        BY <1>0 DEF TypeOK, AppW, Statuses, Ports
    <2>2. AutoForwardPass(A, fwds \ {f}, AppsOf(f.to.host))
        BY <1>4 DEF FwdRetry
    <2> HIDE DEF A
    <2>3. fwds \ {f} \in SUBSET Fwds /\ AppsOf(f.to.host) \in SUBSET Apps
        BY DEF TypeOK, AppsOf
    <2>4. app' \in [Apps -> AppW] /\ fwds' \subseteq Fwds
        BY <2>1, <2>2, <2>3, AutoForwardPassType
    <2> QED BY <1>4, <2>4 DEF FwdRetry, TypeOK, NetTypeOK, netVars
<1>5. CASE FwdError(f)
    <2>1. app' \in [Apps -> AppW]
        BY <1>0, <1>5 DEF FwdError, TypeOK, AppW, Statuses
    <2> QED BY <1>5, <2>1 DEF FwdError, TypeOK, NetTypeOK, netVars
<1> QED BY <1>1, <1>2, <1>3, <1>4, <1>5 DEF FwdDone

LEMMA CancelType ==
    ASSUME TypeOK, NEW c \in cancels,
           CancelMany(c) \/ CancelEach(c) \/ CancelCheck(c) \/ CancelFailed(c)
    PROVE  TypeOK'
<1>0. c \in Cancels
    BY DEF TypeOK
<1>1. ASSUME NEW d \in Cancels, ReplaceCancel(c, d)
      PROVE  cancels' \subseteq Cancels
    BY <1>1 DEF ReplaceCancel, TypeOK
<1>2. CASE CancelMany(c)
    <2>1. PICK res : /\ MuxCancel(c.todo, res)
                     /\ ReplaceCancel(c, [c EXCEPT !.pc = "each",
                                  !.todo = IF res = "ok" THEN {} ELSE @])
        BY <1>2 DEF CancelMany
    <2>2. [c EXCEPT !.pc = "each", !.todo = IF res = "ok" THEN {} ELSE @] \in Cancels
        BY <1>0 DEF Cancels
    <2>3. cancels' \subseteq Cancels
        BY <1>1, <2>1, <2>2
    <2>4. tunnels' \subseteq Forwards
        BY <2>1, MuxCancelType
    <2> QED BY <1>2, <2>3, <2>4 DEF CancelMany, TypeOK, NetTypeOK
<1>3. CASE CancelEach(c)
    <2>1. PICK t, res : /\ MuxCancel({t}, res)
                        /\ ReplaceCancel(c, IF res = "ok"
                               THEN [c EXCEPT !.todo = @ \ {t}]
                               ELSE [c EXCEPT !.pc = "check"])
        BY <1>3 DEF CancelEach
    <2>2. (IF res = "ok" THEN [c EXCEPT !.todo = @ \ {t}]
                         ELSE [c EXCEPT !.pc = "check"]) \in Cancels
        BY <1>0 DEF Cancels
    <2>3. cancels' \subseteq Cancels
        BY <1>1, <2>1, <2>2
    <2>4. tunnels' \subseteq Forwards
        BY <2>1, MuxCancelType
    <2> QED BY <1>3, <2>3, <2>4 DEF CancelEach, TypeOK, NetTypeOK
<1>4. CASE CancelCheck(c)
    <2>1. PICK t, sent :
             /\ t \in c.todo /\ sent \in {c.sent, c.sent \cup {t}}
             /\ ReplaceCancel(c, [c EXCEPT !.pc = "each",
                                           !.todo = @ \ {t}, !.sent = sent])
        BY <1>4 DEF CancelCheck, First
    <2>2. [c EXCEPT !.pc = "each", !.todo = @ \ {t}, !.sent = sent] \in Cancels
        BY <1>0, <2>1 DEF Cancels
    <2>3. cancels' \subseteq Cancels
        BY <1>1, <2>1, <2>2
    <2> QED BY <1>4, <2>3 DEF CancelCheck, TypeOK, NetTypeOK, netVars
<1>5. CASE CancelFailed(c)
    <2>1. PICK t \in c.sent :
             /\ ReplaceCancel(c, [c EXCEPT !.sent = @ \ {t}])
             /\ app' = [app EXCEPT ![Row(t)].status =
                IF @ = "off" /\ app[Row(t)].lport = t.lport THEN "active" ELSE @]
        BY <1>5 DEF CancelFailed
    <2>2. [c EXCEPT !.sent = @ \ {t}] \in Cancels
        BY <1>0 DEF Cancels
    <2>3. cancels' \subseteq Cancels
        BY <1>1, <2>1, <2>2
    <2>4. app' \in [Apps -> AppW]
        <3>1. t \in Forwards /\ Row(t) \in Apps
            BY <1>0, <2>1, RowType DEF Cancels
        <3> DEFINE w(st) == [app[Row(t)] EXCEPT !.status = st]
        <3>2. PICK st : /\ st \in {"active", app[Row(t)].status}
                        /\ app' = [app EXCEPT ![Row(t)] = w(st)]
            BY <2>1, Zenon
        <3>3. w(st) \in AppW
            BY <3>1, <3>2 DEF TypeOK, AppW, Statuses
        <3> QED BY <3>2, <3>3 DEF TypeOK
    <2> QED BY <1>5, <2>3, <2>4 DEF CancelFailed, TypeOK, NetTypeOK, netVars
<1> QED BY <1>2, <1>3, <1>4, <1>5

LEMMA CooldownType ==
    ASSUME TypeOK, CooldownElapse
    PROVE  TypeOK'
BY DEF CooldownElapse, TypeOK, NetTypeOK, netVars, threads

LEMMA StopType ==
    ASSUME TypeOK, NEW S \in SUBSET Apps, Stop(S)
    PROVE  /\ app' \in [Apps -> AppW]
           /\ cancels' \subseteq Cancels /\ cooldown' \subseteq LPorts
<1>1. app' \in [Apps -> AppW]
    BY DEF Stop, TypeOK, AppW, Statuses
<1>2. Held(app, S) \in SUBSET Forwards /\ SpawnCancels(Held(app, S))
    BY HeldType DEF Stop
<1> QED BY <1>1, <1>2, SpawnCancelsType

LEMMA SwitchType ==
    ASSUME TypeOK,
           ToggleAuto \/ Refresh \/ \E h \in Hosts : ToggleHost(h)
    PROVE  TypeOK'
<1>1. CASE ToggleAuto
    <2>1. CASE AutoForwardPass(app, fwds, Apps) /\ UNCHANGED <<cancels, cooldown>>
        <3>1. app' \in [Apps -> AppW] /\ fwds' \subseteq Fwds
            BY <2>1, AutoForwardPassType DEF TypeOK
        <3> QED BY <1>1, <2>1, <3>1 DEF ToggleAuto, TypeOK, NetTypeOK, netVars
    <2>2. CASE Stop(Apps) /\ UNCHANGED fwds
        BY <1>1, <2>2, StopType DEF ToggleAuto, TypeOK, NetTypeOK, netVars
    <2> QED BY <1>1, <2>1, <2>2 DEF ToggleAuto
<1>2. CASE Refresh
    <2>1. host' \in [Hosts -> HostW]
        BY <1>2 DEF Refresh, TypeOK, HostW
    <2>2. SpawnScans(WillScan(host, Hosts)) /\ WillScan(host, Hosts) \in SUBSET Hosts
        BY <1>2 DEF Refresh, WillScan
    <2>3. \A h \in WillScan(host, Hosts) : host'[h].master \in Vias
        BY <1>2 DEF Refresh, WillScan, TypeOK, HostW
    <2>4. scans' \subseteq Scans
        BY <2>2, <2>3, SpawnScansType
    <2> QED BY <1>2, <2>1, <2>4 DEF Refresh, TypeOK, NetTypeOK, netVars
<1>3. ASSUME NEW h \in Hosts, ToggleHost(h)
      PROVE  TypeOK'
    <2>0. AppsOf(h) \in SUBSET Apps
        BY DEF AppsOf
    <2>1. /\ paused' \subseteq Hosts
          /\ mem' \in [Apps -> Entry] /\ disk' \in [Apps -> Entry]
        BY <1>3 DEF ToggleHost, Remember, SymDiff, TypeOK
    <2>2. CASE Stop(AppsOf(h)) /\ UNCHANGED fwds
        BY <1>3, <2>0, <2>1, <2>2, StopType
        DEF ToggleHost, TypeOK, NetTypeOK, netVars
    <2>3. CASE /\ AutoForwardPass(app, fwds, AppsOf(h))
               /\ UNCHANGED <<cancels, cooldown>>
        <3>1. app' \in [Apps -> AppW] /\ fwds' \subseteq Fwds
            BY <2>0, <2>3, AutoForwardPassType DEF TypeOK
        <3> QED BY <1>3, <2>1, <2>3, <3>1
                DEF ToggleHost, TypeOK, NetTypeOK, netVars
    <2> QED BY <1>3, <2>2, <2>3 DEF ToggleHost
<1> QED BY <1>1, <1>2, <1>3

LEMMA PromotedType ==
    ASSUME TypeOK, NEW a \in Apps
    PROVE  Promoted(app[a], mem, a) \in Overrides /\ Promote(app[a]) \in AppW
BY DEF Promoted, Promote, TypeOK, Entry, AppW, Overrides

LEMMA AssignType ==
    ASSUME TypeOK, NEW a \in Apps, NEW lp \in LPorts, Assign(a, lp)
    PROVE  TypeOK'
<1>0. lp \in Ports /\ Held(app, {a}) \subseteq Forwards
    BY HeldType DEF Ports
<1>1. CASE AssignSame(a, lp)
    <2>1. app' \in [Apps -> AppW]
        BY <1>1 DEF AssignSame, TypeOK, AppW
    <2>2. mem' \in [Apps -> Entry] /\ disk' \in [Apps -> Entry]
        BY <1>0, <1>1 DEF AssignSame, Remember, TypeOK, Entry
    <2> QED BY <1>1, <2>1, <2>2 DEF AssignSame, TypeOK, NetTypeOK, netVars, threads
<1>2. CASE AssignOther(a, lp)
    <2>1. fwds' \subseteq Fwds
        <3>1. ForwardOf(a, lp) \in Forwards
            BY <1>2, ForwardOfType DEF AssignOther
        <3>2. Fresh(OfRow(fwds, a)) \in Ids
            BY <1>2, FreshId DEF AssignOther
        <3>3. NewFwd(fwds, a, lp, Held(app, {a}), TRUE) \in Fwds
            BY <1>0, <3>1, <3>2 DEF NewFwd, Fwds
        <3> QED BY <1>2, <3>3 DEF AssignOther, TypeOK
    <2>2. app' \in [Apps -> AppW]
        BY <1>0, <1>2, PromotedType DEF AssignOther, TypeOK, AppW, Statuses
    <2>3. mem' \in [Apps -> Entry]
        BY <1>2, PromotedType DEF AssignOther, TypeOK, Entry
    <2>4. cooldown' \subseteq LPorts
        BY <1>0, <1>2 DEF AssignOther, TypeOK, Forwards
    <2> QED BY <1>2, <2>1, <2>2, <2>3, <2>4
            DEF AssignOther, TypeOK, NetTypeOK, netVars
<1> QED BY <1>1, <1>2 DEF Assign

LEMMA ToggleType ==
    ASSUME TypeOK, NEW a \in Apps, Toggle(a)
    PROVE  TypeOK'
<1>1. CASE ToggleOff(a)
    <2>1. app' \in [Apps -> AppW]
        BY <1>1 DEF ToggleOff, TypeOK, AppW, Statuses
    <2>2. mem' \in [Apps -> Entry] /\ disk' \in [Apps -> Entry]
        BY <1>1 DEF ToggleOff, Remember, TypeOK, Entry
    <2>3. cancels' \subseteq Cancels /\ cooldown' \subseteq LPorts
        BY <1>1, HeldType, SpawnCancelsType DEF ToggleOff
    <2> QED BY <1>1, <2>1, <2>2, <2>3 DEF ToggleOff, TypeOK, NetTypeOK, netVars
<1>2. CASE ToggleOn(a)
    <2> DEFINE A == [app EXCEPT ![a] = [Promote(app[a]) EXCEPT !.status = "off",
                        !.muted = FALSE, !.retried = FALSE]]
    <2>1. A \in [Apps -> AppW]
        BY PromotedType DEF TypeOK, AppW, Statuses
    <2>2. StartForwards(A, fwds, {a}) /\ Ready(a[1])
        BY <1>2 DEF ToggleOn
    <2> HIDE DEF A
    <2>3. app' \in [Apps -> AppW] /\ fwds' \subseteq Fwds
        BY <2>1, <2>2, StartForwardsType DEF TypeOK
    <2>4. mem' \in [Apps -> Entry] /\ disk' \in [Apps -> Entry]
        BY <1>2, PromotedType DEF ToggleOn, Remember, TypeOK, Entry
    <2> QED BY <1>2, <2>3, <2>4 DEF ToggleOn, TypeOK, NetTypeOK, netVars
<1> QED BY <1>1, <1>2 DEF Toggle

LEMMA HideType ==
    ASSUME TypeOK, NEW a \in Apps, ToggleHidden(a)
    PROVE  TypeOK'
<1>1. CASE Hide(a)
    <2>1. app' \in [Apps -> AppW]
        <3>1. [app[a] EXCEPT !.status = "off", !.override = "bg"] \in AppW
            BY DEF TypeOK, AppW, Statuses, Overrides
        <3> QED BY <1>1, <3>1 DEF Hide, TypeOK
    <2>2. mem' \in [Apps -> Entry] /\ disk' \in [Apps -> Entry]
        BY <1>1 DEF Hide, Remember, TypeOK, Entry, Overrides
    <2>3. cancels' \subseteq Cancels /\ cooldown' \subseteq LPorts
        BY <1>1, HeldType, SpawnCancelsType DEF Hide
    <2> QED BY <1>1, <2>1, <2>2, <2>3 DEF Hide, TypeOK, NetTypeOK, netVars
<1>2. CASE Unhide(a)
    <2> DEFINE A == [app EXCEPT ![a] = [app[a] EXCEPT !.override = "app",
                        !.muted = FALSE,
                        !.status = IF @ = "error" THEN "off" ELSE @]]
    <2>1. A \in [Apps -> AppW]
        <3>1. [app[a] EXCEPT !.override = "app", !.muted = FALSE,
                  !.status = IF @ = "error" THEN "off" ELSE @] \in AppW
            BY DEF TypeOK, AppW, Statuses, Overrides
        <3> QED BY <3>1 DEF TypeOK
    <2>2. AutoForwardPass(A, fwds, AppsOf(a[1]))
        BY <1>2 DEF Unhide
    <2> HIDE DEF A
    <2>3. app' \in [Apps -> AppW] /\ fwds' \subseteq Fwds
        BY <2>1, <2>2, AutoForwardPassType DEF TypeOK, AppsOf
    <2>4. mem' \in [Apps -> Entry] /\ disk' \in [Apps -> Entry]
        BY <1>2 DEF Unhide, Remember, TypeOK, Entry, Overrides
    <2> QED BY <1>2, <2>3, <2>4 DEF Unhide, TypeOK, NetTypeOK, netVars
<1> QED BY <1>1, <1>2 DEF ToggleHidden

LEMMA CommentType ==
    ASSUME TypeOK, NEW a \in Apps, SetComment(a)
    PROVE  TypeOK'
BY DEF SetComment, TypeOK, NetTypeOK, netVars, threads

LEMMA EnvironmentType ==
    ASSUME TypeOK, SharedAssumption, Environment
    PROVE  TypeOK'
<1>1. NetTypeOK'
    <2>1. CASE ListenChange
        BY <2>1 DEF ListenChange, SymDiff, TypeOK, NetTypeOK
    <2>2. CASE SessionChange
        BY <2>2 DEF SessionChange, SymDiff, TypeOK, NetTypeOK
    <2>3. CASE ForeignChange
        BY <2>3 DEF ForeignChange, SymDiff, TypeOK, NetTypeOK
    <2>4. CASE MasterDies
        BY <2>4 DEF MasterDies, MasterExit, TypeOK, NetTypeOK
    <2>5. CASE UserMaster
        BY <2>5 DEF UserMaster, TypeOK, NetTypeOK, Vias
    <2> QED BY <2>1, <2>2, <2>3, <2>4, <2>5 DEF Environment, NetNext
<1> QED BY <1>1 DEF Environment, TypeOK, threads

LEMMA TypeInit ==
    ASSUME Init, SharedAssumption, SavedAssumption
    PROVE  TypeOK
<1>1. NetTypeOK
    BY DEF Init, NetInit, NetTypeOK, Vias, Apps
<1>2. NoHost \in HostW /\ NoApp \in AppW /\ None \in Ports
    BY DEF NoHost, NoApp, HostW, AppW, Masters, Statuses, Ports, Overrides, Tiers
<1> QED BY <1>1, <1>2 DEF Init, TypeOK

LEMMA TypeStep ==
    ASSUME TypeOK, [Next]_vars, TierAssumption, SharedAssumption, ClaimsAssumption
    PROVE  TypeOK'
<1>1. CASE AnyTick
    <2>1. PICK present \in Discovered, claims \in Claims,
               due \in SUBSET Hosts, retry \in SUBSET Hosts :
                  Tick(present, claims, due, retry)
        BY <1>1 DEF AnyTick
    <2>2. present \in SUBSET Hosts /\ claims \in [Apps -> Ports]
        BY DEF Discovered, TypeOK, NetTypeOK, ClaimsAssumption
    <2> QED BY <2>1, <2>2, TickType
<1>2. CASE Command
    BY <1>2, SwitchType, AssignType, ToggleType, HideType, CommentType DEF Command
<1>3. ASSUME NEW h \in Hosts,
             ConnectStep(h) \/ ScanStep(h) \/ CancelStep(h) \/ TeardownStep(h)
      PROVE  TypeOK'
    BY <1>3, MasterType, ScanType, CancelType, TeardownType
    DEF ConnectStep, ScanStep, CancelStep, TeardownStep, OfHost
<1>4. ASSUME NEW a \in Apps, FwdStep(a)
      PROVE  TypeOK'
    BY <1>4, FwdRequestType, FwdDoneType DEF FwdStep, OfRow
<1>5. CASE CooldownElapse
    BY <1>5, CooldownType
<1>6. CASE Environment
    BY <1>6, EnvironmentType
<1>7. CASE UNCHANGED vars
    BY <1>7 DEF vars, netVars, threads, TypeOK, NetTypeOK
<1> QED BY <1>1, <1>2, <1>3, <1>4, <1>5, <1>6, <1>7 DEF Next

(* Every variable keeps its type, for all hosts, ports and bounds: every
   thread the worker starts is well formed, every row keeps a port of the
   instance and every entry saved can be read back as one. *)
THEOREM TypeCorrect == Spec => []TypeOK
<1>1. Init => TypeOK
    BY TypeInit, SharedAssumption, SavedAssumption
<1>2. TypeOK /\ [Next]_vars => TypeOK'
    BY TypeStep, TierAssumption, SharedAssumption, ClaimsAssumption
<1> QED BY <1>1, <1>2, PTL DEF Spec
=============================================================================
