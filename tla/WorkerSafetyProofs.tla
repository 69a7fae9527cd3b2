------------------------- MODULE WorkerSafetyProofs -------------------------
(***************************************************************************)
(* Proofs, for every value of the constants, of NoLostWakeup and of what   *)
(* the user's switches promise.                                            *)
(***************************************************************************)
EXTENDS WorkerProofs

----------------------------------------------------------------------------
(* NoLostWakeup: no row and no host waits for a report that no thread will *)
(* deliver.  What makes it inductive is that a host that has gone keeps    *)
(* neither flags nor rows, so a result that is ignored takes nothing with  *)
(* it.                                                                     *)

(* A host that has gone keeps nothing, and rows belong to known hosts. *)
GoneIsEmpty ==
    /\ \A h \in Hosts : ~Known(h) => host[h] = NoHost
    /\ \A a \in Apps : app[a].status /= "absent" => Known(a[1])

(* NoLostWakeup in two halves; the first for rows A and forward threads F. *)
RowWake(A, F) ==
    \A a \in Apps : A[a].status = "pending" =>
        \E f \in F : Row(f.to) = a /\ f.to.lport = A[a].lport
HostWake ==
    \A h \in Hosts : /\ host[h].scanning => \E s \in scans : s.host = h
                     /\ host[h].connecting => \E c \in connects : c.host = h

WakeInv == GoneIsEmpty /\ RowWake(app, fwds) /\ HostWake

LEMMA WakeInvIs == GoneIsEmpty /\ NoLostWakeup <=> WakeInv
<1>1. \A h \in Hosts : /\ OfHost(scans, h) /= {} <=> \E s \in scans : s.host = h
                       /\ OfHost(connects, h) /= {} <=> \E c \in connects : c.host = h
    BY DEF OfHost
<1> QED BY <1>1 DEF NoLostWakeup, WakeInv, RowWake, HostWake

----------------------------------------------------------------------------
(* What start_forward does to the rows: the rows of S become pending, with *)
(* a thread for the port they get, or show an error; nothing else changes. *)

LEMMA StartForwardsRows ==
    ASSUME NEW A \in [Apps -> AppW], NEW F, NEW S \in SUBSET Apps,
           StartForwards(A, F, S), NEW a \in Apps
    PROVE  /\ F \subseteq fwds'
           /\ a \notin S => app'[a] = A[a]
           /\ a \in S => app'[a].status \in {"pending", "error"}
           /\ app'[a].muted = A[a].muted
           /\ app'[a].override = A[a].override /\ app'[a].tier = A[a].tier
           /\ a \in S /\ app'[a].status = "pending" =>
                \E f \in fwds' : Row(f.to) = a /\ f.to.lport = app'[a].lport
<1>1. PICK pick \in [S -> Ports] :
         /\ app' = [b \in Apps |->
                IF b \notin S THEN A[b]
                ELSE IF pick[b] = None THEN [A[b] EXCEPT !.status = "error"]
                ELSE [A[b] EXCEPT !.status = "pending", !.lport = pick[b]]]
         /\ fwds' = F \cup
                {NewFwd(F, b, pick[b], {}, A[b].pinned) :
                    b \in {c \in S : pick[c] /= None}}
    BY DEF StartForwards
<1>2. F \subseteq fwds'
    BY <1>1
<1>3. A[a] \in AppW
    OBVIOUS
<1>4. CASE a \notin S
    BY <1>1, <1>2, <1>4
<1>5. CASE a \in S /\ pick[a] = None
    BY <1>1, <1>2, <1>3, <1>5 DEF AppW
<1>6. CASE a \in S /\ pick[a] /= None
    <2>1. app'[a] = [A[a] EXCEPT !.status = "pending", !.lport = pick[a]]
        BY <1>1, <1>6
    <2>2. /\ app'[a].status = "pending" /\ app'[a].lport = pick[a]
          /\ app'[a].muted = A[a].muted
          /\ app'[a].override = A[a].override /\ app'[a].tier = A[a].tier
        BY <1>3, <2>1 DEF AppW
    <2> DEFINE f == NewFwd(F, a, pick[a], {}, A[a].pinned)
    <2>3. f \in fwds'
        BY <1>1, <1>6
    <2>4. Row(f.to) = a /\ f.to.lport = pick[a]
        BY DEF NewFwd, ForwardOf, Row, Apps
    <2> QED BY <1>2, <1>6, <2>2, <2>3, <2>4
<1> QED BY <1>4, <1>5, <1>6

LEMMA StartForwardsWake ==
    ASSUME NEW A \in [Apps -> AppW], NEW F, NEW S \in SUBSET Apps,
           StartForwards(A, F, S),
           \A a \in Apps \ S : A[a].status = "pending" =>
               \E f \in F : Row(f.to) = a /\ f.to.lport = A[a].lport
    PROVE  RowWake(app, fwds)'
BY StartForwardsRows DEF RowWake

(* Steps that leave hosts and their threads alone and create no row... *)
LEMMA GoneFrame ==
    ASSUME GoneIsEmpty, UNCHANGED host,
           \A a \in Apps : app'[a].status /= "absent" => app[a].status /= "absent"
    PROVE  GoneIsEmpty'
BY DEF GoneIsEmpty, Known

LEMMA HostFrame ==
    ASSUME HostWake, UNCHANGED <<host, scans, connects>>
    PROVE  HostWake'
BY DEF HostWake

(* ... and those that make no row pending. *)
LEMMA RowFrame ==
    ASSUME RowWake(app, fwds), fwds \subseteq fwds',
           \A a \in Apps : app'[a].status = "pending" =>
               app[a].status = "pending" /\ app'[a].lport = app[a].lport
    PROVE  RowWake(app, fwds)'
BY DEF RowWake

(* A pass over known hosts starts rows of known hosts only. *)
LEMMA StartForwardsGone ==
    ASSUME GoneIsEmpty, UNCHANGED host,
           NEW A \in [Apps -> AppW], NEW F, NEW S \in SUBSET Apps,
           \A a \in S : Ready(a[1]), StartForwards(A, F, S),
           \A a \in Apps : A[a].status /= "absent" => app[a].status /= "absent"
    PROVE  GoneIsEmpty'
<1>1. \A a \in S : Known(a[1])
    BY DEF Ready, Known, Vias
<1>2. \A a \in Apps \ S : app'[a] = A[a]
    BY StartForwardsRows
<1> QED BY <1>1, <1>2 DEF GoneIsEmpty, Known

LEMMA SpawnScansAdds ==
    ASSUME NEW S, SpawnScans(S)
    PROVE  scans \subseteq scans' /\ \A h \in S : \E s \in scans' : s.host = h
<1> DEFINE new(h) == [id |-> Fresh(OfHost(scans, h)), host |-> h,
                      via |-> host'[h].master, res |-> "none", ports |-> {}]
<1>1. scans' = scans \cup {new(h) : h \in S}
    BY DEF SpawnScans
<1>2. \A h \in S : new(h) \in scans' /\ new(h).host = h
    BY <1>1
<1> QED BY <1>1, <1>2

(* A scan makes no row pending and keeps the port of those that are. *)
LEMMA ScannedPending ==
    ASSUME TypeOK, NEW a \in Apps, NEW t \in Tiers,
           Scanned(a, t).status = "pending"
    PROVE  /\ app[a].status = "pending"
           /\ Scanned(a, t).lport = app[a].lport
           /\ Scanned(a, t).muted = app[a].muted
<1> DEFINE r == [app[a] EXCEPT !.tier = t]
           lp == ExtValid(a)
<1>0. app[a] \in AppW
    BY DEF TypeOK
<1>1. r \in AppW /\ r.status = app[a].status /\ r.lport = app[a].lport
         /\ r.muted = app[a].muted
    BY <1>0 DEF AppW
<1>2. Scanned(a, t) = CASE r.status = "absent" ->
               [NoApp EXCEPT !.status = IF lp = None THEN "off" ELSE "external",
                    !.lport = lp, !.muted = mem[a].muted, !.tier = t,
                    !.pinned = mem[a].pinned, !.override = mem[a].tier]
          [] r.status \in {"off", "error", "external"} /\ lp /= None ->
               [r EXCEPT !.status = "external", !.lport = lp]
          [] r.status = "external" /\ lp = None ->
               [r EXCEPT !.status = "off", !.lport = None]
          [] OTHER -> r
    BY Zenon DEF Scanned
<1> HIDE DEF r, lp
<1>3. r.status /= "absent"
    BY <1>2 DEF NoApp
<1>4. ~(r.status \in {"off", "error", "external"} /\ lp /= None)
    BY <1>1, <1>2, <1>3 DEF AppW
<1>5. ~(r.status = "external" /\ lp = None)
    BY <1>1, <1>2, <1>3, <1>4 DEF AppW
<1>6. Scanned(a, t) = r
    BY <1>2, <1>3, <1>4, <1>5
<1> QED BY <1>1, <1>6

----------------------------------------------------------------------------
(* NoLostWakeup, action by action.                                         *)

LEMMA TickWake ==
    ASSUME TypeOK, WakeInv, NEW present \in SUBSET Hosts, NEW claims,
           NEW due, NEW retry, Tick(present, claims, due, retry)
    PROVE  WakeInv'
<1> DEFINE gone == {h \in Hosts : Known(h)} \ present
           H == [h \in Hosts |-> IF h \notin present THEN NoHost
                                 ELSE IF Known(h) THEN host[h] ELSE NewHost]
           dial == {h \in present : MayDial(H[h], h \in retry)}
           probe == WillScan(H, present \cap due)
<1>1. \A h \in Hosts :
         /\ H[h] \in HostW
         /\ h \notin present => H[h] = NoHost
         /\ h \in present => H[h].master /= "gone"
         /\ H[h].scanning => host[h].scanning
         /\ H[h].connecting => host[h].connecting
    BY DEF TypeOK, HostW, NoHost, NewHost, Masters, Vias, Known
<1>2. dial \subseteq present /\ probe \subseteq present
    BY DEF WillScan
<1>3. \A h \in Hosts :
         host'[h] = CASE h \in dial -> [H[h] EXCEPT !.master = "connecting",
                                                    !.connecting = TRUE]
                      [] h \in probe -> [H[h] EXCEPT !.scanning = TRUE]
                      [] OTHER -> H[h]
    BY DEF Tick
<1>4. \A h \in Hosts \ present : host'[h] = NoHost
    BY <1>1, <1>2, <1>3
<1>5. scans \subseteq scans' /\ \A h \in probe : \E s \in scans' : s.host = h
    <2>1. SpawnScans(probe)
        BY DEF Tick
    <2> QED BY <2>1, SpawnScansAdds
<1>6. connects \subseteq connects' /\ \A h \in dial : \E c \in connects' : c.host = h
    <2> DEFINE new(h) == [id |-> Fresh(OfHost(connects, h)), host |-> h,
                          res |-> "none"]
    <2>1. connects' = connects \cup {new(h) : h \in dial}
        BY DEF Tick
    <2>2. \A h \in dial : new(h) \in connects' /\ new(h).host = h
        BY <2>1
    <2> QED BY <2>1, <2>2
<1>7. fwds' = fwds /\ \A a \in Apps :
                         app'[a] = IF a[1] \in gone THEN NoApp ELSE app[a]
    BY DEF Tick
<1> HIDE DEF H, dial, probe
<1>8. ASSUME NEW h \in present
      PROVE  host'[h].master /= "gone"
    <2>0. h \in Hosts /\ H[h] \in HostW /\ H[h].master /= "gone"
        BY <1>1
    <2>1. CASE h \in dial
        BY <1>3, <2>0, <2>1 DEF HostW
    <2>2. CASE h \notin dial /\ h \in probe
        BY <1>3, <2>0, <2>2 DEF HostW
    <2>3. CASE h \notin dial /\ h \notin probe
        BY <1>3, <2>0, <2>3
    <2> QED BY <2>1, <2>2, <2>3
<1>9. GoneIsEmpty'
    <2>1. ASSUME NEW a \in Apps, app'[a].status /= "absent"
          PROVE  Known(a[1])'
        <3>1. a[1] \in Hosts /\ a[1] \notin gone /\ app[a].status /= "absent"
            BY <1>7, <2>1 DEF NoApp, Apps
        <3>2. Known(a[1])
            BY <3>1 DEF WakeInv, GoneIsEmpty
        <3>3. a[1] \in present
            BY <3>1, <3>2
        <3> QED BY <1>8, <3>3 DEF Known
    <2> QED BY <1>4, <1>8, <2>1 DEF GoneIsEmpty, Known
<1>10. RowWake(app, fwds)'
    BY <1>7 DEF WakeInv, RowWake, NoApp
<1>11. ASSUME NEW h \in Hosts
       PROVE  /\ host'[h].scanning => host[h].scanning \/ h \in probe
              /\ host'[h].connecting => host[h].connecting \/ h \in dial
    BY <1>1, <1>2, <1>3 DEF HostW
<1>12. HostWake'
    BY <1>5, <1>6, <1>11 DEF WakeInv, HostWake
<1> QED BY <1>9, <1>10, <1>12 DEF WakeInv

LEMMA MasterWake ==
    ASSUME TypeOK, WakeInv, NEW c \in connects, Connect(c) \/ MasterDone(c)
    PROVE  WakeInv'
<1>0. c.host \in Hosts /\ host[c.host] \in HostW
    BY DEF TypeOK, Connects
<1>1. CASE Connect(c)
    <2>1. PICK res : connects' = (connects \ {c}) \cup {[c EXCEPT !.res = res]}
        BY <1>1 DEF Connect
    <2>2. [c EXCEPT !.res = res].host = c.host
        BY DEF TypeOK, Connects
    <2>3. UNCHANGED <<host, scans, app, fwds>>
        BY <1>1 DEF Connect
    <2>4. HostWake'
        BY <2>1, <2>2, <2>3 DEF WakeInv, HostWake
    <2> QED BY <2>3, <2>4, GoneFrame, RowFrame DEF WakeInv
<1>2. CASE MasterDone(c)
    <2>0. connects' = connects \ {c} /\ UNCHANGED <<app, fwds>>
        BY <1>2 DEF MasterDone
    <2>1. RowWake(app, fwds)'
        BY <2>0, RowFrame DEF WakeInv
    <2>2. CASE ~Known(c.host)
        <3>1. UNCHANGED <<host, scans>>
            BY <1>2, <2>2 DEF MasterDone
        <3>2. ~host[c.host].connecting
            BY <1>0, <2>2 DEF WakeInv, GoneIsEmpty, NoHost
        <3>3. HostWake'
            BY <2>0, <3>1, <3>2 DEF WakeInv, HostWake
        <3> QED BY <2>0, <2>1, <3>1, <3>3, GoneFrame DEF WakeInv
    <2>3. CASE Known(c.host)
        <3> DEFINE S == IF c.res \in Vias /\ ~host[c.host].scanning
                        THEN {c.host} ELSE {}
        <3>1. /\ host' = [host EXCEPT ![c.host] = Connected(c.host, c.res)]
              /\ SpawnScans(S)
            BY <1>2, <2>3 DEF MasterDone
        <3>2. scans \subseteq scans' /\ \A h \in S : \E s \in scans' : s.host = h
            BY <3>1, SpawnScansAdds
        <3>3. /\ host'[c.host].master /= "gone"
              /\ ~host'[c.host].connecting
              /\ host'[c.host].scanning => host[c.host].scanning \/ c.host \in S
              /\ \A h \in Hosts \ {c.host} : host'[h] = host[h]
            BY <1>0, <3>1 DEF Connected, Vias, TypeOK
        <3>4. GoneIsEmpty'
            <4>1. \A h \in Hosts : Known(h)' <=> Known(h)
                BY <2>3, <3>3 DEF Known
            <4>2. \A h \in Hosts : ~Known(h)' => host'[h] = host[h]
                BY <2>3, <3>3, <4>1
            <4>3. \A a \in Apps : a[1] \in Hosts
                BY DEF Apps
            <4> QED BY <2>0, <4>1, <4>2, <4>3 DEF WakeInv, GoneIsEmpty
        <3>5. HostWake'
            BY <2>0, <3>2, <3>3 DEF WakeInv, HostWake
        <3> QED BY <2>1, <3>4, <3>5 DEF WakeInv
    <2> QED BY <2>2, <2>3
<1> QED BY <1>1, <1>2

LEMMA ScanWake ==
    ASSUME TypeOK, TierAssumption, WakeInv, NEW s \in scans,
           Scan(s) \/ ScanFailed(s) \/ ScanDone(s) \/ ScanIgnored(s)
    PROVE  WakeInv'
<1>0. s \in Scans /\ s.host \in Hosts /\ host[s.host] \in HostW
    BY DEF TypeOK, Scans
<1>1. CASE Scan(s)
    <2>1. PICK t : /\ \/ \E found : t = [s EXCEPT !.res = "ok", !.ports = found]
                      \/ t = [s EXCEPT !.res = "fail"]
                   /\ scans' = (scans \ {s}) \cup {t}
        BY <1>1 DEF Scan
    <2>2. t.host = s.host
        BY <1>0, <2>1 DEF Scans
    <2>3. UNCHANGED <<host, connects, app, fwds>>
        BY <1>1 DEF Scan
    <2>4. HostWake'
        BY <2>1, <2>2, <2>3 DEF WakeInv, HostWake
    <2> QED BY <2>3, <2>4, GoneFrame, RowFrame DEF WakeInv
<1>2. CASE ScanFailed(s) \/ ScanDone(s)
    <2>0. scans' = scans \ {s} /\ UNCHANGED connects /\ Known(s.host)
        BY <1>2 DEF ScanFailed, ScanDone
    <2> SUFFICES ASSUME /\ ~host'[s.host].scanning
                        /\ host'[s.host].master /= "gone"
                        /\ host'[s.host].connecting = host[s.host].connecting
                        /\ \A h \in Hosts \ {s.host} : host'[h] = host[h]
                 PROVE  WakeInv'
        <3>1. PICK m : /\ m \in {"failed", host[s.host].master}
                       /\ host' = [host EXCEPT ![s.host] =
                                     [ScanOver(s.host) EXCEPT !.master = m]]
            <4>1. CASE ScanFailed(s)
                <5>1. ScanOver(s.host).master = host[s.host].master
                    BY <1>0 DEF ScanOver, HostW
                <5> QED BY <4>1, <5>1, Zenon DEF ScanFailed
            <4>2. CASE ScanDone(s)
                <5>1. ScanOver(s.host) =
                          [ScanOver(s.host) EXCEPT !.master = host[s.host].master]
                    BY <1>0 DEF ScanOver, HostW
                <5> QED BY <4>2, <5>1 DEF ScanDone
            <4> QED BY <1>2, <4>1, <4>2
        <3>2. host'[s.host] = [ScanOver(s.host) EXCEPT !.master = m]
            BY <1>0, <3>1 DEF TypeOK
        <3>3. /\ ~host'[s.host].scanning
              /\ host'[s.host].master = m
              /\ host'[s.host].connecting = host[s.host].connecting
            BY <1>0, <3>2 DEF ScanOver, HostW
        <3>4. \A h \in Hosts \ {s.host} : host'[h] = host[h]
            BY <1>0, <3>1 DEF TypeOK
        <3> QED BY <2>0, <3>1, <3>3, <3>4 DEF Known
    <2>1. HostWake'
        BY <2>0 DEF WakeInv, HostWake
    <2>2. \A h \in Hosts : /\ Known(h)' <=> Known(h)
                           /\ h /= s.host => host'[h] = host[h]
        BY <2>0 DEF Known
    <2>3. CASE ScanFailed(s)
        <3>1. fwds' = fwds
            BY <2>3 DEF ScanFailed
        <3>2. ASSUME NEW a \in Apps
              PROVE  /\ app'[a].status /= "absent" => app[a].status /= "absent"
                     /\ app'[a].status = "pending" => app'[a] = app[a]
            <4>1. app'[a] \in {app[a], [app[a] EXCEPT !.status = "off"]}
                     /\ (app[a].status = "absent" => app'[a] = app[a])
                BY <2>3 DEF ScanFailed
            <4>2. [app[a] EXCEPT !.status = "off"].status = "off"
                BY DEF TypeOK, AppW
            <4> QED BY <4>1, <4>2
        <3>3. RowWake(app, fwds)'
            BY <3>1, <3>2, RowFrame DEF WakeInv
        <3>4. GoneIsEmpty'
            BY <2>0, <2>2, <3>2 DEF WakeInv, GoneIsEmpty, Apps
        <3> QED BY <2>1, <3>3, <3>4 DEF WakeInv
    <2>4. CASE ScanDone(s)
        <3> DEFINE h == s.host
        <3>1. PICK tier \in [s.ports -> Tiers] :
                 AutoForwardPass(Rescanned(h, s.ports, tier), fwds, AppsOf(h))
            BY <2>4 DEF ScanDone
        <3> DEFINE A == Rescanned(h, s.ports, tier)
                   S == Wanted(A, AppsOf(h))
        <3>2. A \in [Apps -> AppW]
            BY <1>0, <3>1, ScannedType DEF Scans
        <3>3. \A a \in Apps : /\ a[1] /= h => A[a] = app[a]
                              /\ A[a].status = "pending" =>
                                    app[a].status = "pending" /\ A[a].lport = app[a].lport
            <4>1. ASSUME NEW a \in Apps, NEW t \in Tiers,
                         Scanned(a, t).status = "pending"
                  PROVE  app[a].status = "pending" /\ Scanned(a, t).lport = app[a].lport
                BY <4>1, ScannedPending
            <4> QED BY <3>1, <4>1 DEF Rescanned, NoApp, Apps
        <3>4. StartForwards(A, fwds, S) /\ S \in SUBSET Apps /\ \A a \in S : a[1] = h
            BY <3>1 DEF AutoForwardPass, Wanted, AppsOf
        <3> HIDE DEF A, S
        <3>5. RowWake(app, fwds)'
            <4>1. \A a \in Apps \ S : A[a].status = "pending" =>
                      \E f \in fwds : Row(f.to) = a /\ f.to.lport = A[a].lport
                BY <3>3 DEF WakeInv, RowWake
            <4> QED BY <3>2, <3>4, <4>1, StartForwardsWake
        <3>6. GoneIsEmpty'
            <4>1. ASSUME NEW a \in Apps, a[1] /= h
                  PROVE  app'[a] = app[a]
                BY <3>2, <3>3, <3>4, <4>1, StartForwardsRows
            <4> QED BY <2>0, <2>2, <4>1 DEF WakeInv, GoneIsEmpty, Apps
        <3> QED BY <2>1, <3>5, <3>6 DEF WakeInv
    <2> QED BY <1>2, <2>3, <2>4
<1>3. CASE ScanIgnored(s)
    <2>1. scans' = scans \ {s} /\ UNCHANGED <<host, connects, app, fwds>>
        BY <1>3 DEF ScanIgnored
    <2>2. ~host[s.host].scanning
        BY <1>0, <1>3 DEF ScanIgnored, WakeInv, GoneIsEmpty, NoHost
    <2>3. HostWake'
        BY <2>1, <2>2 DEF WakeInv, HostWake
    <2> QED BY <2>1, <2>3, GoneFrame, RowFrame DEF WakeInv
<1> QED BY <1>1, <1>2, <1>3

LEMMA FwdRequestWake ==
    ASSUME TypeOK, WakeInv, NEW f \in fwds, CancelOld(f) \/ Bind(f)
    PROVE  WakeInv'
<1>1. PICK g : g.to = f.to /\ fwds' = (fwds \ {f}) \cup {g}
    <2>1. /\ [f EXCEPT !.undo = {}].to = f.to
          /\ \A res : [f EXCEPT !.res = res].to = f.to
        BY DEF TypeOK, Fwds
    <2> QED BY <2>1, Zenon DEF CancelOld, Bind
<1>2. UNCHANGED <<app, host, scans, connects>>
    BY DEF CancelOld, Bind
<1>3. RowWake(app, fwds)'
    BY <1>1, <1>2 DEF WakeInv, RowWake
<1> QED BY <1>2, <1>3, GoneFrame, HostFrame DEF WakeInv

LEMMA FwdDoneWake ==
    ASSUME TypeOK, WakeInv, NEW f \in fwds, FwdDone(f)
    PROVE  WakeInv'
<1> DEFINE a == Row(f.to)
<1>0. a \in Apps /\ a[1] = f.to.host /\ f.to \in Forwards /\ app[a] \in AppW
    BY RowType DEF TypeOK, Fwds, Row
<1>1. HostWake'
    <2>1. UNCHANGED <<host, scans, connects>>
        BY DEF FwdDone, FwdIgnored, FwdStale, FwdUp, FwdRetry, FwdError
    <2> QED BY <2>1, HostFrame DEF WakeInv
<1>2. \* every pending row other than a keeps its thread
      ASSUME NEW b \in Apps, app[b].status = "pending",
             b = a => app[a].lport /= f.to.lport
      PROVE  \E g \in fwds \ {f} : Row(g.to) = b /\ g.to.lport = app[b].lport
    BY <1>2 DEF WakeInv, RowWake
<1>3. CASE FwdIgnored(f) \/ FwdStale(f)
    <2>1. fwds' = fwds \ {f} /\ UNCHANGED <<app, host>>
        BY <1>3 DEF FwdIgnored, FwdStale
    <2>2. app[a].status = "pending" => app[a].lport /= f.to.lport
        <3>1. CASE FwdIgnored(f)
            BY <1>0, <3>1 DEF FwdIgnored, WakeInv, GoneIsEmpty
        <3>2. CASE FwdStale(f)
            BY <3>2 DEF FwdStale, Awaited
        <3> QED BY <1>3, <3>1, <3>2
    <2>3. RowWake(app, fwds)'
        BY <1>2, <2>1, <2>2 DEF RowWake
    <2> QED BY <1>1, <2>1, <2>3, GoneFrame DEF WakeInv
<1>4. CASE FwdUp(f) \/ FwdError(f)
    <2>1. fwds' = fwds \ {f} /\ UNCHANGED host /\ Awaited(f)
        BY <1>4 DEF FwdUp, FwdError
    <2>2. /\ app'[a].status \in {"active", "error"}
          /\ \A b \in Apps : b /= a => app'[b] = app[b]
        <3>1. CASE FwdUp(f)
            BY <1>0, <3>1 DEF FwdUp, TypeOK, AppW
        <3>2. CASE FwdError(f)
            BY <1>0, <3>2 DEF FwdError, TypeOK, AppW
        <3> QED BY <1>4, <3>1, <3>2
    <2>3. RowWake(app, fwds)'
        BY <1>2, <2>1, <2>2 DEF RowWake
    <2>4. app[a].status /= "absent"
        BY <2>1 DEF Awaited
    <2>5. GoneIsEmpty'
        BY <2>1, <2>2, <2>4, GoneFrame DEF WakeInv
    <2> QED BY <1>1, <2>3, <2>5 DEF WakeInv
<1>5. CASE FwdRetry(f)
    <2> DEFINE A == [app EXCEPT ![a] = [@ EXCEPT !.status = "off",
                        !.lport = None, !.retried = TRUE]]
               S == Wanted(A, AppsOf(f.to.host))
    <2>1. /\ A \in [Apps -> AppW]
          /\ A[a].status = "off"
          /\ \A b \in Apps : b /= a => A[b] = app[b]
        BY <1>0 DEF TypeOK, AppW, Statuses, Ports
    <2>2. /\ StartForwards(A, fwds \ {f}, S)
          /\ S \in SUBSET Apps /\ \A b \in S : Ready(b[1])
        BY <1>5 DEF FwdRetry, AutoForwardPass, Wanted, AppsOf
    <2>3. app[a].status /= "absent" /\ UNCHANGED host
        BY <1>5 DEF FwdRetry, Awaited
    <2> HIDE DEF A, S
    <2>4. RowWake(app, fwds)'
        <3>1. \A b \in Apps \ S : A[b].status = "pending" =>
                  \E g \in fwds \ {f} : Row(g.to) = b /\ g.to.lport = A[b].lport
            BY <1>2, <2>1
        <3> QED BY <2>1, <2>2, <3>1, StartForwardsWake
    <2>5. GoneIsEmpty'
        BY <2>1, <2>2, <2>3, StartForwardsGone DEF WakeInv
    <2> QED BY <1>1, <2>4, <2>5 DEF WakeInv
<1> QED BY <1>3, <1>4, <1>5 DEF FwdDone

LEMMA CancelWake ==
    ASSUME TypeOK, WakeInv, NEW c \in cancels,
           CancelMany(c) \/ CancelEach(c) \/ CancelCheck(c) \/ CancelFailed(c)
    PROVE  WakeInv'
<1>1. UNCHANGED <<host, scans, connects, fwds>>
    BY DEF CancelMany, CancelEach, CancelCheck, CancelFailed
<1>2. ASSUME NEW a \in Apps
      PROVE  \/ app'[a] = app[a]
             \/ app[a].status = "off" /\ app'[a].status = "active"
    <2>1. CASE CancelMany(c) \/ CancelEach(c) \/ CancelCheck(c)
        BY <2>1 DEF CancelMany, CancelEach, CancelCheck
    <2>2. CASE CancelFailed(c)
        <3>1. PICK t \in c.sent :
                 app' = [app EXCEPT ![Row(t)].status =
                    IF @ = "off" /\ app[Row(t)].lport = t.lport THEN "active" ELSE @]
            BY <2>2 DEF CancelFailed
        <3>2. CASE a = Row(t) /\ app[a].status = "off" /\ app[a].lport = t.lport
            BY <3>1, <3>2 DEF TypeOK, AppW
        <3>3. CASE a = Row(t) /\ ~(app[a].status = "off" /\ app[a].lport = t.lport)
            <4>1. app'[a] = [app[a] EXCEPT !.status = app[a].status]
                BY <3>1, <3>3 DEF TypeOK
            <4> QED BY <4>1 DEF TypeOK, AppW
        <3>4. CASE a /= Row(t)
            BY <3>1, <3>4 DEF TypeOK
        <3> QED BY <3>2, <3>3, <3>4
    <2> QED BY <2>1, <2>2
<1> QED BY <1>1, <1>2, GoneFrame, HostFrame, RowFrame DEF WakeInv

LEMMA SwitchWake ==
    ASSUME TypeOK, WakeInv,
           ToggleAuto \/ Refresh \/ \E h \in Hosts : ToggleHost(h)
    PROVE  WakeInv'
<1>1. ASSUME UNCHANGED <<host, scans, connects, fwds>>,
             NEW S \in SUBSET Apps, Stop(S)
      PROVE  WakeInv'
    <2>1. ASSUME NEW a \in Apps
          PROVE  \/ app'[a] = app[a]
                 \/ Claimed(app[a]) /\ app'[a].status = "off"
        BY <1>1 DEF Stop, TypeOK, AppW
    <2> QED BY <1>1, <2>1, GoneFrame, HostFrame, RowFrame DEF WakeInv, Claimed
<1>2. ASSUME UNCHANGED <<host, scans, connects>>,
             NEW S \in SUBSET Apps, AutoForwardPass(app, fwds, S)
      PROVE  WakeInv'
    <2> DEFINE W == Wanted(app, S)
    <2>1. /\ StartForwards(app, fwds, W) /\ app \in [Apps -> AppW]
          /\ W \in SUBSET Apps /\ \A a \in W : Ready(a[1])
        BY <1>2 DEF AutoForwardPass, Wanted, TypeOK
    <2> HIDE DEF W
    <2>2. RowWake(app, fwds)'
        BY <2>1, StartForwardsWake DEF WakeInv, RowWake
    <2>3. GoneIsEmpty'
        BY <1>2, <2>1, StartForwardsGone DEF WakeInv
    <2> QED BY <1>2, <2>2, <2>3, HostFrame DEF WakeInv
<1>3. CASE ToggleAuto
    BY <1>1, <1>2, <1>3 DEF ToggleAuto
<1>4. ASSUME NEW h \in Hosts, ToggleHost(h)
      PROVE  WakeInv'
    <2>1. AppsOf(h) \in SUBSET Apps
        BY DEF AppsOf
    <2> QED BY <1>1, <1>2, <1>4, <2>1 DEF ToggleHost
<1>5. CASE Refresh
    <2> DEFINE probe == WillScan(host, Hosts)
    <2>1. /\ probe \in SUBSET Hosts
          /\ SpawnScans(probe) /\ UNCHANGED <<app, fwds, connects>>
          /\ \A h \in Hosts : host'[h] =
                IF h \in probe THEN [host[h] EXCEPT !.scanning = TRUE] ELSE host[h]
          /\ \A h \in probe : Known(h)
        BY <1>5 DEF Refresh, WillScan, Known, Vias
    <2> HIDE DEF probe
    <2>2. scans \subseteq scans' /\ \A h \in probe : \E s \in scans' : s.host = h
        BY <2>1, SpawnScansAdds
    <2>3. \A h \in Hosts : /\ host'[h].master = host[h].master
                           /\ host'[h].connecting = host[h].connecting
                           /\ h \notin probe => host'[h] = host[h]
        BY <2>1 DEF TypeOK, HostW
    <2>4. HostWake'
        BY <2>1, <2>2, <2>3 DEF WakeInv, HostWake
    <2>5. \A h \in Hosts : Known(h)' <=> Known(h)
        BY <2>3 DEF Known
    <2>6. GoneIsEmpty'
        BY <2>1, <2>3, <2>5 DEF WakeInv, GoneIsEmpty, Apps
    <2>7. RowWake(app, fwds)'
        BY <2>1, RowFrame DEF WakeInv
    <2> QED BY <2>4, <2>6, <2>7 DEF WakeInv
<1> QED BY <1>3, <1>4, <1>5

LEMMA RowCommandWake ==
    ASSUME TypeOK, WakeInv, NEW a \in Apps,
           \/ Toggle(a) \/ ToggleHidden(a) \/ SetComment(a)
           \/ \E lp \in LPorts : Assign(a, lp)
    PROVE  WakeInv'
<1>0. app[a] \in AppW /\ Promote(app[a]) \in AppW /\ app \in [Apps -> AppW]
    BY PromotedType DEF TypeOK
<1>1. UNCHANGED <<host, scans, connects>>
    BY DEF Toggle, ToggleOff, ToggleOn, ToggleHidden, Hide, Unhide, SetComment,
           Assign, AssignSame, AssignOther, threads
<1>2. HostWake'
    BY <1>1, HostFrame DEF WakeInv
<1>3. ASSUME UNCHANGED fwds,
             \A b \in Apps : b /= a => app'[b] = app[b],
             \/ app'[a].status = "off" /\ app[a].status /= "absent"
             \/ app'[a].status = app[a].status /\ app'[a].lport = app[a].lport
      PROVE  WakeInv'
    BY <1>1, <1>2, <1>3, GoneFrame, RowFrame DEF WakeInv
<1>4. ASSUME NEW A \in [Apps -> AppW], NEW S \in SUBSET Apps,
             \A b \in Apps : b /= a => A[b] = app[b],
             A[a].status = "pending" =>
                 app[a].status = "pending" /\ A[a].lport = app[a].lport,
             app[a].status /= "absent",
             \A b \in S : Ready(b[1]), StartForwards(A, fwds, S)
      PROVE  WakeInv'
    <2>1. RowWake(app, fwds)'
        BY <1>4, StartForwardsWake DEF WakeInv, RowWake
    <2>2. GoneIsEmpty'
        BY <1>1, <1>4, StartForwardsGone DEF WakeInv
    <2> QED BY <1>2, <2>1, <2>2 DEF WakeInv
<1>5. CASE ToggleOff(a)
    <2>1. /\ app'[a].status = "off" /\ app[a].status /= "absent"
          /\ \A b \in Apps : b /= a => app'[b] = app[b]
          /\ UNCHANGED fwds
        BY <1>0, <1>5 DEF ToggleOff, Claimed, AppW
    <2> QED BY <1>3, <2>1
<1>6. CASE ToggleOn(a)
    <2> DEFINE A == [app EXCEPT ![a] = [Promote(app[a]) EXCEPT !.status = "off",
                        !.muted = FALSE, !.retried = FALSE]]
    <2>1. /\ StartForwards(A, fwds, {a}) /\ Ready(a[1]) /\ app[a].status /= "absent"
        BY <1>6 DEF ToggleOn
    <2>2. /\ A \in [Apps -> AppW] /\ A[a].status = "off"
          /\ \A b \in Apps : b /= a => A[b] = app[b]
        BY <1>0 DEF AppW, Statuses
    <2> HIDE DEF A
    <2> QED BY <1>4, <2>1, <2>2
<1>7. CASE Hide(a)
    <2>1. /\ app' = [app EXCEPT ![a] = [app[a] EXCEPT !.status = "off",
                                                      !.override = "bg"]]
          /\ app[a].status /= "absent" /\ UNCHANGED fwds
        BY <1>7 DEF Hide
    <2>2. app'[a].status = "off" /\ \A b \in Apps : b /= a => app'[b] = app[b]
        BY <1>0, <2>1 DEF AppW
    <2> QED BY <1>3, <2>1, <2>2
<1>8. CASE Unhide(a)
    <2> DEFINE A == [app EXCEPT ![a] = [app[a] EXCEPT !.override = "app",
                        !.muted = FALSE,
                        !.status = IF @ = "error" THEN "off" ELSE @]]
               S == Wanted(A, AppsOf(a[1]))
    <2>1. /\ StartForwards(A, fwds, S) /\ S \in SUBSET Apps
          /\ \A b \in S : Ready(b[1])
          /\ app[a].status /= "absent"
        BY <1>8 DEF Unhide, AutoForwardPass, Wanted, AppsOf
    <2>2. [app[a] EXCEPT !.override = "app", !.muted = FALSE,
              !.status = IF @ = "error" THEN "off" ELSE @] \in AppW
        BY <1>0 DEF AppW, Statuses, Overrides
    <2>3. A \in [Apps -> AppW] /\ \A b \in Apps : b /= a => A[b] = app[b]
        BY <1>0, <2>2
    <2>4. A[a].lport = app[a].lport /\ (A[a].status = "pending" =>
                                          app[a].status = "pending")
        BY <1>0 DEF AppW
    <2> HIDE DEF A, S
    <2> QED BY <1>4, <2>1, <2>3, <2>4
<1>9. CASE SetComment(a)
    <2>1. UNCHANGED <<app, fwds>>
        BY <1>9 DEF SetComment, threads
    <2> QED BY <1>3, <2>1
<1>10. ASSUME NEW lp \in LPorts, AssignSame(a, lp)
       PROVE  WakeInv'
    <2>1. /\ UNCHANGED fwds
          /\ \A b \in Apps : b /= a => app'[b] = app[b]
          /\ app'[a].status = app[a].status /\ app'[a].lport = app[a].lport
        BY <1>0, <1>10 DEF AssignSame, threads, AppW
    <2> QED BY <1>3, <2>1
<1>11. ASSUME NEW lp \in LPorts, AssignOther(a, lp)
       PROVE  WakeInv'
    <2> DEFINE f == NewFwd(fwds, a, lp, Held(app, {a}), TRUE)
    <2>1. f \in fwds' /\ fwds \subseteq fwds'
        BY <1>11 DEF AssignOther
    <2>2. Row(f.to) = a /\ f.to.lport = lp
        BY DEF NewFwd, ForwardOf, Row, Apps
    <2>3. app[a].status /= "absent" /\
          app' = [app EXCEPT ![a] = [Promote(app[a]) EXCEPT !.status = "pending",
               !.lport = lp, !.pinned = TRUE, !.muted = FALSE, !.retried = FALSE]]
        BY <1>11 DEF AssignOther
    <2>4. app'[a].lport = lp /\ \A b \in Apps : b /= a => app'[b] = app[b]
        BY <1>0, <2>3 DEF AppW
    <2> HIDE DEF f
    <2>5. RowWake(app, fwds)'
        BY <2>1, <2>2, <2>4 DEF WakeInv, RowWake
    <2>6. GoneIsEmpty'
        BY <1>1, <2>3, <2>4, GoneFrame DEF WakeInv
    <2> QED BY <1>2, <2>5, <2>6 DEF WakeInv
<1> QED BY <1>5, <1>6, <1>7, <1>8, <1>9, <1>10, <1>11
        DEF Toggle, ToggleHidden, Assign

LEMMA WakeStep ==
    ASSUME TypeOK, WakeInv, [Next]_vars, TierAssumption
    PROVE  WakeInv'
<1>0. ASSUME UNCHANGED <<host, app, connects, scans, fwds>>
      PROVE  WakeInv'
    BY <1>0, GoneFrame, HostFrame, RowFrame DEF WakeInv
<1>1. CASE AnyTick
    <2>1. PICK present \in Discovered, claims \in Claims,
               due \in SUBSET Hosts, retry \in SUBSET Hosts :
                  Tick(present, claims, due, retry)
        BY <1>1 DEF AnyTick
    <2>2. present \in SUBSET Hosts
        BY DEF Discovered, TypeOK, NetTypeOK
    <2> QED BY <2>1, <2>2, TickWake
<1>2. CASE Command
    BY <1>2, SwitchWake, RowCommandWake DEF Command
<1>3. ASSUME NEW h \in Hosts,
             ConnectStep(h) \/ ScanStep(h) \/ CancelStep(h) \/ TeardownStep(h)
      PROVE  WakeInv'
    <2>1. CASE TeardownStep(h)
        <3>1. UNCHANGED <<host, app, connects, scans, fwds>>
            BY <2>1 DEF TeardownStep, Teardown
        <3> QED BY <1>0, <3>1
    <2> QED BY <1>3, <2>1, MasterWake, ScanWake, CancelWake
            DEF ConnectStep, ScanStep, CancelStep, OfHost
<1>4. ASSUME NEW a \in Apps, FwdStep(a)
      PROVE  WakeInv'
    BY <1>4, FwdRequestWake, FwdDoneWake DEF FwdStep, OfRow
<1>5. CASE CooldownElapse \/ Environment
    <2>1. UNCHANGED <<host, app, connects, scans, fwds>>
        BY <1>5 DEF CooldownElapse, Environment, threads
    <2> QED BY <1>0, <2>1
<1>6. CASE UNCHANGED vars
    BY <1>0, <1>6 DEF vars, threads
<1> QED BY <1>1, <1>2, <1>3, <1>4, <1>5, <1>6 DEF Next

(* No row waits for a result and no host for a scan or a connect that no
   thread will deliver, however ticks, results, commands, failures and
   masters that die interleave: on_fwd, on_scan, on_master and on_tick reset
   a flag only together with the thread it stands for. *)
THEOREM NoWakeupIsLost == Spec => []NoLostWakeup
<1>1. Init => WakeInv
    BY DEF Init, WakeInv, GoneIsEmpty, RowWake, HostWake, NoHost, NoApp, Known
<1>2. TypeOK /\ WakeInv /\ [Next]_vars => WakeInv'
    BY WakeStep, TierAssumption
<1>3. WakeInv => NoLostWakeup
    BY WakeInvIs
<1> QED BY <1>1, <1>2, <1>3, TypeCorrect, PTL DEF Spec

----------------------------------------------------------------------------
(* The user's switches: MuteRemembered and HideRemembered, with what makes *)
(* them inductive, and the action property OffIsOff.                       *)

(* What a row r, its entry m in memory and its entry d on disk keep.  That a
   pending row is not muted is why a result may clear the saved flag. *)
RowSaved(r, m, d) ==
    /\ r.status = "pending" => ~r.muted
    /\ r.muted => m.muted
    /\ m.muted => d.muted
    /\ r.override = "bg" => m.tier = "bg"
    /\ m.tier = "bg" => d.tier = "bg"

SavedInv == \A a \in Apps : RowSaved(app[a], mem[a], disk[a])

LEMMA SavedInvImplies == SavedInv => MuteRemembered /\ HideRemembered
BY DEF SavedInv, RowSaved, MuteRemembered, HideRemembered

(* A row that does not change its switches and does not become pending, and
   entries that are saved as they are. *)
LEMMA RowSavedFrame ==
    ASSUME NEW r, NEW q, NEW m, NEW d, RowSaved(r, m, d),
           q.muted = r.muted, q.override = r.override,
           q.status = "pending" => r.status = "pending"
    PROVE  RowSaved(q, m, d) /\ RowSaved(q, m, m)
BY DEF RowSaved

LEMMA NoAppSaved ==
    ASSUME NEW r, NEW m, NEW d, RowSaved(r, m, d)
    PROVE  RowSaved(NoApp, m, d) /\ RowSaved(NoApp, m, m)
BY DEF RowSaved, NoApp

(* A pass over rows that are not muted. *)
LEMMA StartForwardsSaved ==
    ASSUME NEW A \in [Apps -> AppW], NEW F, NEW S \in SUBSET Apps,
           StartForwards(A, F, S), \A a \in S : ~A[a].muted,
           \A a \in Apps : RowSaved(A[a], mem'[a], disk'[a])
    PROVE  SavedInv'
<1> SUFFICES ASSUME NEW a \in Apps
             PROVE  RowSaved(app'[a], mem'[a], disk'[a])
    BY DEF SavedInv
<1>1. /\ app'[a].muted = A[a].muted /\ app'[a].override = A[a].override
      /\ a \notin S => app'[a] = A[a]
    BY StartForwardsRows
<1> QED BY <1>1 DEF RowSaved

LEMMA SavedFrame ==
    ASSUME SavedInv, mem' = mem, disk' \in {disk, mem},
           \A a \in Apps : \/ app'[a] = app[a] \/ app'[a] = NoApp
                           \/ /\ app'[a].muted = app[a].muted
                              /\ app'[a].override = app[a].override
                              /\ app'[a].status /= "pending"
    PROVE  SavedInv'
<1> SUFFICES ASSUME NEW a \in Apps
             PROVE  RowSaved(app'[a], mem[a], disk[a]) /\ RowSaved(app'[a], mem[a], mem[a])
    BY DEF SavedInv
<1>1. RowSaved(app[a], mem[a], disk[a])
    BY DEF SavedInv
<1> QED BY <1>1, NoAppSaved, RowSavedFrame

(* A row as a scan leaves it. *)
LEMMA ScannedSaved ==
    ASSUME TypeOK, NEW a \in Apps, NEW t \in Tiers,
           RowSaved(app[a], mem[a], disk[a])
    PROVE  RowSaved(Scanned(a, t), mem[a], disk[a])
<1> DEFINE r == [app[a] EXCEPT !.tier = t]
           lp == ExtValid(a)
           new == [NoApp EXCEPT !.status = IF lp = None THEN "off" ELSE "external",
                    !.lport = lp, !.muted = mem[a].muted, !.tier = t,
                    !.pinned = mem[a].pinned, !.override = mem[a].tier]
           ours == [r EXCEPT !.status = "external", !.lport = lp]
           theirs == [r EXCEPT !.status = "off", !.lport = None]
<1>1. r \in AppW /\ r.status = app[a].status
         /\ r.muted = app[a].muted /\ r.override = app[a].override
    BY DEF TypeOK, AppW
<1>2. Scanned(a, t) \in {new, ours, theirs, r}
    <2>1. Scanned(a, t) = CASE r.status = "absent" -> new
          [] r.status \in {"off", "error", "external"} /\ lp /= None -> ours
          [] r.status = "external" /\ lp = None -> theirs
          [] OTHER -> r
        BY Zenon DEF Scanned
    <2> HIDE DEF new, ours, theirs, r, lp
    <2> QED BY <2>1
<1>3. new.status \in {"off", "external"} /\ new.muted = mem[a].muted
         /\ new.override = mem[a].tier
    BY DEF NoApp
<1>4. /\ ours.status = "external" /\ theirs.status = "off"
      /\ ours.muted = r.muted /\ theirs.muted = r.muted
      /\ ours.override = r.override /\ theirs.override = r.override
    BY <1>1 DEF AppW
<1> HIDE DEF new, ours, theirs, r, lp
<1>5. RowSaved(new, mem[a], disk[a])
    BY <1>3 DEF RowSaved
<1> QED BY <1>1, <1>2, <1>4, <1>5, RowSavedFrame

----------------------------------------------------------------------------
(* MuteRemembered and HideRemembered, action by action.                    *)

LEMMA ScanSaved ==
    ASSUME TypeOK, TierAssumption, SavedInv, NEW s \in scans,
           Scan(s) \/ ScanFailed(s) \/ ScanDone(s) \/ ScanIgnored(s)
    PROVE  SavedInv'
<1>1. CASE Scan(s) \/ ScanIgnored(s)
    BY <1>1, SavedFrame DEF Scan, ScanIgnored
<1>2. CASE ScanFailed(s)
    <2>1. \A a \in Apps : app'[a] \in {app[a], [app[a] EXCEPT !.status = "off"]}
        BY <1>2 DEF ScanFailed
    <2>2. ASSUME NEW a \in Apps
          PROVE  LET r == [app[a] EXCEPT !.status = "off"] IN
                 /\ r.status = "off" /\ r.muted = app[a].muted
                 /\ r.override = app[a].override
        BY DEF TypeOK, AppW
    <2>3. UNCHANGED <<mem, disk>>
        BY <1>2 DEF ScanFailed
    <2> QED BY <2>1, <2>2, <2>3, SavedFrame
<1>3. CASE ScanDone(s)
    <2> DEFINE h == s.host
    <2>1. PICK tier \in [s.ports -> Tiers] :
             AutoForwardPass(Rescanned(h, s.ports, tier), fwds, AppsOf(h))
        BY <1>3 DEF ScanDone
    <2> DEFINE A == Rescanned(h, s.ports, tier)
               S == Wanted(A, AppsOf(h))
    <2>2. A \in [Apps -> AppW]
        <3>1. s.ports \in SUBSET RPorts
            BY DEF TypeOK, Scans
        <3> QED BY <2>1, <3>1, ScannedType
    <2>3. \A a \in Apps : RowSaved(A[a], mem[a], disk[a])
        BY <2>1, NoAppSaved, ScannedSaved DEF SavedInv, Rescanned, Apps
    <2>4. /\ StartForwards(A, fwds, S) /\ S \in SUBSET Apps
          /\ \A a \in S : ~A[a].muted
        BY <2>1 DEF AutoForwardPass, Wanted, AppsOf
    <2>5. UNCHANGED <<mem, disk>>
        BY <1>3 DEF ScanDone
    <2> HIDE DEF A, S
    <2> QED BY <2>2, <2>3, <2>4, <2>5, StartForwardsSaved
<1> QED BY <1>1, <1>2, <1>3

LEMMA FwdDoneSaved ==
    ASSUME TypeOK, SavedInv, NEW f \in fwds, FwdDone(f)
    PROVE  SavedInv'
<1> DEFINE a == Row(f.to)
<1>0. a \in Apps /\ app[a] \in AppW /\ mem[a] \in Entry
    BY RowType DEF TypeOK, Fwds
<1>1. CASE FwdIgnored(f) \/ FwdStale(f)
    BY <1>1, SavedFrame DEF FwdIgnored, FwdStale
<1>2. CASE FwdUp(f)
    <2>1. /\ app' = [app EXCEPT ![a] = [@ EXCEPT !.status = "active",
                        !.retried = FALSE, !.pinned = f.pin]]
          /\ mem' = [mem EXCEPT ![a] = [@ EXCEPT !.lport = f.to.lport,
                        !.pinned = f.pin, !.muted = FALSE]]
          /\ disk' = mem' /\ app[a].status = "pending"
        BY <1>2 DEF FwdUp, Remember, Awaited
    <2>2. /\ app'[a].status = "active" /\ app'[a].muted = app[a].muted
          /\ app'[a].override = app[a].override
          /\ mem'[a].tier = mem[a].tier
          /\ \A b \in Apps : b /= a => app'[b] = app[b] /\ mem'[b] = mem[b]
        BY <1>0, <2>1 DEF TypeOK, AppW, Entry
    <2>3. ~app[a].muted /\ (app[a].override = "bg" => mem[a].tier = "bg")
        BY <1>0, <2>1 DEF SavedInv, RowSaved
    <2>4. RowSaved(app'[a], mem'[a], disk'[a])
        BY <2>1, <2>2, <2>3 DEF RowSaved
    <2>5. ASSUME NEW b \in Apps, b /= a
          PROVE  RowSaved(app'[b], mem'[b], disk'[b])
        BY <2>1, <2>2, <2>5 DEF SavedInv, RowSaved
    <2> QED BY <2>4, <2>5 DEF SavedInv
<1>3. CASE FwdError(f)
    <2>1. \A b \in Apps : /\ b /= a => app'[b] = app[b]
                          /\ app'[a] = [app[a] EXCEPT !.status = "error"]
        BY <1>0, <1>3 DEF FwdError, TypeOK
    <2>2. /\ app'[a].status = "error" /\ app'[a].muted = app[a].muted
          /\ app'[a].override = app[a].override
        BY <1>0, <2>1 DEF AppW
    <2>3. UNCHANGED <<mem, disk>>
        BY <1>3 DEF FwdError
    <2> QED BY <2>1, <2>2, <2>3, SavedFrame
<1>4. CASE FwdRetry(f)
    <2> DEFINE A == [app EXCEPT ![a] = [@ EXCEPT !.status = "off",
                        !.lport = None, !.retried = TRUE]]
               S == Wanted(A, AppsOf(f.to.host))
    <2>1. /\ A \in [Apps -> AppW] /\ A[a].status = "off"
          /\ A[a].muted = app[a].muted /\ A[a].override = app[a].override
          /\ \A b \in Apps : b /= a => A[b] = app[b]
        BY <1>0 DEF TypeOK, AppW, Statuses, Ports
    <2>2. /\ StartForwards(A, fwds \ {f}, S)
          /\ S \in SUBSET Apps /\ \A b \in S : ~A[b].muted
          /\ UNCHANGED <<mem, disk>>
        BY <1>4 DEF FwdRetry, AutoForwardPass, Wanted, AppsOf
    <2> HIDE DEF A, S
    <2>3. ASSUME NEW b \in Apps
          PROVE  RowSaved(A[b], mem[b], disk[b])
        <3>1. RowSaved(app[b], mem[b], disk[b])
            BY DEF SavedInv
        <3> QED BY <2>1, <3>1, RowSavedFrame
    <2> QED BY <2>1, <2>2, <2>3, StartForwardsSaved
<1> QED BY <1>1, <1>2, <1>3, <1>4 DEF FwdDone

LEMMA CancelSaved ==
    ASSUME TypeOK, SavedInv, NEW c \in cancels,
           CancelMany(c) \/ CancelEach(c) \/ CancelCheck(c) \/ CancelFailed(c)
    PROVE  SavedInv'
<1>1. UNCHANGED <<mem, disk>>
    BY DEF CancelMany, CancelEach, CancelCheck, CancelFailed
<1>2. CASE CancelMany(c) \/ CancelEach(c) \/ CancelCheck(c)
    <2>1. UNCHANGED app
        BY <1>2 DEF CancelMany, CancelEach, CancelCheck
    <2> QED BY <1>1, <2>1, SavedFrame
<1>3. CASE CancelFailed(c)
    <2>1. PICK t \in c.sent :
             app' = [app EXCEPT ![Row(t)].status =
                IF @ = "off" /\ app[Row(t)].lport = t.lport THEN "active" ELSE @]
        BY <1>3 DEF CancelFailed
    <2>2. \A a \in Apps : app'[a] \in {app[a], [app[a] EXCEPT !.status = "active"],
                                       [app[a] EXCEPT !.status = @]}
        BY <2>1 DEF TypeOK
    <2>3. ASSUME NEW a \in Apps
          PROVE  /\ [app[a] EXCEPT !.status = @] = app[a]
                 /\ [app[a] EXCEPT !.status = "active"].status = "active"
                 /\ [app[a] EXCEPT !.status = "active"].muted = app[a].muted
                 /\ [app[a] EXCEPT !.status = "active"].override = app[a].override
        BY DEF TypeOK, AppW
    <2> QED BY <1>1, <2>2, <2>3, SavedFrame
<1> QED BY <1>2, <1>3

LEMMA SwitchSaved ==
    ASSUME TypeOK, SavedInv,
           ToggleAuto \/ Refresh \/ \E h \in Hosts : ToggleHost(h)
    PROVE  SavedInv'
<1>1. ASSUME mem' = mem, disk' \in {disk, mem}, NEW S \in SUBSET Apps, Stop(S)
      PROVE  SavedInv'
    <2>1. \A a \in Apps : app'[a] \in {app[a], [app[a] EXCEPT !.status = "off"]}
        BY <1>1 DEF Stop
    <2>2. ASSUME NEW a \in Apps
          PROVE  /\ [app[a] EXCEPT !.status = "off"].status = "off"
                 /\ [app[a] EXCEPT !.status = "off"].muted = app[a].muted
                 /\ [app[a] EXCEPT !.status = "off"].override = app[a].override
        BY DEF TypeOK, AppW
    <2> QED BY <1>1, <2>1, <2>2, SavedFrame
<1>2. ASSUME mem' = mem, disk' \in {disk, mem},
             NEW S \in SUBSET Apps, AutoForwardPass(app, fwds, S)
      PROVE  SavedInv'
    <2>1. ASSUME NEW a \in Apps
          PROVE  RowSaved(app[a], mem'[a], disk'[a])
        <3>1. RowSaved(app[a], mem[a], disk[a])
            BY DEF SavedInv
        <3> QED BY <1>2, <3>1, RowSavedFrame
    <2> QED BY <1>2, <2>1, StartForwardsSaved DEF AutoForwardPass, Wanted, TypeOK
<1>3. CASE ToggleAuto
    BY <1>1, <1>2, <1>3 DEF ToggleAuto
<1>4. ASSUME NEW h \in Hosts, ToggleHost(h)
      PROVE  SavedInv'
    <2>1. AppsOf(h) \in SUBSET Apps
        BY DEF AppsOf
    <2> QED BY <1>1, <1>2, <1>4, <2>1 DEF ToggleHost, Remember
<1>5. CASE Refresh
    BY <1>5, SavedFrame DEF Refresh
<1> QED BY <1>3, <1>4, <1>5

LEMMA RowCommandSaved ==
    ASSUME TypeOK, SavedInv, NEW a \in Apps,
           \/ Toggle(a) \/ ToggleHidden(a) \/ SetComment(a)
           \/ \E lp \in LPorts : Assign(a, lp)
    PROVE  SavedInv'
<1>0. /\ app[a] \in AppW /\ mem[a] \in Entry /\ Promote(app[a]) \in AppW
      /\ app \in [Apps -> AppW] /\ mem \in [Apps -> Entry]
    BY PromotedType DEF TypeOK
<1>1. RowSaved(app[a], mem[a], disk[a])
    BY DEF SavedInv
<1>2. \* it suffices to look at the row and its entries
      ASSUME \A b \in Apps : b /= a => app'[b] = app[b] /\ mem'[b] = mem[b]
                                       /\ disk'[b] \in {disk[b], mem[b]},
             RowSaved(app'[a], mem'[a], disk'[a])
      PROVE  SavedInv'
    <2> SUFFICES ASSUME NEW b \in Apps, b /= a
                 PROVE  RowSaved(app'[b], mem'[b], disk'[b])
        BY <1>2 DEF SavedInv
    <2>1. RowSaved(app[b], mem[b], disk[b])
        BY DEF SavedInv
    <2> QED BY <1>2, <2>1 DEF RowSaved
<1>3. \* a row started by hand is neither muted nor hidden
      /\ Promote(app[a]).override /= "bg" \/ app[a].override /= "bg"
      /\ Promote(app[a]).override = "bg" => FALSE
      /\ Promoted(app[a], mem, a) = "bg" => mem[a].tier = "bg"
      /\ Promote(app[a]).muted = app[a].muted
      /\ Promote(app[a]).lport = app[a].lport
    BY <1>0 DEF Promote, Promoted, Tier, AppW
<1>4. CASE ToggleOff(a)
    <2>1. /\ app' = [app EXCEPT ![a] = [@ EXCEPT !.status = "off", !.muted = TRUE]]
          /\ mem' = [mem EXCEPT ![a].muted = TRUE] /\ disk' = mem'
        BY <1>4 DEF ToggleOff, Remember
    <2>2. /\ app'[a].status = "off" /\ app'[a].override = app[a].override
          /\ mem'[a].muted /\ mem'[a].tier = mem[a].tier
          /\ \A b \in Apps : b /= a => app'[b] = app[b] /\ mem'[b] = mem[b]
        BY <1>0, <2>1 DEF AppW, Entry
    <2>3. RowSaved(app'[a], mem'[a], disk'[a])
        BY <1>1, <2>1, <2>2 DEF RowSaved
    <2> QED BY <1>2, <2>1, <2>2, <2>3
<1>5. CASE ToggleOn(a)
    <2> DEFINE A == [app EXCEPT ![a] = [Promote(app[a]) EXCEPT !.status = "off",
                        !.muted = FALSE, !.retried = FALSE]]
    <2>1. /\ mem' = [mem EXCEPT ![a] = [@ EXCEPT !.muted = FALSE,
                                       !.tier = Promoted(app[a], mem, a)]]
          /\ disk' = mem'
          /\ StartForwards(A, fwds, {a})
        BY <1>5 DEF ToggleOn, Remember
    <2>2. /\ A \in [Apps -> AppW] /\ ~A[a].muted /\ A[a].status = "off"
          /\ A[a].override = Promote(app[a]).override
          /\ \A b \in Apps : b /= a => A[b] = app[b]
        BY <1>0 DEF AppW, Statuses
    <2>3. /\ ~mem'[a].muted
          /\ \A b \in Apps : b /= a => mem'[b] = mem[b]
        BY <1>0, <2>1 DEF Entry
    <2> HIDE DEF A
    <2>4. ASSUME NEW b \in Apps
          PROVE  RowSaved(A[b], mem'[b], disk'[b])
        <3>1. CASE b = a
            BY <1>3, <2>1, <2>2, <2>3, <3>1 DEF RowSaved
        <3>2. CASE b /= a
            BY <2>1, <2>2, <2>3, <3>2 DEF SavedInv, RowSaved
        <3> QED BY <3>1, <3>2
    <2> QED BY <2>1, <2>2, <2>4, StartForwardsSaved
<1>6. CASE Hide(a)
    <2>1. /\ app' = [app EXCEPT ![a] = [app[a] EXCEPT !.status = "off",
                                                      !.override = "bg"]]
          /\ mem' = [mem EXCEPT ![a].tier = "bg"] /\ disk' = mem'
        BY <1>6 DEF Hide, Remember
    <2>2. /\ app'[a].status = "off" /\ app'[a].muted = app[a].muted
          /\ mem'[a].muted = mem[a].muted /\ mem'[a].tier = "bg"
          /\ \A b \in Apps : b /= a => app'[b] = app[b] /\ mem'[b] = mem[b]
        BY <1>0, <2>1 DEF AppW, Entry
    <2>3. RowSaved(app'[a], mem'[a], disk'[a])
        BY <1>1, <2>1, <2>2 DEF RowSaved
    <2> QED BY <1>2, <2>1, <2>2, <2>3
<1>7. CASE Unhide(a)
    <2> DEFINE A == [app EXCEPT ![a] = [app[a] EXCEPT !.override = "app",
                        !.muted = FALSE,
                        !.status = IF @ = "error" THEN "off" ELSE @]]
               S == Wanted(A, AppsOf(a[1]))
    <2>1. /\ mem' = [mem EXCEPT ![a] = [@ EXCEPT !.tier = "app", !.muted = FALSE]]
          /\ disk' = mem'
          /\ StartForwards(A, fwds, S) /\ S \in SUBSET Apps
          /\ \A b \in S : ~A[b].muted
        BY <1>7 DEF Unhide, Remember, AutoForwardPass, Wanted, AppsOf
    <2>2. [app[a] EXCEPT !.override = "app", !.muted = FALSE,
              !.status = IF @ = "error" THEN "off" ELSE @] \in AppW
        BY <1>0 DEF AppW, Statuses, Overrides
    <2>3. A \in [Apps -> AppW] /\ \A b \in Apps : b /= a => A[b] = app[b]
        BY <1>0, <2>2
    <2>4. ~A[a].muted /\ A[a].override = "app"
        BY <1>0 DEF AppW
    <2>5. /\ ~mem'[a].muted /\ mem'[a].tier = "app"
          /\ \A b \in Apps : b /= a => mem'[b] = mem[b]
        BY <1>0, <2>1 DEF Entry
    <2> HIDE DEF A, S
    <2>6. ASSUME NEW b \in Apps
          PROVE  RowSaved(A[b], mem'[b], disk'[b])
        <3>1. CASE b = a
            BY <2>1, <2>4, <2>5, <3>1 DEF RowSaved
        <3>2. CASE b /= a
            BY <2>1, <2>3, <2>5, <3>2 DEF SavedInv, RowSaved
        <3> QED BY <3>1, <3>2
    <2> QED BY <2>1, <2>3, <2>6, StartForwardsSaved
<1>8. CASE SetComment(a)
    <2>1. disk' = mem /\ UNCHANGED <<app, mem>>
        BY <1>8 DEF SetComment
    <2> QED BY <1>1, <1>2, <2>1 DEF RowSaved
<1>9. ASSUME NEW lp \in LPorts, AssignSame(a, lp)
      PROVE  SavedInv'
    <2>1. /\ app' = [app EXCEPT ![a].pinned = TRUE]
          /\ mem' = [mem EXCEPT ![a] = [@ EXCEPT !.lport = lp, !.pinned = TRUE]]
          /\ disk' = mem' /\ app[a].status = "active"
        BY <1>9 DEF AssignSame, Remember
    <2>2. /\ app'[a].status = "active" /\ app'[a].muted = app[a].muted
          /\ app'[a].override = app[a].override
          /\ mem'[a].muted = mem[a].muted /\ mem'[a].tier = mem[a].tier
          /\ \A b \in Apps : b /= a => app'[b] = app[b] /\ mem'[b] = mem[b]
        BY <1>0, <2>1 DEF AppW, Entry
    <2>3. RowSaved(app'[a], mem'[a], disk'[a])
        BY <1>1, <2>1, <2>2 DEF RowSaved
    <2> QED BY <1>2, <2>1, <2>2, <2>3
<1>10. ASSUME NEW lp \in LPorts, AssignOther(a, lp)
       PROVE  SavedInv'
    <2>1. /\ app' = [app EXCEPT ![a] = [Promote(app[a]) EXCEPT !.status = "pending",
               !.lport = lp, !.pinned = TRUE, !.muted = FALSE, !.retried = FALSE]]
          /\ mem' = [mem EXCEPT ![a].tier = Promoted(app[a], mem, a)]
          /\ UNCHANGED disk
        BY <1>10 DEF AssignOther
    <2>2. /\ ~app'[a].muted
          /\ app'[a].override = Promote(app[a]).override
          /\ mem'[a].muted = mem[a].muted
          /\ mem'[a].tier = Promoted(app[a], mem, a)
          /\ \A b \in Apps : b /= a => app'[b] = app[b] /\ mem'[b] = mem[b]
        BY <1>0, <2>1 DEF AppW, Entry
    <2>3. RowSaved(app'[a], mem'[a], disk'[a])
        BY <1>1, <1>3, <2>1, <2>2 DEF RowSaved
    <2> QED BY <1>2, <2>1, <2>2, <2>3
<1> QED BY <1>4, <1>5, <1>6, <1>7, <1>8, <1>9, <1>10
        DEF Toggle, ToggleHidden, Assign

LEMMA SavedStep ==
    ASSUME TypeOK, SavedInv, [Next]_vars, TierAssumption
    PROVE  SavedInv'
<1>1. CASE AnyTick
    <2>1. /\ UNCHANGED <<mem, disk>>
          /\ \A a \in Apps : app'[a] \in {NoApp, app[a]}
        BY <1>1 DEF AnyTick, Tick
    <2> QED BY <2>1, SavedFrame
<1>2. CASE Command
    BY <1>2, SwitchSaved, RowCommandSaved DEF Command
<1>3. ASSUME NEW h \in Hosts,
             ConnectStep(h) \/ ScanStep(h) \/ CancelStep(h) \/ TeardownStep(h)
      PROVE  SavedInv'
    <2>1. CASE ConnectStep(h) \/ TeardownStep(h)
        <3>1. UNCHANGED <<app, mem, disk>>
            BY <2>1 DEF ConnectStep, Connect, MasterDone, TeardownStep, Teardown
        <3> QED BY <3>1, SavedFrame
    <2> QED BY <1>3, <2>1, ScanSaved, CancelSaved DEF ScanStep, CancelStep, OfHost
<1>4. ASSUME NEW a \in Apps, FwdStep(a)
      PROVE  SavedInv'
    <2>1. ASSUME NEW f \in fwds, CancelOld(f) \/ Bind(f)
          PROVE  SavedInv'
        BY <2>1, SavedFrame DEF CancelOld, Bind
    <2> QED BY <1>4, <2>1, FwdDoneSaved DEF FwdStep, OfRow
<1>5. CASE CooldownElapse \/ Environment \/ UNCHANGED vars
    <2>1. UNCHANGED <<app, mem, disk>>
        BY <1>5 DEF CooldownElapse, Environment, vars
    <2> QED BY <2>1, SavedFrame
<1> QED BY <1>1, <1>2, <1>3, <1>4, <1>5 DEF Next

LEMMA SavedInvariant == Spec => []SavedInv
<1>1. Init => SavedInv
    BY DEF Init, SavedInv, RowSaved, NoApp
<1>2. TypeOK /\ SavedInv /\ [Next]_vars => SavedInv'
    BY SavedStep, TierAssumption
<1> QED BY <1>1, <1>2, TypeCorrect, PTL DEF Spec

(* What the user switched off is remembered in state.json at every moment:
   the results of forwards already under way clear the saved flag only for a
   row the user has started again. *)
THEOREM MuteIsRemembered == Spec => []MuteRemembered
<1>1. SavedInv => MuteRemembered
    BY SavedInvImplies
<1> QED BY <1>1, SavedInvariant, PTL

(* What the user hid is remembered as hidden, though assign promotes an
   entry in memory without saving it. *)
THEOREM HideIsRemembered == Spec => []HideRemembered
<1>1. SavedInv => HideRemembered
    BY SavedInvImplies
<1> QED BY <1>1, SavedInvariant, PTL

----------------------------------------------------------------------------
(* OffIsOff, action by action.                                             *)

LEMMA StartsFrame ==
    ASSUME \A a \in Apps : app'[a].status = "pending" => app[a].status = "pending"
    PROVE  StartsAllowed
BY DEF StartsAllowed

(* auto_forward_pass starts what the switches allow. *)
LEMMA AutoForwardPassAllowed ==
    ASSUME NEW A \in [Apps -> AppW], NEW F, NEW S \in SUBSET Apps,
           AutoForwardPass(A, F, S),
           \A a \in Apps : A[a].status = "pending" => app[a].status = "pending"
    PROVE  StartsAllowed
<1> DEFINE W == Wanted(A, S)
<1>1. /\ StartForwards(A, F, W) /\ W \in SUBSET Apps
      /\ \A a \in W : /\ auto' /\ a[1] \notin paused'
                      /\ ~A[a].muted /\ Tier(A[a]) = "app"
    BY DEF AutoForwardPass, Wanted
<1> HIDE DEF W
<1> SUFFICES ASSUME NEW a \in Apps,
                    app[a].status /= "pending", app'[a].status = "pending"
             PROVE  ~app'[a].muted /\ Tier(app'[a]) = "app"
                       /\ auto' /\ a[1] \notin paused'
    BY DEF StartsAllowed
<1>2. /\ a \notin W => app'[a] = A[a]
      /\ app'[a].muted = A[a].muted
      /\ app'[a].override = A[a].override /\ app'[a].tier = A[a].tier
    BY <1>1, StartForwardsRows
<1>3. a \in W
    BY <1>2
<1>4. Tier(app'[a]) = Tier(A[a])
    BY <1>2 DEF Tier
<1> QED BY <1>1, <1>2, <1>3, <1>4

(* A row started by hand is shown among the applications. *)
LEMMA PromoteTier ==
    ASSUME TypeOK, NEW a \in Apps
    PROVE  LET r == Promote(app[a]) IN Tier(r) = "app"
BY DEF Promote, Tier, TypeOK, AppW, Overrides, Tiers

LEMMA ScanAllowed ==
    ASSUME TypeOK, TierAssumption, NEW s \in scans,
           Scan(s) \/ ScanFailed(s) \/ ScanDone(s) \/ ScanIgnored(s)
    PROVE  StartsAllowed
<1>1. CASE Scan(s) \/ ScanIgnored(s)
    BY <1>1, StartsFrame DEF Scan, ScanIgnored
<1>2. CASE ScanFailed(s)
    <2>1. \A a \in Apps : app'[a] \in {app[a], [app[a] EXCEPT !.status = "off"]}
        BY <1>2 DEF ScanFailed
    <2>2. \A a \in Apps : [app[a] EXCEPT !.status = "off"].status = "off"
        BY DEF TypeOK, AppW
    <2> QED BY <2>1, <2>2, StartsFrame
<1>3. CASE ScanDone(s)
    <2> DEFINE h == s.host
    <2>1. PICK tier \in [s.ports -> Tiers] :
             AutoForwardPass(Rescanned(h, s.ports, tier), fwds, AppsOf(h))
        BY <1>3 DEF ScanDone
    <2> DEFINE A == Rescanned(h, s.ports, tier)
    <2>2. A \in [Apps -> AppW]
        <3>1. s.ports \in SUBSET RPorts
            BY DEF TypeOK, Scans
        <3> QED BY <2>1, <3>1, ScannedType
    <2>3. \A a \in Apps : A[a].status = "pending" => app[a].status = "pending"
        BY <2>1, ScannedPending DEF Rescanned, NoApp, Apps
    <2>4. AppsOf(h) \in SUBSET Apps
        BY DEF AppsOf
    <2> HIDE DEF A
    <2> QED BY <2>1, <2>2, <2>3, <2>4, AutoForwardPassAllowed DEF A
<1> QED BY <1>1, <1>2, <1>3

LEMMA FwdDoneAllowed ==
    ASSUME TypeOK, NEW f \in fwds, FwdDone(f)
    PROVE  StartsAllowed
<1> DEFINE a == Row(f.to)
<1>0. a \in Apps /\ app[a] \in AppW
    BY RowType DEF TypeOK, Fwds
<1>1. CASE FwdIgnored(f) \/ FwdStale(f)
    BY <1>1, StartsFrame DEF FwdIgnored, FwdStale
<1>2. CASE FwdUp(f) \/ FwdError(f)
    <2>1. app[a].status = "pending"
        BY <1>2 DEF FwdUp, FwdError, Awaited
    <2>2. \A b \in Apps : b /= a => app'[b] = app[b]
        BY <1>0, <1>2 DEF FwdUp, FwdError, TypeOK
    <2> QED BY <2>1, <2>2, StartsFrame
<1>3. CASE FwdRetry(f)
    <2> DEFINE A == [app EXCEPT ![a] = [@ EXCEPT !.status = "off",
                        !.lport = None, !.retried = TRUE]]
    <2>1. /\ A \in [Apps -> AppW] /\ A[a].status = "off"
          /\ \A b \in Apps : b /= a => A[b] = app[b]
        BY <1>0 DEF TypeOK, AppW, Statuses, Ports
    <2>2. /\ AutoForwardPass(A, fwds \ {f}, AppsOf(f.to.host))
          /\ AppsOf(f.to.host) \in SUBSET Apps
        BY <1>3 DEF FwdRetry, AppsOf
    <2> HIDE DEF A
    <2> QED BY <2>1, <2>2, AutoForwardPassAllowed
<1> QED BY <1>1, <1>2, <1>3 DEF FwdDone

LEMMA CancelAllowed ==
    ASSUME TypeOK, NEW c \in cancels,
           CancelMany(c) \/ CancelEach(c) \/ CancelCheck(c) \/ CancelFailed(c)
    PROVE  StartsAllowed
<1>1. CASE CancelMany(c) \/ CancelEach(c) \/ CancelCheck(c)
    BY <1>1, StartsFrame DEF CancelMany, CancelEach, CancelCheck
<1>2. CASE CancelFailed(c)
    <2>1. PICK t \in c.sent :
             app' = [app EXCEPT ![Row(t)].status =
                IF @ = "off" /\ app[Row(t)].lport = t.lport THEN "active" ELSE @]
        BY <1>2 DEF CancelFailed
    <2>2. \A a \in Apps : app'[a] \in {app[a], [app[a] EXCEPT !.status = "active"],
                                       [app[a] EXCEPT !.status = @]}
        BY <2>1 DEF TypeOK
    <2>3. ASSUME NEW a \in Apps
          PROVE  /\ [app[a] EXCEPT !.status = @] = app[a]
                 /\ [app[a] EXCEPT !.status = "active"].status = "active"
        BY DEF TypeOK, AppW
    <2> QED BY <2>2, <2>3, StartsFrame
<1> QED BY <1>1, <1>2

LEMMA SwitchAllowed ==
    ASSUME TypeOK,
           ToggleAuto \/ Refresh \/ \E h \in Hosts : ToggleHost(h)
    PROVE  StartsAllowed
<1>1. ASSUME NEW S \in SUBSET Apps, Stop(S)
      PROVE  StartsAllowed
    <2>1. \A a \in Apps : app'[a] \in {app[a], [app[a] EXCEPT !.status = "off"]}
        BY <1>1 DEF Stop
    <2>2. \A a \in Apps : [app[a] EXCEPT !.status = "off"].status = "off"
        BY DEF TypeOK, AppW
    <2> QED BY <2>1, <2>2, StartsFrame
<1>2. ASSUME NEW S \in SUBSET Apps, AutoForwardPass(app, fwds, S)
      PROVE  StartsAllowed
    BY <1>2, AutoForwardPassAllowed DEF TypeOK
<1>3. CASE ToggleAuto
    BY <1>1, <1>2, <1>3 DEF ToggleAuto
<1>4. ASSUME NEW h \in Hosts, ToggleHost(h)
      PROVE  StartsAllowed
    <2>1. AppsOf(h) \in SUBSET Apps
        BY DEF AppsOf
    <2> QED BY <1>1, <1>2, <1>4, <2>1 DEF ToggleHost
<1>5. CASE Refresh
    BY <1>5, StartsFrame DEF Refresh
<1> QED BY <1>3, <1>4, <1>5

LEMMA RowCommandAllowed ==
    ASSUME TypeOK, NEW a \in Apps,
           \/ Toggle(a) \/ ToggleHidden(a) \/ SetComment(a)
           \/ \E lp \in LPorts : Assign(a, lp)
    PROVE  StartsAllowed
<1>0. app[a] \in AppW /\ Promote(app[a]) \in AppW /\ app \in [Apps -> AppW]
    BY PromotedType DEF TypeOK
<1>1. ASSUME \A b \in Apps : b /= a => app'[b] = app[b],
             ~app'[a].muted, Tier(app'[a]) = "app",
             ToggleOn(a) \/ \E lp \in LPorts : AssignOther(a, lp)
      PROVE  StartsAllowed
    BY <1>1 DEF StartsAllowed
<1>2. CASE ToggleOff(a) \/ Hide(a)
    <2>1. /\ app'[a].status = "off"
          /\ \A b \in Apps : b /= a => app'[b] = app[b]
        <3>1. CASE ToggleOff(a)
            BY <1>0, <3>1 DEF ToggleOff, AppW
        <3>2. CASE Hide(a)
            <4>1. app' = [app EXCEPT ![a] = [app[a] EXCEPT !.status = "off",
                                                           !.override = "bg"]]
                BY <3>2 DEF Hide
            <4> QED BY <1>0, <4>1 DEF AppW
        <3> QED BY <1>2, <3>1, <3>2
    <2> QED BY <2>1, StartsFrame
<1>3. CASE ToggleOn(a)
    <2> DEFINE A == [app EXCEPT ![a] = [Promote(app[a]) EXCEPT !.status = "off",
                        !.muted = FALSE, !.retried = FALSE]]
    <2>1. StartForwards(A, fwds, {a})
        BY <1>3 DEF ToggleOn
    <2>2. /\ A \in [Apps -> AppW] /\ ~A[a].muted
          /\ A[a].override = Promote(app[a]).override
          /\ A[a].tier = Promote(app[a]).tier
          /\ \A b \in Apps : b /= a => A[b] = app[b]
        BY <1>0 DEF AppW, Statuses
    <2> HIDE DEF A
    <2>3. /\ \A b \in Apps : b /= a => app'[b] = app[b]
          /\ app'[a].muted = A[a].muted
          /\ app'[a].override = A[a].override /\ app'[a].tier = A[a].tier
        BY <2>1, <2>2, StartForwardsRows
    <2>4. Tier(app'[a]) = "app"
        BY <2>2, <2>3, PromoteTier DEF Tier
    <2> QED BY <1>1, <1>3, <2>2, <2>3, <2>4
<1>4. CASE Unhide(a)
    <2> DEFINE A == [app EXCEPT ![a] = [app[a] EXCEPT !.override = "app",
                        !.muted = FALSE,
                        !.status = IF @ = "error" THEN "off" ELSE @]]
    <2>1. AutoForwardPass(A, fwds, AppsOf(a[1])) /\ AppsOf(a[1]) \in SUBSET Apps
        BY <1>4 DEF Unhide, AppsOf
    <2>2. [app[a] EXCEPT !.override = "app", !.muted = FALSE,
              !.status = IF @ = "error" THEN "off" ELSE @] \in AppW
        BY <1>0 DEF AppW, Statuses, Overrides
    <2>3. A \in [Apps -> AppW] /\ \A b \in Apps : b /= a => A[b] = app[b]
        BY <1>0, <2>2
    <2>4. A[a].status = "pending" => app[a].status = "pending"
        BY <1>0 DEF AppW
    <2> HIDE DEF A
    <2> QED BY <2>1, <2>3, <2>4, AutoForwardPassAllowed
<1>5. CASE SetComment(a)
    BY <1>5, StartsFrame DEF SetComment
<1>6. ASSUME NEW lp \in LPorts, AssignSame(a, lp)
      PROVE  StartsAllowed
    <2>1. \A b \in Apps : app'[b].status = app[b].status
        BY <1>0, <1>6 DEF AssignSame, AppW
    <2> QED BY <2>1, StartsFrame
<1>7. ASSUME NEW lp \in LPorts, AssignOther(a, lp)
      PROVE  StartsAllowed
    <2>1. app' = [app EXCEPT ![a] = [Promote(app[a]) EXCEPT !.status = "pending",
             !.lport = lp, !.pinned = TRUE, !.muted = FALSE, !.retried = FALSE]]
        BY <1>7 DEF AssignOther
    <2>2. /\ ~app'[a].muted
          /\ app'[a].override = Promote(app[a]).override
          /\ app'[a].tier = Promote(app[a]).tier
          /\ \A b \in Apps : b /= a => app'[b] = app[b]
        BY <1>0, <2>1 DEF AppW
    <2>3. Tier(app'[a]) = "app"
        BY <2>2, PromoteTier DEF Tier
    <2> QED BY <1>1, <1>7, <2>2, <2>3
<1> QED BY <1>2, <1>3, <1>4, <1>5, <1>6, <1>7
        DEF Toggle, ToggleHidden, Assign

LEMMA AllowedStep ==
    ASSUME TypeOK, [Next]_vars, TierAssumption
    PROVE  [StartsAllowed]_vars
<1>1. CASE AnyTick
    <2>1. \A a \in Apps : app'[a] \in {NoApp, app[a]}
        BY <1>1 DEF AnyTick, Tick
    <2>2. StartsAllowed
        BY <2>1, StartsFrame DEF NoApp
    <2> QED BY <2>2
<1>2. CASE Command
    BY <1>2, SwitchAllowed, RowCommandAllowed DEF Command
<1>3. ASSUME NEW h \in Hosts,
             ConnectStep(h) \/ ScanStep(h) \/ CancelStep(h) \/ TeardownStep(h)
      PROVE  StartsAllowed
    <2>1. CASE ConnectStep(h) \/ TeardownStep(h)
        <3>1. UNCHANGED app
            BY <2>1 DEF ConnectStep, Connect, MasterDone, TeardownStep, Teardown
        <3> QED BY <3>1, StartsFrame
    <2> QED BY <1>3, <2>1, ScanAllowed, CancelAllowed
            DEF ScanStep, CancelStep, OfHost
<1>4. ASSUME NEW a \in Apps, FwdStep(a)
      PROVE  StartsAllowed
    <2>1. ASSUME NEW f \in fwds, CancelOld(f) \/ Bind(f)
          PROVE  StartsAllowed
        BY <2>1, StartsFrame DEF CancelOld, Bind
    <2> QED BY <1>4, <2>1, FwdDoneAllowed DEF FwdStep, OfRow
<1>5. CASE CooldownElapse \/ Environment
    <2>1. UNCHANGED app
        BY <1>5 DEF CooldownElapse, Environment
    <2> QED BY <2>1, StartsFrame
<1> QED BY <1>1, <1>2, <1>3, <1>4, <1>5 DEF Next

(* Whatever a scan, a result, a retry or a switch brings about, no row is
   forwarded while a switch that covers it is off, except by the command
   that starts that very row. *)
THEOREM OffStaysOff == Spec => OffIsOff
<1>1. TypeOK /\ [Next]_vars => [StartsAllowed]_vars
    BY AllowedStep, TierAssumption
<1> QED BY <1>1, TypeCorrect, PTL DEF Spec, OffIsOff
=============================================================================
