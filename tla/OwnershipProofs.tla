---------------------------- MODULE OwnershipProofs ----------------------------
(***************************************************************************)
(* Proof, for every value of the constants that lets nothing fail, that    *)
(* the worker keeps the books of Ownership, and of NoOrphanForward.  What  *)
(* makes it inductive: a host that has a master keeps it, all that is open *)
(* or in hand is on that master, and a row counts as the keeper of a       *)
(* forward only once it is active: a pending one has its thread.  The last *)
(* section derives NoSelfAdoption from it and from what cooldowns cover.   *)
(***************************************************************************)
EXTENDS WorkerSafetyProofs

(* No loss, no request that times out, no session that ends.  A server may
   refuse a connection, other programs may take and leave ports, listeners
   come and go, and the user may start masters of their own. *)
Quiet == Events \cap {"drop", "timeout", "session", "ps"} = {}

Mine(t) == Ready(t.host) /\ t.via = host[t.host].master

Connecting ==
    /\ \A c \in connects : /\ host[c.host].connecting
                           /\ host[c.host].master = "connecting"
                           /\ c.res \in Vias => <<c.host, c.res>> \in live
    /\ \A c, d \in connects : c.host = d.host => c = d

Stands ==
    /\ sessions = Hosts /\ teardowns = {}
    /\ \A h \in Hosts : Ready(h) => <<h, host[h].master>> \in live
    /\ Connecting
    /\ \A s \in scans : Mine(s) /\ s.res /= "fail"
    /\ \A a \in Apps : app[a].status /= "absent" => Ready(a[1])

(* L is what an earlier run has left open, which this one knows nothing of:
   nothing in its first run, lateFwds in those that Shutdown starts.  The
   books are about a run that found nothing. *)
Busy == InHand \cup Unreported
AllMine(L) == \A t \in (tunnels \ L) \cup Busy : Mine(t)

Covers(t) ==
    \/ app[Row(t)].status = "active" /\ app[Row(t)].lport = t.lport
    \/ \E f \in fwds : (f.to = t /\ f.res = "ok") \/ t \in f.undo
    \/ \E c \in cancels : t \in c.todo /\ c.pc = "batch"
Covered(L) == \A t \in tunnels \ L : Covers(t)

(* A forward is requested only after what it replaces has been cancelled. *)
UndoneFirst == \A f \in fwds : f.res /= "none" => f.undo = {}

OwnInv(L) == Stands /\ AllMine(L) /\ Covered(L) /\ UndoneFirst

Passes(L) == OwnInv(L)' /\ (L = {} => Books!HandOver)
Keeps(L) == OwnInv(L)' /\ (L = {} => Books!Next)

----------------------------------------------------------------------------
(* The invariant and the books.                                            *)

LEMMA MineIs ==
    ASSUME TypeOK, NEW t \in Forwards, Mine(t)
    PROVE  t = ForwardOf(Row(t), t.lport)
BY DEF Forwards, ForwardOf, Row, Mine

LEMMA HeldIs ==
    ASSUME TypeOK, NEW S \in SUBSET Apps, NEW t \in Forwards, Mine(t), Row(t) \in S,
           Claimed(app[Row(t)]), app[Row(t)].lport = t.lport
    PROVE  t \in Held(app, S)
<1>1. t = ForwardOf(Row(t), t.lport)
    BY MineIs
<1>2. Ready(Row(t)[1])
    BY DEF Row, Mine
<1> QED BY <1>1, <1>2 DEF Held

LEMMA HeldMine ==
    ASSUME TypeOK, NEW S \in SUBSET Apps, NEW t \in Held(app, S)
    PROVE  /\ Mine(t) /\ Row(t) \in S /\ Claimed(app[Row(t)])
           /\ app[Row(t)].lport = t.lport
<1>1. PICK a \in S : /\ t = ForwardOf(a, app[a].lport)
                     /\ Claimed(app[a]) /\ Ready(a[1])
    BY DEF Held
<1>2. Row(t) = a /\ t.host = a[1] /\ t.via = host[a[1]].master
         /\ t.lport = app[a].lport
    BY <1>1 DEF ForwardOf, Row, Apps
<1> QED BY <1>1, <1>2 DEF Mine

LEMMA BusyType ==
    ASSUME TypeOK
    PROVE  Busy \subseteq Forwards
BY DEF TypeOK, Busy, InHand, Unreported, Fwds, Cancels, Teardowns

LEMMA HeldMineNext ==
    ASSUME TypeOK', NEW t \in Held(app, Apps)'
    PROVE  /\ t \in Forwards /\ Mine(t)' /\ Row(t) \in Apps
           /\ Claimed(app'[Row(t)]) /\ app'[Row(t)].lport = t.lport
<1>1. PICK a \in Apps : /\ t = ForwardOf(a, app[a].lport)'
                         /\ Claimed(app'[a]) /\ Ready(a[1])'
    BY DEF Held
<1>2. Row(t) = a /\ t.host = a[1] /\ t.via = host'[a[1]].master
         /\ t.lport = app'[a].lport
    BY <1>1 DEF ForwardOf, Row, Apps
<1>3. app'[a].lport \in LPorts
    BY <1>1 DEF TypeOK, AppW, Ports, Claimed
<1>4. t \in Forwards
    BY <1>1, <1>3 DEF ForwardOf, Forwards, Ready, Apps
<1> QED BY <1>1, <1>2, <1>4 DEF Mine

LEMMA BusyTypeNext ==
    ASSUME TypeOK'
    PROVE  Busy' \subseteq Forwards
BY DEF TypeOK, Busy, InHand, Unreported, Fwds, Cancels, Teardowns

LEMMA PortGiven == \A t \in Forwards : t.lport /= None
BY PortsAssumption DEF Forwards, None

LEMMA CoveredKept ==
    ASSUME NEW L, TypeOK, AllMine(L), Covered(L)
    PROVE  tunnels \ L \subseteq Held(app, Apps) \cup Busy
<1> SUFFICES ASSUME NEW t \in tunnels \ L, t \notin Busy
             PROVE  t \in Held(app, Apps)
    OBVIOUS
<1>1. t \in Forwards /\ Row(t) \in Apps
    BY RowType DEF TypeOK, NetTypeOK
<1>2. /\ app[Row(t)].status = "active" /\ app[Row(t)].lport = t.lport
    BY DEF Covered, Covers, Busy, InHand
<1>3. Mine(t)
    BY DEF AllMine
<1>4. t.lport /= None
    BY <1>1, PortGiven
<1> QED BY <1>1, <1>2, <1>3, <1>4, HeldIs DEF Claimed

LEMMA CoveredKeptNext ==
    ASSUME NEW L, TypeOK', AllMine(L)', Covered(L)'
    PROVE  tunnels' \ L \subseteq Held(app, Apps)' \cup Busy'
<1>1. (TypeOK /\ AllMine(L) /\ Covered(L) => tunnels \ L \subseteq Held(app, Apps) \cup Busy)'
    BY CoveredKept, PTL
<1> QED BY <1>1

LEMMA OwnInvImplies == TypeOK /\ OwnInv({}) => NoOrphanForward
<1> SUFFICES ASSUME TypeOK, NEW t \in tunnels, Covers(t)
             PROVE  \/ Claimed(app[Row(t)]) /\ app[Row(t)].lport = t.lport
                    \/ \E f \in fwds : (f.to = t /\ f.res = "ok") \/ t \in f.undo
                    \/ \E c \in cancels : t \in c.todo /\ c.pc \in {"batch", "each"}
    BY DEF OwnInv, Covered, NoOrphanForward
<1>1. t.lport /= None
    BY PortGiven DEF TypeOK, NetTypeOK
<1> QED BY <1>1 DEF Covers, Claimed

(* Hosts keep the master they have. *)
MastersStay ==
    \A h \in Hosts : Ready(h) => Ready(h)' /\ host'[h].master = host[h].master

(* Rows come to claim only what a thread has in hand. *)
RowsGain ==
    \A a \in Apps : Claimed(app'[a]) =>
        \/ Claimed(app[a]) /\ Ready(a[1]) /\ app'[a].lport = app[a].lport
        \/ \E t \in Busy \cup Busy' : Row(t) = a /\ t.lport = app'[a].lport

LEMMA MineStays ==
    ASSUME MastersStay, NEW t \in Forwards, Mine(t)
    PROVE  Mine(t)'
BY DEF MastersStay, Mine, Forwards

LEMMA HandOverStep ==
    ASSUME TypeOK, TypeOK', AllMine({}), AllMine({})', Covered({})', MastersStay,
           RowsGain, UNCHANGED tunnels
    PROVE  Books!HandOver
<1>1. Busy' \subseteq Forwards /\ Busy \subseteq Forwards
    BY BusyType, BusyTypeNext
<1>2. tunnels' \ {} \subseteq Held(app, Apps)' \cup Busy'
    BY CoveredKeptNext
<1>3. ASSUME NEW x \in Held(app, Apps)'
      PROVE  x \in Held(app, Apps) \cup Busy \cup Busy'
    <2> DEFINE a == Row(x)
    <2>1. /\ x \in Forwards /\ Mine(x)'
          /\ a \in Apps /\ Claimed(app'[a]) /\ app'[a].lport = x.lport
        BY HeldMineNext
    <2>2. CASE Claimed(app[a]) /\ Ready(a[1]) /\ app'[a].lport = app[a].lport
        <3>1. x.host \in Hosts /\ a[1] = x.host
            BY <2>1 DEF Row, Forwards
        <3>2. Mine(x)
            BY <2>1, <2>2, <3>1 DEF Mine, MastersStay
        <3> QED BY <2>1, <2>2, <3>2, HeldIs
    <2>3. ASSUME NEW t \in Busy \cup Busy', Row(t) = a, t.lport = x.lport
          PROVE  x \in Busy \cup Busy'
        <3>1. t \in Forwards
            BY <1>1
        <3>2. Mine(t)'
            BY <3>1, MineStays DEF AllMine
        <3>3. t = x
            BY <2>1, <2>3, <3>1, <3>2 DEF Mine, Row, Forwards
        <3> QED BY <3>3
    <2> QED BY <2>1, <2>2, <2>3 DEF RowsGain
<1> QED BY <1>1, <1>2, <1>3 DEF Books!HandOver, Books!Kept, Busy

(* A step that leaves all forwards as they are. *)
LEMMA PassStep ==
    ASSUME NEW L, TypeOK, TypeOK', OwnInv(L), Stands', UNCHANGED tunnels,
           MastersStay, RowsGain,
           \A t \in Busy' \ Busy : Mine(t)',
           \A t \in tunnels \ L : Covers(t) => Covers(t)',
           \A f \in fwds' \ fwds : f.res /= "none" => f.undo = {}
    PROVE  Passes(L)
<1>1. AllMine(L)'
    <2>1. \A t \in (tunnels \ L) \cup Busy : t \in Forwards /\ Mine(t)
        BY BusyType DEF OwnInv, AllMine, TypeOK, NetTypeOK
    <2> QED BY <2>1, MineStays DEF AllMine
<1>2. Covered(L)'
    BY DEF OwnInv, Covered
<1>3. UndoneFirst'
    BY DEF OwnInv, UndoneFirst
<1> QED BY <1>1, <1>2, <1>3, HandOverStep DEF OwnInv, Passes

----------------------------------------------------------------------------
(* What changes in one step, in general.                                   *)

LEMMA ClaimedReady ==
    ASSUME Stands, NEW a \in Apps, Claimed(app[a])
    PROVE  Ready(a[1])
BY DEF Stands, Claimed

(* Hosts change no more than whether they are being scanned. *)
LEMMA StandsFrame ==
    ASSUME TypeOK, Stands, UNCHANGED <<sessions, teardowns, connects>>,
           live \subseteq live',
           \A h \in Hosts : /\ host'[h].master = host[h].master
                            /\ host'[h].connecting = host[h].connecting,
           \A s \in scans' \ scans : /\ s.host \in Hosts /\ Ready(s.host)
                                     /\ s.via = host[s.host].master /\ s.res /= "fail",
           \A a \in Apps : app'[a].status /= "absent" =>
               app[a].status /= "absent" \/ Ready(a[1])
    PROVE  Stands' /\ MastersStay
<1>1. MastersStay
    BY DEF MastersStay, Ready
<1>2. \A h \in Hosts : Ready(h)' <=> Ready(h)
    BY DEF Ready
<1>3. Connecting'
    BY DEF Stands, Connecting, TypeOK, Connects
<1>4. \A s \in scans' : Mine(s)' /\ s.res /= "fail"
    BY <1>2 DEF Stands, Mine, TypeOK, Scans
<1>5. \A a \in Apps : app'[a].status /= "absent" => Ready(a[1])'
    BY <1>2 DEF Stands, Apps
<1>6. \A h \in Hosts : Ready(h)' => <<h, host'[h].master>> \in live'
    BY <1>2 DEF Stands
<1> QED BY <1>1, <1>3, <1>4, <1>5, <1>6 DEF Stands

LEMMA StandsSame ==
    ASSUME TypeOK, Stands, UNCHANGED <<sessions, live, host, teardowns, connects, scans>>,
           \A a \in Apps : app'[a].status /= "absent" =>
               app[a].status /= "absent" \/ Ready(a[1])
    PROVE  Stands' /\ MastersStay
BY StandsFrame

(* Steps that concern neither rows nor forwards. *)
LEMMA PassiveStep ==
    ASSUME NEW L, TypeOK, TypeOK', OwnInv(L), Stands', MastersStay,
           UNCHANGED <<tunnels, app, fwds, cancels, teardowns>>
    PROVE  Passes(L)
<1>1. RowsGain
    BY ClaimedReady DEF RowsGain, OwnInv
<1>2. Busy' = Busy
    BY DEF Busy, InHand, Unreported
<1>3. \A t \in tunnels \ L : Covers(t) => Covers(t)'
    BY DEF Covers
<1> QED BY <1>1, <1>2, <1>3, PassStep

LEMMA SpawnCancelsTakes ==
    ASSUME NEW T, SpawnCancels(T)
    PROVE  /\ cancels \subseteq cancels'
           /\ \A t \in T : \E c \in cancels' : t \in c.todo /\ c.pc = "batch"
           /\ \A c \in cancels' \ cancels : c.todo \subseteq T /\ c.sent = {}
<1> DEFINE new(h) == [id |-> Fresh(OfHost(cancels, h)), host |-> h, pc |-> "batch",
                      todo |-> OfHost(T, h), sent |-> {}]
<1>1. cancels' = cancels \cup {new(h) : h \in {t.host : t \in T}}
    BY DEF SpawnCancels
<1>2. ASSUME NEW t \in T
      PROVE  \E c \in cancels' : t \in c.todo /\ c.pc = "batch"
    <2>1. new(t.host) \in cancels' /\ t \in new(t.host).todo
        BY <1>1 DEF OfHost
    <2> QED BY <2>1
<1>3. ASSUME NEW c \in cancels' \ cancels
      PROVE  c.todo \subseteq T /\ c.sent = {}
    <2>1. PICK h : c = new(h)
        BY <1>1
    <2> QED BY <2>1 DEF OfHost
<1> QED BY <1>1, <1>2, <1>3

(* Threads come and go and rows change, and what loses its keeper is in T,
   for which a cancel is under way, or a new thread will cancel it. *)
LEMMA CoverPass ==
    ASSUME NEW L, NEW T, UNCHANGED tunnels, cancels \subseteq cancels',
           \A t \in T : \E c \in cancels' : t \in c.todo /\ c.pc = "batch",
           \A f \in fwds \ fwds' : f.undo = {} /\ (f.res = "ok" => Covers(f.to)'),
           \A a \in Apps : app[a].status = "active" =>
              \/ app'[a].status = "active" /\ app'[a].lport = app[a].lport
              \/ \A t \in tunnels \ L : Row(t) = a /\ t.lport = app[a].lport =>
                    t \in T \/ \E f \in fwds' : t \in f.undo,
           NEW t \in tunnels \ L, Row(t) \in Apps, Covers(t)
    PROVE  Covers(t)'
<1>1. CASE app[Row(t)].status = "active" /\ app[Row(t)].lport = t.lport
    BY <1>1 DEF Covers
<1>2. CASE \E f \in fwds : (f.to = t /\ f.res = "ok") \/ t \in f.undo
    BY <1>2 DEF Covers
<1>3. CASE \E c \in cancels : t \in c.todo /\ c.pc = "batch"
    BY <1>3 DEF Covers
<1> QED BY <1>1, <1>2, <1>3 DEF Covers

(* What is newly in hand. *)
LEMMA BusyGains ==
    ASSUME NEW X, UNCHANGED teardowns,
           \A f \in fwds' \ fwds : f.to \in X /\ f.undo \subseteq X,
           \A c \in cancels' \ cancels : c.todo \subseteq X /\ c.sent \subseteq X
    PROVE  Busy' \subseteq Busy \cup X
BY DEF Busy, InHand, Unreported

(* What start_forward puts in hand. *)
LEMMA StartForwardsTakes ==
    ASSUME NEW A \in [Apps -> AppW], NEW F, NEW S \in SUBSET Apps,
           StartForwards(A, F, S), NEW f \in fwds' \ F
    PROVE  /\ f.undo = {} /\ f.res = "none"
           /\ \E a \in S : f.to.host = a[1] /\ f.to.via = host[a[1]].master
<1>1. PICK pick \in [S -> Ports] :
         fwds' = F \cup {NewFwd(F, a, pick[a], {}, A[a].pinned) :
                             a \in {b \in S : pick[b] /= None}}
    BY DEF StartForwards
<1>2. PICK a \in S : f = NewFwd(F, a, pick[a], {}, A[a].pinned)
    BY <1>1
<1> QED BY <1>2 DEF NewFwd, ForwardOf

LEMMA SpawnScansNew ==
    ASSUME NEW S, SpawnScans(S), NEW s \in scans' \ scans
    PROVE  s.host \in S /\ s.via = host'[s.host].master /\ s.res = "none"
<1>1. PICK h \in S : s = [id |-> Fresh(OfHost(scans, h)), host |-> h,
                          via |-> host'[h].master, res |-> "none", ports |-> {}]
    BY DEF SpawnScans
<1> QED BY <1>1

----------------------------------------------------------------------------
(* The steps, action by action.                                            *)

LEMMA TickOwn ==
    ASSUME NEW L, Quiet, TypeOK, TypeOK', OwnInv(L), AnyTick
    PROVE  Passes(L)
<1>1. PICK claims, due, retry : Tick(Hosts, claims, due, retry)
    BY DEF AnyTick, Discovered, OwnInv, Stands, Quiet
<1> DEFINE H == [h \in Hosts |-> IF h \notin Hosts THEN NoHost
                                 ELSE IF Known(h) THEN host[h] ELSE NewHost]
           dial == {h \in Hosts : MayDial(H[h], h \in retry)}
           probe == WillScan(H, Hosts \cap due)
           new(h) == [id |-> Fresh(OfHost(connects, h)), host |-> h, res |-> "none"]
<1>2. /\ host' = [h \in Hosts |->
               CASE h \in dial -> [H[h] EXCEPT !.master = "connecting",
                                               !.connecting = TRUE]
                 [] h \in probe -> [H[h] EXCEPT !.scanning = TRUE]
                 [] OTHER -> H[h]]
      /\ connects' = connects \cup {new(h) : h \in dial}
      /\ SpawnScans(probe)
      /\ UNCHANGED <<netVars, fwds, cancels>>
    BY <1>1 DEF Tick
<1>3. app' = app /\ teardowns' = {}
    <2>1. /\ app' = [a \in Apps |-> IF a[1] \in {h \in Hosts : Known(h)} \ Hosts
                                    THEN NoApp ELSE app[a]]
          /\ SpawnTeardowns(UNION {TeardownOf(h) : h \in {k \in Hosts : Known(k)} \ Hosts})
        BY <1>1 DEF Tick
    <2>2. app' = [a \in Apps |-> app[a]]
        BY <2>1
    <2>3. SpawnTeardowns({})
        BY <2>1
    <2> QED BY <2>2, <2>3 DEF SpawnTeardowns, OwnInv, Stands, TypeOK
<1>4. ASSUME NEW h \in Hosts
      PROVE  /\ h \in dial => /\ host'[h].master = "connecting" /\ host'[h].connecting
                              /\ ~H[h].connecting /\ ~Ready(h)
             /\ h \notin dial => /\ host'[h].master = H[h].master
                                 /\ host'[h].connecting = H[h].connecting
             /\ h \in probe => Ready(h)
             /\ Known(h) => H[h] = host[h]
             /\ ~Known(h) => H[h].master = "connecting"
    <2>1. /\ H[h] \in HostW
          /\ Known(h) => H[h] = host[h]
          /\ ~Known(h) => H[h].master = "connecting"
        BY DEF TypeOK, HostW, NoHost, NewHost, Masters, Vias
    <2>2. Ready(h) => Known(h) /\ ~MayDial(H[h], h \in retry)
        BY <2>1 DEF Ready, Known, Vias, MayDial
    <2>3. h \in probe => Ready(h)
        BY <2>1 DEF WillScan, Ready, Vias
    <2> HIDE DEF H
    <2>4. CASE h \in dial
        BY <1>2, <2>1, <2>2, <2>3, <2>4 DEF MayDial, HostW
    <2>5. CASE h \notin dial /\ h \in probe
        BY <1>2, <2>1, <2>3, <2>5 DEF HostW
    <2>6. CASE h \notin dial /\ h \notin probe
        BY <1>2, <2>1, <2>3, <2>6
    <2> QED BY <2>4, <2>5, <2>6
<1> HIDE DEF H, dial, probe
<1>5. \A h \in Hosts : Ready(h) => h \notin dial /\ Known(h)
    BY <1>4 DEF Ready, Known, Vias
<1>6. MastersStay
    BY <1>4, <1>5 DEF MastersStay, Ready
<1>7. ASSUME NEW h \in Hosts, Ready(h)'
      PROVE  Ready(h) /\ host'[h].master = host[h].master
    BY <1>4, <1>7 DEF Ready, Known, Vias
<1>8. Connecting'
    <2>1. ASSUME NEW c \in connects
          PROVE  c.host \in Hosts /\ c.host \notin dial /\ Known(c.host)
        BY <1>4 DEF OwnInv, Stands, Connecting, TypeOK, Connects, Known
    <2>2. \A h \in dial : h \in Hosts
        BY DEF dial
    <2>3. ASSUME NEW c \in connects'
          PROVE  \/ c \in connects
                 \/ c.host \in dial /\ c.res = "none" /\ c = new(c.host)
        <3>1. CASE c \notin connects
            <4>1. PICK h \in dial : c = new(h)
                BY <1>2, <3>1
            <4> QED BY <4>1
        <3> QED BY <3>1
    <2>4. ASSUME NEW c \in connects'
          PROVE  /\ host'[c.host].connecting /\ host'[c.host].master = "connecting"
                 /\ c.res \in Vias => <<c.host, c.res>> \in live'
        <3>1. CASE c \in connects
            <4>1. /\ host[c.host].connecting /\ host[c.host].master = "connecting"
                  /\ c.res \in Vias => <<c.host, c.res>> \in live
                BY <3>1 DEF OwnInv, Stands, Connecting
            <4>2. H[c.host] = host[c.host] /\ c.host \notin dial /\ c.host \in Hosts
                BY <1>4, <2>1, <3>1
            <4>3. live' = live
                BY <1>2 DEF netVars
            <4> QED BY <1>4, <4>1, <4>2, <4>3
        <3>2. CASE c.host \in dial /\ c.res = "none"
            BY <1>4, <2>2, <3>2 DEF Vias
        <3> QED BY <2>3, <3>1, <3>2
    <2>5. ASSUME NEW c \in connects', NEW d \in connects', c.host = d.host
          PROVE  c = d
        <3>1. CASE c \in connects
            BY <2>1, <2>3, <2>5, <3>1 DEF OwnInv, Stands, Connecting
        <3>2. CASE c \notin connects
            BY <2>1, <2>3, <2>5, <3>2
        <3> QED BY <3>1, <3>2
    <2> QED BY <2>4, <2>5 DEF Connecting
<1>9. ASSUME NEW s \in scans'
      PROVE  Mine(s)' /\ s.res /= "fail"
    <2>1. CASE s \in scans
        <3>1. s.host \in Hosts /\ Mine(s) /\ s.res /= "fail"
            BY <2>1 DEF OwnInv, Stands, TypeOK, Scans
        <3> QED BY <1>6, <3>1 DEF Mine, MastersStay
    <2>2. CASE s \notin scans
        <3>1. s.host \in probe /\ s.via = host'[s.host].master /\ s.res = "none"
            BY <1>2, <2>2, SpawnScansNew
        <3>2. s.host \in Hosts /\ Ready(s.host)
            BY <1>4, <3>1 DEF probe, WillScan
        <3> QED BY <1>6, <3>1, <3>2 DEF Mine, MastersStay
    <2> QED BY <2>1, <2>2
<1>10. Stands'
    <2>1. sessions' = sessions /\ live' = live
        BY <1>2 DEF netVars
    <2>2. \A h \in Hosts : Ready(h)' => <<h, host'[h].master>> \in live'
        BY <1>7, <2>1 DEF OwnInv, Stands
    <2>3. \A a \in Apps : app'[a].status /= "absent" => Ready(a[1])'
        BY <1>3, <1>6 DEF OwnInv, Stands, MastersStay, Apps
    <2> QED BY <1>3, <1>8, <1>9, <2>1, <2>2, <2>3 DEF OwnInv, Stands
<1> QED BY <1>2, <1>3, <1>6, <1>10, PassiveStep DEF netVars, OwnInv, Stands

LEMMA ConnectOwn ==
    ASSUME NEW L, Quiet, TypeOK, TypeOK', OwnInv(L), NEW c \in connects, Connect(c)
    PROVE  Passes(L)
<1>1. PICK res \in Vias \cup {"fail"} :
         /\ connects' = (connects \ {c}) \cup {[c EXCEPT !.res = res]}
         /\ live \subseteq live'
         /\ res \in Vias => <<c.host, res>> \in live'
    BY DEF Connect, Vias
<1>2. UNCHANGED <<tunnels, app, fwds, cancels, teardowns, sessions, host, scans>>
    BY DEF Connect
<1>3. [c EXCEPT !.res = res].host = c.host /\ [c EXCEPT !.res = res].res = res
    BY DEF TypeOK, Connects
<1>4. Connecting'
    <2>1. \A d \in connects' : \/ d \in connects \ {c}
                               \/ d.host = c.host /\ d.res = res /\ d = [c EXCEPT !.res = res]
        BY <1>1, <1>3
    <2>2. \A d \in connects' : /\ host[d.host].connecting
                               /\ host[d.host].master = "connecting"
        BY <2>1 DEF OwnInv, Stands, Connecting
    <2>3. \A d \in connects' : d.res \in Vias => <<d.host, d.res>> \in live'
        BY <1>1, <2>1 DEF OwnInv, Stands, Connecting
    <2>4. \A d, e \in connects' : d.host = e.host => d = e
        BY <2>1 DEF OwnInv, Stands, Connecting
    <2> QED BY <1>2, <2>2, <2>3, <2>4 DEF Connecting
<1>5. Stands'
    BY <1>1, <1>2, <1>4 DEF OwnInv, Stands, Mine, Ready
<1> QED BY <1>2, <1>5, PassiveStep DEF MastersStay, Ready

LEMMA MasterDoneOwn ==
    ASSUME NEW L, Quiet, TypeOK, TypeOK', OwnInv(L), NEW c \in connects, MasterDone(c)
    PROVE  Passes(L)
<1> DEFINE h == c.host
           S == IF c.res \in Vias /\ ~host[h].scanning THEN {h} ELSE {}
<1>1. /\ h \in Hosts /\ Known(h) /\ ~Ready(h) /\ host[h].master = "connecting"
      /\ c.res \in Vias => <<h, c.res>> \in live
    BY DEF OwnInv, Stands, Connecting, Known, Ready, Vias, TypeOK, Connects
<1>2. /\ connects' = connects \ {c}
      /\ host' = [host EXCEPT ![h] = Connected(h, c.res)]
      /\ SpawnScans(S)
      /\ UNCHANGED <<teardowns, live, sessions, tunnels, app, fwds, cancels>>
    BY <1>1 DEF MasterDone, netVars
<1>3. /\ \A k \in Hosts : k /= h => host'[k] = host[k]
      /\ Ready(h)' => host'[h].master = c.res /\ c.res \in Vias
      /\ c.res \in Vias => Ready(h)'
    <2>1. host'[h] = Connected(h, c.res)
        BY <1>1, <1>2 DEF TypeOK
    <2> QED BY <1>2, <2>1 DEF Connected, Ready, Vias, TypeOK
<1> HIDE DEF h
<1>4. MastersStay
    BY <1>1, <1>3 DEF MastersStay, Ready
<1>5. Connecting'
    <2>1. \A d \in connects' : d \in connects /\ d.host /= h /\ d.host \in Hosts
        BY <1>2 DEF OwnInv, Stands, Connecting, TypeOK, Connects, h
    <2> QED BY <1>2, <1>3, <2>1 DEF OwnInv, Stands, Connecting
<1>6. ASSUME NEW s \in scans'
      PROVE  Mine(s)' /\ s.res /= "fail"
    <2>1. CASE s \in scans
        <3>1. s.host \in Hosts /\ Mine(s) /\ s.res /= "fail"
            BY <2>1 DEF OwnInv, Stands, TypeOK, Scans
        <3> QED BY <1>4, <3>1 DEF Mine, MastersStay
    <2>2. CASE s \notin scans
        <3>1. s.host = h /\ c.res \in Vias /\ s.via = host'[s.host].master /\ s.res = "none"
            BY <1>2, <2>2, SpawnScansNew
        <3> QED BY <1>3, <3>1 DEF Mine
    <2> QED BY <2>1, <2>2
<1>7. \A k \in Hosts : Ready(k)' => <<k, host'[k].master>> \in live'
    BY <1>1, <1>2, <1>3 DEF OwnInv, Stands, Ready
<1>8. \A a \in Apps : app'[a].status /= "absent" => Ready(a[1])'
    BY <1>2, <1>4 DEF OwnInv, Stands, MastersStay, Apps
<1>9. Stands'
    BY <1>2, <1>5, <1>6, <1>7, <1>8 DEF OwnInv, Stands
<1> QED BY <1>2, <1>4, <1>9, PassiveStep

LEMMA ScanRunOwn ==
    ASSUME NEW L, Quiet, TypeOK, TypeOK', OwnInv(L), NEW s \in scans, Scan(s)
    PROVE  Passes(L)
<1>1. /\ <<s.host, s.via>> \in live /\ ~MayTimeOut /\ s \in Scans
      /\ Ready(s.host) /\ s.via = host[s.host].master
    BY DEF OwnInv, Stands, Mine, MayTimeOut, Quiet, TypeOK, Scans
<1>2. PICK found : scans' = (scans \ {s}) \cup {[s EXCEPT !.res = "ok", !.ports = found]}
    BY <1>1 DEF Scan
<1>3. UNCHANGED <<tunnels, app, fwds, cancels, teardowns, sessions, live, host, connects>>
    BY DEF Scan, netVars
<1> DEFINE d == [s EXCEPT !.res = "ok", !.ports = found]
<1>4. d.host = s.host /\ d.via = s.via /\ d.res = "ok"
    BY <1>1 DEF Scans
<1> HIDE DEF d
<1>5. \A e \in scans' \ scans : e = d
    BY <1>2 DEF d
<1>6. Stands' /\ MastersStay
    BY <1>1, <1>3, <1>4, <1>5, StandsFrame DEF OwnInv, Scans
<1> QED BY <1>3, <1>6, PassiveStep

LEMMA RefreshOwn ==
    ASSUME NEW L, TypeOK, TypeOK', OwnInv(L), Refresh
    PROVE  Passes(L)
<1> DEFINE probe == WillScan(host, Hosts)
<1>1. /\ host' = [h \in Hosts |-> IF h \in probe
                                  THEN [host[h] EXCEPT !.scanning = TRUE] ELSE host[h]]
      /\ SpawnScans(probe)
      /\ UNCHANGED <<tunnels, app, fwds, cancels, teardowns, sessions, live, connects>>
    BY DEF Refresh, netVars
<1>2. probe \subseteq Hosts /\ \A h \in probe : Ready(h)
    BY DEF WillScan, Ready
<1> HIDE DEF probe
<1>3. \A h \in Hosts : /\ host'[h].master = host[h].master
                       /\ host'[h].connecting = host[h].connecting
    BY <1>1 DEF TypeOK, HostW
<1>4. \A s \in scans' \ scans : /\ s.host \in probe /\ s.via = host[s.host].master
                                /\ s.res = "none"
    BY <1>1, <1>2, <1>3, SpawnScansNew
<1>5. Stands' /\ MastersStay
    BY <1>1, <1>2, <1>3, <1>4, StandsFrame DEF OwnInv
<1> QED BY <1>1, <1>5, PassiveStep

LEMMA MuxCancelQuiet ==
    ASSUME NEW L, Quiet, TypeOK, OwnInv(L), NEW T \in SUBSET Busy, NEW res,
           MuxCancel(T, res)
    PROVE  tunnels' = tunnels \ T
<1>1. ~MayTimeOut
    BY DEF Quiet, MayTimeOut
<1>2. \A t \in T : Up(t)
    BY BusyType DEF OwnInv, AllMine, Mine, Stands, Up, Forwards
<1> QED BY <1>1, <1>2 DEF MuxCancel

LEMMA CloseStep ==
    ASSUME NEW L, TypeOK, TypeOK', OwnInv(L), UndoneFirst', NEW T \in SUBSET Busy,
           tunnels' = tunnels \ T, Busy' \subseteq Busy,
           UNCHANGED <<app, live, sessions, host, teardowns, connects, scans>>,
           \A t \in tunnels' \ L : Covers(t) => Covers(t)'
    PROVE  OwnInv(L)' /\ (L = {} => Books!Close)
<1>1. Stands'
    BY StandsSame DEF OwnInv
<1>2. AllMine(L)'
    BY DEF OwnInv, AllMine, Mine, Ready
<1>3. Covered(L)'
    BY DEF OwnInv, Covered
<1>4. tunnels' \ L \subseteq Held(app, Apps)' \cup Busy'
    BY <1>2, <1>3, CoveredKeptNext
<1>5. Held(app, Apps)' = Held(app, Apps)
    BY DEF Held, Ready, ForwardOf
<1> QED BY <1>1, <1>2, <1>3, <1>4, <1>5 DEF OwnInv, Books!Close, Books!Kept, Busy

LEMMA BindOwn ==
    ASSUME NEW L, Quiet, TypeOK, TypeOK', OwnInv(L), NEW f \in fwds, Bind(f)
    PROVE  OwnInv(L)' /\ (L = {} => Books!HandOver \/ Books!Open)
<1>1. PICK res \in {"ok", "bind", "fail"} :
         MuxForward(f.to, res) /\ fwds' = (fwds \ {f}) \cup {[f EXCEPT !.res = res]}
    BY DEF Bind
<1> DEFINE g == [f EXCEPT !.res = res]
<1>2. /\ f.undo = {} /\ f.res = "none" /\ f.to \in Forwards
      /\ g.to = f.to /\ g.undo = {} /\ g.res = res
    BY DEF Bind, TypeOK, Fwds
<1>3. fwds' = (fwds \ {f}) \cup {g}
    BY <1>1
<1>4. UNCHANGED <<app, live, sessions, host, teardowns, connects, scans, cancels>>
    BY DEF Bind
<1> HIDE DEF g
<1>5. Busy' = Busy
    <2>1. {x.to : x \in fwds'} = {x.to : x \in fwds}
        BY <1>2, <1>3
    <2>2. UNION {x.undo : x \in fwds'} = UNION {x.undo : x \in fwds}
        BY <1>2, <1>3
    <2> QED BY <1>4, <2>1, <2>2 DEF Busy, InHand, Unreported
<1>6. Stands' /\ MastersStay
    BY <1>4, StandsSame DEF OwnInv
<1>7. f.to \in Busy /\ Mine(f.to) /\ Up(f.to)
    <2>1. f.to \in Busy
        BY DEF Busy, InHand
    <2>2. Mine(f.to) /\ f.to.host \in Hosts
        BY <1>2, <2>1 DEF OwnInv, AllMine, Forwards
    <2> QED BY <2>1, <2>2 DEF OwnInv, Stands, Mine, Up
<1>8. \A t \in tunnels \ L : Covers(t) => Covers(t)'
    BY <1>2, <1>3, <1>4 DEF Covers
<1>9. UndoneFirst'
    BY <1>2, <1>3 DEF OwnInv, UndoneFirst
<1>10. CASE tunnels' = tunnels
    <2>1. RowsGain
        BY <1>4, ClaimedReady DEF RowsGain, OwnInv
    <2>2. \A x \in fwds' \ fwds : x.res /= "none" => x.undo = {}
        BY <1>2, <1>3
    <2> QED BY <1>5, <1>6, <1>8, <1>10, <2>1, <2>2, PassStep DEF Passes
<1>11. CASE tunnels' = tunnels \cup {f.to} /\ res = "ok" /\ f.to \notin tunnels
    <2>1. Covers(f.to)'
        BY <1>2, <1>3, <1>11 DEF Covers
    <2>2. Covered(L)'
        BY <1>8, <1>11, <2>1 DEF OwnInv, Covered
    <2>3. AllMine(L)'
        BY <1>4, <1>5, <1>7, <1>11 DEF OwnInv, AllMine, Mine, Ready
    <2>4. Held(app, Apps)' = Held(app, Apps)
        BY <1>4 DEF Held, Ready, ForwardOf
    <2>5. Books!Open
        BY <1>2, <1>5, <1>7, <1>11, <2>4 DEF Books!Open, Busy
    <2> QED BY <1>6, <1>9, <2>2, <2>3, <2>5 DEF OwnInv
<1> QED BY <1>1, <1>7, <1>10, <1>11 DEF MuxForward, OrLate, MayTimeOut, Quiet

LEMMA CancelOldOwn ==
    ASSUME NEW L, Quiet, TypeOK, TypeOK', OwnInv(L), NEW f \in fwds, CancelOld(f)
    PROVE  OwnInv(L)' /\ (L = {} => Books!Close)
<1> DEFINE g == [f EXCEPT !.undo = {}]
<1>1. /\ fwds' = (fwds \ {f}) \cup {g}
      /\ UNCHANGED <<app, live, sessions, host, teardowns, connects, scans, cancels>>
    BY DEF CancelOld
<1>2. g.to = f.to /\ g.undo = {} /\ g.res = f.res
    BY DEF TypeOK, Fwds
<1> HIDE DEF g
<1>3. f.undo \in SUBSET Busy
    BY DEF Busy, InHand
<1>4. tunnels' = tunnels \ f.undo
    BY <1>3, MuxCancelQuiet DEF CancelOld
<1>5. Busy' \subseteq Busy
    BY <1>1, <1>2 DEF Busy, InHand, Unreported
<1>6. UndoneFirst'
    BY <1>1, <1>2 DEF OwnInv, UndoneFirst
<1>7. \A t \in tunnels' \ L : Covers(t) => Covers(t)'
    BY <1>1, <1>2, <1>4 DEF Covers
<1> QED BY <1>1, <1>3, <1>4, <1>5, <1>6, <1>7, CloseStep

LEMMA ReplacedCancel ==
    ASSUME NEW c \in cancels, NEW d, ReplaceCancel(c, d), d.todo \subseteq c.todo,
           d.sent \subseteq c.todo \cup c.sent, UNCHANGED <<fwds, teardowns>>
    PROVE  Busy' \subseteq Busy
<1>1. \A e \in cancels' : e \in cancels \/ e = d
    BY DEF ReplaceCancel
<1>2. UNION {e.todo : e \in cancels'} \subseteq UNION {e.todo : e \in cancels}
    BY <1>1
<1>3. c.todo \cup c.sent \subseteq Busy
    BY DEF Busy, InHand, Unreported
<1>4. UNION {e.sent : e \in cancels'} \subseteq Busy
    <2>1. \A e \in cancels' : e.sent \subseteq Busy
        BY <1>1, <1>3 DEF Busy, Unreported
    <2> QED BY <2>1
<1> QED BY <1>2, <1>4 DEF Busy, InHand, Unreported

LEMMA CancelRequestOwn ==
    ASSUME NEW L, Quiet, TypeOK, TypeOK', OwnInv(L), NEW c \in cancels,
           CancelMany(c) \/ CancelEach(c)
    PROVE  OwnInv(L)' /\ (L = {} => Books!Close)
<1>0. c \in Cancels /\ c.todo \in SUBSET Busy
    BY DEF TypeOK, Busy, InHand
<1>1. UNCHANGED <<app, live, sessions, host, teardowns, connects, scans, fwds>>
    BY DEF CancelMany, CancelEach
<1>2. UndoneFirst'
    BY <1>1 DEF OwnInv, UndoneFirst
<1>3. CASE CancelMany(c)
    <2>1. PICK res \in {"ok", "fail"} :
             /\ MuxCancel(c.todo, res)
             /\ ReplaceCancel(c, [c EXCEPT !.pc = "each",
                                      !.todo = IF res = "ok" THEN {} ELSE @])
        BY <1>3 DEF CancelMany
    <2> DEFINE d == [c EXCEPT !.pc = "each", !.todo = IF res = "ok" THEN {} ELSE @]
    <2>2. d.todo \subseteq c.todo /\ d.sent = c.sent
        BY <1>0 DEF Cancels
    <2>3. ReplaceCancel(c, d)
        BY <2>1
    <2> HIDE DEF d
    <2>4. Busy' \subseteq Busy
        BY <1>1, <2>2, <2>3, ReplacedCancel
    <2>5. tunnels' = tunnels \ c.todo
        BY <1>0, <2>1, MuxCancelQuiet
    <2>6. \A t \in tunnels' \ L : Covers(t) => Covers(t)'
        BY <1>1, <2>3, <2>5 DEF Covers, ReplaceCancel
    <2> QED BY <1>0, <1>1, <1>2, <2>4, <2>5, <2>6, CloseStep
<1>4. CASE CancelEach(c)
    <2>1. PICK t \in First(c.todo), res \in {"ok", "fail"} :
             /\ MuxCancel({t}, res)
             /\ ReplaceCancel(c, IF res = "ok" THEN [c EXCEPT !.todo = @ \ {t}]
                                 ELSE [c EXCEPT !.pc = "check"])
        BY <1>4 DEF CancelEach
    <2> DEFINE d == IF res = "ok" THEN [c EXCEPT !.todo = @ \ {t}]
                    ELSE [c EXCEPT !.pc = "check"]
    <2>2. d.todo \subseteq c.todo /\ d.sent = c.sent
        BY <1>0 DEF Cancels
    <2>3. ReplaceCancel(c, d) /\ {t} \in SUBSET Busy /\ c.pc = "each"
        BY <1>0, <1>4, <2>1 DEF First, CancelEach
    <2> HIDE DEF d
    <2>4. Busy' \subseteq Busy
        BY <1>1, <2>2, <2>3, ReplacedCancel
    <2>5. tunnels' = tunnels \ {t}
        BY <2>1, <2>3, MuxCancelQuiet
    <2>6. \A x \in tunnels' \ L : Covers(x) => Covers(x)'
        BY <1>1, <2>3, <2>5 DEF Covers, ReplaceCancel
    <2> QED BY <1>1, <1>2, <2>3, <2>4, <2>5, <2>6, CloseStep
<1> QED BY <1>3, <1>4

LEMMA CancelReportOwn ==
    ASSUME NEW L, TypeOK, TypeOK', OwnInv(L), NEW c \in cancels,
           CancelCheck(c) \/ CancelFailed(c)
    PROVE  Passes(L)
<1>0. c \in Cancels /\ c.sent \subseteq Busy /\ Busy \subseteq Forwards
    BY BusyType DEF TypeOK, Busy, Unreported
<1>1. UNCHANGED <<tunnels, live, sessions, host, teardowns, connects, scans, fwds>>
    BY DEF CancelCheck, CancelFailed, netVars
<1>2. PICK d : /\ ReplaceCancel(c, d) /\ d.todo \subseteq c.todo
               /\ d.sent \subseteq c.todo \cup c.sent
               /\ c.pc = "batch" => d.todo = c.todo /\ d.pc = "batch"
    <2>1. CASE CancelCheck(c)
        <3>1. PICK t \in First(c.todo) :
                ReplaceCancel(c, [c EXCEPT !.pc = "each", !.todo = @ \ {t},
                                     !.sent = IF IsFree(t.lport) THEN @ ELSE @ \cup {t}])
            BY <2>1 DEF CancelCheck
        <3> DEFINE d == [c EXCEPT !.pc = "each", !.todo = @ \ {t},
                                     !.sent = IF IsFree(t.lport) THEN @ ELSE @ \cup {t}]
        <3>2. d.todo \subseteq c.todo /\ d.sent \subseteq c.todo \cup c.sent
            BY <1>0 DEF Cancels, First
        <3> QED BY <2>1, <3>1, <3>2 DEF CancelCheck
    <2>2. CASE CancelFailed(c)
        <3>1. PICK t \in c.sent : ReplaceCancel(c, [c EXCEPT !.sent = @ \ {t}])
            BY <2>2 DEF CancelFailed
        <3> DEFINE d == [c EXCEPT !.sent = @ \ {t}]
        <3>2. d.todo = c.todo /\ d.sent \subseteq c.sent /\ d.pc = c.pc
            BY <1>0 DEF Cancels
        <3> QED BY <3>1, <3>2
    <2> QED BY <2>1, <2>2
<1>3. Busy' \subseteq Busy
    BY <1>1, <1>2, ReplacedCancel
<1>4. ASSUME NEW a \in Apps
      PROVE  \/ app'[a] = app[a]
             \/ /\ app[a].status = "off" /\ app'[a].lport = app[a].lport
                /\ \E t \in Busy : Row(t) = a /\ t.lport = app[a].lport
    <2>1. CASE CancelCheck(c)
        BY <2>1 DEF CancelCheck
    <2>2. CASE CancelFailed(c)
        <3>1. PICK t \in c.sent :
                 app' = [app EXCEPT ![Row(t)].status =
                    IF @ = "off" /\ app[Row(t)].lport = t.lport THEN "active" ELSE @]
            BY <2>2 DEF CancelFailed
        <3>2. CASE a = Row(t) /\ app[a].status = "off" /\ app[a].lport = t.lport
            BY <1>0, <3>1, <3>2 DEF TypeOK, AppW
        <3>3. CASE a = Row(t) /\ ~(app[a].status = "off" /\ app[a].lport = t.lport)
            <4>1. app'[a] = [app[a] EXCEPT !.status = app[a].status]
                BY <3>1, <3>3 DEF TypeOK
            <4> QED BY <4>1 DEF TypeOK, AppW
        <3>4. CASE a /= Row(t)
            BY <3>1, <3>4 DEF TypeOK
        <3> QED BY <3>2, <3>3, <3>4
    <2> QED BY <2>1, <2>2
<1>5. Stands' /\ MastersStay
    BY <1>1, <1>4, StandsSame DEF OwnInv
<1>6. RowsGain
    <2>1. ASSUME NEW a \in Apps, app'[a] = app[a], Claimed(app'[a])
          PROVE  Claimed(app[a]) /\ Ready(a[1]) /\ app'[a].lport = app[a].lport
        BY <2>1, ClaimedReady DEF OwnInv
    <2> QED BY <1>4, <2>1 DEF RowsGain
<1>7. \A t \in tunnels \ L : Covers(t) => Covers(t)'
    <2>1. ASSUME NEW t \in tunnels \ L, app[Row(t)].status = "active",
                 app[Row(t)].lport = t.lport
          PROVE  Covers(t)'
        <3>1. Row(t) \in Apps
            BY RowType DEF TypeOK, NetTypeOK
        <3> QED BY <1>4, <2>1, <3>1 DEF Covers
    <2>2. ASSUME NEW t \in tunnels \ L, NEW e \in cancels, t \in e.todo, e.pc = "batch"
          PROVE  Covers(t)'
        BY <1>2, <2>2 DEF Covers, ReplaceCancel
    <2> QED BY <1>1, <2>1, <2>2 DEF Covers
<1> QED BY <1>1, <1>3, <1>5, <1>6, <1>7, PassStep

(* Rows are stopped, those of S by a cancel. *)
LEMMA StopStep ==
    ASSUME NEW L, TypeOK, TypeOK', OwnInv(L), Stands', MastersStay,
           UNCHANGED <<tunnels, teardowns, fwds>>,
           NEW S \in SUBSET Apps, SpawnCancels(Held(app, S)),
           \A a \in Apps : Claimed(app'[a]) =>
               Claimed(app[a]) /\ app'[a].lport = app[a].lport,
           \A a \in Apps \ S : app[a].status = "active" =>
               app'[a].status = "active" /\ app'[a].lport = app[a].lport
    PROVE  Passes(L)
<1> DEFINE T == Held(app, S)
<1>1. /\ cancels \subseteq cancels'
      /\ \A t \in T : \E c \in cancels' : t \in c.todo /\ c.pc = "batch"
      /\ \A c \in cancels' \ cancels : c.todo \subseteq T /\ c.sent = {}
    BY SpawnCancelsTakes
<1>2. \A t \in T : t \in Forwards /\ Mine(t)
    BY HeldType, HeldMine
<1>3. Busy' \subseteq Busy \cup T
    BY <1>1, BusyGains
<1>4. \A t \in Busy' \ Busy : Mine(t)'
    BY <1>2, <1>3, MineStays
<1>5. \A t \in tunnels \ L : t \in Forwards /\ Row(t) \in Apps /\ Mine(t)
    BY RowType DEF TypeOK, NetTypeOK, OwnInv, AllMine
<1>6. ASSUME NEW a \in S, app[a].status = "active",
             NEW t \in tunnels \ L, Row(t) = a, t.lport = app[a].lport
      PROVE  t \in T
    BY <1>5, <1>6, HeldIs, PortGiven DEF Claimed
<1> HIDE DEF T
<1>7. \A t \in tunnels \ L : Covers(t) => Covers(t)'
    BY <1>1, <1>5, <1>6, CoverPass
<1>8. RowsGain
    BY ClaimedReady DEF RowsGain, OwnInv
<1> QED BY <1>4, <1>7, <1>8, PassStep

(* Rows of V are cancelled, those of S started, and threads that have nothing
   to tell are over. *)
LEMMA StartStep ==
    ASSUME NEW L, TypeOK, TypeOK', OwnInv(L), Stands', MastersStay,
           UNCHANGED <<tunnels, teardowns>>,
           NEW V \in SUBSET Apps, SpawnCancels(Held(app, V)) \/ (V = {} /\ UNCHANGED cancels),
           NEW A \in [Apps -> AppW], NEW F \in SUBSET fwds, NEW S \in SUBSET Apps,
           StartForwards(A, F, S),
           \A f \in fwds \ F : f.undo = {} /\ f.res /= "ok",
           \A a \in S : Ready(a[1]) /\ A[a].status /= "active",
           \A a \in Apps : Claimed(A[a]) => Claimed(app[a]) /\ A[a].lport = app[a].lport,
           \A a \in Apps \ V : app[a].status = "active" =>
               A[a].status = "active" /\ A[a].lport = app[a].lport
    PROVE  Passes(L)
<1> DEFINE T == Held(app, V)
<1>1. /\ cancels \subseteq cancels'
      /\ \A t \in T : \E c \in cancels' : t \in c.todo /\ c.pc = "batch"
      /\ \A c \in cancels' \ cancels : c.todo \subseteq T /\ c.sent = {}
    <2>1. CASE V = {} /\ UNCHANGED cancels
        BY <2>1 DEF Held
    <2> QED BY <2>1, SpawnCancelsTakes
<1>2. \A t \in T : t \in Forwards /\ Mine(t)
    BY HeldType, HeldMine
<1>3. ASSUME NEW f \in fwds' \ F
      PROVE  f.undo = {} /\ f.res = "none" /\ f.to \in Forwards /\ Mine(f.to)
    <2>1. /\ f.undo = {} /\ f.res = "none"
          /\ \E a \in S : f.to.host = a[1] /\ f.to.via = host[a[1]].master
        BY StartForwardsTakes
    <2>2. f.to \in Forwards
        BY DEF TypeOK, Fwds
    <2> QED BY <2>1, <2>2 DEF Mine
<1> DEFINE X == T \cup {f.to : f \in fwds' \ F}
<1>4. \A t \in X : t \in Forwards /\ Mine(t)
    BY <1>2, <1>3
<1>5. Busy' \subseteq Busy \cup X
    <2>1. \A f \in fwds' \ fwds : f.to \in X /\ f.undo \subseteq X
        BY <1>3
    <2>2. \A c \in cancels' \ cancels : c.todo \subseteq X /\ c.sent \subseteq X
        BY <1>1
    <2> HIDE DEF X
    <2> QED BY <2>1, <2>2, BusyGains
<1>6. \A t \in Busy' \ Busy : Mine(t)'
    BY <1>4, <1>5, MineStays
<1>7. \A t \in tunnels \ L : t \in Forwards /\ Row(t) \in Apps /\ Mine(t)
    BY RowType DEF TypeOK, NetTypeOK, OwnInv, AllMine
<1>8. ASSUME NEW a \in V, app[a].status = "active",
             NEW t \in tunnels \ L, Row(t) = a, t.lport = app[a].lport
      PROVE  t \in T
    BY <1>7, <1>8, HeldIs, PortGiven DEF Claimed
<1> HIDE DEF T, X
<1>9. \A a \in Apps :
         /\ a \notin S => app'[a] = A[a]
         /\ a \in S => app'[a].status \in {"pending", "error"}
         /\ a \in S /\ app'[a].status = "pending" =>
               \E f \in fwds' : Row(f.to) = a /\ f.to.lport = app'[a].lport
    BY StartForwardsRows
<1>10. \A f \in fwds \ fwds' : f.undo = {} /\ (f.res = "ok" => Covers(f.to)')
    <2>1. F \subseteq fwds'
        BY DEF StartForwards
    <2> QED BY <2>1
<1>11. \A a \in Apps \ V : app[a].status = "active" =>
           app'[a].status = "active" /\ app'[a].lport = app[a].lport
    BY <1>9
<1>12. \A t \in tunnels \ L : Covers(t) => Covers(t)'
    <2>1. \A a \in Apps : app[a].status = "active" =>
              \/ app'[a].status = "active" /\ app'[a].lport = app[a].lport
              \/ \A t \in tunnels \ L : Row(t) = a /\ t.lport = app[a].lport =>
                    t \in T \/ \E f \in fwds' : t \in f.undo
        BY <1>8, <1>11
    <2> QED BY <1>1, <1>7, <1>10, <2>1, CoverPass
<1>13. RowsGain
    <2>1. ASSUME NEW a \in Apps \ S, Claimed(app'[a])
          PROVE  Claimed(app[a]) /\ Ready(a[1]) /\ app'[a].lport = app[a].lport
        BY <1>9, <2>1, ClaimedReady DEF OwnInv
    <2>2. ASSUME NEW a \in S, Claimed(app'[a])
          PROVE  \E t \in Busy' : Row(t) = a /\ t.lport = app'[a].lport
        <3>1. PICK f \in fwds' : Row(f.to) = a /\ f.to.lport = app'[a].lport
            BY <1>9, <2>2 DEF Claimed
        <3>2. f.to \in Busy'
            BY DEF Busy, InHand
        <3> QED BY <3>1, <3>2
    <2> QED BY <2>1, <2>2 DEF RowsGain
<1>14. \A f \in fwds' \ fwds : f.res /= "none" => f.undo = {}
    BY <1>3
<1> QED BY <1>6, <1>12, <1>13, <1>14, PassStep

LEMMA StartOnlyStep ==
    ASSUME NEW L, TypeOK, TypeOK', OwnInv(L), Stands', MastersStay,
           UNCHANGED <<tunnels, teardowns, cancels>>,
           NEW A \in [Apps -> AppW], NEW F \in SUBSET fwds, NEW S \in SUBSET Apps,
           StartForwards(A, F, S),
           \A f \in fwds \ F : f.undo = {} /\ f.res /= "ok",
           \A a \in S : Ready(a[1]) /\ A[a].status /= "active",
           \A a \in Apps : Claimed(A[a]) => Claimed(app[a]) /\ A[a].lport = app[a].lport,
           \A a \in Apps : app[a].status = "active" =>
               A[a].status = "active" /\ A[a].lport = app[a].lport
    PROVE  Passes(L)
<1> DEFINE V == {}
<1>1. V \in SUBSET Apps /\ V = {} /\ Apps \ V = Apps
    OBVIOUS
<1> HIDE DEF V
<1>2. UNCHANGED <<tunnels, teardowns>> /\ UNCHANGED cancels
    OBVIOUS
<1> QED BY <1>1, <1>2, StartStep, ZenonT(60)

LEMMA FwdDoneOwn ==
    ASSUME NEW L, TypeOK, TypeOK', OwnInv(L), NEW f \in fwds, FwdDone(f)
    PROVE  Passes(L)
<1> DEFINE a == Row(f.to)
<1>0. /\ f.to \in Forwards /\ a \in Apps /\ app[a] \in AppW
      /\ f.to \in Busy /\ Mine(f.to) /\ Ready(f.to.host) /\ Known(f.to.host)
    <2>1. f.to \in Forwards /\ a \in Apps
        BY RowType DEF TypeOK, Fwds
    <2>2. f.to \in Busy /\ Mine(f.to)
        BY DEF Busy, InHand, OwnInv, AllMine
    <2> QED BY <2>1, <2>2 DEF Mine, Ready, Known, Vias, TypeOK
<1>1. f.undo = {}
    BY DEF FwdDone, FwdIgnored, FwdStale, FwdUp, FwdRetry, FwdError,
           OwnInv, UndoneFirst
<1>2. ~FwdIgnored(f)
    BY <1>0 DEF FwdIgnored
<1>3. UNCHANGED <<tunnels, teardowns, sessions, live, host, connects, scans>>
    BY <1>2 DEF FwdDone, FwdStale, FwdUp, FwdRetry, FwdError, netVars
<1> HIDE DEF a
<1>4. CASE FwdStale(f)
    <2>1. /\ fwds' = fwds \ {f} /\ SpawnCancels(Stray(f)) /\ app' = app
        BY <1>4 DEF FwdStale
    <2>2. Stray(f) = IF f.res = "ok" THEN {f.to} ELSE {}
        BY <1>0, MineIs DEF Stray
    <2>3. /\ cancels \subseteq cancels'
          /\ \A t \in Stray(f) : \E c \in cancels' : t \in c.todo /\ c.pc = "batch"
          /\ \A c \in cancels' \ cancels : c.todo \subseteq Stray(f) /\ c.sent = {}
        BY <2>1, SpawnCancelsTakes
    <2>4. Stray(f) \subseteq Busy
        BY <1>0, <2>2
    <2>5. Busy' \subseteq Busy
        <3>1. \A c \in cancels' \ cancels : c.todo \subseteq Busy /\ c.sent \subseteq Busy
            BY <2>3, <2>4
        <3>2. Busy' \subseteq Busy \cup Busy
            BY <1>3, <2>1, <3>1, BusyGains
        <3> QED BY <3>2
    <2>6. \A t \in tunnels \ L : Row(t) \in Apps
        BY RowType DEF TypeOK, NetTypeOK
    <2>7. \A g \in fwds \ fwds' : g.undo = {} /\ (g.res = "ok" => Covers(g.to)')
        BY <1>1, <2>1, <2>2, <2>3 DEF Covers
    <2>8. \A t \in tunnels \ L : Covers(t) => Covers(t)'
        BY <1>3, <2>1, <2>3, <2>6, <2>7, CoverPass
    <2>9. RowsGain
        BY <2>1, ClaimedReady DEF RowsGain, OwnInv
    <2>10. Stands' /\ MastersStay
        BY <1>3, <2>1, StandsSame DEF OwnInv
    <2> QED BY <1>3, <2>1, <2>5, <2>8, <2>9, <2>10, PassStep
<1>5. ASSUME UNCHANGED cancels, fwds' = fwds \ {f},
             \A b \in Apps : b /= a => app'[b] = app[b],
             app[a].status = "pending", app'[a].lport = f.to.lport,
             app[a].lport = f.to.lport,
             \/ app'[a].status = "error" /\ f.res /= "ok"
             \/ app'[a].status = "active"
      PROVE  Passes(L)
    <2>1. Busy' \subseteq Busy
        <3>1. Busy' \subseteq Busy \cup Busy
            BY <1>3, <1>5, BusyGains
        <3> QED BY <3>1
    <2>2. \A t \in tunnels \ L : Row(t) \in Apps
        BY RowType DEF TypeOK, NetTypeOK
    <2>3. \A g \in fwds \ fwds' : g.undo = {} /\ (g.res = "ok" => Covers(g.to)')
        BY <1>1, <1>5 DEF Covers, a
    <2>4. \A b \in Apps : app[b].status = "active" =>
              app'[b].status = "active" /\ app'[b].lport = app[b].lport
        BY <1>5
    <2>5. \A t \in tunnels \ L : Covers(t) => Covers(t)'
        <3> DEFINE T == {}
        <3>1. \A t \in T : \E c \in cancels' : t \in c.todo /\ c.pc = "batch"
            OBVIOUS
        <3>2. \A b \in Apps : app[b].status = "active" =>
                  \/ app'[b].status = "active" /\ app'[b].lport = app[b].lport
                  \/ \A t \in tunnels \ L : Row(t) = b /\ t.lport = app[b].lport =>
                        t \in T \/ \E g \in fwds' : t \in g.undo
            BY <2>4
        <3> HIDE DEF T
        <3> QED BY <1>3, <1>5, <2>2, <2>3, <3>1, <3>2, CoverPass
    <2>6. ASSUME NEW b \in Apps, Claimed(app'[b])
          PROVE  Claimed(app[b]) /\ Ready(b[1]) /\ app'[b].lport = app[b].lport
        <3>1. Claimed(app[b]) /\ app'[b].lport = app[b].lport
            BY <1>5, <2>6 DEF Claimed
        <3> QED BY <3>1, ClaimedReady DEF OwnInv
    <2>7. RowsGain
        BY <2>6 DEF RowsGain
    <2>8. \A b \in Apps : app'[b].status /= "absent" => app[b].status /= "absent"
        BY <1>5
    <2>9. Stands' /\ MastersStay
        BY <1>3, <2>8, StandsSame DEF OwnInv
    <2> QED BY <1>3, <1>5, <2>1, <2>5, <2>7, <2>9, PassStep
<1>6. CASE FwdUp(f) \/ FwdError(f)
    <2>1. /\ UNCHANGED cancels /\ fwds' = fwds \ {f}
          /\ app[a].status = "pending" /\ app[a].lport = f.to.lport
        BY <1>6 DEF FwdUp, FwdError, Awaited, a
    <2>2. /\ \A b \in Apps : b /= a => app'[b] = app[b]
          /\ app'[a].lport = app[a].lport
          /\ \/ app'[a].status = "error" /\ f.res /= "ok"
             \/ app'[a].status = "active"
        <3>1. CASE FwdUp(f)
            <4>1. app' = [app EXCEPT ![a] = [@ EXCEPT !.status = "active",
                             !.retried = FALSE, !.pinned = f.pin]]
                BY <3>1 DEF FwdUp, a
            <4> QED BY <1>0, <4>1 DEF AppW, TypeOK
        <3>2. CASE FwdError(f)
            <4>1. app' = [app EXCEPT ![a].status = "error"] /\ f.res /= "ok"
                BY <3>2 DEF FwdError, a
            <4> QED BY <1>0, <4>1 DEF AppW, TypeOK
        <3> QED BY <1>6, <3>1, <3>2
    <2> QED BY <1>5, <2>1, <2>2
<1>7. CASE FwdRetry(f)
    <2> DEFINE A == [app EXCEPT ![a] = [@ EXCEPT !.status = "off",
                        !.lport = None, !.retried = TRUE]]
               S == Wanted(A, AppsOf(f.to.host))
    <2>1. /\ A \in [Apps -> AppW]
          /\ A[a].status = "off"
          /\ \A b \in Apps : b /= a => A[b] = app[b]
        BY <1>0 DEF TypeOK, AppW, Statuses, Ports
    <2>2. /\ StartForwards(A, fwds \ {f}, S)
          /\ S \in SUBSET Apps /\ \A b \in S : Ready(b[1]) /\ A[b].status = "off"
        BY <1>7 DEF FwdRetry, AutoForwardPass, Wanted, AppsOf, a
    <2>3. app[a].status = "pending" /\ f.res = "bind" /\ UNCHANGED cancels
        BY <1>7 DEF FwdRetry, Awaited, a
    <2> HIDE DEF A, S
    <2>4. Stands' /\ MastersStay
        <3>1. \A b \in Apps : app'[b].status /= "absent" =>
                  app[b].status /= "absent" \/ Ready(b[1])
            BY <2>1, <2>2, <2>3, StartForwardsRows
        <3> QED BY <1>3, <3>1, StandsSame DEF OwnInv
    <2>5. \A b \in Apps : Claimed(A[b]) => Claimed(app[b]) /\ A[b].lport = app[b].lport
        BY <2>1 DEF Claimed
    <2>6. \A b \in Apps : app[b].status = "active" =>
              A[b].status = "active" /\ A[b].lport = app[b].lport
        BY <2>1, <2>3
    <2> DEFINE F == fwds \ {f}
    <2>7. /\ F \in SUBSET fwds /\ StartForwards(A, F, S)
          /\ \A g \in fwds \ F : g.undo = {} /\ g.res /= "ok"
        BY <1>1, <2>2, <2>3
    <2> HIDE DEF F
    <2>8. \A b \in S : Ready(b[1]) /\ A[b].status /= "active"
        BY <2>2
    <2> QED BY <1>3, <2>1, <2>2, <2>3, <2>4, <2>5, <2>6, <2>7, <2>8, StartOnlyStep
<1> QED BY <1>2, <1>4, <1>6, <1>7 DEF FwdDone

(* A scan leaves rows that claim a port as they are, and makes none of them. *)
LEMMA ScannedClaims ==
    ASSUME TypeOK, NEW a \in Apps, NEW t \in Tiers
    PROVE  /\ Claimed(Scanned(a, t)) =>
                  Claimed(app[a]) /\ Scanned(a, t).lport = app[a].lport
           /\ app[a].status = "active" =>
                  /\ Scanned(a, t).status = "active"
                  /\ Scanned(a, t).lport = app[a].lport
<1> DEFINE r == [app[a] EXCEPT !.tier = t]
           lp == ExtValid(a)
<1>0. app[a] \in AppW
    BY DEF TypeOK
<1>1. r \in AppW /\ r.status = app[a].status /\ r.lport = app[a].lport
    BY <1>0 DEF AppW
<1>2. Scanned(a, t) = CASE r.status = "absent" ->
               [NoApp EXCEPT !.status = IF lp = None THEN "off" ELSE "external",
                    !.lport = lp, !.muted = mem[a].muted, !.tier = t,
                    !.pinned = mem[a].pinned, !.override = mem[a].tier]
          [] r.status \in {"off", "error", "external"} /\ lp /= None ->
               [r EXCEPT !.status = "external", !.lport = lp]
          [] r.status = "external" /\ lp = None ->
               [r EXCEPT !.status = "off", !.lport = None]
          [] OTHER -> r
    BY Zenon DEF Scanned
<1> HIDE DEF r, lp
<1>3. CASE app[a].status \in {"pending", "active"}
    <2>1. Scanned(a, t) = r
        BY <1>1, <1>2, <1>3
    <2> QED BY <1>1, <2>1 DEF Claimed
<1>4. CASE app[a].status \notin {"pending", "active"}
    <2>1. Scanned(a, t).status \notin {"pending", "active"}
        <3>1. CASE r.status = "absent"
            BY <1>2, <3>1 DEF NoApp
        <3>2. CASE r.status \in {"off", "error", "external"} /\ lp /= None
            BY <1>1, <1>2, <3>2 DEF AppW
        <3>3. CASE r.status = "external" /\ lp = None
            BY <1>1, <1>2, <3>3 DEF AppW
        <3>4. CASE r.status \in {"off", "error"} /\ lp = None
            <4>1. Scanned(a, t) = r
                BY <1>2, <3>4
            <4> QED BY <3>4, <4>1
        <3> QED BY <1>1, <1>4, <3>1, <3>2, <3>3, <3>4 DEF AppW, Statuses
    <2> QED BY <1>4, <2>1 DEF Claimed
<1> QED BY <1>3, <1>4

LEMMA ScanDoneOwn ==
    ASSUME NEW L, TypeOK, TypeOK', TierAssumption, OwnInv(L), NEW s \in scans,
           ScanDone(s)
    PROVE  Passes(L)
<1> DEFINE h == s.host
           V == {a \in AppsOf(h) : a[2] \notin s.ports}
<1>0. /\ s \in Scans /\ h \in Hosts /\ Ready(h) /\ host[h] \in HostW
      /\ s.ports \in SUBSET RPorts
    BY DEF OwnInv, Stands, Mine, TypeOK, Scans
<1>1. PICK tier \in [s.ports -> Tiers] :
         AutoForwardPass(Rescanned(h, s.ports, tier), fwds, AppsOf(h))
    BY DEF ScanDone
<1> DEFINE A == Rescanned(h, s.ports, tier)
           S == Wanted(A, AppsOf(h))
<1>2. A \in [Apps -> AppW]
    BY <1>0, <1>1, ScannedType
<1>3. V \in SUBSET Apps
    BY DEF AppsOf
<1>4. ASSUME NEW a \in Apps
      PROVE  /\ Claimed(A[a]) => Claimed(app[a]) /\ A[a].lport = app[a].lport
             /\ a \notin V /\ app[a].status = "active" =>
                    A[a].status = "active" /\ A[a].lport = app[a].lport
             /\ A[a].status /= "absent" => app[a].status /= "absent" \/ a[1] = h
    <2>1. CASE a[1] /= h
        <3>1. A[a] = app[a]
            BY <2>1 DEF Rescanned
        <3> QED BY <3>1
    <2>2. CASE a[1] = h /\ a[2] \notin s.ports
        <3>1. A[a] = NoApp /\ a \in V
            BY <2>2 DEF Rescanned, AppsOf
        <3> QED BY <2>2, <3>1 DEF NoApp, Claimed
    <2>3. CASE a[1] = h /\ a[2] \in s.ports
        <3>1. A[a] = Scanned(a, tier[a[2]]) /\ tier[a[2]] \in Tiers
            BY <1>1, <2>3 DEF Rescanned
        <3> QED BY <2>3, <3>1, ScannedClaims
    <2> QED BY <2>1, <2>2, <2>3
<1>5. /\ StartForwards(A, fwds, S) /\ S \in SUBSET Apps
      /\ \A a \in S : Ready(a[1]) /\ A[a].status = "off"
    BY <1>1 DEF AutoForwardPass, Wanted, AppsOf
<1>6. /\ UNCHANGED <<tunnels, live, sessions, teardowns, connects>>
      /\ scans' \subseteq scans
      /\ host' = [host EXCEPT ![h] = ScanOver(h)]
      /\ SpawnCancels(Held(app, V))
    BY DEF ScanDone, netVars
<1>7. \A k \in Hosts : /\ host'[k].master = host[k].master
                       /\ host'[k].connecting = host[k].connecting
    BY <1>0, <1>6 DEF ScanOver, HostW, TypeOK
<1> HIDE DEF A, S, V
<1>8. \A a \in Apps : app'[a].status /= "absent" =>
          app[a].status /= "absent" \/ Ready(a[1])
    BY <1>0, <1>2, <1>4, <1>5, StartForwardsRows
<1>9. Stands' /\ MastersStay
    BY <1>6, <1>7, <1>8, StandsFrame DEF OwnInv
<1> DEFINE F == fwds
<1>10. F \in SUBSET fwds /\ StartForwards(A, F, S) /\ fwds \ F = {}
    BY <1>5
<1> HIDE DEF F
<1>11. /\ \A a \in S : Ready(a[1]) /\ A[a].status /= "active"
       /\ \A f \in fwds \ F : f.undo = {} /\ f.res /= "ok"
       /\ \A a \in Apps \ V : app[a].status = "active" =>
              A[a].status = "active" /\ A[a].lport = app[a].lport
       /\ \A a \in Apps : Claimed(A[a]) => Claimed(app[a]) /\ A[a].lport = app[a].lport
    BY <1>4, <1>5, <1>10
<1> QED BY <1>2, <1>3, <1>5, <1>6, <1>9, <1>10, <1>11, StartStep

(* Results that only failures and hosts that go can bring about. *)
LEMMA ScanOwn ==
    ASSUME NEW L, Quiet, TypeOK, TypeOK', TierAssumption, OwnInv(L), NEW s \in scans,
           Scan(s) \/ ScanFailed(s) \/ ScanDone(s) \/ ScanIgnored(s)
    PROVE  Passes(L)
<1>1. ~ScanFailed(s)
    BY DEF ScanFailed, OwnInv, Stands
<1>2. ~ScanIgnored(s)
    BY DEF ScanIgnored, OwnInv, Stands, Mine, Ready, Known, Vias
<1> QED BY <1>1, <1>2, ScanRunOwn, ScanDoneOwn

LEMMA StopOwn ==
    ASSUME NEW L, TypeOK, TypeOK', OwnInv(L), NEW S \in SUBSET Apps, Stop(S),
           UNCHANGED <<tunnels, live, sessions, host, teardowns, connects, scans, fwds>>
    PROVE  Passes(L)
<1>1. ASSUME NEW a \in Apps
      PROVE  \/ app'[a] = app[a] /\ (a \notin S \/ ~Claimed(app[a]))
             \/ a \in S /\ app'[a].status = "off" /\ app[a].status /= "absent"
    BY <1>1 DEF Stop, TypeOK, AppW, Claimed
<1>2. SpawnCancels(Held(app, S))
    BY DEF Stop
<1>3. Stands' /\ MastersStay
    BY <1>1, StandsSame DEF OwnInv
<1>4. \A a \in Apps : Claimed(app'[a]) => Claimed(app[a]) /\ app'[a].lport = app[a].lport
    BY <1>1 DEF Claimed
<1>5. \A a \in Apps \ S : app[a].status = "active" =>
          app'[a].status = "active" /\ app'[a].lport = app[a].lport
    BY <1>1
<1> QED BY <1>2, <1>3, <1>4, <1>5, StopStep

(* Rows are started, with no thread that ends and no row cancelled. *)
LEMMA StartOwn ==
    ASSUME NEW L, TypeOK, TypeOK', OwnInv(L),
           UNCHANGED <<tunnels, live, sessions, host, teardowns, connects, scans, cancels>>,
           NEW A \in [Apps -> AppW], NEW S \in SUBSET Apps, StartForwards(A, fwds, S),
           \A a \in S : Ready(a[1]) /\ A[a].status /= "active",
           \A a \in Apps : A[a].status /= "absent" => app[a].status /= "absent",
           \A a \in Apps : Claimed(A[a]) => Claimed(app[a]) /\ A[a].lport = app[a].lport,
           \A a \in Apps : app[a].status = "active" =>
               A[a].status = "active" /\ A[a].lport = app[a].lport
    PROVE  Passes(L)
<1>1. \A a \in Apps : app'[a].status /= "absent" =>
          app[a].status /= "absent" \/ Ready(a[1])
    BY StartForwardsRows
<1>2. Stands' /\ MastersStay
    BY <1>1, StandsSame DEF OwnInv
<1> DEFINE F == fwds
<1>3. F \in SUBSET fwds /\ StartForwards(A, F, S) /\ fwds \ F = {}
    OBVIOUS
<1> HIDE DEF F
<1>4. \A f \in fwds \ F : f.undo = {} /\ f.res /= "ok"
    BY <1>3
<1> QED BY <1>2, <1>3, <1>4, StartOnlyStep

LEMMA AutoPassOwn ==
    ASSUME NEW L, TypeOK, TypeOK', OwnInv(L), NEW R \in SUBSET Apps,
           AutoForwardPass(app, fwds, R),
           UNCHANGED <<tunnels, live, sessions, host, teardowns, connects, scans, cancels>>
    PROVE  Passes(L)
<1> DEFINE S == Wanted(app, R)
<1>1. /\ StartForwards(app, fwds, S) /\ app \in [Apps -> AppW] /\ S \in SUBSET Apps
      /\ \A a \in S : Ready(a[1]) /\ app[a].status /= "active"
    BY DEF AutoForwardPass, Wanted, TypeOK
<1> HIDE DEF S
<1> QED BY <1>1, StartOwn

LEMMA SwitchOwn ==
    ASSUME NEW L, TypeOK, TypeOK', OwnInv(L),
           ToggleAuto \/ Refresh \/ \E h \in Hosts : ToggleHost(h)
    PROVE  Passes(L)
<1>1. CASE ToggleAuto
    BY <1>1, AutoPassOwn, StopOwn DEF ToggleAuto, netVars
<1>2. ASSUME NEW h \in Hosts, ToggleHost(h)
      PROVE  Passes(L)
    <2>1. AppsOf(h) \in SUBSET Apps
        BY DEF AppsOf
    <2> QED BY <1>2, <2>1, AutoPassOwn, StopOwn DEF ToggleHost, netVars
<1> QED BY <1>1, <1>2, RefreshOwn

LEMMA AssignOwn ==
    ASSUME NEW L, TypeOK, TypeOK', OwnInv(L), NEW a \in Apps, NEW lp \in LPorts,
           Assign(a, lp)
    PROVE  Passes(L)
<1>0. app[a] \in AppW /\ Promote(app[a]) \in AppW /\ app \in [Apps -> AppW]
    BY PromotedType DEF TypeOK
<1>1. UNCHANGED <<tunnels, live, sessions, host, teardowns, connects, scans, cancels>>
    BY DEF Assign, AssignSame, AssignOther, netVars, threads
<1>2. CASE AssignSame(a, lp)
    <2>1. /\ UNCHANGED fwds
          /\ \A b \in Apps : app'[b].status = app[b].status /\ app'[b].lport = app[b].lport
        BY <1>0, <1>2 DEF AssignSame, threads, AppW
    <2>2. Stands' /\ MastersStay
        BY <1>1, <2>1, StandsSame DEF OwnInv
    <2>3. RowsGain
        BY <2>1, ClaimedReady DEF RowsGain, OwnInv, Claimed
    <2>4. Busy' = Busy
        BY <1>1, <2>1 DEF Busy, InHand, Unreported
    <2>5. \A t \in tunnels \ L : Covers(t) => Covers(t)'
        <3>1. \A t \in tunnels \ L : Row(t) \in Apps
            BY RowType DEF TypeOK, NetTypeOK
        <3> QED BY <1>1, <2>1, <3>1 DEF Covers
    <2> QED BY <1>1, <2>1, <2>2, <2>3, <2>4, <2>5, PassStep
<1>3. CASE AssignOther(a, lp)
    <2> DEFINE f == NewFwd(fwds, a, lp, Held(app, {a}), TRUE)
               X == Held(app, {a}) \cup {f.to}
    <2>1. /\ fwds' = fwds \cup {f} /\ Ready(a[1]) /\ app[a].status /= "absent"
          /\ app' = [app EXCEPT ![a] = [Promote(app[a]) EXCEPT !.status = "pending",
               !.lport = lp, !.pinned = TRUE, !.muted = FALSE, !.retried = FALSE]]
        BY <1>3 DEF AssignOther
    <2>2. /\ f.undo = Held(app, {a}) /\ f.res = "none" /\ f.to = ForwardOf(a, lp)
          /\ Row(f.to) = a /\ f.to.lport = lp
          /\ f.to.host = a[1] /\ f.to.via = host[a[1]].master
        BY DEF NewFwd, ForwardOf, Row, Apps
    <2> HIDE DEF f
    <2>3. /\ \A b \in Apps : b /= a => app'[b] = app[b]
          /\ app'[a].status = "pending" /\ app'[a].lport = lp
        BY <1>0, <2>1 DEF AppW
    <2>4. \A t \in X : t \in Forwards /\ Mine(t)
        <3>1. f.to \in Forwards
            BY <2>1, <2>2, ForwardOfType
        <3>2. \A t \in Held(app, {a}) : t \in Forwards /\ Mine(t)
            BY HeldType, HeldMine
        <3>3. Mine(f.to)
            BY <2>1, <2>2 DEF Mine
        <3> QED BY <3>1, <3>2, <3>3
    <2>5. Stands' /\ MastersStay
        BY <1>1, <2>1, <2>3, StandsSame DEF OwnInv
    <2>6. \A t \in tunnels \ L : t \in Forwards /\ Row(t) \in Apps /\ Mine(t)
        BY RowType DEF TypeOK, NetTypeOK, OwnInv, AllMine
    <2>7. ASSUME app[a].status = "active",
                 NEW t \in tunnels \ L, Row(t) = a, t.lport = app[a].lport
          PROVE  t \in f.undo
        <3>1. t \in Held(app, {a})
            BY <2>6, <2>7, HeldIs, PortGiven DEF Claimed
        <3> QED BY <2>2, <3>1
    <2>8. f.to \in X /\ f.undo \subseteq X
        BY <2>2
    <2> HIDE DEF X
    <2>9. Busy' \subseteq Busy \cup X
        BY <1>1, <2>1, <2>8, BusyGains
    <2>10. \A t \in Busy' \ Busy : Mine(t)'
        BY <2>4, <2>5, <2>9, MineStays
    <2>11. RowsGain
        <3>1. ASSUME NEW b \in Apps, b /= a, Claimed(app'[b])
              PROVE  Claimed(app[b]) /\ Ready(b[1]) /\ app'[b].lport = app[b].lport
            BY <2>3, <3>1, ClaimedReady DEF OwnInv
        <3>2. f.to \in Busy'
            BY <2>1 DEF Busy, InHand
        <3> QED BY <2>2, <2>3, <3>1, <3>2 DEF RowsGain
    <2>12. \A t \in tunnels \ L : Covers(t) => Covers(t)'
        <3> DEFINE T == {}
        <3>1. \A t \in T : \E c \in cancels' : t \in c.todo /\ c.pc = "batch"
            OBVIOUS
        <3>2. \A b \in Apps : app[b].status = "active" =>
              \/ app'[b].status = "active" /\ app'[b].lport = app[b].lport
              \/ \A t \in tunnels \ L : Row(t) = b /\ t.lport = app[b].lport =>
                    t \in T \/ \E g \in fwds' : t \in g.undo
            BY <2>1, <2>3, <2>7
        <3>3. \A g \in fwds \ fwds' : g.undo = {} /\ (g.res = "ok" => Covers(g.to)')
            BY <2>1
        <3> HIDE DEF T
        <3> QED BY <1>1, <2>6, <3>1, <3>2, <3>3, CoverPass
    <2>13. \A g \in fwds' \ fwds : g.res /= "none" => g.undo = {}
        BY <2>1, <2>2
    <2> QED BY <1>1, <2>5, <2>10, <2>11, <2>12, <2>13, PassStep
<1> QED BY <1>2, <1>3 DEF Assign

LEMMA ToggleOwn ==
    ASSUME NEW L, TypeOK, TypeOK', OwnInv(L), NEW a \in Apps, Toggle(a)
    PROVE  Passes(L)
<1>0. app[a] \in AppW /\ Promote(app[a]) \in AppW /\ app \in [Apps -> AppW]
    BY PromotedType DEF TypeOK
<1>1. CASE ToggleOff(a)
    <2>1. UNCHANGED <<tunnels, live, sessions, host, teardowns, connects, scans, fwds>>
        BY <1>1 DEF ToggleOff, netVars
    <2>2. /\ SpawnCancels(Held(app, {a}))
          /\ app'[a].status = "off" /\ app[a].status /= "absent"
          /\ \A b \in Apps : b /= a => app'[b] = app[b]
        BY <1>0, <1>1 DEF ToggleOff, Claimed, AppW
    <2>3. Stands' /\ MastersStay
        BY <2>1, <2>2, StandsSame DEF OwnInv
    <2>4. \A b \in Apps : Claimed(app'[b]) => Claimed(app[b]) /\ app'[b].lport = app[b].lport
        BY <2>2 DEF Claimed
    <2>5. \A b \in Apps \ {a} : app[b].status = "active" =>
              app'[b].status = "active" /\ app'[b].lport = app[b].lport
        BY <2>2
    <2> QED BY <2>1, <2>2, <2>3, <2>4, <2>5, StopStep
<1>2. CASE ToggleOn(a)
    <2> DEFINE A == [app EXCEPT ![a] = [Promote(app[a]) EXCEPT !.status = "off",
                        !.muted = FALSE, !.retried = FALSE]]
    <2>1. /\ StartForwards(A, fwds, {a}) /\ Ready(a[1])
          /\ app[a].status \in {"off", "error"}
          /\ UNCHANGED <<tunnels, live, sessions, host, teardowns, connects, scans, cancels>>
        BY <1>2 DEF ToggleOn, netVars
    <2>2. /\ A \in [Apps -> AppW] /\ A[a].status = "off"
          /\ \A b \in Apps : b /= a => A[b] = app[b]
        BY <1>0 DEF AppW, Statuses
    <2> HIDE DEF A
    <2>3. /\ \A b \in Apps : Claimed(A[b]) => Claimed(app[b]) /\ A[b].lport = app[b].lport
          /\ \A b \in Apps : app[b].status = "active" =>
                 A[b].status = "active" /\ A[b].lport = app[b].lport
          /\ \A b \in Apps : A[b].status /= "absent" => app[b].status /= "absent"
        BY <2>1, <2>2 DEF Claimed
    <2> QED BY <2>1, <2>2, <2>3, StartOwn
<1> QED BY <1>1, <1>2 DEF Toggle

LEMMA HideOwn ==
    ASSUME NEW L, TypeOK, TypeOK', OwnInv(L), NEW a \in Apps, ToggleHidden(a)
    PROVE  Passes(L)
<1>0. app[a] \in AppW /\ app \in [Apps -> AppW]
    BY DEF TypeOK
<1>1. CASE Hide(a)
    <2>1. UNCHANGED <<tunnels, live, sessions, host, teardowns, connects, scans, fwds>>
        BY <1>1 DEF Hide, netVars
    <2>2. /\ SpawnCancels(Held(app, {a})) /\ app[a].status /= "absent"
          /\ app' = [app EXCEPT ![a] = [app[a] EXCEPT !.status = "off",
                                                      !.override = "bg"]]
        BY <1>1 DEF Hide
    <2>3. app'[a].status = "off" /\ \A b \in Apps : b /= a => app'[b] = app[b]
        BY <1>0, <2>2 DEF AppW
    <2>4. Stands' /\ MastersStay
        BY <2>1, <2>2, <2>3, StandsSame DEF OwnInv
    <2>5. \A b \in Apps : Claimed(app'[b]) => Claimed(app[b]) /\ app'[b].lport = app[b].lport
        BY <2>3 DEF Claimed
    <2>6. \A b \in Apps \ {a} : app[b].status = "active" =>
              app'[b].status = "active" /\ app'[b].lport = app[b].lport
        BY <2>3
    <2> QED BY <2>1, <2>2, <2>4, <2>5, <2>6, StopStep
<1>2. CASE Unhide(a)
    <2> DEFINE A == [app EXCEPT ![a] = [app[a] EXCEPT !.override = "app",
                        !.muted = FALSE,
                        !.status = IF @ = "error" THEN "off" ELSE @]]
               S == Wanted(A, AppsOf(a[1]))
    <2>1. /\ StartForwards(A, fwds, S) /\ S \in SUBSET Apps
          /\ \A b \in S : Ready(b[1]) /\ A[b].status /= "active"
          /\ app[a].status /= "absent"
          /\ UNCHANGED <<tunnels, live, sessions, host, teardowns, connects, scans, cancels>>
        BY <1>2 DEF Unhide, AutoForwardPass, Wanted, AppsOf, netVars
    <2>2. [app[a] EXCEPT !.override = "app", !.muted = FALSE,
              !.status = IF @ = "error" THEN "off" ELSE @] \in AppW
        BY <1>0 DEF AppW, Statuses, Overrides
    <2>3. A \in [Apps -> AppW] /\ \A b \in Apps : b /= a => A[b] = app[b]
        BY <1>0, <2>2
    <2>4. /\ A[a].lport = app[a].lport
          /\ A[a].status = IF app[a].status = "error" THEN "off" ELSE app[a].status
        BY <1>0 DEF AppW
    <2> HIDE DEF A, S
    <2>5. /\ \A b \in Apps : Claimed(A[b]) => Claimed(app[b]) /\ A[b].lport = app[b].lport
          /\ \A b \in Apps : app[b].status = "active" =>
                 A[b].status = "active" /\ A[b].lport = app[b].lport
          /\ \A b \in Apps : A[b].status /= "absent" => app[b].status /= "absent"
        BY <2>1, <2>3, <2>4 DEF Claimed
    <2> QED BY <2>1, <2>3, <2>5, StartOwn
<1> QED BY <1>1, <1>2 DEF ToggleHidden

(* Nothing the books are about changes: comments, cooldowns, and what the
   environment may do when it is quiet. *)
LEMMA OtherOwn ==
    ASSUME NEW L, Quiet, TypeOK, TypeOK', OwnInv(L),
           (\E a \in Apps : SetComment(a)) \/ CooldownElapse \/ Environment
               \/ UNCHANGED vars
    PROVE  Passes(L)
<1>1. /\ UNCHANGED <<tunnels, sessions, host, app, connects, scans, fwds,
                     cancels, teardowns>>
      /\ live \subseteq live'
    <2>1. CASE Environment
        <3>1. ~SessionChange /\ ~MasterDies
            BY DEF SessionChange, MasterDies, Quiet
        <3> QED BY <2>1, <3>1 DEF Environment, NetNext, ListenChange, ForeignChange,
                   UserMaster, threads
    <2> QED BY <2>1 DEF SetComment, CooldownElapse, vars, netVars, threads
<1>2. Stands' /\ MastersStay
    BY <1>1, StandsFrame DEF OwnInv
<1> QED BY <1>1, <1>2, PassiveStep

----------------------------------------------------------------------------
(* The theorems.                                                           *)

LEMMA OwnStep ==
    ASSUME NEW L, Quiet, TierAssumption, TypeOK, TypeOK', OwnInv(L), [Next]_vars
    PROVE  Keeps(L)
<1>1. CASE AnyTick
    BY <1>1, TickOwn DEF Books!Next, Keeps, Passes
<1>2. CASE Command
    BY <1>2, SwitchOwn, AssignOwn, ToggleOwn, HideOwn, OtherOwn
       DEF Command, Books!Next, Keeps, Passes
<1>3. ASSUME NEW h \in Hosts, ConnectStep(h)
      PROVE  Keeps(L)
    BY <1>3, ConnectOwn, MasterDoneOwn
       DEF ConnectStep, OfHost, Books!Next, Keeps, Passes
<1>4. ASSUME NEW h \in Hosts, ScanStep(h)
      PROVE  Keeps(L)
    BY <1>4, ScanOwn DEF ScanStep, OfHost, Books!Next, Keeps, Passes
<1>5. ASSUME NEW h \in Hosts, CancelStep(h)
      PROVE  Keeps(L)
    BY <1>5, CancelRequestOwn, CancelReportOwn
       DEF CancelStep, OfHost, Books!Next, Keeps, Passes
<1>6. \A h \in Hosts : ~TeardownStep(h)
    BY DEF TeardownStep, OfHost, OwnInv, Stands
<1>7. ASSUME NEW a \in Apps, FwdStep(a)
      PROVE  Keeps(L)
    BY <1>7, CancelOldOwn, BindOwn, FwdDoneOwn
       DEF FwdStep, OfRow, Books!Next, Keeps, Passes
<1>8. CASE CooldownElapse \/ Environment \/ UNCHANGED vars
    BY <1>8, OtherOwn DEF Books!Next, Keeps, Passes
<1> QED BY <1>1, <1>2, <1>3, <1>4, <1>5, <1>6, <1>7, <1>8 DEF Next

LEMMA OwnStart == Init => OwnInv({}) /\ Books!Init
<1> SUFFICES ASSUME Init PROVE OwnInv({}) /\ Books!Init
    OBVIOUS
<1>1. Busy = {} /\ Held(app, Apps) = {}
    BY DEF Init, Busy, InHand, Unreported, Held, Claimed, NoApp
<1>2. Stands
    BY DEF Init, NetInit, Stands, Connecting, Ready, NoHost, NoApp, Vias
<1> QED BY <1>1, <1>2 DEF Init, NetInit, OwnInv, AllMine, Covered, UndoneFirst,
           Books!Init, Busy

(* While nothing fails no forward is left behind, for all hosts and ports and
   however commands, results and cancels interleave: every forward that is
   open belongs to a row that claims it or to a thread that will deal with it
   (on_fwd's stray handling, spawn_cancels, assign). *)
THEOREM NothingIsOrphaned == Quiet => (Spec => []NoOrphanForward)
<1>1. Init => OwnInv({})
    BY OwnStart
<1>2. Quiet /\ TypeOK /\ TypeOK' /\ OwnInv({}) /\ [Next]_vars => OwnInv({})'
    BY OwnStep, TierAssumption DEF Keeps
<1>3. TypeOK /\ OwnInv({}) => NoOrphanForward
    BY OwnInvImplies
<1>4. Quiet => Quiet'
    BY DEF Quiet
<1>5. Quiet => []Quiet
    BY <1>4, PTL
<1> QED BY <1>1, <1>2, <1>3, <1>5, TypeCorrect, PTL DEF Spec

(* While nothing fails the worker implements Ownership: every one of its steps
   opens, closes or hands over forwards the way Ownership allows. *)
THEOREM WorkerKeepsBooks == Quiet => (Spec => KeepsBooks)
<1>1. Init => OwnInv({}) /\ Books!Init
    BY OwnStart
<1>2. Quiet /\ TypeOK /\ TypeOK' /\ OwnInv({}) /\ [Next]_vars => OwnInv({})' /\ Books!Next
    BY OwnStep, TierAssumption DEF Keeps
<1>3. Quiet => Quiet'
    BY DEF Quiet
<1>4. Quiet => []Quiet
    BY <1>3, PTL
<1> QED BY <1>1, <1>2, <1>4, TypeCorrect, PTL DEF Spec, KeepsBooks, Books!Spec
----------------------------------------------------------------------------
(* No self-adoption.  The port of whatever is in hand is in its cooldown,  *)
(* except that of a forward still awaited, which its row claims; and no    *)
(* second request stands behind that row, so that the claim or a cooldown  *)
(* takes over when the result is in.                                       *)

Outlasted == "slow" \notin Events

Alone(f) == \A g \in fwds :
    Row(g.to) = Row(f.to) /\ g.to.lport = f.to.lport => g = f
Pledged(f) == f.to.lport \in cooldown \/ (Awaited(f) /\ Alone(f))

HotInv ==
    /\ \A f \in fwds : Pledged(f) /\ \A t \in f.undo : t.lport \in cooldown
    /\ \A c \in cancels : \A t \in c.todo : t.lport \in cooldown

NoneAdopted == \A a \in Apps :
    app'[a].status = "external" => app[a].status = "external"
Adopted == \A a \in Apps :
    app[a].status /= "external" /\ app'[a].status = "external" =>
        app'[a].lport \in foreign

(* A forward that is open has its port claimed or cooling down. *)
LEMMA PortTaken ==
    ASSUME TypeOK, OwnInv({}), HotInv, NEW t \in tunnels
    PROVE  t.lport \in Used(app) \cup cooldown
<1>1. t \in Forwards /\ Row(t) \in Apps /\ t.lport /= None
    BY RowType, PortGiven DEF TypeOK, NetTypeOK
<1>2. CASE app[Row(t)].status = "active" /\ app[Row(t)].lport = t.lport
    BY <1>1, <1>2 DEF Used, Claimed
<1>3. ASSUME NEW f \in fwds, f.to = t \/ t \in f.undo
      PROVE  t.lport \in Used(app) \cup cooldown
    <2>1. CASE f.to = t
        <3>1. Awaited(f) => t.lport \in Used(app)
            BY <1>1, <2>1 DEF Awaited, Used, Claimed
        <3> QED BY <2>1, <3>1 DEF HotInv, Pledged
    <2> QED BY <1>3, <2>1 DEF HotInv
<1>4. ASSUME NEW c \in cancels, t \in c.todo
      PROVE  t.lport \in Used(app) \cup cooldown
    BY <1>4 DEF HotInv
<1> QED BY <1>2, <1>3, <1>4 DEF OwnInv, Covered, Covers

(* What keeps the invariant: what is new is pledged, and a row that stops
   waiting cools down or has nothing else in hand for its port. *)
LEMMA HotPass ==
    ASSUME TypeOK, HotInv, cooldown \subseteq cooldown',
           \A c \in cancels' \ cancels : \A t \in c.todo : t.lport \in cooldown',
           \A f \in fwds' \ fwds :
               Pledged(f)' /\ \A t \in f.undo : t.lport \in cooldown',
           \A a \in Apps : app[a].status = "pending" =>
               \/ app'[a].status = "pending" /\ app'[a].lport = app[a].lport
               \/ app[a].lport \in cooldown'
               \/ \A f \in fwds \cap fwds' :
                      ~(Row(f.to) = a /\ f.to.lport = app[a].lport)
    PROVE  HotInv'
<1>1. ASSUME NEW f \in fwds', f \in fwds
      PROVE  Pledged(f)'
    <2>1. CASE f.to.lport \in cooldown
        BY <2>1 DEF Pledged
    <2>2. CASE Awaited(f) /\ Alone(f) /\ f.to.lport \notin cooldown'
        <3>1. Row(f.to) \in Apps
            BY <1>1, RowType DEF TypeOK, Fwds
        <3>2. Awaited(f)'
            BY <1>1, <2>2, <3>1 DEF Awaited
        <3>3. ASSUME NEW g \in fwds', Row(g.to) = Row(f.to), g.to.lport = f.to.lport
              PROVE  g = f
            <4>1. CASE g \in fwds
                BY <2>2, <3>3, <4>1 DEF Alone
            <4>2. CASE g \notin fwds
                BY <2>2, <3>3, <4>2 DEF Pledged, Alone
            <4> QED BY <4>1, <4>2
        <3> QED BY <3>2, <3>3 DEF Pledged, Alone
    <2> QED BY <1>1, <2>1, <2>2 DEF HotInv, Pledged
<1>2. \A f \in fwds' : Pledged(f)' /\ \A t \in f.undo : t.lport \in cooldown'
    BY <1>1 DEF HotInv
<1>3. \A c \in cancels' : \A t \in c.todo : t.lport \in cooldown'
    BY DEF HotInv
<1> QED BY <1>2, <1>3 DEF HotInv

LEMMA HotSame ==
    ASSUME TypeOK, HotInv, UNCHANGED <<app, cooldown, fwds, cancels>>
    PROVE  HotInv' /\ NoneAdopted
BY HotPass DEF NoneAdopted

(* A thread goes on with no more than it had. *)
LEMMA HotThread ==
    ASSUME TypeOK, HotInv, UNCHANGED <<cooldown, fwds>>,
           \A a \in Apps : app'[a] = app[a]
               \/ (app[a].status = "off" /\ app'[a].status = "active"),
           NEW c \in cancels,
           \A d \in cancels' \ cancels : d.todo \subseteq c.todo
    PROVE  HotInv' /\ NoneAdopted
<1>1. \A d \in cancels' \ cancels : \A t \in d.todo : t.lport \in cooldown'
    BY DEF HotInv
<1> QED BY <1>1, HotPass DEF NoneAdopted

LEMMA CancelsCool ==
    ASSUME NEW T, SpawnCancels(T)
    PROVE  /\ cooldown \subseteq cooldown' /\ \A t \in T : t.lport \in cooldown'
           /\ \A c \in cancels' \ cancels : \A t \in c.todo : t.lport \in cooldown'
<1>1. cooldown' = cooldown \cup {t.lport : t \in T}
    BY DEF SpawnCancels
<1>2. \A c \in cancels' \ cancels : c.todo \subseteq T
    BY SpawnCancelsTakes
<1> QED BY <1>1, <1>2

LEMMA HeldPort ==
    ASSUME Stands, NEW S \in SUBSET Apps, NEW a \in S, Claimed(app[a])
    PROVE  \E t \in Held(app, S) : t.lport = app[a].lport
<1>1. ForwardOf(a, app[a].lport) \in Held(app, S)
    BY ClaimedReady DEF Held
<1> QED BY <1>1 DEF ForwardOf

LEMMA StartForwardsNew ==
    ASSUME NEW A \in [Apps -> AppW], NEW F, NEW S \in SUBSET Apps,
           StartForwards(A, F, S), NEW f \in fwds' \ F
    PROVE  /\ f.undo = {} /\ Row(f.to) \in S /\ Awaited(f)'
           /\ \A g \in fwds' \ F : Row(g.to) = Row(f.to) => g = f
<1>1. PICK pick \in [S -> Ports] :
         /\ app' = [b \in Apps |->
                IF b \notin S THEN A[b]
                ELSE IF pick[b] = None THEN [A[b] EXCEPT !.status = "error"]
                ELSE [A[b] EXCEPT !.status = "pending", !.lport = pick[b]]]
         /\ fwds' = F \cup
                {NewFwd(F, b, pick[b], {}, A[b].pinned) :
                    b \in {c \in S : pick[c] /= None}}
    BY DEF StartForwards
<1> DEFINE new(b) == NewFwd(F, b, pick[b], {}, A[b].pinned)
<1>2. ASSUME NEW g \in fwds' \ F
      PROVE  \E b \in S : g = new(b) /\ pick[b] /= None
    BY <1>1
<1>3. \A b \in S : /\ new(b).undo = {} /\ Row(new(b).to) = b
                   /\ new(b).to.lport = pick[b]
    BY DEF NewFwd, ForwardOf, Row, Apps
<1>4. PICK a \in S : f = new(a) /\ pick[a] /= None
    BY <1>2
<1>5. app'[a] = [A[a] EXCEPT !.status = "pending", !.lport = pick[a]]
    BY <1>1, <1>4
<1>6. app'[a].status = "pending" /\ app'[a].lport = pick[a]
    BY <1>5 DEF AppW
<1> HIDE DEF new
<1>7. Awaited(f)'
    BY <1>3, <1>4, <1>6 DEF Awaited
<1>8. ASSUME NEW g \in fwds' \ F, Row(g.to) = Row(f.to)
      PROVE  g = f
    BY <1>2, <1>3, <1>4, <1>8
<1> QED BY <1>3, <1>4, <1>7, <1>8

(* Rows are started: what is still in hand for them is cooling down. *)
LEMMA HotStart ==
    ASSUME TypeOK, HotInv, cooldown \subseteq cooldown',
           \A c \in cancels' \ cancels : \A t \in c.todo : t.lport \in cooldown',
           NEW A \in [Apps -> AppW], NEW F \in SUBSET fwds, NEW S \in SUBSET Apps,
           StartForwards(A, F, S),
           \A a \in S : \A g \in F : Row(g.to) = a => g.to.lport \in cooldown',
           \A a \in Apps \ S : app[a].status = "pending" =>
               \/ A[a].status = "pending" /\ A[a].lport = app[a].lport
               \/ app[a].lport \in cooldown'
               \/ \A f \in F : ~(Row(f.to) = a /\ f.to.lport = app[a].lport)
    PROVE  HotInv'
<1>1. ASSUME NEW f \in fwds' \ F
      PROVE  Pledged(f)' /\ f.undo = {}
    <2>1. /\ f.undo = {} /\ Row(f.to) \in S /\ Awaited(f)'
          /\ \A g \in fwds' \ F : Row(g.to) = Row(f.to) => g = f
        BY StartForwardsNew
    <2>2. CASE f.to.lport \notin cooldown'
        <3>1. Alone(f)'
            BY <2>1, <2>2 DEF Alone
        <3> QED BY <2>1, <3>1 DEF Pledged
    <2> QED BY <2>1, <2>2 DEF Pledged
<1>2. \A f \in fwds' \ fwds :
          Pledged(f)' /\ \A t \in f.undo : t.lport \in cooldown'
    BY <1>1
<1>3. \A a \in Apps \ S : app'[a] = A[a]
    BY StartForwardsRows
<1>4. ASSUME NEW f \in fwds', f \in fwds, f \notin F
      PROVE  Pledged(f)' /\ \A t \in f.undo : t.lport \in cooldown'
    BY <1>1, <1>4
<1>5. ASSUME NEW f \in F
      PROVE  Pledged(f)' /\ \A t \in f.undo : t.lport \in cooldown'
    <2>1. Row(f.to) \in Apps
        BY RowType DEF TypeOK, Fwds
    <2>2. CASE Awaited(f) /\ Alone(f) /\ f.to.lport \notin cooldown'
        <3>1. Row(f.to) \notin S
            BY <2>2
        <3>2. Awaited(f)'
            BY <1>3, <2>1, <2>2, <3>1 DEF Awaited
        <3>3. ASSUME NEW g \in fwds', Row(g.to) = Row(f.to), g.to.lport = f.to.lport
              PROVE  g = f
            <4>1. CASE g \in F
                BY <2>2, <3>3, <4>1 DEF Alone
            <4>2. CASE g \notin F
                BY <3>1, <3>3, <4>2, StartForwardsNew
            <4> QED BY <4>1, <4>2
        <3> QED BY <3>2, <3>3 DEF Pledged, Alone, HotInv
    <2> QED BY <2>2 DEF HotInv, Pledged
<1>6. \A f \in fwds' : Pledged(f)' /\ \A t \in f.undo : t.lport \in cooldown'
    BY <1>2, <1>4, <1>5
<1>7. \A c \in cancels' : \A t \in c.todo : t.lport \in cooldown'
    BY DEF HotInv
<1> QED BY <1>6, <1>7 DEF HotInv

(* A pass over rows of R of a handler that has cancelled nothing else. *)
LEMMA HotAuto ==
    ASSUME TypeOK, HotInv, UNCHANGED <<cooldown, cancels>>,
           NEW A \in [Apps -> AppW], NEW S \in SUBSET Apps, StartForwards(A, fwds, S),
           \A a \in S : app[a].status /= "pending",
           \A a \in Apps : app[a].status = "pending" =>
               A[a].status = "pending" /\ A[a].lport = app[a].lport,
           \A a \in Apps \ S : A[a].status = "external" => app[a].status = "external"
    PROVE  HotInv' /\ NoneAdopted
<1>1. \A a \in S : \A g \in fwds : Row(g.to) = a => g.to.lport \in cooldown'
    BY DEF HotInv, Pledged, Awaited
<1> DEFINE F == fwds
<1>2. F \in SUBSET fwds /\ StartForwards(A, F, S)
    OBVIOUS
<1>3. \A a \in S : \A g \in F : Row(g.to) = a => g.to.lport \in cooldown'
    BY <1>1
<1> HIDE DEF F
<1>4. HotInv'
    BY <1>2, <1>3, HotStart
<1>5. NoneAdopted
    BY StartForwardsRows DEF NoneAdopted
<1> QED BY <1>4, <1>5

LEMMA HotPassOver ==
    ASSUME TypeOK, HotInv, UNCHANGED <<cooldown, cancels>>,
           NEW R \in SUBSET Apps, AutoForwardPass(app, fwds, R)
    PROVE  HotInv' /\ NoneAdopted
<1> DEFINE S == Wanted(app, R)
<1>1. /\ StartForwards(app, fwds, S) /\ app \in [Apps -> AppW] /\ S \in SUBSET Apps
      /\ \A a \in S : app[a].status /= "pending"
    BY DEF AutoForwardPass, Wanted, TypeOK
<1> HIDE DEF S
<1> QED BY <1>1, HotAuto

(* Rows of S are cancelled and stop. *)
LEMMA HotCancel ==
    ASSUME TypeOK, OwnInv({}), HotInv, UNCHANGED fwds,
           NEW S \in SUBSET Apps, SpawnCancels(Held(app, S)),
           \A a \in Apps \ S : app'[a] = app[a],
           \A a \in S : app'[a] = app[a] \/ app'[a].status = "off"
    PROVE  HotInv' /\ NoneAdopted
<1>1. /\ cooldown \subseteq cooldown'
      /\ \A t \in Held(app, S) : t.lport \in cooldown'
      /\ \A c \in cancels' \ cancels : \A t \in c.todo : t.lport \in cooldown'
    BY CancelsCool
<1>2. ASSUME NEW a \in Apps, app[a].status = "pending", app'[a] /= app[a]
      PROVE  \/ app[a].lport \in cooldown'
             \/ \A f \in fwds : ~(Row(f.to) = a /\ f.to.lport = app[a].lport)
    <2>1. CASE app[a].lport = None
        <3>1. \A f \in fwds : f.to.lport /= None
            BY PortGiven DEF TypeOK, Fwds
        <3> QED BY <2>1, <3>1
    <2>2. CASE app[a].lport /= None
        <3>1. a \in S /\ Claimed(app[a])
            BY <1>2, <2>2 DEF Claimed
        <3>2. \E t \in Held(app, S) : t.lport = app[a].lport
            BY <3>1, HeldPort DEF OwnInv
        <3> QED BY <1>1, <3>2
    <2> QED BY <2>1, <2>2
<1>3. HotInv'
    BY <1>1, <1>2, HotPass
<1> QED BY <1>3 DEF NoneAdopted

LEMMA FwdRequestHot ==
    ASSUME TypeOK, HotInv, NEW f \in fwds, CancelOld(f) \/ Bind(f)
    PROVE  HotInv' /\ NoneAdopted
<1>1. UNCHANGED <<app, cooldown, cancels>>
    BY DEF CancelOld, Bind
<1>2. PICK d : /\ fwds' = (fwds \ {f}) \cup {d}
               /\ d.to = f.to /\ d.undo \subseteq f.undo
    <2>1. f \in Fwds
        BY DEF TypeOK
    <2>2. CASE CancelOld(f)
        <3> DEFINE d == [f EXCEPT !.undo = {}]
        <3>1. fwds' = (fwds \ {f}) \cup {d}
            BY <2>2 DEF CancelOld
        <3>2. d.to = f.to /\ d.undo \subseteq f.undo
            BY <2>1 DEF Fwds
        <3> QED BY <3>1, <3>2
    <2>3. CASE Bind(f)
        <3>1. PICK res \in {"ok", "bind", "fail"} :
                 fwds' = (fwds \ {f}) \cup {[f EXCEPT !.res = res]}
            BY <2>3 DEF Bind
        <3> DEFINE d == [f EXCEPT !.res = res]
        <3>2. d.to = f.to /\ d.undo \subseteq f.undo
            BY <2>1 DEF Fwds
        <3> QED BY <3>1, <3>2
    <2> QED BY <2>2, <2>3
<1>3. ASSUME NEW g \in fwds'
      PROVE  Pledged(g)' /\ \A t \in g.undo : t.lport \in cooldown'
    <2>1. PICK e \in fwds : /\ g.to = e.to /\ g.undo \subseteq e.undo
                            /\ e = f <=> g = d
                            /\ e /= f => e = g
        BY <1>2
    <2>2. CASE Awaited(e) /\ Alone(e)
        <3>1. Awaited(g)'
            BY <1>1, <2>1, <2>2 DEF Awaited
        <3>2. ASSUME NEW k \in fwds', Row(k.to) = Row(g.to), k.to.lport = g.to.lport
              PROVE  k = g
            <4>1. CASE k = d
                BY <1>2, <2>1, <2>2, <3>2, <4>1 DEF Alone
            <4>2. CASE k \in fwds \ {f}
                BY <2>1, <2>2, <3>2, <4>2 DEF Alone
            <4> QED BY <1>2, <4>1, <4>2
        <3> QED BY <1>1, <2>1, <3>1, <3>2 DEF Pledged, Alone, HotInv
    <2>3. CASE e.to.lport \in cooldown
        BY <1>1, <2>1, <2>3 DEF Pledged, HotInv
    <2> QED BY <2>2, <2>3 DEF HotInv, Pledged
<1>4. HotInv'
    BY <1>1, <1>3 DEF HotInv
<1> QED BY <1>1, <1>4 DEF NoneAdopted

LEMMA FwdDoneHot ==
    ASSUME TypeOK, OwnInv({}), HotInv, NEW f \in fwds, FwdDone(f)
    PROVE  HotInv' /\ NoneAdopted
<1> DEFINE a == Row(f.to)
<1>0. /\ f.to \in Forwards /\ a \in Apps /\ app[a] \in AppW
      /\ Mine(f.to) /\ Known(f.to.host)
    <2>1. f.to \in Forwards /\ a \in Apps
        BY RowType DEF TypeOK, Fwds
    <2>2. Mine(f.to)
        BY DEF Busy, InHand, OwnInv, AllMine
    <2> QED BY <2>1, <2>2 DEF Mine, Ready, Known, Vias, TypeOK
<1>1. ~FwdIgnored(f)
    BY <1>0 DEF FwdIgnored
(* What else is in hand for a row that waits for f is cooling down. *)
<1>2. ASSUME Awaited(f), NEW g \in fwds \ {f}, Row(g.to) = a
      PROVE  g.to.lport \in cooldown
    BY <1>2 DEF HotInv, Pledged, Awaited, Alone
<1>3. Awaited(f) => app[a].status = "pending" /\ app[a].lport = f.to.lport
    BY DEF Awaited
<1> HIDE DEF a
<1>4. CASE FwdStale(f)
    <2>1. fwds' = fwds \ {f} /\ SpawnCancels(Stray(f)) /\ UNCHANGED app
        BY <1>4 DEF FwdStale
    <2> QED BY <2>1, CancelsCool, HotPass DEF NoneAdopted
<1>5. CASE FwdUp(f) \/ FwdError(f)
    <2>1. /\ fwds' = fwds \ {f} /\ UNCHANGED <<cooldown, cancels>> /\ Awaited(f)
        BY <1>5 DEF FwdUp, FwdError
    <2>2. /\ \A b \in Apps \ {a} : app'[b] = app[b]
          /\ app'[a].status /= "external"
        BY <1>0, <1>5 DEF FwdUp, FwdError, AppW, TypeOK, a
    <2>3. \/ app[a].lport \in cooldown'
          \/ \A g \in fwds \cap fwds' : ~(Row(g.to) = a /\ g.to.lport = app[a].lport)
        BY <1>2, <2>1
    <2>4. \A c \in cancels' \ cancels : \A t \in c.todo : t.lport \in cooldown'
        BY <2>1
    <2>5. HotInv'
        BY <2>1, <2>2, <2>3, <2>4, HotPass
    <2> QED BY <2>2, <2>5 DEF NoneAdopted
<1>6. CASE FwdRetry(f)
    <2> DEFINE A == [app EXCEPT ![a] = [@ EXCEPT !.status = "off",
                        !.lport = None, !.retried = TRUE]]
               S == Wanted(A, AppsOf(f.to.host))
               F == fwds \ {f}
    <2>1. /\ A \in [Apps -> AppW] /\ A[a].status = "off"
          /\ \A b \in Apps : b /= a => A[b] = app[b]
        BY <1>0 DEF TypeOK, AppW, Statuses, Ports
    <2>2. /\ StartForwards(A, F, S) /\ F \in SUBSET fwds
          /\ S \in SUBSET Apps /\ \A b \in S : A[b].status = "off"
          /\ Awaited(f) /\ UNCHANGED <<cooldown, cancels>>
        BY <1>6 DEF FwdRetry, AutoForwardPass, Wanted, AppsOf, a
    <2>3. \A g \in F : Row(g.to) = a => g.to.lport \in cooldown'
        BY <1>2, <2>2
    <2> HIDE DEF A, S, F
    <2>4. ASSUME NEW b \in S, NEW g \in F, Row(g.to) = b
          PROVE  g.to.lport \in cooldown'
        <3>1. CASE b /= a
            <4>1. app[b].status = "off"
                BY <2>1, <2>2, <3>1
            <4> QED BY <2>2, <2>4, <4>1 DEF HotInv, Pledged, Awaited
        <3> QED BY <2>3, <2>4, <3>1
    <2>5. \A b \in Apps \ S : app[b].status = "pending" =>
               \/ A[b].status = "pending" /\ A[b].lport = app[b].lport
               \/ app[b].lport \in cooldown'
               \/ \A g \in F : ~(Row(g.to) = b /\ g.to.lport = app[b].lport)
        BY <2>1, <2>3
    <2>6. \A c \in cancels' \ cancels : \A t \in c.todo : t.lport \in cooldown'
        BY <2>2
    <2>7. HotInv'
        BY <2>1, <2>2, <2>4, <2>5, <2>6, HotStart
    <2>8. NoneAdopted
        BY <2>1, <2>2, StartForwardsRows DEF NoneAdopted
    <2> QED BY <2>7, <2>8
<1> QED BY <1>1, <1>4, <1>5, <1>6 DEF FwdDone

LEMMA CancelHot ==
    ASSUME TypeOK, TypeOK', HotInv, NEW c \in cancels,
           CancelMany(c) \/ CancelEach(c) \/ CancelCheck(c) \/ CancelFailed(c)
    PROVE  HotInv' /\ NoneAdopted
<1>0. c \in Cancels
    BY DEF TypeOK
<1>1. UNCHANGED <<cooldown, fwds>>
    BY DEF CancelMany, CancelEach, CancelCheck, CancelFailed
<1>2. PICK d : ReplaceCancel(c, d) /\ d.todo \subseteq c.todo
    <2>1. CASE CancelMany(c)
        <3>1. PICK res : ReplaceCancel(c, [c EXCEPT !.pc = "each",
                                     !.todo = IF res = "ok" THEN {} ELSE @])
            BY <2>1 DEF CancelMany
        <3> DEFINE d == [c EXCEPT !.pc = "each", !.todo = IF res = "ok" THEN {} ELSE @]
        <3>2. d.todo \subseteq c.todo
            BY <1>0 DEF Cancels
        <3> QED BY <3>1, <3>2
    <2>2. CASE CancelEach(c)
        <3>1. PICK t, res : ReplaceCancel(c,
                  IF res = "ok" THEN [c EXCEPT !.todo = @ \ {t}]
                  ELSE [c EXCEPT !.pc = "check"])
            BY <2>2 DEF CancelEach
        <3> DEFINE d == IF res = "ok" THEN [c EXCEPT !.todo = @ \ {t}]
                        ELSE [c EXCEPT !.pc = "check"]
        <3>2. d.todo \subseteq c.todo
            BY <1>0 DEF Cancels
        <3> QED BY <3>1, <3>2
    <2>3. CASE CancelCheck(c)
        <3>1. PICK t :
                ReplaceCancel(c, [c EXCEPT !.pc = "each", !.todo = @ \ {t},
                                     !.sent = IF IsFree(t.lport) THEN @ ELSE @ \cup {t}])
            BY <2>3 DEF CancelCheck
        <3> DEFINE d == [c EXCEPT !.pc = "each", !.todo = @ \ {t},
                                     !.sent = IF IsFree(t.lport) THEN @ ELSE @ \cup {t}]
        <3>2. d.todo \subseteq c.todo
            BY <1>0 DEF Cancels
        <3> QED BY <3>1, <3>2
    <2>4. CASE CancelFailed(c)
        <3>1. PICK t \in c.sent : ReplaceCancel(c, [c EXCEPT !.sent = @ \ {t}])
            BY <2>4 DEF CancelFailed
        <3> DEFINE d == [c EXCEPT !.sent = @ \ {t}]
        <3>2. d.todo \subseteq c.todo
            BY <1>0 DEF Cancels
        <3> QED BY <3>1, <3>2
    <2> QED BY <2>1, <2>2, <2>3, <2>4
<1>3. \A e \in cancels' \ cancels : e.todo \subseteq c.todo
    BY <1>2 DEF ReplaceCancel
<1>4. ASSUME NEW b \in Apps
      PROVE  app'[b] = app[b] \/ (app[b].status = "off" /\ app'[b].status = "active")
    <2>1. CASE CancelFailed(c)
        <3>1. PICK t \in c.sent :
                 app' = [app EXCEPT ![Row(t)].status =
                    IF @ = "off" /\ app[Row(t)].lport = t.lport THEN "active" ELSE @]
            BY <2>1 DEF CancelFailed
        <3>2. CASE b = Row(t) /\ app[b].status = "off" /\ app[b].lport = t.lport
            BY <3>1, <3>2 DEF TypeOK, AppW
        <3>3. CASE b = Row(t) /\ ~(app[b].status = "off" /\ app[b].lport = t.lport)
            <4>1. app'[b] = [app[b] EXCEPT !.status = app[b].status]
                BY <3>1, <3>3 DEF TypeOK
            <4> QED BY <4>1 DEF TypeOK, AppW
        <3>4. CASE b /= Row(t)
            BY <3>1, <3>4 DEF TypeOK
        <3> QED BY <3>2, <3>3, <3>4
    <2>2. CASE ~CancelFailed(c)
        <3>1. app' = app
            BY <2>2 DEF CancelMany, CancelEach, CancelCheck
        <3> QED BY <3>1
    <2> QED BY <2>1, <2>2
<1> QED BY <1>1, <1>3, <1>4, HotThread

LEMMA TickRows ==
    ASSUME Quiet, TypeOK, Stands, AnyTick
    PROVE  UNCHANGED <<app, cooldown, fwds, cancels>>
<1>1. PICK claims, due, retry : Tick(Hosts, claims, due, retry)
    BY DEF AnyTick, Discovered, Stands, Quiet
<1>2. app' = [a \in Apps |-> IF a[1] \in {h \in Hosts : Known(h)} \ Hosts
                             THEN NoApp ELSE app[a]]
    BY <1>1 DEF Tick
<1>3. app' = [a \in Apps |-> app[a]]
    BY <1>2
<1> QED BY <1>1, <1>3 DEF Tick, TypeOK

(* What a scan adopts is held by another program. *)
LEMMA ScannedAdopts ==
    ASSUME TypeOK, OwnInv({}), HotInv, NEW a \in Apps, NEW t \in Tiers,
           app[a].status /= "external", Scanned(a, t).status = "external"
    PROVE  Scanned(a, t).lport \in foreign
<1>1. app[a] \in AppW /\ ext[a] \in Ports
    BY DEF TypeOK
<1>2. Scanned(a, t).lport = ExtValid(a) /\ ExtValid(a) /= None
    <2>1. CASE app[a].status = "absent"
        BY <1>1, <2>1 DEF Scanned, AppW, NoApp
    <2>2. CASE app[a].status \in {"off", "error"}
        BY <1>1, <2>2 DEF Scanned, AppW
    <2>3. CASE app[a].status \in {"pending", "active"}
        BY <1>1, <2>3 DEF Scanned, AppW
    <2> QED BY <1>1, <2>1, <2>2, <2>3 DEF AppW, Statuses
<1>3. /\ ExtValid(a) \notin Used(app) \cup cooldown
      /\ ~IsFree(ExtValid(a))
    BY <1>2 DEF ExtValid
<1> QED BY <1>2, <1>3, PortTaken DEF IsFree

LEMMA ScanDoneHot ==
    ASSUME TypeOK, TierAssumption, OwnInv({}), HotInv, NEW s \in scans, ScanDone(s)
    PROVE  HotInv' /\ Adopted
<1> DEFINE h == s.host
           V == {a \in AppsOf(h) : a[2] \notin s.ports}
<1>0. /\ h \in Hosts /\ s.ports \in SUBSET RPorts
    BY DEF TypeOK, Scans
<1>1. PICK tier \in [s.ports -> Tiers] :
         AutoForwardPass(Rescanned(h, s.ports, tier), fwds, AppsOf(h))
    BY DEF ScanDone
<1> DEFINE A == Rescanned(h, s.ports, tier)
           S == Wanted(A, AppsOf(h))
<1>2. A \in [Apps -> AppW]
    BY <1>0, <1>1, ScannedType
<1>3. V \in SUBSET Apps /\ SpawnCancels(Held(app, V))
    BY DEF AppsOf, ScanDone
<1>4. ASSUME NEW a \in Apps
      PROVE  /\ app[a].status = "pending" /\ a \notin V =>
                    A[a].status = "pending" /\ A[a].lport = app[a].lport
             /\ a \in V => A[a].status = "absent"
             /\ app[a].status /= "external" /\ A[a].status = "external" =>
                    A[a].lport \in foreign
             /\ A[a].status = "off" => app[a].status /= "pending" \/ a \in V
    <2>1. CASE a[1] /= h
        <3>1. A[a] = app[a] /\ a \notin V
            BY <2>1 DEF Rescanned, AppsOf
        <3> QED BY <3>1
    <2>2. CASE a[1] = h /\ a[2] \notin s.ports
        <3>1. A[a] = NoApp /\ a \in V
            BY <2>2 DEF Rescanned, AppsOf
        <3> QED BY <3>1 DEF NoApp
    <2>3. CASE a[1] = h /\ a[2] \in s.ports
        <3>1. /\ A[a] = Scanned(a, tier[a[2]]) /\ tier[a[2]] \in Tiers
              /\ a \notin V
            BY <1>1, <2>3 DEF Rescanned
        <3>2. app[a].status = "pending" =>
                  Scanned(a, tier[a[2]]).status = "pending"
                      /\ Scanned(a, tier[a[2]]).lport = app[a].lport
            BY <3>1 DEF Scanned, TypeOK, AppW
        <3> QED BY <3>1, <3>2, ScannedAdopts
    <2> QED BY <2>1, <2>2, <2>3
<1>5. /\ StartForwards(A, fwds, S) /\ S \in SUBSET Apps
      /\ \A a \in S : A[a].status = "off"
    BY <1>1 DEF AutoForwardPass, Wanted, AppsOf
<1>6. foreign' = foreign
    BY DEF ScanDone, netVars
<1>7. /\ cooldown \subseteq cooldown'
      /\ \A t \in Held(app, V) : t.lport \in cooldown'
      /\ \A c \in cancels' \ cancels : \A t \in c.todo : t.lport \in cooldown'
    BY <1>3, CancelsCool
<1> HIDE DEF A, S, V
<1>8. ASSUME NEW a \in S, NEW g \in fwds, Row(g.to) = a
      PROVE  g.to.lport \in cooldown'
    <2>1. app[a].status /= "pending"
        BY <1>4, <1>5
    <2> QED BY <1>7, <1>8, <2>1 DEF HotInv, Pledged, Awaited
<1>9. ASSUME NEW a \in Apps, app[a].status = "pending", a \in V
      PROVE  \/ app[a].lport \in cooldown'
             \/ \A f \in fwds : ~(Row(f.to) = a /\ f.to.lport = app[a].lport)
    <2>1. CASE app[a].lport = None
        <3>1. \A f \in fwds : f.to.lport /= None
            BY PortGiven DEF TypeOK, Fwds
        <3> QED BY <2>1, <3>1
    <2>2. CASE app[a].lport /= None
        <3>1. \E t \in Held(app, V) : t.lport = app[a].lport
            BY <1>3, <1>9, <2>2, HeldPort DEF Claimed, OwnInv
        <3> QED BY <1>7, <3>1
    <2> QED BY <2>1, <2>2
<1> DEFINE F == fwds
<1>10. F \in SUBSET fwds /\ StartForwards(A, F, S) /\ F = fwds
    BY <1>5
<1> HIDE DEF F
<1>11. \A a \in Apps \ S : app[a].status = "pending" =>
           \/ A[a].status = "pending" /\ A[a].lport = app[a].lport
           \/ app[a].lport \in cooldown'
           \/ \A f \in F : ~(Row(f.to) = a /\ f.to.lport = app[a].lport)
    BY <1>4, <1>9, <1>10
<1>12. HotInv'
    BY <1>2, <1>5, <1>7, <1>8, <1>10, <1>11, HotStart
<1>13. Adopted
    BY <1>2, <1>4, <1>5, <1>6, StartForwardsRows DEF Adopted
<1> QED BY <1>12, <1>13

LEMMA StopHot ==
    ASSUME TypeOK, OwnInv({}), HotInv, NEW S \in SUBSET Apps, Stop(S), UNCHANGED fwds
    PROVE  HotInv' /\ NoneAdopted
<1>1. \A a \in Apps \ S : app'[a] = app[a]
    BY DEF Stop
<1>2. \A a \in S : app'[a] = app[a] \/ app'[a].status = "off"
    BY DEF Stop, TypeOK, AppW
<1>3. SpawnCancels(Held(app, S))
    BY DEF Stop
<1> QED BY <1>1, <1>2, <1>3, HotCancel

LEMMA SwitchHot ==
    ASSUME TypeOK, OwnInv({}), HotInv, ToggleAuto \/ \E h \in Hosts : ToggleHost(h)
    PROVE  HotInv' /\ NoneAdopted
<1>1. CASE ToggleAuto
    BY <1>1, StopHot, HotPassOver DEF ToggleAuto
<1>2. ASSUME NEW h \in Hosts, ToggleHost(h)
      PROVE  HotInv' /\ NoneAdopted
    <2>1. AppsOf(h) \in SUBSET Apps
        BY DEF AppsOf
    <2> QED BY <1>2, <2>1, StopHot, HotPassOver DEF ToggleHost
<1> QED BY <1>1, <1>2

LEMMA AssignHot ==
    ASSUME TypeOK, OwnInv({}), HotInv, NEW a \in Apps, NEW lp \in LPorts, Assign(a, lp)
    PROVE  HotInv' /\ NoneAdopted
<1>0. app[a] \in AppW /\ Promote(app[a]) \in AppW /\ app \in [Apps -> AppW]
    BY PromotedType DEF TypeOK
<1>1. CASE AssignSame(a, lp)
    <2>1. UNCHANGED <<cooldown, fwds, cancels>>
        BY <1>1 DEF AssignSame, threads
    <2>2. \A b \in Apps : app'[b].status = app[b].status /\ app'[b].lport = app[b].lport
        BY <1>0, <1>1 DEF AssignSame, AppW
    <2> QED BY <2>1, <2>2, HotPass DEF NoneAdopted
<1>2. CASE AssignOther(a, lp)
    <2>1. /\ UNCHANGED cancels /\ lp /= None
          /\ cooldown' = cooldown \cup {t.lport : t \in Held(app, {a})}
          /\ app' = [app EXCEPT ![a] = [Promote(app[a]) EXCEPT !.status = "pending",
               !.lport = lp, !.pinned = TRUE, !.muted = FALSE, !.retried = FALSE]]
        BY <1>2, PortsAssumption DEF AssignOther, None
    <2>2. PICK f : /\ fwds' = fwds \cup {f} /\ f.undo = Held(app, {a})
                   /\ Row(f.to) = a /\ f.to.lport = lp
        <3> DEFINE f == NewFwd(fwds, a, lp, Held(app, {a}), TRUE)
        <3>1. f.undo = Held(app, {a}) /\ Row(f.to) = a /\ f.to.lport = lp
            BY DEF NewFwd, ForwardOf, Row, Apps
        <3>2. fwds' = fwds \cup {f}
            BY <1>2 DEF AssignOther
        <3> QED BY <3>1, <3>2
    <2>3. /\ \A b \in Apps : b /= a => app'[b] = app[b]
          /\ app'[a].status = "pending" /\ app'[a].lport = lp
        BY <1>0, <2>1 DEF AppW
    <2>4. Claimed(app[a]) => app[a].lport \in cooldown'
        BY <2>1, HeldPort DEF OwnInv
    <2>5. ASSUME NEW g \in fwds, Row(g.to) = a
          PROVE  g.to.lport \in cooldown'
        <3>1. g.to.lport /= None
            BY PortGiven DEF TypeOK, Fwds
        <3>2. CASE Awaited(g)
            BY <2>4, <2>5, <3>1, <3>2 DEF Awaited, Claimed
        <3> QED BY <2>1, <3>2 DEF HotInv, Pledged
    <2>6. Pledged(f)'
        <3>1. Awaited(f)'
            BY <2>2, <2>3 DEF Awaited
        <3>2. f.to.lport \notin cooldown' => Alone(f)'
            BY <2>1, <2>2, <2>5 DEF Alone
        <3> QED BY <3>1, <3>2 DEF Pledged
    <2>7. \A g \in fwds' \ fwds :
              Pledged(g)' /\ \A t \in g.undo : t.lport \in cooldown'
        BY <2>1, <2>2, <2>6
    <2>8. \A b \in Apps : app[b].status = "pending" =>
               \/ app'[b].status = "pending" /\ app'[b].lport = app[b].lport
               \/ app[b].lport \in cooldown'
               \/ \A g \in fwds \cap fwds' :
                      ~(Row(g.to) = b /\ g.to.lport = app[b].lport)
        BY <2>3, <2>5
    <2>9. HotInv'
        BY <2>1, <2>7, <2>8, HotPass
    <2> QED BY <2>3, <2>9 DEF NoneAdopted
<1> QED BY <1>1, <1>2 DEF Assign

LEMMA ToggleHot ==
    ASSUME TypeOK, OwnInv({}), HotInv, NEW a \in Apps, Toggle(a)
    PROVE  HotInv' /\ NoneAdopted
<1>0. app[a] \in AppW /\ Promote(app[a]) \in AppW /\ app \in [Apps -> AppW]
    BY PromotedType DEF TypeOK
<1>1. CASE ToggleOff(a)
    <2>1. /\ SpawnCancels(Held(app, {a})) /\ UNCHANGED fwds
          /\ app'[a].status = "off"
          /\ \A b \in Apps \ {a} : app'[b] = app[b]
        BY <1>0, <1>1 DEF ToggleOff, AppW
    <2> QED BY <2>1, HotCancel
<1>2. CASE ToggleOn(a)
    <2> DEFINE A == [app EXCEPT ![a] = [Promote(app[a]) EXCEPT !.status = "off",
                        !.muted = FALSE, !.retried = FALSE]]
    <2>1. /\ StartForwards(A, fwds, {a}) /\ UNCHANGED <<cooldown, cancels>>
          /\ app[a].status \in {"off", "error"}
        BY <1>2 DEF ToggleOn
    <2>2. /\ A \in [Apps -> AppW] /\ \A b \in Apps : b /= a => A[b] = app[b]
        BY <1>0 DEF AppW, Statuses
    <2> HIDE DEF A
    <2>3. /\ \A b \in {a} : app[b].status /= "pending"
          /\ \A b \in Apps : app[b].status = "pending" =>
                 A[b].status = "pending" /\ A[b].lport = app[b].lport
          /\ \A b \in Apps \ {a} : A[b].status = "external" => app[b].status = "external"
        BY <2>1, <2>2
    <2> QED BY <2>1, <2>2, <2>3, HotAuto
<1> QED BY <1>1, <1>2 DEF Toggle

LEMMA HideHot ==
    ASSUME TypeOK, OwnInv({}), HotInv, NEW a \in Apps, ToggleHidden(a)
    PROVE  HotInv' /\ NoneAdopted
<1>0. app[a] \in AppW /\ app \in [Apps -> AppW]
    BY DEF TypeOK
<1>1. CASE Hide(a)
    <2>1. /\ SpawnCancels(Held(app, {a})) /\ UNCHANGED fwds
          /\ app' = [app EXCEPT ![a] = [app[a] EXCEPT !.status = "off",
                                                      !.override = "bg"]]
        BY <1>1 DEF Hide
    <2>2. /\ app'[a].status = "off" /\ \A b \in Apps \ {a} : app'[b] = app[b]
        BY <1>0, <2>1 DEF AppW
    <2> QED BY <2>1, <2>2, HotCancel
<1>2. CASE Unhide(a)
    <2> DEFINE A == [app EXCEPT ![a] = [app[a] EXCEPT !.override = "app",
                        !.muted = FALSE,
                        !.status = IF @ = "error" THEN "off" ELSE @]]
               S == Wanted(A, AppsOf(a[1]))
    <2>1. /\ StartForwards(A, fwds, S) /\ S \in SUBSET Apps
          /\ \A b \in S : A[b].status = "off"
          /\ UNCHANGED <<cooldown, cancels>>
          /\ app[a].status \in {"off", "pending", "active", "error"}
        BY <1>2 DEF Unhide, AutoForwardPass, Wanted, AppsOf
    <2>2. [app[a] EXCEPT !.override = "app", !.muted = FALSE,
              !.status = IF @ = "error" THEN "off" ELSE @] \in AppW
        BY <1>0 DEF AppW, Statuses, Overrides
    <2>3. A \in [Apps -> AppW] /\ \A b \in Apps : b /= a => A[b] = app[b]
        BY <1>0, <2>2
    <2>4. /\ A[a].lport = app[a].lport
          /\ A[a].status = IF app[a].status = "error" THEN "off" ELSE app[a].status
        BY <1>0 DEF AppW
    <2> HIDE DEF A, S
    <2>5. /\ \A b \in S : app[b].status /= "pending"
          /\ \A b \in Apps : app[b].status = "pending" =>
                 A[b].status = "pending" /\ A[b].lport = app[b].lport
          /\ \A b \in Apps \ S : A[b].status = "external" => app[b].status = "external"
        BY <2>1, <2>3, <2>4
    <2> QED BY <2>1, <2>3, <2>5, HotAuto
<1> QED BY <1>1, <1>2 DEF ToggleHidden

LEMMA CooldownHot ==
    ASSUME Outlasted, TypeOK, HotInv, CooldownElapse
    PROVE  HotInv' /\ NoneAdopted
<1>1. PICK p \in cooldown :
         /\ \A c \in cancels : \A t \in c.todo : t.lport /= p
         /\ \A f \in fwds : \A t \in {f.to} \cup f.undo : t.lport /= p
         /\ cooldown' = cooldown \ {p}
    BY DEF CooldownElapse, Outlasted
<1>2. UNCHANGED <<app, fwds, cancels>>
    BY DEF CooldownElapse, threads
<1>3. \A f \in fwds : Awaited(f)' <=> Awaited(f)
    BY <1>2 DEF Awaited
<1>4. \A f \in fwds : Pledged(f) => Pledged(f)'
    BY <1>1, <1>2, <1>3 DEF Pledged, Alone
<1>5. HotInv'
    BY <1>1, <1>2, <1>4 DEF HotInv
<1> QED BY <1>2, <1>5 DEF NoneAdopted

LEMMA HotStep ==
    ASSUME Quiet, Outlasted, TierAssumption, TypeOK, TypeOK', OwnInv({}), HotInv,
           [Next]_vars
    PROVE  HotInv' /\ Adopted
<1>0. NoneAdopted => Adopted
    BY DEF NoneAdopted, Adopted
<1>1. CASE AnyTick
    BY <1>0, <1>1, TickRows, HotSame DEF OwnInv
<1>2. CASE Command
    <2>1. CASE Refresh \/ \E a \in Apps : SetComment(a)
        <3>1. UNCHANGED <<app, cooldown, fwds, cancels>>
            BY <2>1 DEF Refresh, SetComment, threads
        <3> QED BY <1>0, <3>1, HotSame
    <2> QED BY <1>0, <1>2, <2>1, SwitchHot, AssignHot, ToggleHot, HideHot DEF Command
<1>3. ASSUME NEW h \in Hosts, ConnectStep(h)
      PROVE  HotInv' /\ Adopted
    <2>1. UNCHANGED <<app, cooldown, fwds, cancels>>
        BY <1>3 DEF ConnectStep, Connect, MasterDone
    <2> QED BY <1>0, <2>1, HotSame
<1>4. ASSUME NEW h \in Hosts, ScanStep(h)
      PROVE  HotInv' /\ Adopted
    <2>1. PICK s \in scans : Scan(s) \/ ScanFailed(s) \/ ScanDone(s) \/ ScanIgnored(s)
        BY <1>4 DEF ScanStep, OfHost
    <2>2. ~ScanFailed(s)
        BY DEF ScanFailed, OwnInv, Stands
    <2>3. CASE Scan(s) \/ ScanIgnored(s)
        <3>1. UNCHANGED <<app, cooldown, fwds, cancels>>
            BY <2>3 DEF Scan, ScanIgnored
        <3> QED BY <1>0, <3>1, HotSame
    <2> QED BY <2>1, <2>2, <2>3, ScanDoneHot
<1>5. ASSUME NEW h \in Hosts, CancelStep(h)
      PROVE  HotInv' /\ Adopted
    BY <1>0, <1>5, CancelHot DEF CancelStep, OfHost
<1>6. \A h \in Hosts : ~TeardownStep(h)
    BY DEF TeardownStep, OfHost, OwnInv, Stands
<1>7. ASSUME NEW a \in Apps, FwdStep(a)
      PROVE  HotInv' /\ Adopted
    BY <1>0, <1>7, FwdRequestHot, FwdDoneHot DEF FwdStep, OfRow
<1>8. CASE CooldownElapse
    BY <1>0, <1>8, CooldownHot
<1>9. CASE Environment \/ UNCHANGED vars
    <2>1. UNCHANGED <<app, cooldown, fwds, cancels>>
        BY <1>9 DEF Environment, vars, threads
    <2> QED BY <1>0, <2>1, HotSame
<1> QED BY <1>1, <1>2, <1>3, <1>4, <1>5, <1>6, <1>7, <1>8, <1>9 DEF Next

(* While nothing fails and cancels end within their cooldown, no scan ever
   takes a forward of ours for one of the user's sessions, whatever commands,
   results and scans interleave and whichever row the forward belonged to: the
   port it adopts is held by another program (worker.rs:432-450, 559, 786). *)
THEOREM OursIsNotAdopted == Quiet /\ Outlasted => (Spec => NoSelfAdoption)
<1>1. Init => OwnInv({}) /\ HotInv
    BY OwnStart DEF Init, HotInv
<1>2. Quiet /\ TypeOK /\ TypeOK' /\ OwnInv({}) /\ [Next]_vars => OwnInv({})'
    BY OwnStep, TierAssumption DEF Keeps
<1>3. Quiet /\ Outlasted /\ TypeOK /\ TypeOK' /\ OwnInv({}) /\ HotInv /\ [Next]_vars
          => HotInv' /\ Adopted
    BY HotStep, TierAssumption
<1>4. Quiet /\ Outlasted => (Quiet /\ Outlasted)'
    BY DEF Quiet, Outlasted
<1>5. Quiet /\ Outlasted => [](Quiet /\ Outlasted)
    BY <1>4, PTL
<1>6. Adopted => \A a \in Apps :
          app[a].status /= "external" /\ app'[a].status = "external" =>
             app'[a].lport \in foreign
    BY DEF Adopted
<1> QED BY <1>1, <1>2, <1>3, <1>5, <1>6, TypeCorrect, PTL DEF Spec, NoSelfAdoption
=============================================================================
