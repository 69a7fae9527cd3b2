---------------------------- MODULE ShutdownProofs ----------------------------
(***************************************************************************)
(* Proofs, for every value of the constants, about the life of the process *)
(* in Shutdown: its types, what a quit leaves behind while nothing fails,  *)
(* and what becomes of the user's choices.  They rest on what the proofs   *)
(* about the worker show of one step of it, whatever run it belongs to.    *)
(***************************************************************************)
EXTENDS Shutdown, OwnershipProofs

(* The kinds of steps there are: the worker's own and what goes on without
   it, the moves between phases, and nothing. *)
Goes == [Next]_vars /\ UNCHANGED runVars

LEMMA GoOnIsNext ==
    ASSUME TypeOK, GoOn
    PROVE  Next
<1>1. CASE Environment
    BY <1>1 DEF Next
<1>2. CASE \E c \in connects : Connect(c)
    BY <1>2 DEF Next, ConnectStep, OfHost, TypeOK, Connects
<1>3. CASE \E s \in scans : Scan(s)
    BY <1>3 DEF Next, ScanStep, OfHost, TypeOK, Scans
<1>4. ASSUME NEW f \in fwds, CancelOld(f) \/ Bind(f)
      PROVE  Next
    <2>1. Row(f.to) \in Apps
        BY RowType DEF TypeOK, Fwds
    <2> QED BY <1>4, <2>1 DEF Next, FwdStep, OfRow
<1>5. CASE \E c \in cancels : CancelMany(c) \/ CancelEach(c) \/ CancelCheck(c)
    BY <1>5 DEF Next, CancelStep, OfHost, TypeOK, Cancels
<1>6. CASE \E h \in Hosts : TeardownStep(h)
    BY <1>6 DEF Next
<1> QED BY <1>1, <1>2, <1>3, <1>4, <1>5, <1>6 DEF GoOn, ThreadStep

LEMMA LifeSteps ==
    ASSUME TypeOK, [LifeNext]_lifeVars
    PROVE  Goes \/ SendQuit \/ Cleanup \/ Exit \/ Crash \/ Restart
<1>1. CASE GoOn
    BY <1>1, GoOnIsNext DEF GoOn, Goes
<1>2. CASE Work
    BY <1>2 DEF Work, Goes
<1>3. CASE UNCHANGED lifeVars
    BY <1>3 DEF lifeVars, Goes
<1> QED BY <1>1, <1>2, <1>3 DEF LifeNext

----------------------------------------------------------------------------
(* Types.                                                                  *)

LEMMA CleanupOfType ==
    ASSUME TypeOK
    PROVE  CleanupOf \subseteq [host : Hosts, via : Vias, todo : SUBSET Forwards]
<1> SUFFICES ASSUME NEW h \in Hosts, NEW d \in TeardownOf(h)
             PROVE  d \in [host : Hosts, via : Vias, todo : SUBSET Forwards]
    BY DEF CleanupOf
<1>1. Held(app, AppsOf(h)) \subseteq Forwards
    BY HeldType DEF AppsOf
<1> QED BY <1>1 DEF TeardownOf, Ready

LEMMA NothingType == NoHost \in HostW /\ NoApp \in AppW /\ None \in Ports
BY DEF NoHost, NoApp, HostW, AppW, Masters, Statuses, Ports, Overrides, Tiers

LEMMA LifeTypeStep ==
    ASSUME TypeOK, LifeTypeOK, [LifeNext]_lifeVars,
           TierAssumption, SharedAssumption, ClaimsAssumption
    PROVE  (TypeOK /\ LifeTypeOK)'
<1>1. TypeOK'
    <2>1. CASE Goes
        BY <2>1, TypeStep DEF Goes
    <2>2. CASE SendQuit
        BY <2>2 DEF SendQuit, vars, netVars, threads, TypeOK, NetTypeOK
    <2>3. CASE Cleanup
        <3>1. teardowns' \subseteq Teardowns
            BY <2>3, CleanupOfType, SpawnTeardownsType DEF Cleanup
        <3> QED BY <2>3, <3>1, NothingType DEF Cleanup, netVars, TypeOK, NetTypeOK
    <2>4. CASE Exit \/ Crash
        BY <2>4, NothingType DEF Exit, Crash, End, netVars, TypeOK, NetTypeOK
    <2>5. CASE Restart
        BY <2>5 DEF Restart, Load, netVars, threads, TypeOK, NetTypeOK
    <2> QED BY <2>1, <2>2, <2>3, <2>4, <2>5, LifeSteps
<1>2. phase' \in Phases
    <2>1. CASE Goes
        BY <2>1 DEF Goes, runVars, LifeTypeOK
    <2> QED BY <2>1, LifeSteps DEF SendQuit, Cleanup, Exit, Crash, Restart, Phases
<1>3. joined' \subseteq Ids \X Hosts
    <2>1. CASE Goes
        BY <2>1 DEF Goes, runVars, LifeTypeOK
    <2>2. CASE Cleanup
        BY <1>1, <2>2 DEF Cleanup, TypeOK, Teardowns
    <2> QED BY <2>1, <2>2, LifeSteps
            DEF SendQuit, Exit, Crash, End, Restart, LifeTypeOK
<1>4. lateFwds' \subseteq Forwards
    <2>1. CASE Goes
        BY <2>1 DEF Goes, runVars, LifeTypeOK
    <2>2. CASE Cleanup
        <3>1. InHand \subseteq Forwards
            BY BusyType DEF Busy
        <3> QED BY <2>2, <3>1 DEF Cleanup, LifeTypeOK
    <2> QED BY <2>1, <2>2, LifeSteps
            DEF SendQuit, Exit, Crash, End, Restart, LifeTypeOK, TypeOK, NetTypeOK
<1>5. lateHosts' \subseteq Hosts
    <2>1. CASE Goes
        BY <2>1 DEF Goes, runVars, LifeTypeOK
    <2>2. CASE Cleanup
        BY <2>2 DEF Cleanup, LifeTypeOK, TypeOK, Connects, Teardowns
    <2> QED BY <2>1, <2>2, LifeSteps
            DEF SendQuit, Exit, Crash, End, Restart, LifeTypeOK
<1>6. shown' \in [Apps -> Settled]
    BY DEF LifeNext, Observe, Choice, Settled, lifeVars, LifeTypeOK
<1> QED BY <1>1, <1>2, <1>3, <1>4, <1>5, <1>6 DEF LifeTypeOK

(* Every variable keeps its type through quits, crashes and restarts: what a
   run leaves open and what state.json holds is what the next can start from
   (State::load, cleanup). *)
THEOREM LifeTypeCorrect == LifeSpec => [](TypeOK /\ LifeTypeOK)
<1>1. LifeInit => TypeOK /\ LifeTypeOK
    BY TypeInit, SharedAssumption, SavedAssumption
    DEF LifeInit, LifeTypeOK, Phases, Settled
<1>2. TypeOK /\ LifeTypeOK /\ [LifeNext]_lifeVars => (TypeOK /\ LifeTypeOK)'
    BY LifeTypeStep, TierAssumption, SharedAssumption, ClaimsAssumption
<1> QED BY <1>1, <1>2, PTL DEF LifeSpec

----------------------------------------------------------------------------
(* What is left behind.  While the worker runs, all that this run opened is *)
(* kept the way OwnInv says, and a master of ours was found at the start,   *)
(* is the host's or is the result of a connect.  While cleanup waits, all   *)
(* of it is in a teardown that is joined.                                   *)

Manned ==
    \A h \in Hosts : <<h, "own">> \in live =>
        \/ h \in lateHosts \/ host[h].master = "own"
        \/ \E c \in connects : c.host = h /\ c.res = "own"

Doomed(t) ==
    \E d \in teardowns : /\ <<d.id, d.host>> \in joined
                         /\ d.host = t.host /\ d.via = t.via
                         /\ d.via = "own" \/ t \in d.todo

Dwindling ==
    /\ \A c \in connects : c.host \in lateHosts
    /\ \A f \in fwds : f.to \in lateFwds
    /\ \A t \in tunnels \ lateFwds : Doomed(t)
    /\ \A h \in Hosts : <<h, "own">> \in live =>
          h \in lateHosts \/ \E d \in teardowns : d.host = h /\ d.via = "own"
    /\ \A d \in teardowns : /\ <<d.id, d.host>> \in joined
                            /\ d.via = "shared" => <<d.host, "shared">> \in live

Idle ==
    /\ connects = {} /\ scans = {} /\ fwds = {} /\ cancels = {} /\ teardowns = {}
    /\ \A h \in Hosts : ~Known(h)
    /\ \A a \in Apps : app[a].status = "absent"

Running == OwnInv(lateFwds) /\ Manned

LeftInv ==
    /\ sessions = Hosts
    /\ phase \in {"run", "quit"} => Running
    /\ phase = "clean" => Dwindling
    /\ phase \in {"down", "crashed"} => Idle
    /\ LeftBehind

(* The worker's steps keep its masters manned: a connect's result becomes
   the host's master, and that stays. *)
LEMMA MannedFrame ==
    ASSUME Manned, UNCHANGED <<connects, lateHosts>>,
           live' \cap (Hosts \X {"own"}) \subseteq live,
           \A h \in Hosts : host[h].master = "own" => host'[h].master = "own"
    PROVE  Manned'
BY DEF Manned

LEMMA MannedTick ==
    ASSUME Quiet, TypeOK, OwnInv(lateFwds), Manned, AnyTick, UNCHANGED lateHosts
    PROVE  Manned'
<1>1. PICK claims \in Claims, due \in SUBSET Hosts, retry \in SUBSET Hosts :
          Tick(Hosts, claims, due, retry)
    BY DEF AnyTick, Discovered, OwnInv, Stands, Quiet
<1>2. connects \subseteq connects' /\ UNCHANGED live
    BY <1>1 DEF Tick, netVars
<1>3. \A h \in Hosts : host[h].master = "own" => host'[h].master = "own"
    BY <1>1 DEF Tick, Known, MayDial, TypeOK, HostW
<1> QED BY <1>2, <1>3 DEF Manned

LEMMA MannedConnect ==
    ASSUME TypeOK, OwnInv(lateFwds), Manned, NEW c \in connects,
           Connect(c) \/ MasterDone(c), UNCHANGED lateHosts
    PROVE  Manned'
<1>1. c \in Connects /\ c.host \in Hosts
    BY DEF TypeOK, Connects
<1>2. CASE Connect(c)
    <2>1. PICK res \in Vias \cup {"fail"} :
             /\ connects' = (connects \ {c}) \cup {[c EXCEPT !.res = res]}
             /\ \/ UNCHANGED live
                \/ res = "own" /\ live' = live \cup {<<c.host, "own">>}
        BY <1>2 DEF Connect
    <2> DEFINE d == [c EXCEPT !.res = res]
    <2>2. d.host = c.host /\ d.res = res
        BY <1>1 DEF Connects
    <2>3. c.res = "none" /\ UNCHANGED host
        BY <1>2 DEF Connect
    <2>4. connects' = (connects \ {c}) \cup {d}
        BY <2>1
    <2> HIDE DEF d
    <2> QED BY <1>1, <2>1, <2>2, <2>3, <2>4 DEF Manned
<1>3. CASE MasterDone(c)
    <2>1. /\ host' = [host EXCEPT ![c.host] = Connected(c.host, c.res)]
          /\ host[c.host].master = "connecting"
          /\ connects' = connects \ {c} /\ UNCHANGED live
        BY <1>1, <1>3 DEF MasterDone, OwnInv, Stands, Connecting, Known, netVars
    <2>2. \A h \in Hosts : host[h].master = "own" => host'[h].master = "own"
        BY <1>1, <2>1 DEF TypeOK
    <2>3. c.res = "own" => host'[c.host].master = "own"
        BY <1>1, <2>1 DEF Connected, Vias, TypeOK
    <2> QED BY <2>1, <2>2, <2>3 DEF Manned
<1> QED BY <1>2, <1>3

LEMMA MannedScan ==
    ASSUME Quiet, TypeOK, OwnInv(lateFwds), Manned, NEW s \in scans,
           Scan(s) \/ ScanFailed(s) \/ ScanDone(s) \/ ScanIgnored(s),
           UNCHANGED lateHosts
    PROVE  Manned'
<1>1. UNCHANGED <<connects, live>>
    BY DEF Scan, ScanFailed, ScanDone, ScanIgnored, netVars
<1>2. ~ScanFailed(s)
    BY DEF ScanFailed, OwnInv, Stands
<1>3. s.host \in Hosts
    BY DEF TypeOK, Scans
<1>4. host[s.host].master = ScanOver(s.host).master
    BY <1>3 DEF ScanOver, TypeOK, HostW
<1>5. host' = host \/ host' = [host EXCEPT ![s.host] = ScanOver(s.host)]
    BY <1>2 DEF Scan, ScanDone, ScanIgnored
<1>6. \A h \in Hosts : host[h].master = "own" => host'[h].master = "own"
    BY <1>3, <1>4, <1>5 DEF TypeOK
<1> QED BY <1>1, <1>6, MannedFrame

LEMMA MannedStep ==
    ASSUME Quiet, TypeOK, OwnInv(lateFwds), Manned, [Next]_vars, UNCHANGED lateHosts
    PROVE  Manned'
<1>0. UNCHANGED lateHosts
    OBVIOUS
<1>1. CASE AnyTick
    BY <1>0, <1>1, MannedTick
<1>2. ASSUME NEW h \in Hosts, ConnectStep(h)
      PROVE  Manned'
    BY <1>0, <1>2, MannedConnect DEF ConnectStep, OfHost
<1>3. ASSUME NEW h \in Hosts, ScanStep(h)
      PROVE  Manned'
    BY <1>0, <1>3, MannedScan DEF ScanStep, OfHost
<1>4. CASE Refresh
    <2>1. \A h \in Hosts : host'[h].master = host[h].master
        BY <1>4 DEF Refresh, TypeOK, HostW
    <2> QED BY <1>0, <1>4, <2>1, MannedFrame DEF Refresh, netVars
<1>5. CASE Command /\ ~Refresh
    <2>1. UNCHANGED <<live, connects, host>>
        BY <1>5 DEF Command, ToggleAuto, ToggleHost, Toggle, ToggleOn, ToggleOff,
           ToggleHidden, Hide, Unhide, SetComment, Assign, AssignSame, AssignOther,
           netVars, threads
    <2> QED BY <1>0, <2>1, MannedFrame
<1>6. ASSUME NEW a \in Apps, FwdStep(a)
      PROVE  Manned'
    <2>1. UNCHANGED <<live, connects, host>>
        BY <1>6 DEF FwdStep, CancelOld, Bind, FwdDone, FwdIgnored, FwdStale, FwdUp,
           FwdRetry, FwdError, netVars
    <2> QED BY <1>0, <2>1, MannedFrame
<1>7. ASSUME NEW h \in Hosts, CancelStep(h)
      PROVE  Manned'
    <2>1. UNCHANGED <<live, connects, host>>
        BY <1>7 DEF CancelStep, CancelMany, CancelEach, CancelCheck, CancelFailed,
           netVars
    <2> QED BY <1>0, <2>1, MannedFrame
<1>8. \A h \in Hosts : ~TeardownStep(h)
    BY DEF TeardownStep, OfHost, OwnInv, Stands
<1>9. CASE CooldownElapse \/ UNCHANGED vars
    BY <1>0, <1>9, MannedFrame DEF CooldownElapse, vars, netVars, threads
<1>10. CASE Environment
    <2>1. ~MasterDies
        BY DEF MasterDies, Quiet
    <2>2. live' \cap (Hosts \X {"own"}) \subseteq live /\ UNCHANGED <<connects, host>>
        BY <1>10, <2>1 DEF Environment, NetNext, ListenChange, SessionChange,
           ForeignChange, UserMaster, threads
    <2> QED BY <1>0, <2>2, MannedFrame
<1> QED BY <1>1, <1>2, <1>3, <1>4, <1>5, <1>6, <1>7, <1>8, <1>9, <1>10 DEF Next

LEMMA RunningStep ==
    ASSUME Quiet, TierAssumption, TypeOK, TypeOK', Running, [Next]_vars,
           UNCHANGED <<lateFwds, lateHosts>>
    PROVE  Running'
<1>1. Manned'
    BY MannedStep DEF Running
<1>2. PICK L : L = lateFwds /\ L = lateFwds'
    OBVIOUS
<1>3. OwnInv(L)
    BY <1>2 DEF Running
<1>4. OwnInv(L)'
    BY <1>3, OwnStep DEF Keeps
<1>5. OwnInv(lateFwds)'
    BY <1>2, <1>4 DEF OwnInv, AllMine, Covered
<1> QED BY <1>1, <1>5 DEF Running

(* Cleanup takes everything over. *)
LEMMA CleanupTakes ==
    ASSUME TypeOK, Running, Cleanup
    PROVE  Dwindling'
<1> DEFINE rec(t) == [id |-> Fresh(OfHost(teardowns, t.host)), host |-> t.host,
                      via |-> t.via, todo |-> t.todo]
<1>1. teardowns' = {rec(t) : t \in CleanupOf} /\ teardowns = {}
    BY DEF Cleanup, SpawnTeardowns, Running, OwnInv, Stands
<1>2. \A d \in teardowns' : <<d.id, d.host>> \in joined'
    BY <1>1 DEF Cleanup
<1>3. UNCHANGED <<live, tunnels, connects, fwds>>
    BY DEF Cleanup, netVars
<1>4. ASSUME NEW h \in Hosts, NEW t \in TeardownOf(h)
      PROVE  \E d \in teardowns' : d.host = t.host /\ d.via = t.via /\ d.todo = t.todo
    <2>1. rec(t) \in teardowns'
        BY <1>1 DEF CleanupOf
    <2> QED BY <2>1
<1>5. ASSUME NEW d \in teardowns'
      PROVE  d.host \in Hosts /\ Ready(d.host) /\ d.via = host[d.host].master
    <2>1. PICK h \in Hosts : \E t \in TeardownOf(h) : d = rec(t)
        BY <1>1 DEF CleanupOf
    <2> PICK t \in TeardownOf(h) : d = rec(t)
        BY <2>1
    <2>2. t.host = h /\ t.via = host[h].master /\ Ready(h)
        BY DEF TeardownOf
    <2> QED BY <2>1, <2>2
<1> HIDE DEF rec
<1>6. ASSUME NEW t \in tunnels, t \notin lateFwds'
      PROVE  Doomed(t)'
    <2>1. Mine(t) /\ Covers(t) /\ t \notin InHand
        BY <1>6 DEF Running, OwnInv, AllMine, Covered, Cleanup
    <2>2. app[Row(t)].status = "active" /\ app[Row(t)].lport = t.lport
        BY <2>1 DEF Covers, InHand
    <2>3. t \in Forwards /\ Row(t) \in AppsOf(t.host) /\ t.host \in Hosts
        BY RowType DEF TypeOK, NetTypeOK, AppsOf, Row, Forwards
    <2>4. t \in Held(app, AppsOf(t.host))
        BY <2>1, <2>2, <2>3, PortGiven, HeldIs DEF Claimed, AppsOf
    <2>5. PICK u \in TeardownOf(t.host) :
             /\ u.host = t.host /\ u.via = t.via
             /\ u.via = "own" \/ t \in u.todo
        BY <2>1, <2>4 DEF TeardownOf, Mine, Ready, Vias
    <2>6. PICK d \in teardowns' : d.host = t.host /\ d.via = t.via /\ d.todo = u.todo
        BY <1>4, <2>3, <2>5
    <2> QED BY <1>2, <2>5, <2>6 DEF Doomed
<1>7. ASSUME NEW h \in Hosts, <<h, "own">> \in live, h \notin lateHosts'
      PROVE  \E d \in teardowns' : d.host = h /\ d.via = "own"
    <2>1. host[h].master = "own"
        BY <1>7 DEF Running, Manned, Cleanup
    <2>2. \E u \in TeardownOf(h) : u.host = h /\ u.via = "own"
        BY <2>1 DEF TeardownOf, Ready, Vias
    <2> QED BY <1>4, <2>2
<1>8. \A d \in teardowns' : d.via = "shared" => <<d.host, "shared">> \in live
    BY <1>5 DEF Running, OwnInv, Stands
<1>9. /\ \A c \in connects : c.host \in lateHosts'
      /\ \A f \in fwds : f.to \in lateFwds'
    BY DEF Cleanup, InHand
<1> QED BY <1>2, <1>3, <1>6, <1>7, <1>8, <1>9 DEF Dwindling

(* Threads that cleanup does not join touch only what is late. *)
LEMMA DwindlingFrame ==
    ASSUME Dwindling, UNCHANGED <<lateHosts, lateFwds, joined, teardowns>>,
           live \subseteq live', tunnels' \subseteq tunnels \cup lateFwds,
           \A h \in Hosts : <<h, "own">> \in live' =>
               <<h, "own">> \in live \/ h \in lateHosts,
           \A c \in connects' : c.host \in lateHosts,
           \A f \in fwds' : f.to \in lateFwds
    PROVE  Dwindling'
<1>1. \A t : Doomed(t) => Doomed(t)'
    BY DEF Doomed
<1> QED BY <1>1 DEF Dwindling

LEMMA DwindlingTeardown ==
    ASSUME Quiet, TypeOK, Dwindling, NEW d \in teardowns, Teardown(d),
           UNCHANGED <<lateHosts, lateFwds, joined>>
    PROVE  Dwindling'
<1>0. d \in Teardowns /\ d.host \in Hosts
    BY DEF TypeOK, Teardowns
<1>1. UNCHANGED <<connects, fwds>>
    BY DEF Teardown
<1>2. CASE d.via = "own"
    <2>1. /\ live' = live \ {<<d.host, "own">>}
          /\ tunnels' = {t \in tunnels : t.host /= d.host \/ t.via /= "own"}
          /\ teardowns' = teardowns \ {d}
        BY <1>2 DEF Teardown, MasterExit
    <2>2. ASSUME NEW t \in tunnels', Doomed(t)
          PROVE  Doomed(t)'
        BY <1>2, <2>1, <2>2 DEF Doomed
    <2> QED BY <1>1, <2>1, <2>2 DEF Dwindling
<1>3. CASE d.via = "shared"
    <2>1. PICK t \in First(d.todo), res \in {"ok", "fail"} :
             /\ MuxCancel({t}, res)
             /\ teardowns' = (teardowns \ {d}) \cup
                    IF d.todo = {t} THEN {} ELSE {[d EXCEPT !.todo = @ \ {t}]}
        BY <1>3 DEF Teardown
    <2>2. tunnels' = tunnels \ {u \in {t} : Up(u) /\ u \in tunnels}
        BY <2>1 DEF MuxCancel, MayTimeOut, Quiet
    <2> DEFINE e == [d EXCEPT !.todo = @ \ {t}]
    <2>3. e.id = d.id /\ e.host = d.host /\ e.via = d.via /\ e.todo = d.todo \ {t}
        BY <1>0 DEF Teardowns
    <2>4. /\ teardowns \ {d} \subseteq teardowns'
          /\ teardowns' \subseteq teardowns \cup {e}
          /\ d.todo /= {t} => e \in teardowns'
        BY <2>1
    <2> HIDE DEF e
    <2>5. UNCHANGED live /\ d.via /= "own"
        BY <1>3 DEF Teardown
    <2>6. ASSUME NEW u \in tunnels', Doomed(u)
          PROVE  Doomed(u)'
        <3>1. PICK x \in teardowns : /\ <<x.id, x.host>> \in joined
                                     /\ x.host = u.host /\ x.via = u.via
                                     /\ x.via = "own" \/ u \in x.todo
            BY <2>6 DEF Doomed
        <3>2. CASE x /= d
            BY <2>4, <3>1, <3>2 DEF Doomed
        <3>3. CASE x = d
            <4>1. Up(u)
                BY <1>3, <3>1, <3>3 DEF Dwindling, Up
            <4>2. u /= t
                BY <2>2, <2>6, <4>1
            <4>3. e \in teardowns' /\ u \in e.todo
                BY <2>3, <2>4, <2>5, <3>1, <3>3, <4>2
            <4> QED BY <2>3, <3>1, <3>3, <4>3 DEF Doomed
        <3> QED BY <3>2, <3>3
    <2>7. \A h \in Hosts : (\E x \in teardowns : x.host = h /\ x.via = "own") =>
              \E x \in teardowns' : x.host = h /\ x.via = "own"
        BY <2>4, <2>5
    <2>8. ASSUME NEW x \in teardowns'
          PROVE  /\ <<x.id, x.host>> \in joined
                 /\ x.via = "shared" => <<x.host, "shared">> \in live
        <3>1. \E y \in teardowns : y.id = x.id /\ y.host = x.host /\ y.via = x.via
            BY <2>3, <2>4
        <3> QED BY <3>1 DEF Dwindling
    <2>9. tunnels' \subseteq tunnels
        BY <2>2
    <2> QED BY <1>1, <2>5, <2>6, <2>7, <2>8, <2>9 DEF Dwindling
<1> QED BY <1>2, <1>3 DEF Teardown

LEMMA DwindlingStep ==
    ASSUME Quiet, TypeOK, Dwindling, ThreadStep \/ Environment, UNCHANGED runVars
    PROVE  Dwindling'
<1>0. UNCHANGED <<lateHosts, lateFwds, joined>>
    BY DEF runVars
<1>1. ASSUME NEW c \in connects, Connect(c)
      PROVE  Dwindling'
    <2>1. PICK res \in Vias \cup {"fail"} :
             /\ connects' = (connects \ {c}) \cup {[c EXCEPT !.res = res]}
             /\ live' \in {live, live \cup {<<c.host, "own">>}}
        BY <1>1 DEF Connect
    <2>2. [c EXCEPT !.res = res].host = c.host
        BY DEF TypeOK, Connects
    <2>3. \A x \in connects' : x.host \in lateHosts
        BY <2>1, <2>2 DEF Dwindling
    <2>4. /\ live \subseteq live'
          /\ \A h \in Hosts : <<h, "own">> \in live' =>
                 <<h, "own">> \in live \/ h \in lateHosts
        BY <2>1 DEF Dwindling
    <2>5. UNCHANGED <<tunnels, fwds, teardowns>>
        BY <1>1 DEF Connect
    <2> QED BY <1>0, <2>3, <2>4, <2>5, DwindlingFrame DEF Dwindling
<1>2. CASE \E s \in scans : Scan(s)
    <2>1. UNCHANGED <<live, tunnels, connects, fwds, teardowns>>
        BY <1>2 DEF Scan, netVars
    <2> QED BY <1>0, <2>1, DwindlingFrame DEF Dwindling
<1>3. ASSUME NEW f \in fwds, CancelOld(f) \/ Bind(f)
      PROVE  Dwindling'
    <2>1. f \in Fwds
        BY DEF TypeOK
    <2>2. \E g \in Fwds : g.to = f.to /\ fwds' = (fwds \ {f}) \cup {g}
        <3>1. CASE CancelOld(f)
            BY <2>1, <3>1 DEF CancelOld, Fwds
        <3>2. CASE Bind(f)
            BY <2>1, <3>2 DEF Bind, Fwds
        <3> QED BY <1>3, <3>1, <3>2
    <2>3. \A g \in fwds' : g.to \in lateFwds
        BY <2>2 DEF Dwindling
    <2>4. tunnels' \subseteq tunnels \cup {f.to}
        BY <1>3 DEF CancelOld, Bind, MuxCancel, MuxForward
    <2>5. UNCHANGED <<live, connects, teardowns>>
        BY <1>3 DEF CancelOld, Bind
    <2> QED BY <1>0, <2>3, <2>4, <2>5, DwindlingFrame DEF Dwindling
<1>4. ASSUME NEW c \in cancels, CancelMany(c) \/ CancelEach(c) \/ CancelCheck(c)
      PROVE  Dwindling'
    <2>1. tunnels' \subseteq tunnels /\ UNCHANGED <<live, connects, fwds, teardowns>>
        BY <1>4 DEF CancelMany, CancelEach, CancelCheck, MuxCancel, netVars
    <2> QED BY <1>0, <2>1, DwindlingFrame DEF Dwindling
<1>5. CASE \E h \in Hosts : TeardownStep(h)
    BY <1>0, <1>5, DwindlingTeardown DEF TeardownStep, OfHost
<1>6. CASE Environment
    <2>1. ~MasterDies
        BY DEF MasterDies, Quiet
    <2>2. /\ UNCHANGED <<tunnels, connects, fwds, teardowns>> /\ live \subseteq live'
          /\ \A h \in Hosts : <<h, "own">> \in live' => <<h, "own">> \in live
        BY <1>6, <2>1 DEF Environment, NetNext, ListenChange, SessionChange,
           ForeignChange, UserMaster, threads
    <2> QED BY <1>0, <2>2, DwindlingFrame DEF Dwindling
<1> QED BY <1>1, <1>2, <1>3, <1>4, <1>5, <1>6 DEF ThreadStep

(* A run starts with nothing of its own. *)
LEMMA RunStarts ==
    ASSUME Idle, sessions = Hosts, Restart
    PROVE  Running'
<1>1. /\ connects' = {} /\ scans' = {} /\ fwds' = {} /\ cancels' = {}
      /\ teardowns' = {}
      /\ UNCHANGED <<host, app>> /\ sessions' = Hosts
      /\ tunnels' = lateFwds' /\ lateHosts' = {h \in Hosts : <<h, "own">> \in live'}
    BY DEF Restart, Idle, netVars, threads
<1>2. \A h \in Hosts : ~Ready(h)'
    BY <1>1 DEF Idle, Ready, Known, Vias
<1>3. Stands'
    BY <1>1, <1>2 DEF Stands, Connecting, Idle
<1>4. Busy' = {}
    BY <1>1 DEF Busy, InHand, Unreported
<1>5. OwnInv(lateFwds)'
    BY <1>1, <1>3, <1>4 DEF OwnInv, AllMine, Covered, UndoneFirst
<1> QED BY <1>1, <1>5 DEF Running, Manned

LEMMA RunEnds ==
    ASSUME Exit \/ Crash
    PROVE  Idle' /\ UNCHANGED sessions
BY DEF Exit, Crash, End, Idle, Known, NoHost, NoApp, netVars

LEMMA LeftStep ==
    ASSUME Quiet, TierAssumption, TypeOK, TypeOK', LeftInv, [LifeNext]_lifeVars
    PROVE  LeftInv'
<1>1. CASE phase \in {"run", "quit"} /\ phase' \in {"run", "quit"}
    <2>1. Running'
        <3>1. [Next]_vars /\ UNCHANGED <<lateFwds, lateHosts>>
            BY <1>1, LifeSteps
            DEF Goes, SendQuit, Cleanup, Exit, Crash, Restart, runVars
        <3> QED BY <1>1, <3>1, RunningStep DEF LeftInv
    <2> QED BY <1>1, <2>1 DEF LeftInv, LeftBehind, Running, OwnInv, Stands
<1>2. CASE GoOn
    <2>1. CASE phase = "clean" /\ (ThreadStep \/ Environment)
        <3>1. Dwindling'
            BY <1>2, <2>1, DwindlingStep DEF GoOn, LeftInv
        <3>2. UNCHANGED sessions
            <4>1. ~SessionChange
                BY DEF SessionChange, Quiet
            <4> QED BY <2>1, <4>1 DEF ThreadStep, Connect, Scan, CancelOld, Bind,
                    CancelMany, CancelEach, CancelCheck, TeardownStep, Teardown,
                    Environment, NetNext, ListenChange, ForeignChange, MasterDies,
                    UserMaster, netVars
        <3> QED BY <1>2, <2>1, <3>1, <3>2 DEF GoOn, LeftInv, LeftBehind, runVars
    <2>2. CASE phase \in {"down", "crashed"} /\ Environment
        <3>1. ~MasterDies /\ ~SessionChange
            BY DEF MasterDies, SessionChange, Quiet
        <3>2. /\ UNCHANGED <<sessions, tunnels, host, app, threads>>
              /\ \A h \in Hosts : <<h, "own">> \in live' => <<h, "own">> \in live
            BY <2>2, <3>1 DEF Environment, NetNext, ListenChange, ForeignChange,
               UserMaster
        <3>3. Idle'
            BY <2>2, <3>2 DEF LeftInv, Idle, Known, threads
        <3>4. LeftBehind'
            BY <1>2, <3>2 DEF GoOn, runVars, LeftInv, LeftBehind
        <3> QED BY <1>2, <2>2, <3>2, <3>3, <3>4 DEF GoOn, runVars, LeftInv
    <2> QED BY <1>2, <2>1, <2>2 DEF GoOn
<1>3. CASE UNCHANGED lifeVars /\ phase \notin {"run", "quit"}
    <2>1. UNCHANGED <<vars, runVars>>
        BY <1>3 DEF lifeVars
    <2>2. Dwindling => Dwindling'
        BY <2>1, DwindlingFrame DEF vars, netVars, threads, runVars, Dwindling
    <2>3. Idle => Idle'
        BY <2>1 DEF vars, threads, Idle, Known
    <2> QED BY <1>3, <2>1, <2>2, <2>3 DEF vars, netVars, runVars, LeftInv, LeftBehind
<1>4. CASE Cleanup
    <2>1. Dwindling' /\ UNCHANGED sessions
        BY <1>4, CleanupTakes DEF Cleanup, LeftInv, netVars
    <2> QED BY <1>4, <2>1 DEF Cleanup, LeftInv, LeftBehind
<1>5. CASE Exit
    <2>1. /\ phase = "clean" /\ phase' = "down" /\ Joined
          /\ UNCHANGED <<live, tunnels, lateFwds, lateHosts>>
        BY <1>5 DEF Exit, End, netVars
    <2>2. teardowns = {}
        BY <2>1 DEF LeftInv, Dwindling, Joined
    <2>3. LeftBehind'
        BY <2>1, <2>2 DEF LeftBehind, LeftInv, Dwindling, Doomed
    <2> QED BY <1>5, <2>1, <2>3, RunEnds DEF LeftInv
<1>6. CASE Crash
    <2>1. phase' = "crashed"
        BY <1>6 DEF Crash
    <2> QED BY <1>6, <2>1, RunEnds DEF LeftInv, LeftBehind
<1>7. CASE Restart
    <2>1. phase' = "run" /\ Idle /\ UNCHANGED sessions
        BY <1>7 DEF Restart, LeftInv, netVars
    <2>2. Running'
        BY <1>7, <2>1, RunStarts DEF LeftInv
    <2> QED BY <2>1, <2>2 DEF LeftInv, LeftBehind
<1> QED BY <1>1, <1>2, <1>3, <1>4, <1>5, <1>6, <1>7
        DEF LifeNext, Work, SendQuit, runVars, lifeVars

LEMMA LeftInvariant == Quiet => (LifeSpec => []LeftInv)
<1>1. LifeInit => LeftInv
    <2> SUFFICES ASSUME LifeInit PROVE LeftInv
        OBVIOUS
    <2>1. OwnInv({}) /\ lateFwds = {}
        BY OwnStart DEF LifeInit
    <2>2. Manned
        BY DEF LifeInit, Init, NetInit, Manned
    <2> QED BY <2>1, <2>2 DEF LifeInit, LeftInv, LeftBehind, Running, OwnInv, Stands
<1>2. Quiet /\ TypeOK /\ TypeOK' /\ LeftInv /\ [LifeNext]_lifeVars => LeftInv'
    BY LeftStep, TierAssumption
<1>3. Quiet => Quiet'
    BY DEF Quiet
<1>4. Quiet => []Quiet
    BY <1>3, PTL
<1>5. LifeSpec => []TypeOK
    BY LifeTypeCorrect, PTL
<1> QED BY <1>1, <1>2, <1>4, <1>5, PTL DEF LifeSpec

(* While nothing fails a quit leaves open only the forwards a thread was busy
   with when cleanup began, and only masters that were just being connected,
   whatever commands and results came before, for all hosts and ports and
   through any number of runs, killed ones included, whose forwards and
   masters later runs neither know nor close (cleanup, worker.rs:969). *)
THEOREM QuitLeavesOnlyLate == Quiet => (LifeSpec => []LeftBehind)
<1>1. LeftInv => LeftBehind
    BY DEF LeftInv
<1> QED BY <1>1, LeftInvariant, PTL

----------------------------------------------------------------------------
(* What becomes of the user's choices.  A row that is there agrees with its *)
(* entry in memory about what hides it; one that is firm, up and neither    *)
(* muted nor hidden, agrees with both its entries; and the entries of one   *)
(* that is not there agree with the last impression it made.  W is whether  *)
(* a row that is off but has its port counts as firm, as a cancel that      *)
(* failed may show it as up again.                                          *)

Firm(W, r) ==
    /\ ~Silent(r)
    /\ \/ r.status = "active"
       \/ W /\ r.status = "off" /\ r.lport /= None

Agree(m, d) == ~m.muted /\ ~d.muted /\ m.tier = d.tier

ChoiceRow(W, r, m, d, s) ==
    /\ r.status /= "absent" => r.override = m.tier /\ s = Choice(r)
    /\ Firm(W, r) => Agree(m, d)
    /\ r.status = "absent" =>
         /\ s = "off" => (m.muted \/ m.tier = "bg") /\ (d.muted \/ d.tier = "bg")
         /\ s \in {"on", "promoted"} => Agree(m, d) /\ m.tier /= "bg"
         /\ s = "promoted" => m.tier = "app"

ChoiceInv(W) == \A a \in Apps : ChoiceRow(W, app[a], mem[a], disk[a], shown[a])

Told == \A a \in Apps : app[a].status /= "absent" => app[a].override = mem[a].tier

(* What the steps do to a row, which becomes q, and its entries. *)
SameEntry(n, m) == n.muted = m.muted /\ n.tier = m.tier
EntryKept(a) ==
    /\ SameEntry(mem'[a], mem[a])
    /\ SameEntry(disk'[a], disk[a]) \/ SameEntry(disk'[a], mem[a])

FollowsTo(W, a, q) ==
    /\ q.status = "absent" => EntryKept(a)
    /\ q.status /= "absent" => q.override = mem'[a].tier
    /\ Firm(W, q) => \/ Agree(mem'[a], disk'[a])
                     \/ Firm(W, app[a]) /\ EntryKept(a)
    /\ app[a].status = "absent" /\ q.status /= "absent" =>
          q.muted = mem[a].muted /\ q.override = mem[a].tier
Follows(W) == \A a \in Apps : FollowsTo(W, a, app'[a])

RowKept(W, r, q) ==
    /\ q.override = r.override /\ q.muted = r.muted
    /\ r.status = "absent" <=> q.status = "absent"
    /\ Firm(W, q) => Firm(W, r)

LEMMA ChoiceRowStep ==
    ASSUME NEW W, NEW a \in Apps, ChoiceRow(W, app[a], mem[a], disk[a], shown[a]),
           RowSaved(app[a], mem[a], disk[a]), FollowsTo(W, a, app'[a]),
           shown'[a] = IF app'[a].status = "absent" THEN shown[a] ELSE Choice(app'[a])
    PROVE  ChoiceRow(W, app'[a], mem'[a], disk'[a], shown'[a])
<1>1. CASE app'[a].status /= "absent"
    <2>1. Firm(W, app'[a]) => Agree(mem'[a], disk'[a])
        BY <1>1 DEF FollowsTo, ChoiceRow, Agree, EntryKept, SameEntry
    <2> QED BY <1>1, <2>1 DEF FollowsTo, ChoiceRow
<1>2. CASE app'[a].status = "absent"
    <2>1. EntryKept(a) /\ ~Firm(W, app'[a]) /\ shown'[a] = shown[a]
        BY <1>2 DEF FollowsTo, Firm
    <2>2. CASE app[a].status = "absent"
        BY <1>2, <2>1, <2>2 DEF ChoiceRow, EntryKept, SameEntry, Agree
    <2>3. CASE app[a].status /= "absent"
        <3>1. app[a].override = mem[a].tier /\ shown[a] = Choice(app[a])
            BY <2>3 DEF ChoiceRow
        <3>2. shown[a] = "off" => /\ mem[a].muted \/ mem[a].tier = "bg"
                                  /\ disk[a].muted \/ disk[a].tier = "bg"
            BY <3>1 DEF Choice, RowSaved
        <3>3. shown[a] \in {"on", "promoted"} =>
                  Agree(mem[a], disk[a]) /\ mem[a].tier /= "bg"
            BY <3>1 DEF Choice, ChoiceRow, Firm, Silent
        <3>4. shown[a] = "promoted" => mem[a].tier = "app"
            BY <3>1 DEF Choice
        <3> QED BY <1>2, <2>1, <3>2, <3>3, <3>4
                DEF ChoiceRow, EntryKept, SameEntry, Agree
    <2> QED BY <2>2, <2>3
<1> QED BY <1>1, <1>2

LEMMA RowReturns ==
    ASSUME NEW W, NEW a \in Apps, ChoiceRow(W, app[a], mem[a], disk[a], shown[a]),
           FollowsTo(W, a, app'[a]),
           app[a].status = "absent", app'[a].status /= "absent"
    PROVE  /\ shown[a] = "off" => Silent(app'[a])
           /\ shown[a] \in {"on", "promoted"} => ~Silent(app'[a])
           /\ shown[a] = "promoted" => app'[a].override = "app"
BY DEF ChoiceRow, FollowsTo, Silent, Agree

LEMMA FollowsFrame ==
    ASSUME NEW W, Told, NEW a \in Apps, EntryKept(a), NEW q,
           q = NoApp \/ RowKept(W, app[a], q)
    PROVE  FollowsTo(W, a, q)
<1>1. CASE q = NoApp
    BY <1>1 DEF FollowsTo, NoApp, Firm
<1>2. CASE RowKept(W, app[a], q)
    BY <1>2 DEF FollowsTo, RowKept, Told, EntryKept, SameEntry
<1> QED BY <1>1, <1>2

LEMMA NothingFollows ==
    ASSUME NEW W, Told, UNCHANGED <<app, mem>>, disk' \in {disk, mem}
    PROVE  Follows(W)
BY FollowsFrame DEF Follows, RowKept, EntryKept, SameEntry

LEMMA StartForwardsFollows ==
    ASSUME NEW W, NEW A \in [Apps -> AppW], NEW F, NEW S \in SUBSET Apps,
           StartForwards(A, F, S), \A a \in S : A[a].status /= "absent",
           \A a \in Apps : FollowsTo(W, a, A[a])
    PROVE  Follows(W)
<1> SUFFICES ASSUME NEW a \in Apps
             PROVE  FollowsTo(W, a, app'[a])
    BY DEF Follows
<1>1. /\ app'[a].muted = A[a].muted /\ app'[a].override = A[a].override
      /\ a \notin S => app'[a] = A[a]
      /\ a \in S => app'[a].status \in {"pending", "error"}
    BY StartForwardsRows
<1>2. CASE a \notin S
    BY <1>1, <1>2
<1>3. CASE a \in S
    BY <1>1, <1>3 DEF FollowsTo, Firm
<1> QED BY <1>2, <1>3

(* A pass over rows that have followed. *)
LEMMA PassFollows ==
    ASSUME NEW W, NEW A \in [Apps -> AppW], NEW F, NEW S \in SUBSET Apps,
           AutoForwardPass(A, F, S), \A a \in Apps : FollowsTo(W, a, A[a])
    PROVE  Follows(W)
BY StartForwardsFollows DEF AutoForwardPass, Wanted

(* The worker's steps, action by action. *)

(* A cancel that fails shows as up again only a row that the user has muted or
   hidden.  Otherwise (Undisturbed) the port a row that is off still has tells
   that it was up, as nothing but the user's word for that row stops it. *)
Harmless == \A c \in cancels : \A t \in c.sent :
    LET r == app[Row(t)] IN
    r.status = "off" /\ r.lport = t.lport => Silent(r)

Undisturbed ==
    /\ Commands \cap {"auto", "host"} = {}
    /\ \A s \in scans : s.res /= "fail"

Fit(W) == (W \/ Harmless) /\ (W => Undisturbed)

LEMMA ScannedFollows ==
    ASSUME NEW W, TypeOK, Told, NEW a \in Apps, NEW t \in Tiers,
           UNCHANGED <<mem, disk>>
    PROVE  FollowsTo(W, a, Scanned(a, t))
<1> DEFINE r == [app[a] EXCEPT !.tier = t]
           lp == ExtValid(a)
           new == [NoApp EXCEPT !.status = IF lp = None THEN "off" ELSE "external",
                    !.lport = lp, !.muted = mem[a].muted, !.tier = t,
                    !.pinned = mem[a].pinned, !.override = mem[a].tier]
           ours == [r EXCEPT !.status = "external", !.lport = lp]
           theirs == [r EXCEPT !.status = "off", !.lport = None]
<1>1. /\ r \in AppW /\ r.status = app[a].status /\ r.lport = app[a].lport
      /\ r.muted = app[a].muted /\ r.override = app[a].override
    BY DEF TypeOK, AppW
<1>2. \/ r.status = "absent" /\ Scanned(a, t) = new
      \/ r.status /= "absent" /\ Scanned(a, t) \in {ours, theirs, r}
    <2>1. Scanned(a, t) = CASE r.status = "absent" -> new
          [] r.status \in {"off", "error", "external"} /\ lp /= None -> ours
          [] r.status = "external" /\ lp = None -> theirs
          [] OTHER -> r
        BY Zenon DEF Scanned
    <2> HIDE DEF new, ours, theirs, r, lp
    <2> QED BY <2>1
<1>3. /\ new.status \in {"off", "external"}
      /\ new.status = "off" => new.lport = None
      /\ new.muted = mem[a].muted /\ new.override = mem[a].tier
    BY DEF NoApp
<1>4. /\ ours.status = "external" /\ theirs.status = "off" /\ theirs.lport = None
      /\ ours.muted = r.muted /\ theirs.muted = r.muted
      /\ ours.override = r.override /\ theirs.override = r.override
    BY <1>1 DEF AppW
<1>5. EntryKept(a)
    BY DEF EntryKept, SameEntry
<1> HIDE DEF new, ours, theirs, r, lp
<1>6. CASE r.status = "absent" /\ Scanned(a, t) = new
    BY <1>3, <1>6 DEF FollowsTo, Firm
<1>7. CASE r.status /= "absent" /\ Scanned(a, t) \in {ours, theirs, r}
    <2>1. RowKept(W, app[a], Scanned(a, t))
        BY <1>1, <1>4, <1>7 DEF RowKept, Firm, Silent
    <2> QED BY <1>5, <2>1, FollowsFrame
<1> QED BY <1>2, <1>6, <1>7

LEMMA ScanFollows ==
    ASSUME NEW W, TypeOK, TierAssumption, Told, Fit(W), NEW s \in scans,
           Scan(s) \/ ScanFailed(s) \/ ScanDone(s) \/ ScanIgnored(s)
    PROVE  Follows(W)
<1>1. UNCHANGED <<mem, disk>>
    BY DEF Scan, ScanFailed, ScanDone, ScanIgnored
<1>2. CASE Scan(s) \/ ScanIgnored(s)
    BY <1>2, NothingFollows DEF Scan, ScanIgnored
<1>3. CASE ScanFailed(s)
    <2> SUFFICES ASSUME NEW a \in Apps
                 PROVE  FollowsTo(W, a, app'[a])
        BY DEF Follows
    <2>1. \/ app'[a] = app[a]
          \/ app'[a] = [app[a] EXCEPT !.status = "off"] /\ app[a].status /= "absent"
        BY <1>3 DEF ScanFailed
    <2>2. /\ [app[a] EXCEPT !.status = "off"].status = "off"
          /\ [app[a] EXCEPT !.status = "off"].muted = app[a].muted
          /\ [app[a] EXCEPT !.status = "off"].override = app[a].override
        BY DEF TypeOK, AppW
    <2>3. ~W
        BY <1>3 DEF ScanFailed, Fit, Undisturbed
    <2>4. RowKept(W, app[a], app'[a])
        BY <2>1, <2>2, <2>3 DEF RowKept, Firm
    <2> QED BY <1>1, <2>4, FollowsFrame DEF EntryKept, SameEntry
<1>4. CASE ScanDone(s)
    <2> DEFINE h == s.host
    <2>1. PICK tier \in [s.ports -> Tiers] :
             AutoForwardPass(Rescanned(h, s.ports, tier), fwds, AppsOf(h))
        BY <1>4 DEF ScanDone
    <2> DEFINE A == Rescanned(h, s.ports, tier)
    <2>2. A \in [Apps -> AppW]
        <3>1. s.ports \in SUBSET RPorts
            BY DEF TypeOK, Scans
        <3> QED BY <2>1, <3>1, ScannedType
    <2>3. ASSUME NEW a \in Apps
          PROVE  FollowsTo(W, a, A[a])
        <3>1. EntryKept(a) /\ RowKept(W, app[a], app[a])
            BY <1>1 DEF EntryKept, SameEntry, RowKept
        <3>2. A[a] = IF a[1] /= h THEN app[a]
                     ELSE IF a[2] \notin s.ports THEN NoApp
                     ELSE Scanned(a, tier[a[2]])
            BY DEF Rescanned
        <3>3. a[2] \in s.ports => FollowsTo(W, a, Scanned(a, tier[a[2]]))
            BY <1>1, <2>1, ScannedFollows
        <3> QED BY <3>1, <3>2, <3>3, FollowsFrame
    <2>4. AutoForwardPass(A, fwds, AppsOf(h)) /\ AppsOf(h) \in SUBSET Apps
        BY <2>1 DEF AppsOf
    <2> HIDE DEF A
    <2> QED BY <2>2, <2>3, <2>4, PassFollows
<1> QED BY <1>2, <1>3, <1>4

LEMMA FwdDoneFollows ==
    ASSUME NEW W, TypeOK, Told, NEW f \in fwds, FwdDone(f)
    PROVE  Follows(W)
<1> DEFINE a == Row(f.to)
<1>0. a \in Apps /\ app[a] \in AppW /\ mem[a] \in Entry
    BY RowType DEF TypeOK, Fwds
<1>1. CASE FwdIgnored(f) \/ FwdStale(f)
    BY <1>1, NothingFollows DEF FwdIgnored, FwdStale
<1>2. CASE FwdUp(f)
    <2>1. /\ app' = [app EXCEPT ![a] = [@ EXCEPT !.status = "active",
                        !.retried = FALSE, !.pinned = f.pin]]
          /\ mem' = [mem EXCEPT ![a] = [@ EXCEPT !.lport = f.to.lport,
                        !.pinned = f.pin, !.muted = FALSE]]
          /\ disk' = mem' /\ app[a].status = "pending"
        BY <1>2 DEF FwdUp, Remember, Awaited
    <2>2. /\ app'[a].status = "active" /\ app'[a].override = app[a].override
          /\ mem'[a].tier = mem[a].tier /\ ~mem'[a].muted
          /\ \A b \in Apps : b /= a => app'[b] = app[b] /\ mem'[b] = mem[b]
        BY <1>0, <2>1 DEF TypeOK, AppW, Entry
    <2>3. FollowsTo(W, a, app'[a])
        BY <1>0, <2>1, <2>2 DEF FollowsTo, Agree, Told
    <2>4. ASSUME NEW b \in Apps, b /= a
          PROVE  FollowsTo(W, b, app'[b])
        BY <2>1, <2>2, <2>4, FollowsFrame DEF RowKept, EntryKept, SameEntry
    <2> QED BY <2>3, <2>4 DEF Follows
<1>3. CASE FwdError(f)
    <2>1. /\ app'[a] = [app[a] EXCEPT !.status = "error"]
          /\ app[a].status = "pending" /\ UNCHANGED <<mem, disk>>
          /\ \A b \in Apps : b /= a => app'[b] = app[b]
        BY <1>0, <1>3 DEF FwdError, Awaited, TypeOK
    <2>2. /\ app'[a].status = "error" /\ app'[a].muted = app[a].muted
          /\ app'[a].override = app[a].override
        BY <1>0, <2>1 DEF AppW
    <2>3. \A b \in Apps : RowKept(W, app[b], app'[b])
        BY <2>1, <2>2 DEF RowKept, Firm
    <2> QED BY <2>1, <2>3, FollowsFrame DEF Follows, EntryKept, SameEntry
<1>4. CASE FwdRetry(f)
    <2> DEFINE A == [app EXCEPT ![a] = [@ EXCEPT !.status = "off",
                        !.lport = None, !.retried = TRUE]]
    <2>1. /\ A \in [Apps -> AppW] /\ A[a].status = "off" /\ A[a].lport = None
          /\ A[a].muted = app[a].muted /\ A[a].override = app[a].override
          /\ \A b \in Apps : b /= a => A[b] = app[b]
        BY <1>0 DEF TypeOK, AppW, Statuses, Ports
    <2>2. /\ AutoForwardPass(A, fwds \ {f}, AppsOf(f.to.host))
          /\ AppsOf(f.to.host) \in SUBSET Apps
          /\ UNCHANGED <<mem, disk>> /\ app[a].status = "pending"
        BY <1>4 DEF FwdRetry, AppsOf, Awaited
    <2> HIDE DEF A
    <2>3. \A b \in Apps : RowKept(W, app[b], A[b])
        BY <2>1, <2>2 DEF RowKept, Firm
    <2>4. \A b \in Apps : FollowsTo(W, b, A[b])
        BY <2>2, <2>3, FollowsFrame DEF EntryKept, SameEntry
    <2> QED BY <2>1, <2>2, <2>4, PassFollows
<1> QED BY <1>1, <1>2, <1>3, <1>4 DEF FwdDone

LEMMA CancelFollows ==
    ASSUME NEW W, TypeOK, Told, Fit(W), NEW c \in cancels,
           CancelMany(c) \/ CancelEach(c) \/ CancelCheck(c) \/ CancelFailed(c)
    PROVE  Follows(W)
<1>1. UNCHANGED <<mem, disk>>
    BY DEF CancelMany, CancelEach, CancelCheck, CancelFailed
<1>2. CASE CancelMany(c) \/ CancelEach(c) \/ CancelCheck(c)
    BY <1>1, <1>2, NothingFollows DEF CancelMany, CancelEach, CancelCheck
<1>3. CASE CancelFailed(c)
    <2>1. PICK t \in c.sent :
             app' = [app EXCEPT ![Row(t)].status =
                IF @ = "off" /\ app[Row(t)].lport = t.lport THEN "active" ELSE @]
        BY <1>3 DEF CancelFailed
    <2>2. t \in Forwards /\ Row(t) \in Apps /\ t.lport /= None
        BY RowType, PortGiven DEF TypeOK, Cancels
    <2> SUFFICES ASSUME NEW a \in Apps
                 PROVE  RowKept(W, app[a], app'[a])
        BY <1>1, FollowsFrame DEF Follows, EntryKept, SameEntry
    <2>3. CASE a = Row(t) /\ app[a].status = "off" /\ app[a].lport = t.lport
        <3>1. app'[a] = [app[a] EXCEPT !.status = "active"]
            BY <2>1, <2>3 DEF TypeOK
        <3>2. /\ app'[a].status = "active" /\ app'[a].muted = app[a].muted
              /\ app'[a].override = app[a].override
            BY <3>1 DEF TypeOK, AppW
        <3>3. W \/ Silent(app[a])
            BY <2>3 DEF Fit, Harmless
        <3> QED BY <2>2, <2>3, <3>2, <3>3 DEF RowKept, Firm, Silent
    <2>4. CASE ~(a = Row(t) /\ app[a].status = "off" /\ app[a].lport = t.lport)
        <3>1. app'[a] = app[a]
            BY <2>1, <2>4 DEF TypeOK, AppW
        <3> QED BY <3>1 DEF RowKept
    <2> QED BY <2>3, <2>4
<1> QED BY <1>2, <1>3

LEMMA SwitchFollows ==
    ASSUME NEW W, TypeOK, Told, Fit(W),
           ToggleAuto \/ Refresh \/ \E h \in Hosts : ToggleHost(h)
    PROVE  Follows(W)
<1>1. ASSUME ~W, mem' = mem, disk' \in {disk, mem}, NEW S \in SUBSET Apps, Stop(S)
      PROVE  Follows(W)
    <2> SUFFICES ASSUME NEW a \in Apps
                 PROVE  RowKept(W, app[a], app'[a])
        BY <1>1, FollowsFrame DEF Follows, EntryKept, SameEntry
    <2>1. \/ app'[a] = app[a]
          \/ app'[a] = [app[a] EXCEPT !.status = "off"] /\ Claimed(app[a])
        BY <1>1 DEF Stop
    <2>2. /\ [app[a] EXCEPT !.status = "off"].status = "off"
          /\ [app[a] EXCEPT !.status = "off"].muted = app[a].muted
          /\ [app[a] EXCEPT !.status = "off"].override = app[a].override
        BY DEF TypeOK, AppW
    <2> QED BY <1>1, <2>1, <2>2 DEF RowKept, Firm, Claimed
<1>2. ASSUME mem' = mem, disk' \in {disk, mem},
             NEW S \in SUBSET Apps, AutoForwardPass(app, fwds, S)
      PROVE  Follows(W)
    <2>1. \A a \in Apps : FollowsTo(W, a, app[a])
        BY <1>2, FollowsFrame DEF RowKept, EntryKept, SameEntry
    <2> QED BY <1>2, <2>1, PassFollows DEF TypeOK
<1>3. CASE ToggleAuto
    <2>1. ~W
        BY <1>3 DEF ToggleAuto, Fit, Undisturbed
    <2> QED BY <1>1, <1>2, <1>3, <2>1 DEF ToggleAuto
<1>4. ASSUME NEW h \in Hosts, ToggleHost(h)
      PROVE  Follows(W)
    <2>1. AppsOf(h) \in SUBSET Apps /\ ~W
        BY <1>4 DEF AppsOf, ToggleHost, Fit, Undisturbed
    <2> QED BY <1>1, <1>2, <1>4, <2>1 DEF ToggleHost, Remember
<1>5. CASE Refresh
    BY <1>5, NothingFollows DEF Refresh
<1> QED BY <1>3, <1>4, <1>5

LEMMA RowCommandFollows ==
    ASSUME NEW W, TypeOK, Told, NEW a \in Apps,
           Firm(W, app[a]) => Agree(mem[a], disk[a]),
           \/ Toggle(a) \/ ToggleHidden(a) \/ SetComment(a)
           \/ \E lp \in LPorts : Assign(a, lp)
    PROVE  Follows(W)
<1>0. /\ app[a] \in AppW /\ mem[a] \in Entry /\ Promote(app[a]) \in AppW
      /\ app \in [Apps -> AppW] /\ mem \in [Apps -> Entry]
    BY PromotedType DEF TypeOK
<1>1. \* of other rows nothing changes, and their entries are at most saved
      ASSUME NEW b \in Apps, mem'[b] = mem[b], disk'[b] \in {disk[b], mem[b]}
      PROVE  FollowsTo(W, b, app[b])
    BY <1>1, FollowsFrame DEF RowKept, EntryKept, SameEntry
<1>2. \* it suffices to look at the row itself when no other is started
      ASSUME \A b \in Apps : b /= a => app'[b] = app[b] /\ mem'[b] = mem[b]
                                       /\ disk'[b] \in {disk[b], mem[b]},
             FollowsTo(W, a, app'[a])
      PROVE  Follows(W)
    <2> SUFFICES ASSUME NEW b \in Apps, b /= a
                 PROVE  FollowsTo(W, b, app'[b])
        BY <1>2 DEF Follows
    <2> QED BY <1>1, <1>2
<1>3. \* a row started by hand agrees with its entry again
      app[a].status /= "absent" =>
         Promote(app[a]).override = Promoted(app[a], mem, a)
    BY <1>0 DEF Promote, Promoted, Tier, AppW, Told
<1>4. CASE ToggleOff(a)
    <2>1. /\ app' = [app EXCEPT ![a] = [@ EXCEPT !.status = "off", !.muted = TRUE]]
          /\ mem' = [mem EXCEPT ![a].muted = TRUE] /\ disk' = mem'
          /\ app[a].status /= "absent"
        BY <1>4 DEF ToggleOff, Remember, Claimed
    <2>2. /\ app'[a].status = "off" /\ app'[a].override = app[a].override
          /\ app'[a].muted /\ mem'[a].tier = mem[a].tier
          /\ \A b \in Apps : b /= a => app'[b] = app[b] /\ mem'[b] = mem[b]
        BY <1>0, <2>1 DEF AppW, Entry
    <2>3. FollowsTo(W, a, app'[a])
        BY <2>1, <2>2 DEF FollowsTo, Firm, Silent, Told
    <2> QED BY <1>2, <2>1, <2>2, <2>3
<1>5. CASE ToggleOn(a)
    <2> DEFINE A == [app EXCEPT ![a] = [Promote(app[a]) EXCEPT !.status = "off",
                        !.muted = FALSE, !.retried = FALSE]]
    <2>1. /\ mem' = [mem EXCEPT ![a] = [@ EXCEPT !.muted = FALSE,
                                       !.tier = Promoted(app[a], mem, a)]]
          /\ disk' = mem' /\ app[a].status /= "absent"
          /\ StartForwards(A, fwds, {a})
        BY <1>5 DEF ToggleOn, Remember
    <2>2. /\ A \in [Apps -> AppW] /\ A[a].status = "off"
          /\ A[a].override = Promote(app[a]).override
          /\ \A b \in Apps : b /= a => A[b] = app[b]
        BY <1>0 DEF AppW, Statuses
    <2>3. /\ ~mem'[a].muted /\ mem'[a].tier = Promoted(app[a], mem, a)
          /\ \A b \in Apps : b /= a => mem'[b] = mem[b]
        BY <1>0, <2>1 DEF Entry, Promoted, Overrides
    <2> HIDE DEF A
    <2>4. ASSUME NEW b \in Apps
          PROVE  FollowsTo(W, b, A[b])
        <3>1. CASE b = a
            BY <1>3, <2>1, <2>2, <2>3, <3>1 DEF FollowsTo, Agree
        <3>2. CASE b /= a
            BY <1>1, <2>1, <2>2, <2>3, <3>2
        <3> QED BY <3>1, <3>2
    <2> QED BY <2>1, <2>2, <2>4, StartForwardsFollows
<1>6. CASE Hide(a)
    <2>1. /\ app' = [app EXCEPT ![a] = [app[a] EXCEPT !.status = "off",
                                                      !.override = "bg"]]
          /\ mem' = [mem EXCEPT ![a].tier = "bg"] /\ disk' = mem'
          /\ app[a].status /= "absent"
        BY <1>6 DEF Hide, Remember
    <2>2. /\ app'[a].status = "off" /\ app'[a].override = "bg"
          /\ mem'[a].tier = "bg"
          /\ \A b \in Apps : b /= a => app'[b] = app[b] /\ mem'[b] = mem[b]
        BY <1>0, <2>1 DEF AppW, Entry
    <2>3. FollowsTo(W, a, app'[a])
        BY <2>1, <2>2 DEF FollowsTo, Firm, Silent
    <2> QED BY <1>2, <2>1, <2>2, <2>3
<1>7. CASE Unhide(a)
    <2> DEFINE A == [app EXCEPT ![a] = [app[a] EXCEPT !.override = "app",
                        !.muted = FALSE,
                        !.status = IF @ = "error" THEN "off" ELSE @]]
    <2>1. /\ mem' = [mem EXCEPT ![a] = [@ EXCEPT !.tier = "app", !.muted = FALSE]]
          /\ disk' = mem' /\ app[a].status /= "absent"
          /\ AutoForwardPass(A, fwds, AppsOf(a[1])) /\ AppsOf(a[1]) \in SUBSET Apps
        BY <1>7 DEF Unhide, Remember, AppsOf
    <2>2. [app[a] EXCEPT !.override = "app", !.muted = FALSE,
              !.status = IF @ = "error" THEN "off" ELSE @] \in AppW
        BY <1>0 DEF AppW, Statuses, Overrides
    <2>3. A \in [Apps -> AppW] /\ \A b \in Apps : b /= a => A[b] = app[b]
        BY <1>0, <2>2
    <2>4. A[a].override = "app"
        BY <1>0 DEF AppW
    <2>5. /\ ~mem'[a].muted /\ mem'[a].tier = "app"
          /\ \A b \in Apps : b /= a => mem'[b] = mem[b]
        BY <1>0, <2>1 DEF Entry
    <2>6. A[a].status /= "absent"
        BY <1>0, <2>1 DEF AppW
    <2> HIDE DEF A
    <2>7. ASSUME NEW b \in Apps
          PROVE  FollowsTo(W, b, A[b])
        <3>1. CASE b = a
            BY <2>1, <2>4, <2>5, <2>6, <3>1 DEF FollowsTo, Agree
        <3>2. CASE b /= a
            BY <1>1, <2>1, <2>3, <2>5, <3>2
        <3> QED BY <3>1, <3>2
    <2> QED BY <2>1, <2>3, <2>7, PassFollows
<1>8. CASE SetComment(a)
    BY <1>8, NothingFollows DEF SetComment
<1>9. ASSUME NEW lp \in LPorts, AssignSame(a, lp)
      PROVE  Follows(W)
    <2>1. /\ app' = [app EXCEPT ![a].pinned = TRUE]
          /\ mem' = [mem EXCEPT ![a] = [@ EXCEPT !.lport = lp, !.pinned = TRUE]]
          /\ disk' = mem' /\ app[a].status = "active"
        BY <1>9 DEF AssignSame, Remember
    <2>2. /\ app'[a].status = "active" /\ app'[a].muted = app[a].muted
          /\ app'[a].override = app[a].override
          /\ mem'[a].muted = mem[a].muted /\ mem'[a].tier = mem[a].tier
          /\ \A b \in Apps : b /= a => app'[b] = app[b] /\ mem'[b] = mem[b]
        BY <1>0, <2>1 DEF AppW, Entry
    <2>3. FollowsTo(W, a, app'[a])
        BY <2>1, <2>2 DEF FollowsTo, Agree, Firm, Silent, Told
    <2> QED BY <1>2, <2>1, <2>2, <2>3
<1>10. ASSUME NEW lp \in LPorts, AssignOther(a, lp)
       PROVE  Follows(W)
    <2>1. /\ app' = [app EXCEPT ![a] = [Promote(app[a]) EXCEPT !.status = "pending",
               !.lport = lp, !.pinned = TRUE, !.muted = FALSE, !.retried = FALSE]]
          /\ mem' = [mem EXCEPT ![a].tier = Promoted(app[a], mem, a)]
          /\ UNCHANGED disk /\ app[a].status /= "absent"
        BY <1>10 DEF AssignOther
    <2>2. /\ app'[a].status = "pending"
          /\ app'[a].override = Promote(app[a]).override
          /\ mem'[a].tier = Promoted(app[a], mem, a)
          /\ \A b \in Apps : b /= a => app'[b] = app[b] /\ mem'[b] = mem[b]
        BY <1>0, <2>1 DEF AppW, Entry
    <2>3. FollowsTo(W, a, app'[a])
        BY <1>3, <2>1, <2>2 DEF FollowsTo, Firm
    <2> QED BY <1>2, <2>1, <2>2, <2>3
<1> QED BY <1>4, <1>5, <1>6, <1>7, <1>8, <1>9, <1>10
        DEF Toggle, ToggleHidden, Assign

LEMMA WorkerFollows ==
    ASSUME NEW W, TypeOK, TierAssumption, ChoiceInv(W), Fit(W), [Next]_vars
    PROVE  Follows(W)
<1>0. Told
    BY DEF Told, ChoiceInv, ChoiceRow
<1>1. CASE AnyTick
    <2>1. /\ UNCHANGED <<mem, disk>>
          /\ \A a \in Apps : app'[a] \in {NoApp, app[a]}
        BY <1>1 DEF AnyTick, Tick
    <2> QED BY <1>0, <2>1, FollowsFrame DEF Follows, RowKept, EntryKept, SameEntry
<1>2. CASE Command
    <2>1. \A a \in Apps : Firm(W, app[a]) => Agree(mem[a], disk[a])
        BY DEF ChoiceInv, ChoiceRow
    <2> QED BY <1>0, <1>2, <2>1, SwitchFollows, RowCommandFollows DEF Command
<1>3. ASSUME NEW h \in Hosts,
             ConnectStep(h) \/ ScanStep(h) \/ CancelStep(h) \/ TeardownStep(h)
      PROVE  Follows(W)
    <2>1. CASE ConnectStep(h) \/ TeardownStep(h)
        <3>1. UNCHANGED <<app, mem, disk>>
            BY <2>1 DEF ConnectStep, Connect, MasterDone, TeardownStep, Teardown
        <3> QED BY <1>0, <3>1, NothingFollows
    <2> QED BY <1>0, <1>3, <2>1, ScanFollows, CancelFollows
            DEF ScanStep, CancelStep, OfHost
<1>4. ASSUME NEW a \in Apps, FwdStep(a)
      PROVE  Follows(W)
    <2>1. ASSUME NEW f \in fwds, CancelOld(f) \/ Bind(f)
          PROVE  Follows(W)
        BY <1>0, <2>1, NothingFollows DEF CancelOld, Bind
    <2> QED BY <1>0, <1>4, <2>1, FwdDoneFollows DEF FwdStep, OfRow
<1>5. CASE CooldownElapse \/ Environment \/ UNCHANGED vars
    <2>1. UNCHANGED <<app, mem, disk>>
        BY <1>5 DEF CooldownElapse, Environment, vars
    <2> QED BY <1>0, <2>1, NothingFollows
<1> QED BY <1>1, <1>2, <1>3, <1>4, <1>5 DEF Next

(* The process's steps. *)
Returned == \A a \in Apps :
    app[a].status = "absent" /\ app'[a].status /= "absent" =>
       /\ shown[a] = "off" => Silent(app'[a])
       /\ shown[a] \in {"on", "promoted"} => ~Silent(app'[a])
       /\ shown[a] = "promoted" => app'[a].override = "app"

Rowless == phase \in {"down", "crashed"} => \A a \in Apps : app[a] = NoApp

LifeChoiceInv(W) == ChoiceInv(W) /\ SavedInv /\ Rowless

LEMMA ChoiceFollows ==
    ASSUME NEW W, ChoiceInv(W), SavedInv, Follows(W),
           \A a \in Apps : shown'[a] =
               IF app'[a].status = "absent" THEN shown[a] ELSE Choice(app'[a])
    PROVE  ChoiceInv(W)' /\ Returned
<1>1. ASSUME NEW a \in Apps
      PROVE  ChoiceRow(W, app'[a], mem'[a], disk'[a], shown'[a])
    <2>1. /\ ChoiceRow(W, app[a], mem[a], disk[a], shown[a])
          /\ RowSaved(app[a], mem[a], disk[a]) /\ FollowsTo(W, a, app'[a])
        BY DEF ChoiceInv, SavedInv, Follows
    <2> QED BY <2>1, ChoiceRowStep
<1>2. Returned
    BY RowReturns DEF Returned, ChoiceInv, Follows
<1> QED BY <1>1, <1>2 DEF ChoiceInv

LEMMA LifeChoiceStep ==
    ASSUME NEW W, TypeOK, LifeTypeOK, TierAssumption, LifeChoiceInv(W),
           phase \in {"run", "quit"} => Fit(W), [LifeNext]_lifeVars
    PROVE  LifeChoiceInv(W)' /\ Returned
<1>0. ChoiceInv(W) /\ SavedInv /\ Rowless /\ Told
    BY DEF LifeChoiceInv, ChoiceInv, ChoiceRow, Told
<1>1. \A a \in Apps : shown'[a] =
          IF app'[a].status = "absent" THEN shown[a] ELSE Choice(app'[a])
    <2>1. CASE UNCHANGED lifeVars
        BY <1>0, <2>1 DEF lifeVars, vars, ChoiceInv, ChoiceRow
    <2> QED BY <2>1 DEF LifeNext, Observe
<1>2. CASE phase \in {"run", "quit"} /\ Work
    <2>1. [Next]_vars /\ UNCHANGED runVars
        BY <1>2 DEF Work
    <2>2. Follows(W)
        BY <1>0, <1>2, <2>1, WorkerFollows
    <2>3. SavedInv'
        BY <1>0, <2>1, SavedStep
    <2>4. Rowless'
        BY <1>2, <2>1 DEF Rowless, runVars
    <2> QED BY <1>0, <1>1, <2>2, <2>3, <2>4, ChoiceFollows DEF LifeChoiceInv
<1>3. CASE SendQuit \/ GoOn \/ UNCHANGED lifeVars
    <2>1. UNCHANGED <<app, mem, disk>>
        BY <1>3 DEF SendQuit, GoOn, ThreadStep, Connect, Scan, CancelOld, Bind,
           CancelMany, CancelEach, CancelCheck, TeardownStep, Teardown, Environment,
           lifeVars, vars
    <2>2. Follows(W)
        BY <1>0, <2>1, NothingFollows
    <2>3. SavedInv'
        BY <1>0, <2>1, SavedFrame
    <2>4. Rowless'
        BY <1>0, <1>3, <2>1 DEF Rowless, SendQuit, GoOn, runVars, lifeVars
    <2> QED BY <1>0, <1>1, <2>2, <2>3, <2>4, ChoiceFollows DEF LifeChoiceInv
<1>4. CASE Cleanup \/ Exit \/ Crash
    <2>1. UNCHANGED <<mem, disk>> /\ \A a \in Apps : app'[a] = NoApp
        BY <1>4 DEF Cleanup, Exit, Crash, End
    <2>2. Follows(W)
        BY <1>0, <2>1, FollowsFrame DEF Follows, EntryKept, SameEntry
    <2>3. SavedInv'
        BY <1>0, <2>1, SavedFrame
    <2>4. Rowless'
        BY <2>1 DEF Rowless
    <2> QED BY <1>0, <1>1, <2>2, <2>3, <2>4, ChoiceFollows DEF LifeChoiceInv
<1>5. CASE Restart
    <2>1. /\ mem' = disk /\ UNCHANGED <<app, disk>> /\ phase' = "run"
          /\ \A a \in Apps : app[a] = NoApp
        BY <1>0, <1>5 DEF Restart, Load, Rowless
    <2>2. ASSUME NEW a \in Apps
          PROVE  /\ ChoiceRow(W, app'[a], mem'[a], disk'[a], shown'[a])
                 /\ RowSaved(app'[a], mem'[a], disk'[a])
        <3>1. app[a].status = "absent" /\ ~app[a].muted /\ app[a].override = "none"
            BY <2>1 DEF NoApp
        <3>2. ChoiceRow(W, app[a], mem[a], disk[a], shown[a])
            BY <1>0 DEF ChoiceInv
        <3>3. shown'[a] = shown[a] /\ app'[a] = app[a]
            BY <1>1, <2>1, <3>1
        <3> QED BY <2>1, <3>1, <3>2, <3>3 DEF ChoiceRow, RowSaved, Firm, Agree
    <2>3. Returned
        BY <2>1 DEF Returned, NoApp
    <2> QED BY <2>1, <2>2, <2>3 DEF LifeChoiceInv, ChoiceInv, SavedInv, Rowless
<1> QED BY <1>2, <1>3, <1>4, <1>5 DEF LifeNext, Work

LEMMA LifeChoiceStart ==
    ASSUME NEW W, LifeInit
    PROVE  LifeChoiceInv(W)
BY DEF LifeInit, Init, LifeChoiceInv, ChoiceInv, ChoiceRow, Firm, SavedInv, RowSaved,
   Rowless, NoApp

(* Whatever fails, whichever commands are given and whenever the process is
   quit or killed, what the user settled for a row survives, unless a forward
   is shown as up again, its cancel having failed, whose row the user had not
   muted or hidden but had switched off with its host or with everything, or
   lost with its master (on_fwd, toggle, toggle_hidden, assign, load). *)
THEOREM ChoicesOutlive == LifeSpec /\ []Harmless => ChoicesSurvive
<1>1. LifeInit => LifeChoiceInv(FALSE)
    BY LifeChoiceStart
<1>2. TypeOK /\ LifeTypeOK /\ LifeChoiceInv(FALSE) /\ Harmless /\ [LifeNext]_lifeVars
          => LifeChoiceInv(FALSE)' /\ Returned
    BY LifeChoiceStep, TierAssumption DEF Fit
<1>3. Returned => \A a \in Apps :
          app[a].status = "absent" /\ app'[a].status /= "absent" =>
             /\ shown[a] = "off" => Silent(app'[a])
             /\ shown[a] \in {"on", "promoted"} => ~Silent(app'[a])
             /\ shown[a] = "promoted" => app'[a].override = "app"
    BY DEF Returned
<1> QED BY <1>1, <1>2, <1>3, LifeTypeCorrect, PTL DEF LifeSpec, ChoicesSurvive

(* While nothing fails and forwarding is not switched for a host or for all,
   it survives without exception: failed cancels show as up again only what
   the user had started before. *)
THEOREM ChoicesOutliveQuiet ==
    Quiet /\ Commands \cap {"auto", "host"} = {} => (LifeSpec => ChoicesSurvive)
<1> DEFINE Calm == Quiet /\ Commands \cap {"auto", "host"} = {}
<1>1. LifeInit => LifeChoiceInv(TRUE)
    BY LifeChoiceStart
<1>2. LeftInv /\ phase \in {"run", "quit"} => \A s \in scans : s.res /= "fail"
    BY DEF LeftInv, Running, OwnInv, Stands
<1>3. Calm /\ TypeOK /\ LifeTypeOK /\ LeftInv /\ LifeChoiceInv(TRUE)
          /\ [LifeNext]_lifeVars => LifeChoiceInv(TRUE)' /\ Returned
    BY <1>2, LifeChoiceStep, TierAssumption DEF Fit, Undisturbed
<1>4. Returned => \A a \in Apps :
          app[a].status = "absent" /\ app'[a].status /= "absent" =>
             /\ shown[a] = "off" => Silent(app'[a])
             /\ shown[a] \in {"on", "promoted"} => ~Silent(app'[a])
             /\ shown[a] = "promoted" => app'[a].override = "app"
    BY DEF Returned
<1>5. Calm => Calm'
    BY DEF Quiet
<1>6. Calm => []Calm
    BY <1>5, PTL
<1>7. Calm => Quiet
    OBVIOUS
<1> HIDE DEF Calm
<1>8. Calm => (LifeSpec => ChoicesSurvive)
    BY <1>1, <1>3, <1>4, <1>6, <1>7, LeftInvariant, LifeTypeCorrect, PTL
    DEF LifeSpec, ChoicesSurvive
<1> QED BY <1>8 DEF Calm
=============================================================================
