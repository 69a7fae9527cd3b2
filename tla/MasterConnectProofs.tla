------------------------- MODULE MasterConnectProofs -------------------------
(***************************************************************************)
(* Proofs about MasterConnect, for every set of processes and threads and  *)
(* every bound: a master that was alone all its life is never lost         *)
(* (NoLeak).                                                               *)
(*                                                                         *)
(* NoLeak alone is not inductive: a step that removes the file, lets go of *)
(* a child or forgets the host might leave a master that was alone.  Safe  *)
(* says why none does.  While such a master is starting or mute, the one   *)
(* thread that started it polls it, and no close is meant for it; once it  *)
(* is up its socket is at the path, and neither the thread that could      *)
(* remove a stale file nor a close that is about to remove it is there.    *)
(***************************************************************************)
EXTENDS MasterConnect, FiniteSetTheorems, TLAPS

Young(p) == proc[p] \in {"starting", "mute"}

(* While it is young, its own connect polls it and nothing else knows it. *)
Polled(p) ==
    /\ file /= p /\ held.child /= p
    /\ \A c \in Closes : close[c].pc = "idle"
    /\ \E t \in Connects : connect[t].pc = "poll" /\ connect[t].child = p

(* Once it is up, nobody is about to remove its socket. *)
Reached(p) ==
    /\ file = p
    /\ \A t \in Connects : connect[t].pc \notin {"remove", "spawn"}
    /\ \A c \in Closes : close[c].pc \notin {"kill", "remove"}

Safe(p) ==
    /\ Running = {p}
    /\ \A t \in Busy, u \in Busy : t = u
    /\ \A c \in Closes : close[c].pc /= "idle" => close[c].target = p
    /\ Young(p) => Polled(p)
    /\ proc[p] = "up" => Reached(p)

IInv == TypeOK /\ \A p \in Running \ crowded : Safe(p)

----------------------------------------------------------------------------
(* Type correctness.                                                       *)

(* A choice from a set that is not empty is in it. *)
LEMMA Chosen == ASSUME NEW S, S /= {} PROVE AnyOf(S) \in S
BY DEF AnyOf

LEMMA InitTyped == ASSUME Init PROVE TypeOK
<1>1. file \in Handles
    BY Chosen, ProcsAssumption DEF Init, Handles
<1>2. proc \in [Procs -> States]
    BY DEF Init, States
<1>3. Idle \in [pc : {"idle", "check", "remove", "spawn", "poll", "ok", "err"},
               child : Handles]
    BY DEF Idle, Handles
<1>4. NoClose \in [pc : {"idle", "exit", "kill", "remove"},
                  child : Handles, target : Handles]
    BY DEF NoClose, Handles
<1>5. Gone \in [state : {"gone", "connecting", "ready", "failed"}, child : Handles]
    BY DEF Gone, Handles
<1>6. ends \in 0..MaxEnds /\ faults \in 0..MaxFaults
    BY BoundsAssumption DEF Init
<1> QED
    BY <1>1, <1>2, <1>3, <1>4, <1>5, <1>6 DEF Init, TypeOK

(* The part of the state that a thread of connect may change. *)
LEMMA ConnectTyped ==
    ASSUME TypeOK, NEW t \in Connects, ConnectStep(t) \/ Deadline(t), Note
    PROVE  TypeOK'
<1> USE DEF TypeOK, Handles
<1>0. crowded' \subseteq Procs
    BY DEF Note, Running
<1>1. CASE Dial(t)
    BY <1>0, <1>1 DEF Dial, Goto
<1>2. CASE CheckOwn(t)
    BY <1>0, <1>2, BoundsAssumption DEF CheckOwn, Goto, Check
<1>3. CASE RemoveStale(t)
    BY <1>0, <1>3 DEF RemoveStale, Goto
<1>4. CASE Spawn(t)
    <2>1. AnyOf(Unused) \in Procs
        BY <1>4, Chosen DEF Spawn, Unused
    <2> QED BY <1>0, <1>4, <2>1 DEF Spawn, States
<1>5. CASE Poll(t)
    BY <1>0, <1>5 DEF Poll, Goto, Fail
<1>6. CASE Deadline(t)
    <2>1. faults' \in 0..MaxFaults
        BY <1>6, BoundsAssumption DEF Deadline, TooSlow
    <2>2. proc' \in [Procs -> States]
        BY <1>6 DEF Deadline, States
    <2>3. connect' \in [Connects -> [pc : {"idle", "check", "remove", "spawn", "poll",
                                          "ok", "err"}, child : Handles]]
        BY <1>6 DEF Deadline, Fail
    <2> QED BY <1>0, <1>6, <2>1, <2>2, <2>3 DEF Deadline
<1>7. CASE MasterDone(t)
    <2>1. connect' \in [Connects -> [pc : {"idle", "check", "remove", "spawn", "poll",
                                          "ok", "err"}, child : Handles]]
        BY <1>7 DEF MasterDone, Idle
    <2>2. close' \in [Closes -> [pc : {"idle", "exit", "kill", "remove"},
                                 child : Handles, target : Handles]]
        BY <1>7 DEF MasterDone, LateResult, StartClose
    <2>3. held' \in [state : {"gone", "connecting", "ready", "failed"}, child : Handles]
        BY <1>7 DEF MasterDone
    <2>4. UNCHANGED <<file, proc, ends, faults>> /\ inflight' \in BOOLEAN
        BY <1>7 DEF MasterDone
    <2> QED BY <1>0, <2>1, <2>2, <2>3, <2>4
<1> QED
    BY <1>1, <1>2, <1>3, <1>4, <1>5, <1>6, <1>7 DEF ConnectStep

LEMMA CloseTyped ==
    ASSUME TypeOK, NEW c \in Closes, CloseStep(c), Note
    PROVE  TypeOK'
<1> USE DEF TypeOK, Handles
<1>0. crowded' \subseteq Procs
    BY DEF Note, Running
<1>1. CASE CloseExit(c)
    BY <1>0, <1>1 DEF CloseExit, States
<1>2. CASE CloseKill(c)
    <2>1. close' \in [Closes -> [pc : {"idle", "exit", "kill", "remove"},
                                 child : Handles, target : Handles]]
        BY <1>2 DEF CloseKill
    <2>2. proc' \in [Procs -> States]
        BY <1>2 DEF CloseKill, States
    <2> QED BY <1>0, <1>2, <2>1, <2>2 DEF CloseKill
<1>3. CASE CloseRemove(c)
    BY <1>0, <1>3 DEF CloseRemove, NoClose
<1> QED BY <1>1, <1>2, <1>3 DEF CloseStep

LEMMA ProcTyped ==
    ASSUME TypeOK, NEW p \in Procs, ProcStep(p) \/ Lose(p), Note
    PROVE  TypeOK'
<1> USE DEF TypeOK, Handles
<1>0. crowded' \subseteq Procs
    BY DEF Note, Running
<1>1. CASE Bind(p)
    BY <1>0, <1>1 DEF Bind, States
<1>2. CASE Quit(p)
    BY <1>0, <1>2 DEF Quit, States
<1>3. CASE Lose(p)
    BY <1>0, <1>3, BoundsAssumption DEF Lose, States
<1> QED BY <1>1, <1>2, <1>3 DEF ProcStep

LEMMA WorkerTyped ==
    ASSUME TypeOK, SessionStarts \/ SessionEnds \/ GiveUp, Note
    PROVE  TypeOK'
<1> USE DEF TypeOK, Handles
<1>0. crowded' \subseteq Procs
    BY DEF Note, Running
<1>1. CASE SessionStarts
    BY <1>0, <1>1 DEF SessionStarts
<1>2. CASE SessionEnds
    <2>1. close' \in [Closes -> [pc : {"idle", "exit", "kill", "remove"},
                                 child : Handles, target : Handles]]
        BY <1>2 DEF SessionEnds, StartClose
    <2>2. ends' \in 0..MaxEnds
        BY <1>2, BoundsAssumption DEF SessionEnds
    <2>3. held' \in [state : {"gone", "connecting", "ready", "failed"}, child : Handles]
        BY <1>2 DEF SessionEnds, Gone
    <2>4. UNCHANGED <<file, proc, connect, faults>> /\ inflight' \in BOOLEAN
        BY <1>2 DEF SessionEnds
    <2> QED BY <1>0, <2>1, <2>2, <2>3, <2>4
<1>3. CASE GiveUp
    BY <1>0, <1>3, BoundsAssumption DEF GiveUp, Check
<1> QED BY <1>1, <1>2, <1>3

(* Every step keeps the types. *)
LEMMA NextTyped == ASSUME TypeOK, Next PROVE TypeOK'
BY ConnectTyped, CloseTyped, ProcTyped, WorkerTyped DEF Next

----------------------------------------------------------------------------
(* What the history of a master that was alone says.                       *)

LEMMA AtMostOneBusy ==
    ASSUME Cardinality(Busy') <= 1
    PROVE  \A t \in Busy', u \in Busy' : t = u
<1> SUFFICES ASSUME NEW t \in Busy', NEW u \in Busy', t /= u PROVE FALSE
    OBVIOUS
<1>1. Busy' \subseteq Connects
    BY DEF Busy
<1>2. IsFiniteSet(Busy')
    BY <1>1, ThreadsAssumption, FS_Subset
<1>3. Cardinality({t}) = 1 /\ IsFiniteSet({t})
    BY FS_Singleton
<1>4. {t} \in SUBSET (Busy') /\ {t} /= Busy'
    OBVIOUS
<1>5. Cardinality({t}) <= Cardinality(Busy') /\ Cardinality({t}) /= Cardinality(Busy')
    BY <1>2, <1>4, FS_Subset
<1>6. Cardinality(Busy') \in Nat
    BY <1>2, FS_CardinalityType
<1> QED BY <1>3, <1>5, <1>6

(* It is alone after the step, and it was safe before it unless the step
   started it. *)
LEMMA StillAlone ==
    ASSUME Note, NEW p \in Running' \ crowded',
           \A q \in Running \ crowded : Safe(q)
    PROVE  /\ Running' = {p}
           /\ \A t \in Busy', u \in Busy' : t = u
           /\ \A c \in Closes : close'[c].pc /= "idle" => close'[c].target = p
           /\ faults' = faults \/ ~Answers \/ ~Answers'
           /\ p \in Running => Safe(p)
<1>1. Alone(p) /\ (p \in Running => p \notin crowded)
    BY DEF Note
<1>2. \A t \in Busy', u \in Busy' : t = u
    BY <1>1, AtMostOneBusy DEF Alone
<1> QED BY <1>1, <1>2 DEF Alone

(* A young master is not the one that answers, and one that answers is up. *)
LEMMA Answering == Answers => proc[file] = "up" /\ file \in Running
BY DEF Answers, Running

(* What every step has to keep for a master that stays alone. *)
Kept(p) == (Young(p) => Polled(p)) /\ (proc[p] = "up" => Reached(p))

----------------------------------------------------------------------------
(* The threads of connect.                                                 *)

LEMMA DialKeeps ==
    ASSUME TypeOK, NEW p \in Procs, Safe(p), NEW t \in Connects, Dial(t)
    PROVE  Kept(p)'
BY DEF TypeOK, Safe, Young, Polled, Reached, Kept, Dial, Goto

(* The check may only send its thread to remove the file of a master that is
   up when it times out. *)
LEMMA CheckOwnKeeps ==
    ASSUME TypeOK, NEW p \in Procs, Safe(p), NEW t \in Connects, CheckOwn(t),
           faults' = faults \/ ~Answers \/ ~Answers'
    PROVE  Kept(p)'
<1>1. UNCHANGED <<file, proc, close, held>>
    BY DEF CheckOwn
<1>2. proc[p] = "up" => Reached(p)'
    <2>1. SUFFICES ASSUME proc[p] = "up" PROVE Reached(p)'
        OBVIOUS
    <2>2. Answers /\ Answers'
        BY <1>1, <2>1 DEF Safe, Reached, Answers
    <2>3. PICK yes \in BOOLEAN : Check(yes) /\ Goto(t, IF yes THEN "ok" ELSE "remove")
        BY DEF CheckOwn
    <2>4. yes
        <3>1. faults' = faults
            BY <2>2
        <3>2. faults /= faults + 1
            BY BoundsAssumption DEF TypeOK
        <3>3. yes = Answers
            BY <2>3, <3>1, <3>2 DEF Check
        <3> QED BY <2>2, <3>3
    <2>5. connect' = [connect EXCEPT ![t].pc = "ok"]
        BY <2>3, <2>4 DEF Goto
    <2> QED BY <1>1, <2>1, <2>5 DEF Safe, Reached, TypeOK
<1>3. Young(p) => Polled(p)'
    <2>1. connect[t].pc = "check"
        BY DEF CheckOwn
    <2>2. \A u \in Connects \ {t} : connect'[u] = connect[u]
        BY DEF CheckOwn, Goto, TypeOK
    <2> QED BY <1>1, <2>1, <2>2 DEF Safe, Young, Polled
<1> QED BY <1>1, <1>2, <1>3 DEF Kept, Young

(* No thread is about to remove the file while p is up; one that removes it
   while p is young is not the one that polls p. *)
LEMMA RemoveStaleKeeps ==
    ASSUME TypeOK, NEW p \in Procs, Safe(p), NEW t \in Connects, RemoveStale(t)
    PROVE  Kept(p)'
<1>1. proc[p] /= "up"
    BY DEF Safe, Reached, RemoveStale
<1>2. Young(p) => Polled(p)'
    <2>1. None /= p
        BY ProcsAssumption DEF None
    <2>2. \A u \in Connects \ {t} : connect'[u] = connect[u]
        BY DEF RemoveStale, Goto, TypeOK
    <2> QED BY <2>1, <2>2 DEF RemoveStale, Safe, Young, Polled
<1> QED BY <1>1, <1>2 DEF Kept, Young, RemoveStale

LEMMA PollKeeps ==
    ASSUME TypeOK, NEW p \in Procs, Safe(p), NEW t \in Connects, Poll(t)
    PROVE  Kept(p)'
<1>1. UNCHANGED <<file, proc, close, held>> /\ connect[t].pc = "poll"
    BY DEF Poll
<1>2. \A u \in Connects \ {t} : connect'[u] = connect[u]
    BY DEF Poll, Fail, Goto, TypeOK
<1>3. connect'[t].pc \in {"ok", "err"}
    BY DEF Poll, Fail, Goto, TypeOK
<1>4. Young(p) => Polled(p)'
    <2>1. SUFFICES ASSUME Young(p) PROVE Polled(p)'
        OBVIOUS
    <2>2. ~Answers
        BY <2>1, Answering DEF Safe, Young
    <2>3. connect[t].child /= p
        BY <2>1, <2>2 DEF Poll, Young
    <2>4. PICK u \in Connects : connect[u].pc = "poll" /\ connect[u].child = p
        BY <2>1 DEF Safe, Polled
    <2> QED BY <1>1, <1>2, <2>1, <2>3, <2>4 DEF Safe, Polled
<1>5. proc[p] = "up" => Reached(p)'
    BY <1>1, <1>2, <1>3 DEF Safe, Reached
<1> QED BY <1>1, <1>4, <1>5 DEF Kept, Young

(* A thread whose child's deadline passes kills it; with p young it is p. *)
LEMMA DeadlineKeeps ==
    ASSUME TypeOK, NEW p \in Procs, Safe(p), NEW t \in Connects, Deadline(t)
    PROVE  Kept(p)'
<1>1. UNCHANGED <<file, close, held>> /\ connect[t].pc = "poll"
    BY DEF Deadline
<1>2. \A u \in Connects \ {t} : connect'[u] = connect[u]
    BY DEF Deadline, Fail, TypeOK
<1>3. connect'[t].pc = "err"
    BY DEF Deadline, Fail, TypeOK
<1>4. proc'[p] = proc[p] \/ proc'[p] = "dead"
    BY DEF Deadline, TypeOK
<1>5. Young(p)' => Polled(p)'
    <2>1. SUFFICES ASSUME Young(p)' PROVE Polled(p)'
        OBVIOUS
    <2>2. Young(p) /\ proc'[p] /= "dead"
        BY <1>4, <2>1 DEF Young
    <2>3. connect[t].child /= p
        BY <2>2 DEF Deadline, TypeOK
    <2>4. PICK u \in Connects : connect[u].pc = "poll" /\ connect[u].child = p
        BY <2>2 DEF Safe, Polled
    <2> QED BY <1>1, <1>2, <2>2, <2>3, <2>4 DEF Safe, Polled
<1>6. proc'[p] = "up" => Reached(p)'
    BY <1>1, <1>2, <1>3, <1>4 DEF Safe, Reached
<1> QED BY <1>5, <1>6 DEF Kept

(* A new master: the thread that started it polls it, and nothing that was
   there refers to it. *)
LEMMA SpawnSafe ==
    ASSUME TypeOK, NEW t \in Connects, Spawn(t), NEW p \in Procs, p = AnyOf(Unused),
           \A c \in Closes : close'[c].pc /= "idle" => close'[c].target = p
    PROVE  Kept(p)'
<1>1. p \in Unused
    BY Chosen DEF Spawn
<1>2. file /= p /\ held.child /= p /\ \A c \in Closes : close[c].target /= p
    BY <1>1 DEF Unused
<1>3. UNCHANGED <<file, close, held>>
    BY DEF Spawn
<1>4. proc'[p] = "starting"
    BY DEF Spawn, TypeOK
<1>5. connect'[t] = [pc |-> "poll", child |-> p]
    BY DEF Spawn, TypeOK
<1>6. \A c \in Closes : close'[c].pc = "idle"
    BY <1>2, <1>3
<1> QED BY <1>2, <1>3, <1>4, <1>5, <1>6 DEF Kept, Young, Polled

(* A close that begins is meant for p only if p is up. *)
LEMMA StartCloseKeeps ==
    ASSUME TypeOK, NEW p \in Procs, Safe(p), NEW child \in Handles, StartClose(child),
           Young(p) => child /= p,
           \A c \in Closes : close'[c].pc /= "idle" => close'[c].target = p
    PROVE  ~Young(p) /\ \A c \in Closes : close'[c].pc \in {"kill", "remove"} =>
                                              close[c].pc \in {"kill", "remove"}
<1>1. PICK c \in Closes :
          close' = [close EXCEPT ![c] = [pc |-> "exit", child |-> child,
               target |-> IF child = None THEN file ELSE child]]
    BY DEF StartClose
<1>2. (IF child = None THEN file ELSE child) = p
    BY <1>1 DEF TypeOK
<1>3. ~Young(p)
    BY <1>2 DEF Safe, Polled
<1> QED BY <1>1, <1>3 DEF TypeOK

(* A result that is taken: the thread was not the one that polls p, and if p
   is young the result is not p's, whose connect is still polling. *)
LEMMA MasterDoneKeeps ==
    ASSUME TypeOK, NEW p \in Procs, Safe(p), NEW t \in Connects, MasterDone(t),
           \A c \in Closes : close'[c].pc /= "idle" => close'[c].target = p
    PROVE  Kept(p)'
<1>1. UNCHANGED <<file, proc>> /\ connect[t].pc \in {"ok", "err"}
    BY DEF MasterDone
<1>2. \A u \in Connects \ {t} : connect'[u] = connect[u]
    BY DEF MasterDone, TypeOK
<1>3. connect'[t].pc = "idle"
    BY DEF MasterDone, TypeOK, Idle
<1>4. ~Young(p)
    <2>1. SUFFICES ASSUME Young(p) PROVE FALSE
        OBVIOUS
    <2>2. PICK u \in Connects : connect[u].pc = "poll"
        BY <2>1 DEF Safe, Polled
    <2>3. t \in Busy /\ u \in Busy /\ t /= u
        BY <1>1, <2>2 DEF Busy
    <2> QED BY <2>3 DEF Safe
<1>5. \A c \in Closes : close'[c].pc \in {"kill", "remove"} =>
                            close[c].pc \in {"kill", "remove"}
    <2>1. CASE UNCHANGED close
        BY <2>1
    <2>2. CASE StartClose(connect[t].child)
        <3>1. connect[t].child \in Handles
            BY DEF TypeOK
        <3> QED BY <1>4, <2>2, <3>1, StartCloseKeeps
    <2> QED BY <2>1, <2>2 DEF MasterDone, LateResult
<1> QED
    BY <1>1, <1>2, <1>3, <1>4, <1>5 DEF Kept, Young, Safe, Reached

----------------------------------------------------------------------------
(* The threads of close, the processes and the worker.                     *)

LEMMA CloseKeeps ==
    ASSUME TypeOK, NEW p \in Procs, Safe(p), NEW c \in Closes, CloseStep(c)
    PROVE  Kept(p)'
<1>1. UNCHANGED <<connect, held>> /\ close[c].pc /= "idle"
    BY DEF CloseStep, CloseExit, CloseKill, CloseRemove
<1>2. ~Young(p)
    BY <1>1 DEF Safe, Polled
<1>3. CASE CloseExit(c)
    <2>1. proc[p] = "up" => proc'[p] = "exiting"
        BY <1>3 DEF CloseExit, Safe, Reached, Answers
    <2>2. proc'[p] \in {proc[p], "exiting"}
        BY <1>3 DEF CloseExit
    <2> QED BY <1>2, <2>1, <2>2 DEF Kept, Young
<1>4. CASE CloseKill(c)
    <2>1. proc[p] /= "up"
        BY <1>4 DEF CloseKill, Safe, Reached
    <2>2. proc'[p] \in {proc[p], "dead"}
        BY <1>4 DEF CloseKill
    <2> QED BY <1>2, <2>1, <2>2 DEF Kept, Young
<1>5. CASE CloseRemove(c)
    BY <1>2, <1>5 DEF CloseRemove, Safe, Reached, Kept, Young
<1> QED BY <1>3, <1>4, <1>5 DEF CloseStep

(* p is the only process there is, so the step is p's own. *)
LEMMA ProcKeeps ==
    ASSUME TypeOK, NEW p \in Procs, Safe(p), NEW q \in Procs, ProcStep(q) \/ Lose(q)
    PROVE  Kept(p)'
<1>1. q = p
    BY DEF ProcStep, Bind, Quit, Lose, Safe, Running
<1>2. CASE Bind(p)
    <2>1. UNCHANGED <<connect, close, held>> /\ Young(p) /\ proc[p] /= "mute"
        BY <1>2 DEF Bind, Young
    <2>2. CASE file = None /\ file' = p /\ proc' = [proc EXCEPT ![p] = "up"]
        <3>1. PICK u \in Connects : connect[u].pc = "poll" /\ connect[u].child = p
            BY <2>1 DEF Safe, Polled
        <3>2. \A t \in Connects : connect[t].pc \notin {"remove", "spawn"}
            BY <3>1 DEF Safe, Busy
        <3> QED BY <2>1, <2>2, <3>2 DEF TypeOK, Kept, Young, Safe, Polled, Reached
    <2>3. CASE UNCHANGED file /\ proc' = [proc EXCEPT ![p] = "mute"]
        BY <2>1, <2>3 DEF TypeOK, Kept, Young, Safe, Polled
    <2> QED BY <1>2, <2>2, <2>3 DEF Bind
<1>3. CASE Quit(p)
    BY <1>3 DEF Quit, TypeOK, Kept, Young
<1>4. CASE Lose(p)
    BY <1>4 DEF Lose, TypeOK, Kept, Young
<1> QED BY <1>1, <1>2, <1>3, <1>4 DEF ProcStep

LEMMA WorkerKeeps ==
    ASSUME TypeOK, NEW p \in Procs, Safe(p), SessionStarts \/ SessionEnds \/ GiveUp,
           \A c \in Closes : close'[c].pc /= "idle" => close'[c].target = p
    PROVE  Kept(p)'
<1>1. UNCHANGED <<file, proc, connect>>
    BY DEF SessionStarts, SessionEnds, GiveUp
<1>2. Young(p) => held'.child /= p
    <2>1. None /= p
        BY ProcsAssumption DEF None
    <2>2. held' \in {[state |-> x, child |-> None] : x \in {"gone", "connecting", "failed"}}
        BY DEF SessionStarts, SessionEnds, GiveUp, Gone
    <2>3. held'.child = None
        BY <2>2
    <2> QED BY <2>1, <2>3
<1>3. CASE UNCHANGED close
    BY <1>1, <1>2, <1>3 DEF Kept, Young, Safe, Polled, Reached
<1>4. CASE StartClose(held.child)
    <2>1. held.child \in Handles /\ (Young(p) => held.child /= p)
        BY DEF TypeOK, Safe, Polled
    <2>2. ~Young(p) /\ \A c \in Closes : close'[c].pc \in {"kill", "remove"} =>
                                             close[c].pc \in {"kill", "remove"}
        BY <1>4, <2>1, StartCloseKeeps
    <2> QED BY <1>1, <2>2 DEF Kept, Young, Safe, Reached
<1> QED BY <1>3, <1>4 DEF SessionStarts, SessionEnds, GiveUp

----------------------------------------------------------------------------
(* The inductive invariant.                                                *)

LEMMA InitSafe == ASSUME Init PROVE IInv
<1>1. TypeOK
    BY InitTyped
<1>2. ASSUME NEW p \in Running \ crowded PROVE Safe(p)
    <2>1. p \in Procs /\ p = file /\ proc[p] = "up"
        BY <1>2 DEF Init, Running
    <2>2. Running = {p}
        BY <2>1 DEF Init, Running
    <2>3. /\ \A t \in Connects : connect[t].pc = "idle"
          /\ \A c \in Closes : close[c].pc = "idle"
        BY DEF Init, Idle, NoClose
    <2> QED BY <2>1, <2>2, <2>3 DEF Safe, Busy, Young, Reached
<1> QED BY <1>1, <1>2 DEF IInv

(* Only Spawn makes a process run that did not. *)
LEMMA NewProc ==
    ASSUME TypeOK, Next, NEW p \in Running', p \notin Running
    PROVE  \E t \in Connects : Spawn(t) /\ p = AnyOf(Unused)
<1>1. p \in Procs /\ proc[p] = "dead" /\ proc'[p] /= "dead"
    BY DEF Running
<1>2. \A t \in Connects : ~Deadline(t) /\ (ConnectStep(t) => Spawn(t))
    BY <1>1 DEF TypeOK, Deadline, ConnectStep, Dial, CheckOwn, RemoveStale, Poll, MasterDone
<1>3. \A c \in Closes : ~CloseStep(c)
    BY <1>1 DEF TypeOK, CloseStep, CloseExit, CloseKill, CloseRemove, Answers
<1>4. \A q \in Procs : ~ProcStep(q) /\ ~Lose(q)
    BY <1>1 DEF TypeOK, ProcStep, Bind, Quit, Lose
<1>5. ~SessionStarts /\ ~SessionEnds /\ ~GiveUp
    BY <1>1 DEF SessionStarts, SessionEnds, GiveUp
<1>6. PICK t \in Connects : Spawn(t)
    BY <1>2, <1>3, <1>4, <1>5 DEF Next
<1>7. p = AnyOf(Unused)
    BY <1>1, <1>6 DEF Spawn, TypeOK
<1> QED BY <1>6, <1>7

(* Every step keeps a master safe that stays alone. *)
LEMMA NextSafe == ASSUME IInv, Next PROVE IInv'
<1>1. TypeOK /\ TypeOK' /\ Note
    BY NextTyped DEF IInv, Next
<1>2. ASSUME NEW p \in (Running \ crowded)' PROVE Safe(p)'
    <2>1. /\ Running' = {p}
          /\ \A t \in Busy', u \in Busy' : t = u
          /\ \A c \in Closes : close'[c].pc /= "idle" => close'[c].target = p
          /\ faults' = faults \/ ~Answers \/ ~Answers'
          /\ p \in Running => Safe(p)
        BY <1>1, <1>2, StillAlone DEF IInv
    <2>2. p \in Procs
        BY <1>2 DEF Running
    <2>3. ASSUME p \notin Running PROVE Kept(p)'
        BY <1>1, <2>1, <2>2, <2>3, NewProc, SpawnSafe
    <2>4. ASSUME p \in Running PROVE Kept(p)'
        <3>1. ASSUME NEW t \in Connects, ConnectStep(t) \/ Deadline(t) PROVE Kept(p)'
            <4>1. ~Spawn(t)
                <5>1. SUFFICES ASSUME Spawn(t) PROVE FALSE
                    OBVIOUS
                <5>2. AnyOf(Unused) \in Unused
                    BY <5>1, Chosen DEF Spawn
                <5>3. AnyOf(Unused) \in Running' /\ AnyOf(Unused) \notin Running
                    BY <1>1, <5>1, <5>2 DEF Unused, Spawn, Running, TypeOK
                <5> QED BY <2>1, <2>4, <5>3
            <4> QED
                BY <1>1, <2>1, <2>2, <2>4, <3>1, <4>1, DialKeeps, CheckOwnKeeps,
                   RemoveStaleKeeps, PollKeeps, DeadlineKeeps, MasterDoneKeeps
                DEF ConnectStep
        <3>2. ASSUME NEW c \in Closes, CloseStep(c) PROVE Kept(p)'
            BY <1>1, <2>1, <2>2, <2>4, <3>2, CloseKeeps
        <3>3. ASSUME NEW q \in Procs, ProcStep(q) \/ Lose(q) PROVE Kept(p)'
            BY <1>1, <2>1, <2>2, <2>4, <3>3, ProcKeeps
        <3>4. ASSUME SessionStarts \/ SessionEnds \/ GiveUp PROVE Kept(p)'
            BY <1>1, <2>1, <2>2, <2>4, <3>4, WorkerKeeps
        <3> QED BY <3>1, <3>2, <3>3, <3>4 DEF Next
    <2> QED BY <2>1, <2>3, <2>4 DEF Safe, Kept
<1> QED BY <1>1, <1>2 DEF IInv

LEMMA SafeIsReached == IInv => NoLeak
<1> SUFFICES ASSUME IInv, NEW p \in Running \ crowded
             PROVE  \/ file = p \/ proc[p] = "exiting" \/ held.child = p
                    \/ \E t \in Connects : connect[t].child = p
                    \/ \E c \in Closes : close[c].child = p
    BY DEF NoLeak
<1>1. Safe(p) /\ proc[p] \in States /\ proc[p] /= "dead"
    BY DEF IInv, TypeOK, Running
<1>2. CASE Young(p)
    BY <1>1, <1>2 DEF Safe, Polled
<1>3. CASE proc[p] = "up"
    BY <1>1, <1>3 DEF Safe, Reached
<1> QED BY <1>1, <1>2, <1>3 DEF Young, States

(* However the connects, closes, sessions, refusals and losses of one host
   interleave, a master that was alone all its life is within reach: its
   socket is at the path or somebody will kill it (control.rs:186). *)
THEOREM NoMasterIsLost == Spec => []NoLeak
<1>1. Init => IInv
    BY InitSafe
<1>2. IInv /\ [Next]_vars => IInv'
    <2>1. IInv /\ UNCHANGED vars => IInv'
        BY DEF IInv, vars, TypeOK, Safe, Young, Polled, Reached, Running, Busy
    <2> QED BY <2>1, NextSafe
<1> QED BY <1>1, <1>2, SafeIsReached, PTL DEF Spec

=============================================================================
