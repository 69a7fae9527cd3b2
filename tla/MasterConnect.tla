---------------------------- MODULE MasterConnect ----------------------------
(***************************************************************************)
(* How a master of our own comes and goes: Master::connect and             *)
(* Master::close of src/src/control.rs, run by threads of one worker for   *)
(* one host, over the one socket path the host's key gives.  Worker takes  *)
(* each of them for a single step; here they interleave.                   *)
(*                                                                         *)
(* A host whose session closes and opens again is a new HostW: the thread  *)
(* that closes the old master and an old connect may still run beside the  *)
(* new connect, and all of them work on the same path.                     *)
(*                                                                         *)
(* What ssh does is external: ssh -M binds the path only if no file is     *)
(* there and else runs on without a socket; a master that exits by itself  *)
(* unlinks the path, whatever is there by then; one that is killed leaves  *)
(* its file.                                                               *)
(***************************************************************************)
EXTENDS Naturals, FiniteSets

CONSTANTS
    Procs,      \* bound: ssh -M processes at a time, as positive numbers
    Connects,   \* bound: connect threads at a time
    Closes,     \* bound: close threads at a time
    MaxEnds,    \* bound: how often the session ends
    MaxFaults   \* bound: refusals, losses, checks and connects that time out

ASSUME ProcsAssumption == Procs \subseteq Nat \ {0} /\ Procs /= {}
ASSUME ThreadsAssumption == IsFiniteSet(Connects) /\ Closes \subseteq Nat
ASSUME BoundsAssumption == MaxEnds \in Nat /\ MaxFaults \in Nat

None == 0

VARIABLES
    file,       \* the process whose socket the path leads to, None if no file
    proc,       \* state of each process
    connect,    \* connect threads; "ok" and "err" are results under way
    close,      \* close threads
    held,       \* the host's Master as the worker knows it
    inflight,   \* connect_inflight of the host
    ends, faults,
    crowded     \* history: processes that were not alone (see Alone)

vars == <<file, proc, connect, close, held, inflight, ends, faults, crowded>>

States == {"dead", "starting", "up", "mute", "exiting"}
Handles == Procs \cup {None}

TypeOK ==
    /\ file \in Handles
    /\ proc \in [Procs -> States]
    /\ connect \in [Connects -> [pc : {"idle", "check", "remove", "spawn", "poll",
                                       "ok", "err"}, child : Handles]]
    /\ close \in [Closes -> [pc : {"idle", "exit", "kill", "remove"},
                             child : Handles, target : Handles]]
    /\ held \in [state : {"gone", "connecting", "ready", "failed"}, child : Handles]
    /\ inflight \in BOOLEAN
    /\ ends \in 0..MaxEnds /\ faults \in 0..MaxFaults
    /\ crowded \subseteq Procs

Idle == [pc |-> "idle", child |-> None]
NoClose == [pc |-> "idle", child |-> None, target |-> None]
Gone == [state |-> "gone", child |-> None]

Running == {p \in Procs : proc[p] /= "dead"}
Answers == file \in Procs /\ proc[file] = "up"
Busy == {t \in Connects : connect[t].pc /= "idle"}

(* Processes are alike: which of several is taken does not matter. *)
AnyOf(S) == CHOOSE p \in S : TRUE

(* A process nothing refers to any more may stand for a new one. *)
Unused == {p \in Procs : /\ proc[p] = "dead" /\ file /= p /\ held.child /= p
                         /\ \A t \in Connects : connect[t].child /= p
                         /\ \A c \in Closes : p \notin {close[c].child, close[c].target}}

(* p has met no other process, no second connect, no close meant for
   another process and no check that timed out. *)
Alone(p) ==
    /\ Running' \subseteq {p}
    /\ Cardinality(Busy') <= 1
    /\ \A c \in Closes : close'[c].pc /= "idle" => close'[c].target = p
    /\ faults' = faults \/ ~Answers \/ ~Answers'

Note == crowded' = {p \in Running' : (p \in Running /\ p \in crowded) \/ ~Alone(p)}

----------------------------------------------------------------------------
(* Master::connect.                                                        *)

Goto(t, pc) == connect' = [connect EXCEPT ![t].pc = pc]

(* What MasterRef::check says; a check that times out says no. *)
Check(yes) ==
    \/ yes = Answers /\ UNCHANGED faults
    \/ /\ ~yes /\ Answers /\ faults < MaxFaults
       /\ faults' = faults + 1

(* connect_if_needed: at once for a new host, after thirty seconds for one
   that failed, and that outlasts any connect or close that is under way. *)
Ripe == \/ held.state = "connecting"
        \/ held.state = "failed" /\ Busy = {} /\ \A c \in Closes : close[c].pc = "idle"

Dial(t) ==
    /\ connect[t].pc = "idle" /\ ~inflight
    /\ Ripe
    /\ Goto(t, "check")
    /\ held' = [held EXCEPT !.state = "connecting"]
    /\ inflight' = TRUE
    /\ UNCHANGED <<file, proc, close, ends, faults>>

CheckOwn(t) ==
    /\ connect[t].pc = "check"
    /\ \E yes \in BOOLEAN : Check(yes) /\ Goto(t, IF yes THEN "ok" ELSE "remove")
    /\ UNCHANGED <<file, proc, close, held, inflight, ends>>

RemoveStale_Not(t) ==
    /\ connect[t].pc = "remove"
    /\ Goto(t, "spawn")
    /\ UNCHANGED <<file, proc, close, held, inflight, ends, faults>>
RemoveStale(t) ==
    /\ connect[t].pc = "remove"
    /\ file' = None
    /\ Goto(t, "spawn")
    /\ UNCHANGED <<proc, close, held, inflight, ends, faults>>

Spawn(t) ==
    /\ connect[t].pc = "spawn" /\ Unused /= {}
    /\ LET p == AnyOf(Unused) IN
       /\ proc' = [proc EXCEPT ![p] = "starting"]
       /\ connect' = [connect EXCEPT ![t] = [pc |-> "poll", child |-> p]]
    /\ UNCHANGED <<file, close, held, inflight, ends, faults>>

Fail(t) == connect' = [connect EXCEPT ![t] = [pc |-> "err", child |-> None]]

Poll(t) ==
    /\ connect[t].pc = "poll"
    /\ \/ proc[connect[t].child] = "dead" /\ Fail(t)
       \/ proc[connect[t].child] /= "dead" /\ Answers /\ Goto(t, "ok")
    /\ UNCHANGED <<file, proc, close, held, inflight, ends, faults>>

(* Fifteen seconds without an answer: the child is killed.  To come before
   the child has connected is a fault of the server's. *)
TooSlow(t) ==
    IF proc[connect[t].child] = "starting"
    THEN faults < MaxFaults /\ faults' = faults + 1 ELSE UNCHANGED faults

Deadline_Drop(t) ==
    /\ connect[t].pc = "poll" /\ ~Answers
    /\ TooSlow(t)
    /\ Fail(t)
    /\ UNCHANGED <<file, proc, close, held, inflight, ends>>
Deadline(t) ==
    /\ connect[t].pc = "poll" /\ ~Answers
    /\ TooSlow(t)
    /\ proc' = [proc EXCEPT ![connect[t].child] = "dead"]
    /\ Fail(t)
    /\ UNCHANGED <<file, close, held, inflight, ends>>

----------------------------------------------------------------------------
(* Master::close, in a thread of teardown_host or on_master.               *)

StartClose(child) ==
    \E c \in Closes :
        /\ close[c].pc = "idle"
        /\ \A d \in Closes : close[d].pc = "idle" => c <= d
        /\ close' = [close EXCEPT ![c] = [pc |-> "exit", child |-> child,
               target |-> IF child = None THEN file ELSE child]]

CloseExit(c) ==
    /\ close[c].pc = "exit"
    /\ close' = [close EXCEPT ![c].pc = "kill"]
    /\ proc' = [p \in Procs |-> IF Answers /\ p = file THEN "exiting" ELSE proc[p]]
    /\ UNCHANGED <<file, connect, held, inflight, ends, faults>>

CloseKill(c) ==
    /\ close[c].pc = "kill"
    /\ close' = [close EXCEPT ![c] = [@ EXCEPT !.pc = "remove", !.child = None]]
    /\ proc' = [p \in Procs |-> IF p = close[c].child THEN "dead" ELSE proc[p]]
    /\ UNCHANGED <<file, connect, held, inflight, ends, faults>>

CloseRemove(c) ==
    /\ close[c].pc = "remove"
    /\ close' = [close EXCEPT ![c] = NoClose]
    /\ file' = None
    /\ UNCHANGED <<proc, connect, held, inflight, ends, faults>>

----------------------------------------------------------------------------
(* The worker.  A result is for the host of that key, whichever HostW asked *)
(* for it; a Master that is replaced drops its child without killing it.   *)

SessionStarts ==
    /\ held.state = "gone"
    /\ held' = [state |-> "connecting", child |-> None]
    /\ inflight' = FALSE
    /\ UNCHANGED <<file, proc, connect, close, ends, faults>>

SessionEnds ==
    /\ held.state /= "gone" /\ ends < MaxEnds
    /\ ends' = ends + 1
    /\ held' = Gone /\ inflight' = FALSE
    /\ IF held.state = "ready" THEN StartClose(held.child) ELSE UNCHANGED close
    /\ UNCHANGED <<file, proc, connect, faults>>

(* on_master *)
LateResult_Drop(t) == UNCHANGED close
LateResult(t) ==
    IF connect[t].pc = "ok" THEN StartClose(connect[t].child) ELSE UNCHANGED close

MasterDone(t) ==
    /\ connect[t].pc \in {"ok", "err"}
    /\ connect' = [connect EXCEPT ![t] = Idle]
    /\ \/ /\ held.state = "gone"
          /\ LateResult(t)
          /\ UNCHANGED <<held, inflight>>
       \/ /\ held.state /= "gone"
          /\ held' = IF connect[t].pc = "ok"
                     THEN [state |-> "ready", child |-> connect[t].child]
                     ELSE [state |-> "failed", child |-> None]
          /\ inflight' = FALSE
          /\ UNCHANGED close
    /\ UNCHANGED <<file, proc, ends, faults>>

(* on_scan: a scan that fails gives the master up if its check fails. *)
GiveUp ==
    /\ held.state = "ready"
    /\ Check(FALSE)
    /\ held' = [state |-> "failed", child |-> None]
    /\ UNCHANGED <<file, proc, connect, close, inflight, ends>>

----------------------------------------------------------------------------
(* The ssh -M processes.                                                   *)

Bind(p) ==
    /\ proc[p] = "starting"
    /\ \/ file = None /\ file' = p /\ proc' = [proc EXCEPT ![p] = "up"]
       \/ file /= None /\ proc' = [proc EXCEPT ![p] = "mute"] /\ UNCHANGED file
    /\ UNCHANGED <<connect, close, held, inflight, ends, faults>>

Quit(p) ==
    /\ proc[p] = "exiting"
    /\ proc' = [proc EXCEPT ![p] = "dead"]
    /\ file' = None
    /\ UNCHANGED <<connect, close, held, inflight, ends, faults>>

(* Refused by the server, or the connection is lost. *)
Lose(p) ==
    /\ proc[p] \in {"starting", "up", "mute"} /\ faults < MaxFaults
    /\ faults' = faults + 1
    /\ proc' = [proc EXCEPT ![p] = "dead"]
    /\ file' = IF proc[p] = "up" THEN None ELSE file
    /\ UNCHANGED <<connect, close, held, inflight, ends>>

----------------------------------------------------------------------------

Init ==
    /\ file \in {None, AnyOf(Procs)}      \* possibly left by an earlier run,
    /\ proc \in {[p \in Procs |-> IF p = file THEN s ELSE "dead"] :
                     s \in {"dead", "up"}}     \* stale or alive
    /\ connect = [t \in Connects |-> Idle]
    /\ close = [c \in Closes |-> NoClose]
    /\ held = Gone /\ inflight = FALSE
    /\ ends = 0 /\ faults = 0
    /\ crowded = {}

ConnectStep(t) ==
    Dial(t) \/ CheckOwn(t) \/ RemoveStale(t) \/ Spawn(t) \/ Poll(t) \/ MasterDone(t)
CloseStep(c) == CloseExit(c) \/ CloseKill(c) \/ CloseRemove(c)
ProcStep(p) == Bind(p) \/ Quit(p)

Next ==
    /\ \/ SessionStarts \/ SessionEnds \/ GiveUp
       \/ \E t \in Connects : ConnectStep(t) \/ Deadline(t)
       \/ \E c \in Closes : CloseStep(c)
       \/ \E p \in Procs : ProcStep(p) \/ Lose(p)
    /\ Note

(* Threads and processes go on, the deadline passes, a failed host is dialed
   again, a dead master is noticed by a later scan. *)
Fairness ==
    /\ WF_vars(held.state = "ready" /\ ~Answers /\ GiveUp /\ Note)
    /\ \A t \in Connects : /\ WF_vars(ConnectStep(t) /\ Note)
                           /\ WF_vars(Deadline(t) /\ Note)
    /\ \A c \in Closes : WF_vars(CloseStep(c) /\ Note)
    /\ \A p \in Procs : WF_vars(ProcStep(p) /\ Note)

Spec == Init /\ [][Next]_vars
FairSpec == Spec /\ Fairness

----------------------------------------------------------------------------
(* Properties.                                                             *)

(* "we keep the child handle so the master dies with us" (control.rs:186)
   holds for a master that was alone all its life: its socket is at the path
   or somebody holds it who will kill it.  A process nobody can reach any
   more keeps its connection and its forwards for ever; only connects and
   closes that overlapped, or a check that timed out, can leave one. *)
NoLeak ==
    \A p \in Running \ crowded :
        \/ file = p \/ proc[p] = "exiting" \/ held.child = p
        \/ \E t \in Connects : connect[t].child = p
        \/ \E c \in Closes : close[c].child = p

(* Whatever overlapping connects and closes did to the path, once sessions
   stay and nothing fails any more the host has a master that answers: no
   stale file, lost socket or late result keeps it from that for ever. *)
Settles == <>[](held.state = "gone" \/ (held.state = "ready" /\ Answers))

(* Once the session has ended for good, every master started in this run that
   was alone is dead, whoever adopted it and however late its connect came. *)
Stops == Running = {} /\ <>[](held.state = "gone") =>
            <>[](Running \subseteq crowded)
=============================================================================
