------------------------------ MODULE Shutdown ------------------------------
(***************************************************************************)
(* The life of the process around the worker: leaving the main loop        *)
(* (src/src/main.rs), the cleanup at quit (src/src/worker.rs), being       *)
(* killed, and the next run, which starts from state.json.                 *)
(*                                                                         *)
(* Masters outlive the process: nothing kills an ssh -M child when its     *)
(* parent ends, so live and tunnels survive a run unless cleanup closes    *)
(* them.  Threads do not.  A request that is in flight when the process    *)
(* ends is taken to have had its effect before that or to have none.       *)
(***************************************************************************)
EXTENDS WorkerProperties

VARIABLES
    phase,      \* of the process
    joined,     \* <<id, host>> of the teardowns cleanup waits for
    lateFwds,   \* history: forwards found at the start of this run, and those
                \* some thread was busy with at its cleanup
    lateHosts,  \* history: the same of hosts with a master of ours
    shown       \* history: what the screen last showed a row to be set to

runVars == <<phase, joined, lateFwds, lateHosts>>
lifeVars == <<vars, runVars, shown>>

(* "quit" once Quit is in the worker's channel, behind what came before it;
   "clean" while cleanup waits; "crashed" when the process ended without. *)
Phases == {"run", "quit", "clean", "down", "crashed"}
Settled == {"none", "off", "on", "promoted"}

LifeTypeOK ==
    /\ phase \in Phases
    /\ joined \subseteq Ids \X Hosts
    /\ lateFwds \subseteq Forwards
    /\ lateHosts \subseteq Hosts
    /\ shown \in [Apps -> Settled]

(* What the user has settled for a row, as far as the screen shows it. *)
Choice(r) ==
    CASE r.muted \/ r.override = "bg" -> "off"
      [] r.status = "active" /\ ~r.muted /\ r.override = "app" -> "promoted"
      [] r.status = "active" /\ ~r.muted /\ r.override = "none" -> "on"
      [] OTHER -> "none"

Observe ==      \* a row that is not there leaves the impression it last made
    shown' = [a \in Apps |-> IF app'[a].status = "absent" THEN shown[a]
                             ELSE Choice(app'[a])]

----------------------------------------------------------------------------

Work ==
    /\ phase \in {"run", "quit"}
    /\ Next
    /\ UNCHANGED runVars

SendQuit ==     \* q, a signal, or a terminal that fails
    /\ phase = "run"
    /\ phase' = "quit"
    /\ UNCHANGED <<vars, joined, lateFwds, lateHosts>>

(* cleanup takes all hosts and joins their teardowns, and only those; the
   worker handles no message after this one. *)
Cleanup_Own == {d \in UNION {TeardownOf(h) : h \in Hosts} : d.via = "own"}
CleanupOf == UNION {TeardownOf(h) : h \in Hosts}

Cleanup ==
    /\ phase = "quit"
    /\ SpawnTeardowns(CleanupOf)
    /\ phase' = "clean"
    /\ joined' = {<<d.id, d.host>> : d \in teardowns' \ teardowns}
    /\ lateFwds' = lateFwds \cup InHand
    /\ lateHosts' = lateHosts \cup {t.host : t \in connects \cup teardowns}
    /\ host' = [h \in Hosts |-> NoHost]
    /\ ext' = [a \in Apps |-> None]
    /\ app' = [a \in Apps |-> NoApp]
    /\ UNCHANGED <<netVars, auto, paused, cooldown, mem, disk,
                   connects, scans, fwds, cancels>>

(* Threads go on while cleanup waits, but nobody takes their results. *)
ThreadStep ==
    \/ \E c \in connects : Connect(c)
    \/ \E s \in scans : Scan(s)
    \/ \E f \in fwds : CancelOld(f) \/ Bind(f)
    \/ \E c \in cancels : CancelMany(c) \/ CancelEach(c) \/ CancelCheck(c)
    \/ \E h \in Hosts : TeardownStep(h)

GoOn ==
    /\ \/ phase = "clean" /\ (ThreadStep \/ Environment)
       \/ phase \in {"down", "crashed"} /\ Environment
    /\ UNCHANGED runVars

Joined_All == connects \cup scans \cup fwds \cup cancels \cup teardowns = {}
Joined == \A d \in teardowns : <<d.id, d.host>> \notin joined

End ==          \* threads end with the process
    /\ connects' = {} /\ scans' = {} /\ fwds' = {} /\ cancels' = {} /\ teardowns' = {}
    /\ host' = [h \in Hosts |-> NoHost]
    /\ ext' = [a \in Apps |-> None]
    /\ app' = [a \in Apps |-> NoApp]
    /\ cooldown' = {}
    /\ joined' = {}
    /\ UNCHANGED <<netVars, auto, paused, mem, disk, lateFwds, lateHosts>>

Exit == phase = "clean" /\ Joined /\ phase' = "down" /\ End

(* Killed, or the six seconds main gives the worker are over. *)
Crash ==
    /\ "crash" \in Events
    /\ phase \in {"run", "quit", "clean"}
    /\ phase' = "crashed"
    /\ End

Load == mem' = disk             \* State::load

Restart ==
    /\ phase \in {"down", "crashed"}
    /\ phase' = "run"
    /\ auto' \in BOOLEAN        \* --no-auto
    /\ Load
    /\ lateFwds' = tunnels
    /\ lateHosts' = {h \in Hosts : <<h, "own">> \in live}
    /\ UNCHANGED <<netVars, paused, host, ext, app, cooldown, disk, threads, joined>>

LifeInit ==
    /\ Init
    /\ phase = "run"
    /\ joined = {} /\ lateFwds = {} /\ lateHosts = {}
    /\ shown = [a \in Apps |-> "none"]

LifeNext ==
    /\ Work \/ SendQuit \/ Cleanup \/ GoOn \/ Exit \/ Crash \/ Restart
    /\ Observe

(* The worker gets to Quit, requests to ssh end, and main takes CleanedUp. *)
LifeFairness ==
    /\ WF_lifeVars(Cleanup /\ Observe)
    /\ WF_lifeVars(Exit /\ Observe)
    /\ \A h \in Hosts : WF_lifeVars(TeardownStep(h) /\ GoOn /\ Observe)
    /\ \A h \in Hosts : WF_lifeVars(TeardownStep(h) /\ Work /\ Observe)

LifeSpec == LifeInit /\ [][LifeNext]_lifeVars
LifeFairSpec == LifeSpec /\ LifeFairness

----------------------------------------------------------------------------
(* Properties.                                                             *)

Silent(r) == r.muted \/ r.override = "bg"

(* What the user has settled survives: a row that was last seen switched off
   or hidden comes back so, and one that was last seen forwarded comes back
   neither, still promoted if it had been, whether it vanished, the host
   closed, the program quit or was killed in between (on_fwd, toggle,
   toggle_hidden and assign save at different moments; load reads back). *)
ChoicesSurvive ==
    [][\A a \in Apps :
          app[a].status = "absent" /\ app'[a].status /= "absent" =>
             /\ shown[a] = "off" => Silent(app'[a])
             /\ shown[a] \in {"on", "promoted"} => ~Silent(app'[a])
             /\ shown[a] = "promoted" => app'[a].override = "app"]_lifeVars

(* After a quit that came to its end, only what a detached thread was busy
   with at that moment can be left behind: a forward whose request or cancel
   was under way, a master that was being connected; and what a run that was
   killed had left before.  Rows that were settled leave nothing, on the
   user's master either (cleanup, worker.rs:969). *)
LeftBehind ==
    phase = "down" => /\ tunnels \subseteq lateFwds
                      /\ \A h \in Hosts : <<h, "own">> \in live => h \in lateHosts

(* Quit ends the process, and does so through cleanup unless the process is
   killed: nothing cleanup joins waits for a message the worker no longer
   takes, and no thread it does not join can hold it up. *)
QuitEnds == phase = "quit" ~> phase \in {"down", "crashed"}
=============================================================================
