------------------------------- MODULE Worker -------------------------------
(***************************************************************************)
(* The worker thread of src/src/worker.rs and the threads it starts.       *)
(*                                                                         *)
(* One thread handles messages one at a time; each handler is one action   *)
(* here.  Requests to ssh run in detached threads whose result comes back  *)
(* as a message.  A thread is a record of what it still has to do; once it *)
(* has a result it stands for its message, which may be handled at any     *)
(* later moment: the channel is FIFO, but when a thread reaches its send   *)
(* is not bounded, so results of different threads come in any order.      *)
(* Commands may name any row at any time, as the screen may be out of date.*)
(*                                                                         *)
(* An operator with an underscore in its name is a wrong variant of the    *)
(* operator after it, there to show that a property can fail.              *)
(*                                                                         *)
(* Time is abstracted: a tick may find any scan due and any failed host    *)
(* ripe for a retry, and a cooldown may end once nothing it was meant to   *)
(* outlast is still under way ("slow" in Events lifts that condition).     *)
(***************************************************************************)
EXTENDS Network

CONSTANTS
    Commands,   \* kinds of commands the user of the instance gives
    MaxThreads, \* bound: threads of one kind per application or host
    MaxBusy,    \* bound: the user gives a command only while fewer requests
                \* to forward or cancel than this are under way
    AutoTier,   \* tiers the heuristic may give each remote port
    Saved,      \* entries state.json may hold for an application at start
    Claims      \* maps of <<host, rport>> to the local port that the user's
                \* config or command line claims to forward, None if none

Tiers == {"app", "bg", "system"}
Overrides == {"none", "app", "bg"}
Entry == [lport : Ports, pinned : BOOLEAN, muted : BOOLEAN, tier : Overrides]

ASSUME BoundsAssumption == MaxThreads \in Nat \ {0} /\ MaxBusy \in Nat
ASSUME TierAssumption == AutoTier \in [RPorts -> SUBSET Tiers]
ASSUME SavedAssumption == Saved \subseteq Entry
ASSUME ClaimsAssumption == Claims \subseteq [Apps -> Ports]

Ids == 1..MaxThreads
Masters == {"gone", "connecting", "failed"} \cup Vias
Statuses == {"absent", "off", "pending", "active", "external", "error"}

VARIABLES
    auto,       \* the global switch
    paused,     \* paused hosts, in memory and in state.json
    host,       \* HostW of each host; master = "gone" when there is none
    ext,        \* ext_forwards of all hosts
    app,        \* AppW of each application; "absent" when there is none
    cooldown,   \* local ports cancelled less than CANCEL_COOLDOWN ago
    mem,        \* state.assignments in memory
    disk,       \* state.assignments in state.json
    connects, scans, fwds, cancels, teardowns   \* threads

threads == <<connects, scans, fwds, cancels, teardowns>>
vars == <<netVars, auto, paused, host, ext, app, cooldown, mem, disk, threads>>

HostW == [master : Masters, connecting : BOOLEAN, scanning : BOOLEAN]
AppW == [status : Statuses, lport : Ports, muted : BOOLEAN, pinned : BOOLEAN,
         retried : BOOLEAN, override : Overrides, tier : Tiers]
Connects == [id : Ids, host : Hosts, res : {"none", "fail"} \cup Vias]
Scans == [id : Ids, host : Hosts, via : Vias, res : {"none", "ok", "fail"},
          ports : SUBSET RPorts]
Fwds == [id : Ids, to : Forwards, undo : SUBSET Forwards, pin : BOOLEAN,
         res : {"none", "ok", "bind", "fail"}]
Cancels == [id : Ids, host : Hosts, pc : {"batch", "each", "check"},
            todo : SUBSET Forwards, sent : SUBSET Forwards]
Teardowns == [id : Ids, host : Hosts, via : Vias, todo : SUBSET Forwards]

TypeOK ==
    /\ NetTypeOK
    /\ auto \in BOOLEAN
    /\ paused \subseteq Hosts
    /\ host \in [Hosts -> HostW]
    /\ ext \in [Apps -> Ports]
    /\ app \in [Apps -> AppW]
    /\ cooldown \subseteq LPorts
    /\ mem \in [Apps -> Entry] /\ disk \in [Apps -> Entry]
    /\ connects \subseteq Connects
    /\ scans \subseteq Scans
    /\ fwds \subseteq Fwds
    /\ cancels \subseteq Cancels
    /\ teardowns \subseteq Teardowns

NoHost == [master |-> "gone", connecting |-> FALSE, scanning |-> FALSE]
NewHost == [NoHost EXCEPT !.master = "connecting"]
NoApp == [status |-> "absent", lport |-> None, muted |-> FALSE,
          pinned |-> FALSE, retried |-> FALSE, override |-> "none",
          tier |-> "app"]

Known(h) == host[h].master /= "gone"
Ready(h) == host[h].master \in Vias
AppsOf(h) == {a \in Apps : a[1] = h}
Row(f) == <<f.host, f.rport>>

Claimed(r) == r.status \in {"active", "pending"} /\ r.lport /= None
Tier(r) == IF r.override = "none" THEN r.tier ELSE r.override

(* The operators below read rows from A, the value the handler has given
   them so far. *)
Used_Active(A) == {A[a].lport : a \in {b \in Apps : A[b].status = "active"}}
Used(A) == {A[a].lport : a \in {b \in Apps : Claimed(A[b])}}

ForwardOf(a, lp) ==
    [host |-> a[1], via |-> host[a[1]].master, lport |-> lp, rport |-> a[2]]

(* What a handler that stops the rows S has to cancel: nothing on a host
   without a master. *)
Held(A, S) ==
    {ForwardOf(a, A[a].lport) : a \in {b \in S : Claimed(A[b]) /\ Ready(b[1])}}

----------------------------------------------------------------------------
(* Starting threads.  An id tells apart threads that are otherwise equal;  *)
(* the handler has to wait when MaxThreads of them exist.                  *)

FreeIds(S) == Ids \ {t.id : t \in S}
Fresh(S) == CHOOSE i \in Ids : i \in FreeIds(S)
OfHost(T, h) == {t \in T : t.host = h}
OfRow(F, a) == {f \in F : Row(f.to) = a}
First(T) == {t \in T : \A u \in T : t.rport <= u.rport}     \* in map order

NewFwd(F, a, lp, undo, pin) ==
    [id |-> Fresh(OfRow(F, a)), to |-> ForwardOf(a, lp), undo |-> undo,
     pin |-> pin, res |-> "none"]

SpawnCancels(T) ==
    LET hs == {t.host : t \in T} IN
    /\ \A h \in hs : FreeIds(OfHost(cancels, h)) /= {}
    /\ cancels' = cancels \cup
         {[id |-> Fresh(OfHost(cancels, h)), host |-> h, pc |-> "batch",
           todo |-> OfHost(T, h), sent |-> {}] : h \in hs}
    /\ cooldown' = cooldown \cup {t.lport : t \in T}

SpawnScans(S) ==
    /\ \A h \in S : FreeIds(OfHost(scans, h)) /= {}
    /\ scans' = scans \cup
         {[id |-> Fresh(OfHost(scans, h)), host |-> h, via |-> host'[h].master,
           res |-> "none", ports |-> {}] : h \in S}

SpawnTeardowns(S) ==
    /\ \A h \in {t.host : t \in S} : FreeIds(OfHost(teardowns, h)) /= {}
    /\ teardowns' = teardowns \cup
         {[id |-> Fresh(OfHost(teardowns, t.host)), host |-> t.host,
           via |-> t.via, todo |-> t.todo] : t \in S}

----------------------------------------------------------------------------
(* start_forward and auto_forward_pass.                                    *)

Before(b, a) == b[1] < a[1] \/ (b[1] = a[1] /\ b[2] < a[2])

(* Start the rows S one after the other in the order of their keys; F are
   the forward threads there are. *)
StartForwards(A, F, S) ==
    /\ \A a \in S : FreeIds(OfRow(F, a)) /= {}
    /\ \E pick \in [S -> Ports] :
         /\ \A a \in S : pick[a] \in FindFree(
                <<A[a].lport, mem[a].lport, a[2]>>,
                Used(A) \cup {pick[b] : b \in {c \in S : Before(c, a)}})
         /\ app' = [a \in Apps |->
                IF a \notin S THEN A[a]
                ELSE IF pick[a] = None THEN [A[a] EXCEPT !.status = "error"]
                ELSE [A[a] EXCEPT !.status = "pending", !.lport = pick[a]]]
         /\ fwds' = F \cup
                {NewFwd(F, a, pick[a], {}, A[a].pinned) :
                    a \in {b \in S : pick[b] /= None}}

(* The rows of S that auto_forward_pass starts. *)
Wanted_AnyHost(A, S) ==
    {a \in S : /\ auto' /\ Ready(a[1])
               /\ A[a].status = "off" /\ ~A[a].muted /\ Tier(A[a]) = "app"}
Wanted_New(A, S) ==
    {a \in S : /\ auto' /\ a[1] \notin paused' /\ Ready(a[1]) /\ A[a].lport = None
               /\ A[a].status = "off" /\ ~A[a].muted /\ Tier(A[a]) = "app"}
Wanted(A, S) ==
    {a \in S : /\ auto' /\ a[1] \notin paused' /\ Ready(a[1])
               /\ A[a].status = "off" /\ ~A[a].muted /\ Tier(A[a]) = "app"}

AutoForwardPass(A, F, S) == StartForwards(A, F, Wanted(A, S))

Remember_Unsaved(M) == mem' = M /\ UNCHANGED disk
Remember(M) == mem' = M /\ disk' = M    \* change the entries and save()

----------------------------------------------------------------------------
(* Ticks and masters.                                                      *)

WillScan(H, S) == {h \in S : H[h].master \in Vias /\ ~H[h].scanning}

(* teardown_host: our own master is closed; on the user's master the
   forwards of the host's rows are cancelled one by one. *)
TeardownOf(h) ==
    LET shared == host[h].master = "shared"
        todo == IF shared THEN Held(app, AppsOf(h)) ELSE {}
    IN  IF Ready(h) /\ (shared => todo /= {})
        THEN {[host |-> h, via |-> host[h].master, todo |-> todo]} ELSE {}

(* Whether connect_if_needed goes ahead. *)
MayDial_New(w, ripe) == ~w.connecting /\ w.master = "connecting"
MayDial(w, ripe) == /\ ~w.connecting
                    /\ w.master = "connecting" \/ (w.master = "failed" /\ ripe)

(* on_tick: `present` are the hosts discovered, `claims` the forwards their
   sessions claim, `due` the hosts whose interval has passed and `retry`
   those whose master failed more than 30 s ago. *)
Tick(present, claims, due, retry) ==
    LET gone == {h \in Hosts : Known(h)} \ present
        H == [h \in Hosts |-> IF h \notin present THEN NoHost
                              ELSE IF Known(h) THEN host[h] ELSE NewHost]
        dial == {h \in present : MayDial(H[h], h \in retry)}
        probe == WillScan(H, present \cap due)
    IN  /\ host' = [h \in Hosts |->
               CASE h \in dial -> [H[h] EXCEPT !.master = "connecting",
                                               !.connecting = TRUE]
                 [] h \in probe -> [H[h] EXCEPT !.scanning = TRUE]
                 [] OTHER -> H[h]]
        /\ ext' = [a \in Apps |-> IF a[1] \in present THEN claims[a] ELSE None]
        /\ app' = [a \in Apps |-> IF a[1] \in gone THEN NoApp ELSE app[a]]
        /\ \A h \in dial : FreeIds(OfHost(connects, h)) /= {}
        /\ connects' = connects \cup
             {[id |-> Fresh(OfHost(connects, h)), host |-> h, res |-> "none"] :
                 h \in dial}
        /\ SpawnScans(probe)
        /\ SpawnTeardowns(UNION {TeardownOf(h) : h \in gone})
        /\ UNCHANGED <<netVars, auto, paused, cooldown, mem, disk, fwds, cancels>>

Discovered ==       \* a ps that fails or times out shows no session
    {sessions} \cup IF "ps" \in Events THEN {{}} ELSE {}

AnyTick ==
    \E present \in Discovered, claims \in Claims,
       due \in SUBSET Hosts, retry \in SUBSET Hosts :
          Tick(present, claims, due, retry)

(* Every interval passes and ps works: the tick the clock brings about in the
   end. *)
DueTick == \E claims \in Claims : Tick(sessions, claims, Hosts, Hosts)

(* Thread of connect_if_needed: Master::connect prefers the user's master,
   then a socket of ours that still answers, then starts a master. *)
Connect(c) ==
    /\ c.res = "none"
    /\ \E res \in Vias \cup {"fail"} :
         /\ connects' = (connects \ {c}) \cup {[c EXCEPT !.res = res]}
         /\ \/ /\ res = "shared" /\ <<c.host, "shared">> \in live
               /\ UNCHANGED live
            \/ /\ res = "own" /\ (<<c.host, "shared">> \notin live \/ MayTimeOut)
               /\ live' = live \cup {<<c.host, "own">>}
            \/ /\ res = "fail"
               /\ "refuse" \in Events
               /\ UNCHANGED live
    /\ UNCHANGED <<tunnels, foreign, listening, sessions, auto, paused, host, ext,
                   app, cooldown, mem, disk, scans, fwds, cancels, teardowns>>

(* The host once its connect has reported; a success starts a scan. *)
Connected(h, res) ==
    [master |-> IF res \in Vias THEN res ELSE "failed",
     connecting |-> FALSE, scanning |-> res \in Vias \/ host[h].scanning]

(* A master that comes up for a host that has gone is closed. *)
CloseLate_Not(c) == {}
CloseLate(c) ==
    IF c.res = "own" THEN {[host |-> c.host, via |-> "own", todo |-> {}]} ELSE {}

(* on_master *)
MasterDone(c) ==
    LET h == c.host IN
    /\ c.res /= "none"
    /\ connects' = connects \ {c}
    /\ \/ /\ ~Known(h)
          /\ SpawnTeardowns(CloseLate(c))
          /\ UNCHANGED <<host, scans>>
       \/ /\ Known(h)
          /\ host' = [host EXCEPT ![h] = Connected(h, c.res)]
          /\ SpawnScans(IF c.res \in Vias /\ ~host[h].scanning THEN {h} ELSE {})
          /\ UNCHANGED teardowns
    /\ UNCHANGED <<netVars, auto, paused, ext, app, cooldown, mem, disk,
                   fwds, cancels>>

(* Thread of teardown_host, and of on_master for a host that has gone. *)
Teardown(d) ==
    /\ \/ /\ d.via = "own"
          /\ MasterExit(d.host, "own")
          /\ teardowns' = teardowns \ {d}
       \/ /\ d.via = "shared"
          /\ \E t \in First(d.todo) :
               /\ \E res \in {"ok", "fail"} : MuxCancel({t}, res)
               /\ teardowns' = (teardowns \ {d}) \cup
                    IF d.todo = {t} THEN {} ELSE {[d EXCEPT !.todo = @ \ {t}]}
          /\ UNCHANGED live
    /\ UNCHANGED <<foreign, listening, sessions, auto, paused, host, ext, app,
                   cooldown, mem, disk, connects, scans, fwds, cancels>>

----------------------------------------------------------------------------
(* Scans.                                                                  *)

(* Thread of spawn_scan.  A scan that is cut short counts with what it has
   printed: it fails only without output. *)
Scan(s) ==
    LET up == <<s.host, s.via>> \in live
        ports == {r \in RPorts : <<s.host, r>> \in listening}
        printed == IF "drop" \in Events THEN SUBSET ports ELSE {ports}
    IN  /\ s.res = "none"
        /\ \/ /\ up
              /\ \E found \in printed :
                    scans' = (scans \ {s}) \cup
                        {[s EXCEPT !.res = "ok", !.ports = found]}
           \/ /\ ~up \/ MayTimeOut
              /\ scans' = (scans \ {s}) \cup {[s EXCEPT !.res = "fail"]}
        /\ UNCHANGED <<netVars, auto, paused, host, ext, app, cooldown, mem, disk,
                       connects, fwds, cancels, teardowns>>

ScanOver_Not(h) == host[h]
ScanOver(h) == [host[h] EXCEPT !.scanning = FALSE]

(* What Master::alive may say of the host's master. *)
Alive_Assumed(h) == {TRUE}
Alive(h) ==
    {(<<h, host[h].master>> \in live)} \cup IF MayTimeOut THEN {FALSE} ELSE {}

(* on_scan, Err: when the host's master no longer answers it is given up,
   and with it every row. *)
ScanFailed(s) ==
    LET h == s.host IN
    /\ s.res = "fail"
    /\ Known(h)
    /\ scans' = scans \ {s}
    /\ \E alive \in Alive(h) :
         LET lost == Ready(h) /\ ~alive IN
         /\ host' = [host EXCEPT ![h] =
                [ScanOver(h) EXCEPT !.master = IF lost THEN "failed" ELSE @]]
         /\ app' = [a \in Apps |->
                IF lost /\ a[1] = h /\ app[a].status /= "absent"
                THEN [app[a] EXCEPT !.status = "off"] ELSE app[a]]
    /\ UNCHANGED <<netVars, auto, paused, ext, cooldown, mem, disk,
                   connects, fwds, cancels, teardowns>>

(* The local port on which the user's own session forwards a, if the claim
   is to be trusted. *)
ExtValid_Claimed(a) == IF ext[a] \in Used(app) \cup cooldown THEN None ELSE ext[a]
ExtValid_Hot(a) ==
    IF ext[a] \in LPorts \ Used(app) /\ ~IsFree(ext[a]) THEN ext[a] ELSE None
ExtValid(a) ==
    IF /\ ext[a] \in LPorts \ (Used(app) \cup cooldown)
       /\ ~IsFree(ext[a])
    THEN ext[a] ELSE None

(* The row of an application the scan has found. *)
Scanned(a, tier) ==
    LET r == [app[a] EXCEPT !.tier = tier]
        lp == ExtValid(a)
    IN  CASE r.status = "absent" ->
               [NoApp EXCEPT !.status = IF lp = None THEN "off" ELSE "external",
                    !.lport = lp, !.muted = mem[a].muted, !.tier = tier,
                    !.pinned = mem[a].pinned, !.override = mem[a].tier]
          [] r.status \in {"off", "error", "external"} /\ lp /= None ->
               [r EXCEPT !.status = "external", !.lport = lp]
          [] r.status = "external" /\ lp = None ->
               [r EXCEPT !.status = "off", !.lport = None]
          [] OTHER -> r

(* All rows once a scan of h has found the listeners on `found`. *)
Rescanned(h, found, tier) ==
    [a \in Apps |-> IF a[1] /= h THEN app[a]
                    ELSE IF a[2] \notin found THEN NoApp
                    ELSE Scanned(a, tier[a[2]])]

(* on_scan, Ok: rows are updated and added, those that vanished are
   cancelled, and the host is auto-forwarded. *)
ScanDone(s) ==
    LET h == s.host IN
    /\ s.res = "ok"
    /\ Known(h)
    /\ scans' = scans \ {s}
    /\ host' = [host EXCEPT ![h] = ScanOver(h)]
    /\ UNCHANGED <<netVars, auto, paused, ext, mem, disk, connects, teardowns>>
    /\ SpawnCancels(Held(app, {a \in AppsOf(h) : a[2] \notin s.ports}))
    /\ \E tier \in [s.ports -> Tiers] :
         /\ \A r \in s.ports : tier[r] \in AutoTier[r]
         /\ AutoForwardPass(Rescanned(h, s.ports, tier), fwds, AppsOf(h))

(* A result for a host that has gone. *)
ScanIgnored(s) ==
    /\ s.res /= "none"
    /\ ~Known(s.host)
    /\ scans' = scans \ {s}
    /\ UNCHANGED <<netVars, auto, paused, host, ext, app, cooldown, mem, disk,
                   connects, fwds, cancels, teardowns>>

----------------------------------------------------------------------------
(* Forwards.                                                               *)

(* Threads of start_forward and assign: assign's first cancels the forward
   the row had, whatever comes of it; then the forward is requested. *)
CancelOld(f) ==
    /\ f.undo /= {}
    /\ \E res \in {"ok", "fail"} : MuxCancel(f.undo, res)
    /\ fwds' = (fwds \ {f}) \cup {[f EXCEPT !.undo = {}]}
    /\ UNCHANGED <<live, foreign, listening, sessions, auto, paused, host, ext,
                   app, cooldown, mem, disk, connects, scans, cancels, teardowns>>

Bind(f) ==
    /\ f.undo = {} /\ f.res = "none"
    /\ \E res \in {"ok", "bind", "fail"} :
         /\ MuxForward(f.to, res)
         /\ fwds' = (fwds \ {f}) \cup {[f EXCEPT !.res = res]}
    /\ UNCHANGED <<live, foreign, listening, sessions, auto, paused, host, ext,
                   app, cooldown, mem, disk, connects, scans, cancels, teardowns>>

(* on_fwd: a result counts when its row still waits for this local port. *)
Awaited_Pending(f) == app[Row(f.to)].status = "pending"
Awaited_Port(f) == app[Row(f.to)].lport = f.to.lport
Awaited_Saved(f) ==
    app[Row(f.to)].status = "pending" /\ mem[Row(f.to)].lport = f.to.lport
Awaited(f) ==
    LET r == app[Row(f.to)] IN r.status = "pending" /\ r.lport = f.to.lport

(* The host has gone: nothing is done, not even for a forward that is up. *)
FwdIgnored(f) ==
    /\ f.res /= "none" /\ ~Known(f.to.host)
    /\ fwds' = fwds \ {f}
    /\ UNCHANGED <<netVars, auto, paused, host, ext, app, cooldown, mem, disk,
                   connects, scans, cancels, teardowns>>

(* A stray that succeeded is undone, on the master the host has now. *)
Stray_Vanished(f) ==
    IF f.res = "ok" /\ Ready(f.to.host) /\ app[Row(f.to)].status = "absent"
    THEN {ForwardOf(Row(f.to), f.to.lport)} ELSE {}
Stray(f) ==
    IF f.res = "ok" /\ Ready(f.to.host)
    THEN {ForwardOf(Row(f.to), f.to.lport)} ELSE {}

FwdStale(f) ==
    /\ f.res /= "none" /\ Known(f.to.host) /\ ~Awaited(f)
    /\ fwds' = fwds \ {f}
    /\ SpawnCancels(Stray(f))
    /\ UNCHANGED <<netVars, auto, paused, host, ext, app, mem, disk,
                   connects, scans, teardowns>>

FwdUp(f) ==
    LET a == Row(f.to) IN
    /\ f.res = "ok" /\ Known(f.to.host) /\ Awaited(f)
    /\ fwds' = fwds \ {f}
    /\ app' = [app EXCEPT ![a] = [@ EXCEPT !.status = "active",
                  !.retried = FALSE, !.pinned = f.pin]]
    /\ Remember([mem EXCEPT ![a] = [@ EXCEPT !.lport = f.to.lport,
                  !.pinned = f.pin, !.muted = FALSE]])
    /\ UNCHANGED <<netVars, auto, paused, host, ext, cooldown,
                   connects, scans, cancels, teardowns>>

(* The first bind failure puts the row back to Off without its port and
   auto-forwards its host; any other failure is shown. *)
FwdRetry(f) ==
    LET a == Row(f.to) IN
    /\ f.res = "bind" /\ Known(f.to.host) /\ Awaited(f) /\ ~app[a].retried
    /\ UNCHANGED <<netVars, auto, paused, host, ext, cooldown, mem, disk,
                   connects, scans, cancels, teardowns>>
    /\ AutoForwardPass([app EXCEPT ![a] = [@ EXCEPT !.status = "off",
                            !.lport = None, !.retried = TRUE]],
                       fwds \ {f}, AppsOf(f.to.host))

FwdError(f) ==
    LET a == Row(f.to) IN
    /\ f.res \in {"bind", "fail"} /\ Known(f.to.host) /\ Awaited(f)
    /\ f.res = "bind" => app[a].retried
    /\ fwds' = fwds \ {f}
    /\ app' = [app EXCEPT ![a].status = "error"]
    /\ UNCHANGED <<netVars, auto, paused, host, ext, cooldown, mem, disk,
                   connects, scans, cancels, teardowns>>

FwdDone(f) ==
    FwdIgnored(f) \/ FwdStale(f) \/ FwdUp(f) \/ FwdRetry(f) \/ FwdError(f)

----------------------------------------------------------------------------
(* Cancels: the thread of spawn_cancels.                                   *)

ReplaceCancel(c, d) ==      \* a thread with nothing to do or deliver is over
    cancels' = (cancels \ {c}) \cup IF d.todo \cup d.sent = {} THEN {} ELSE {d}

(* One request for everything; when it fails, each forward is cancelled by
   itself (the two attempts at it are one step, at the time of the last). *)
CancelMany(c) ==
    /\ c.pc = "batch"
    /\ \E res \in {"ok", "fail"} :
         /\ MuxCancel(c.todo, res)
         /\ ReplaceCancel(c, [c EXCEPT !.pc = "each",
                                  !.todo = IF res = "ok" THEN {} ELSE @])
    /\ UNCHANGED <<live, foreign, listening, sessions, auto, paused, host, ext,
                   app, cooldown, mem, disk, connects, scans, fwds, teardowns>>

CancelEach(c) ==
    /\ c.pc = "each"
    /\ \E t \in First(c.todo), res \in {"ok", "fail"} :
         /\ MuxCancel({t}, res)
         /\ ReplaceCancel(c, IF res = "ok" THEN [c EXCEPT !.todo = @ \ {t}]
                             ELSE [c EXCEPT !.pc = "check"])
    /\ UNCHANGED <<live, foreign, listening, sessions, auto, paused, host, ext,
                   app, cooldown, mem, disk, connects, scans, fwds, teardowns>>

(* A forward that could not be cancelled is reported if its port is bound. *)
CancelCheck(c) ==
    /\ c.pc = "check"
    /\ \E t \in First(c.todo) :
         ReplaceCancel(c, [c EXCEPT !.pc = "each", !.todo = @ \ {t},
                              !.sent = IF IsFree(t.lport) THEN @ ELSE @ \cup {t}])
    /\ UNCHANGED <<netVars, auto, paused, host, ext, app, cooldown, mem, disk,
                   connects, scans, fwds, teardowns>>

(* CancelFailed: the row is shown as forwarded again. *)
CancelFailed(c) ==
    /\ \E t \in c.sent :
         LET a == Row(t) IN
         /\ ReplaceCancel(c, [c EXCEPT !.sent = @ \ {t}])
         /\ app' = [app EXCEPT ![a].status =
                IF @ = "off" /\ app[a].lport = t.lport THEN "active" ELSE @]
    /\ UNCHANGED <<netVars, auto, paused, host, ext, cooldown, mem, disk,
                   connects, scans, fwds, teardowns>>

(* A cooldown is over after CANCEL_COOLDOWN, and that outlasts the requests
   that concern its port unless they are slow. *)
CooldownElapse ==
    /\ \E p \in cooldown :
         /\ \/ "slow" \in Events
            \/ /\ \A c \in cancels : \A t \in c.todo : t.lport /= p
               /\ \A f \in fwds : \A t \in {f.to} \cup f.undo : t.lport /= p
         /\ cooldown' = cooldown \ {p}
    /\ UNCHANGED <<netVars, auto, paused, host, ext, app, mem, disk, threads>>

----------------------------------------------------------------------------
(* Commands.  Those that only raise a toast change nothing and are left    *)
(* out: a row that is unknown or external, a host without a master.        *)

Stop(S) ==                  \* cancel_host_forwards, for the rows S
    /\ app' = [a \in Apps |-> IF a \in S /\ Claimed(app[a])
                              THEN [app[a] EXCEPT !.status = "off"] ELSE app[a]]
    /\ SpawnCancels(Held(app, S))

Promoted_Shown(r, M, a) == IF Tier(r) /= "app" THEN Tier(r) ELSE M[a].tier
Promoted(r, M, a) ==        \* tier the entry of a row gets when started by hand
    IF Tier(r) /= "app" THEN "app" ELSE M[a].tier

Promote(r) == IF Tier(r) /= "app" THEN [r EXCEPT !.override = "app"] ELSE r

ToggleAuto ==
    /\ "auto" \in Commands
    /\ auto' = ~auto
    /\ UNCHANGED <<netVars, paused, host, ext, mem, disk, connects, scans, teardowns>>
    /\ \/ auto' /\ AutoForwardPass(app, fwds, Apps) /\ UNCHANGED <<cancels, cooldown>>
       \/ ~auto' /\ Stop(Apps) /\ UNCHANGED fwds

ToggleHost(h) ==
    /\ "host" \in Commands
    /\ Known(h)
    /\ paused' = SymDiff(paused, {h})
    /\ Remember(mem)        \* set_paused saves the entries too
    /\ UNCHANGED <<netVars, auto, host, ext, connects, scans, teardowns>>
    /\ \/ h \in paused' /\ Stop(AppsOf(h)) /\ UNCHANGED fwds
       \/ /\ h \notin paused' /\ AutoForwardPass(app, fwds, AppsOf(h))
          /\ UNCHANGED <<cancels, cooldown>>

Refresh ==
    LET probe == WillScan(host, Hosts) IN
    /\ "refresh" \in Commands
    /\ host' = [h \in Hosts |-> IF h \in probe
                                THEN [host[h] EXCEPT !.scanning = TRUE] ELSE host[h]]
    /\ SpawnScans(probe)
    /\ UNCHANGED <<netVars, auto, paused, ext, app, cooldown, mem, disk,
                   connects, fwds, cancels, teardowns>>

(* assign: the port the row already has is pinned... *)
AssignSame(a, lp) ==
    /\ Ready(a[1]) /\ app[a].status = "active" /\ app[a].lport = lp
    /\ app' = [app EXCEPT ![a].pinned = TRUE]
    /\ Remember([mem EXCEPT ![a] = [@ EXCEPT !.lport = lp, !.pinned = TRUE]])
    /\ UNCHANGED <<netVars, auto, paused, host, ext, cooldown, threads>>

(* ... another must be usable, and replaces it. *)
AssignOther(a, lp) ==
    LET r == app[a]
        mine == Claimed(r) /\ r.lport = lp
    IN  /\ Ready(a[1])
        /\ r.status \in {"off", "pending", "active", "error"}
        /\ ~(r.status = "active" /\ r.lport = lp)
        /\ mine \/ (lp \notin Used(app) /\ IsFree(lp))
        /\ FreeIds(OfRow(fwds, a)) /= {}
        /\ fwds' = fwds \cup {NewFwd(fwds, a, lp, Held(app, {a}), TRUE)}
        /\ app' = [app EXCEPT ![a] = [Promote(r) EXCEPT !.status = "pending",
               !.lport = lp, !.pinned = TRUE, !.muted = FALSE, !.retried = FALSE]]
        /\ mem' = [mem EXCEPT ![a].tier = Promoted(r, mem, a)]  \* not saved
        /\ cooldown' = cooldown \cup {t.lport : t \in Held(app, {a})}
        /\ UNCHANGED <<netVars, auto, paused, host, ext, disk,
                       connects, scans, cancels, teardowns>>

Assign(a, lp) == "assign" \in Commands /\ (AssignSame(a, lp) \/ AssignOther(a, lp))

ToggleOff(a) ==
    /\ Ready(a[1]) /\ Claimed(app[a])
    /\ app' = [app EXCEPT ![a] = [@ EXCEPT !.status = "off", !.muted = TRUE]]
    /\ Remember([mem EXCEPT ![a].muted = TRUE])
    /\ SpawnCancels(Held(app, {a}))
    /\ UNCHANGED <<netVars, auto, paused, host, ext,
                   connects, scans, fwds, teardowns>>

ToggleOn(a) ==
    LET r == app[a] IN
    /\ Ready(a[1]) /\ r.status \in {"off", "error"}
    /\ Remember([mem EXCEPT ![a] = [@ EXCEPT !.muted = FALSE,
                                        !.tier = Promoted(r, mem, a)]])
    /\ StartForwards([app EXCEPT ![a] = [Promote(r) EXCEPT !.status = "off",
                         !.muted = FALSE, !.retried = FALSE]], fwds, {a})
    /\ UNCHANGED <<netVars, auto, paused, host, ext, cooldown,
                   connects, scans, cancels, teardowns>>

Toggle(a) == "toggle" \in Commands /\ (ToggleOff(a) \/ ToggleOn(a))

Hide(a) ==
    LET r == app[a] IN
    /\ r.status \in {"off", "pending", "active", "error"} /\ Tier(r) = "app"
    /\ app' = [app EXCEPT ![a] = [r EXCEPT !.status = "off", !.override = "bg"]]
    /\ Remember([mem EXCEPT ![a].tier = "bg"])
    /\ SpawnCancels(Held(app, {a}))
    /\ UNCHANGED <<netVars, auto, paused, host, ext,
                   connects, scans, fwds, teardowns>>

Unhide(a) ==
    LET r == app[a] IN
    /\ r.status \in {"off", "pending", "active", "error"} /\ Tier(r) /= "app"
    /\ Remember([mem EXCEPT ![a] = [@ EXCEPT !.tier = "app", !.muted = FALSE]])
    /\ UNCHANGED <<netVars, auto, paused, host, ext, cooldown,
                   connects, scans, cancels, teardowns>>
    /\ AutoForwardPass([app EXCEPT ![a] = [r EXCEPT !.override = "app",
                            !.muted = FALSE,
                            !.status = IF @ = "error" THEN "off" ELSE @]],
                       fwds, AppsOf(a[1]))

ToggleHidden(a) == "hide" \in Commands /\ (Hide(a) \/ Unhide(a))

(* set_comment: the note is abstracted; saving writes every entry. *)
SetComment(a) ==
    /\ "comment" \in Commands
    /\ app[a].status /= "absent"
    /\ disk' = mem
    /\ UNCHANGED <<netVars, auto, paused, host, ext, app, cooldown, mem, threads>>

----------------------------------------------------------------------------

Init ==
    /\ NetInit
    /\ auto \in BOOLEAN
    /\ paused \in SUBSET Hosts
    /\ host = [h \in Hosts |-> NoHost]
    /\ ext = [a \in Apps |-> None]
    /\ app = [a \in Apps |-> NoApp]
    /\ cooldown = {}
    /\ mem \in [Apps -> Saved]
    /\ disk = mem
    /\ connects = {} /\ scans = {} /\ fwds = {} /\ cancels = {} /\ teardowns = {}

Command ==
    /\ Cardinality(fwds) + Cardinality(cancels) < MaxBusy
    /\ \/ ToggleAuto
       \/ Refresh
       \/ \E h \in Hosts : ToggleHost(h)
       \/ \E a \in Apps : Toggle(a) \/ ToggleHidden(a) \/ SetComment(a)
       \/ \E a \in Apps, lp \in LPorts : Assign(a, lp)

(* The steps of threads and the handling of their results. *)
ConnectStep(h) == \E c \in OfHost(connects, h) : Connect(c) \/ MasterDone(c)
ScanStep(h) == \E s \in OfHost(scans, h) :
    Scan(s) \/ ScanFailed(s) \/ ScanDone(s) \/ ScanIgnored(s)
FwdStep(a) == \E f \in OfRow(fwds, a) : CancelOld(f) \/ Bind(f) \/ FwdDone(f)
CancelStep(h) == \E c \in OfHost(cancels, h) :
    CancelMany(c) \/ CancelEach(c) \/ CancelCheck(c) \/ CancelFailed(c)
TeardownStep(h) == \E d \in OfHost(teardowns, h) : Teardown(d)

Environment ==
    /\ NetNext
    /\ UNCHANGED <<auto, paused, host, ext, app, cooldown, mem, disk, threads>>

Next ==
    \/ AnyTick \/ Command
    \/ \E h \in Hosts :
          ConnectStep(h) \/ ScanStep(h) \/ CancelStep(h) \/ TeardownStep(h)
    \/ \E a \in Apps : FwdStep(a)
    \/ CooldownElapse
    \/ Environment

(* Ticks keep coming and ps does not fail for ever, requests to ssh end (each
   has a timeout), and the worker gets to every message. *)
Fairness ==
    /\ WF_vars(DueTick)
    /\ \A h \in Hosts : /\ WF_vars(ConnectStep(h)) /\ WF_vars(ScanStep(h))
                        /\ WF_vars(CancelStep(h)) /\ WF_vars(TeardownStep(h))
    /\ \A a \in Apps : WF_vars(FwdStep(a))

Spec == Init /\ [][Next]_vars
FairSpec == Spec /\ Fairness

=============================================================================
