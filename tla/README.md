# Verification of ssh-autoport in TLA+

ssh-autoport watches the user's ssh sessions, finds the applications listening
on the servers and forwards each of them to a local port over an ssh
ControlMaster. This directory models the program: the worker with the threads
it starts and what surrounds it, how masters come and go, how sessions are found
and servers scanned, the screen and the keyboard, and quitting, being killed and
starting again. It checks the models with TLC on small instances and proves
their safety properties, and that the worker implements an abstract
specification, with TLAPS for every value of the constants. Line numbers are
those of `../src/src/`.

## 1. Inventory

| Component | Source | State | Operations |
| --- | --- | --- | --- |
| Worker | `worker.rs` | hosts, each with its master, `scanning`, `connect_inflight`; rows (`AppW`) with status, local port, `muted`, `pinned`, `retried`, override; the global switch; `ext_forwards`; `hot` cooldowns | `on_tick`, `on_master`, `on_scan`, `on_fwd`, `CancelFailed`, `on_cmd` (nine commands), `cleanup` |
| Worker's threads | `worker.rs` | what is left to do and the result | connect, scan, forward, cancel-then-forward, cancel with verification, teardown |
| ssh masters | `control.rs` | control sockets, the forwards each master holds, our ssh child | `connect`, `alive`, `scan`, `forward`, `cancel`, `cancel_many`, `close` |
| Local ports | `ports.rs` | none of its own | `is_free`, `find_free`, `who_uses` |
| State file | `state.rs` | entries in memory, entries and paused hosts in `state.json` | `load`, `save`, `get`, `entry`, `set_paused` |
| Discovery | `discover.rs` | the cache of `ssh -G` results in the worker | `discover`, `parse_ps_line`, `parse_ssh_args`, `resolve` |
| Remote scan | `remote.rs` | none | `parse_scan` over the output of `ss`, `netstat` or `/proc`, `dedupe`, `classify` |
| Shared types | `types.rs` | none | `Cmd`, `Snapshot`, `Tier`, `FwdView` |
| Terminal UI | `ui.rs` | selection, editor, toasts, the last snapshot | keys become commands |
| Main | `main.rs` | signal flag, options | event loop, shutdown with a deadline of 6 s |
| Utilities | `util.rs` | none | `output_timeout`, clocks |

**How they interact.** The UI sends `Cmd` to the worker over a channel and reads
snapshots the worker publishes. The worker is one thread that handles one
message at a time and never waits for ssh, except for `alive` after a failed
scan: every other request runs in a detached thread which sends `WMsg` back. So
between a request and its result the worker handles ticks, commands and results
of other requests, and the row or host the result is for may have been stopped,
re-assigned, removed or replaced. Threads of different requests also race each
other on the masters, on their socket paths and on the local ports, which they
share with every other program of the machine.

**What is hard about it.**

- *Late results.* A forward's result is matched by host, remote port and local
  port alone; a scan's or a connect's by host alone.
- *Flags without timers.* Only the result resets `scanning`,
  `connect_inflight` and `Pending`.
- *Switches at three scopes* (row, server, global), an override that hides a row
  and a saved copy of two of them, while scans, retries and late results start
  forwards by themselves.
- *Check, then use.* A port is probed by the worker and bound by ssh later; a
  control socket is checked, removed and bound again by different threads.
- *Verified cancels* that report failures long after the row has moved on.
- *Masters that die silently*, requests that time out after taking effect,
  sessions that end and start again, a `ps` that fails.
- *Our own listeners against the user's*: a scan must tell them apart, also
  while ours is being cancelled. Likewise our own ssh processes against theirs.
- *Quit and crash.* Masters outlive the process; threads do not.
- *Keys against a screen that is out of date.*

**What makes each component correct.** Worker: no flag without its thread; a
switch that is off stays off, now and after a restart; no forward without an
owner; what is shown is true, or becomes true; what should be forwarded gets
forwarded. Ports: two rows never claim one local port, collisions settle.
Masters: a lost one is noticed and replaced; ours end with the session; no
process is left that nobody can address. Discovery: command lines mean what ssh
takes them to mean, hosts and claims end with their sessions, a claim is trusted
only for a port another program holds. State file: what the user has settled
comes back. Remote scan: rows are real and complete, and their tier does not
depend on the tool or the order of its lines. UI: a command acts on the row that
was marked, the screen catches up. Main: quitting ends, and leaves only what a
detached thread was busy with.

## 2. Modules

| Module | What it holds |
| --- | --- |
| `Network` | Local ports, masters and their mux requests, and the environment: applications, sessions, foreign programs, masters dying. Everything `ssh`, the kernel and the user's other programs do. |
| `Worker` | EXTENDS `Network`. The worker's state and every handler; the threads; fairness. |
| `WorkerProperties` | EXTENDS `Worker`. What should hold of it, and, in its last section, what comments and the README promise and the code does not keep. |
| `Ownership` | Abstract: forwards that are open, rows that claim them, threads that have them in hand. `WorkerProperties` instantiates it as `Books`. |
| `Shutdown` | EXTENDS `WorkerProperties`. The process around the worker: quit, `cleanup`, being killed, restart from `state.json`. |
| `MasterConnect` | `Master::connect` and `Master::close` step by step, over one socket path, and the ssh -M processes; the inside of the steps `Connect` and `MasterExit` above. |
| `SshArgs` | `parse_ssh_args`, and what ssh itself makes of a command line. |
| `ParseSshArgs` | EXTENDS `SshArgs`. `parse_ssh_args` as a machine that reads one word per step, over any command line. |
| `Discovery` | EXTENDS `SshArgs`. `ps`, the cache of `ssh -G`, keys and claims: where the hosts and claims of a `Tick` come from. |
| `RemoteScan` | The output of the scan's script, `parse_scan`, `dedupe`, `classify`: where the ports and tiers of a `Scan` come from. |
| `Ui` | The screen's state, every key, the main loop and the two channels, over a worker reduced to the snapshots it publishes. |
| `MCWorker`, `MCShutdown`, `MCUi`, `MCDiscovery` | Values of the constants for the `.cfg` files. |
| `MCReaders` | EXTENDS `ParseSshArgs`, `RemoteScan`. The two side by side, each in behaviours of its own, and values of their constants. |
| `WorkerProofs` | The worker's types, and lemmas on its helpers. |
| `WorkerSafetyProofs` | EXTENDS `WorkerProofs`. `NoLostWakeup`, and the properties of the switches. |
| `OwnershipProofs` | EXTENDS `WorkerSafetyProofs`. No forward without an owner, the refinement of `Ownership`, and no self-adoption. |
| `ShutdownProofs` | EXTENDS `OwnershipProofs`, `Shutdown`. Types, what a quit leaves, and what survives, over any number of runs. |
| `SshArgsProofs`, `RemoteScanProofs`, `UiProofs`, `MasterConnectProofs` | Theorems about `ParseSshArgs`, `RemoteScan`, `Ui` and `MasterConnect`. |

`Worker`, `MasterConnect`, `Discovery`, `RemoteScan` and `Ui` overlap where
components meet, and each takes of its neighbour what it needs: `Worker` any
hosts and claims, any ports and tiers, commands for any row at any time; `Ui`
any next snapshot; `Discovery` only that ssh processes of ours may run while a
host is known; `MasterConnect` the few fields of a host that concern its master.

### State

| Model | Code |
| --- | --- |
| `Worker`: `host[h]` | `HostW`: `master` ("gone" when there is no such host, "connecting", "failed", or the kind of master that is ready), `connecting` = `connect_inflight`, `scanning` |
| `app[<<h, r>>]` | `AppW`; "absent" when the row does not exist |
| `auto`, `paused` | `auto`, `state.paused_hosts` |
| `ext` | `ext_forwards` of all hosts, reduced to the claim for each row |
| `cooldown` | the keys of `cooldown` that are younger than `CANCEL_COOLDOWN` |
| `mem`, `disk` | `state.assignments`, and the file's copy of it |
| `connects`, `scans`, `fwds`, `cancels`, `teardowns` | detached threads; one that has a result stands for its message in the channel |
| `live`, `tunnels` | masters whose socket answers; forwards that are bound |
| `foreign`, `listening`, `sessions` | ports other programs hold; applications on the servers; the user's sessions |
| `Shutdown`: `phase`, `joined` | where the process is in its life; the threads `cleanup` joins |
| `MasterConnect`: `file`, `proc` | the process whose socket the path leads to; the ssh -M processes ("mute": running without a socket) |
| `connect`, `close`, `held`, `inflight` | threads inside `connect` and `close`; `HostW.master` with its child; `connect_inflight` |
| `Discovery`: `procs`, `ours` | ssh command lines in `ps`, the user's and ours |
| `cache`, `known`, `ext` | `resolve_cache`, the keys of `hosts`, `ext_forwards` |
| `ParseSshArgs`: `argv`, `pos`, `st` | the arguments, `i`, and the other locals of `parse_ssh_args` |
| `RemoteScan`: `server`, `stage`, `at` | what the script lists; the loop that runs (`in_map` is stage "map"), and how far it has come |
| `fmt`, `listeners`, `procRows`, `inodes`, `byPort`, `apps` | the locals of `parse_scan` and `dedupe`; the rows with their tier |
| `Ui`: `snap`, `autoShown`, `showHidden`, `sel`, `editing` | the fields of `Ui` |
| `events`, `cmds`, `pc`, `signal` | the two channels, the place in the main loop, `SHOULD_QUIT` |

History variables, which no action reads: `lateFwds`, `lateHosts` and `shown` of
`Shutdown`, `crowded` of `MasterConnect`, `shown` of `Ui`, `whole` of
`RemoteScan`. `values` of `ParseSshArgs` (the words ssh takes for values) is
determined by `argv`.

### Actions

A handler is one action (or one action per early return), with everything it
calls: `Tick` is `on_tick` with `connect_if_needed`, `spawn_scan` and
`teardown_host`; `ScanDone`, `ScanFailed`, `ScanIgnored` are `on_scan`;
`MasterDone` is `on_master`; `FwdIgnored`, `FwdStale`, `FwdUp`, `FwdRetry`,
`FwdError` are the five ways through `on_fwd`; `CancelFailed` its message;
`ToggleAuto`, `ToggleHost`, `Refresh`, `Assign`, `Toggle`, `ToggleHidden`,
`SetComment` the commands. `StartForwards` is `start_forward` for a set of rows
in the order of the `BTreeMap`, each seeing the ports promised to the ones
before it; `AutoForwardPass`, `SpawnCancels`, `SpawnScans`, `SpawnTeardowns`,
`Stop` are the helpers of nearly the same name. Threads take a step for each
request they make: `Connect`, `Scan`, `CancelOld` then `Bind`, `CancelMany` then
`CancelEach` and `CancelCheck` for each forward, `Teardown`.

`Shutdown` runs `Worker!Next` until `Cleanup` (the message `Quit`); then only
threads go on (`GoOn`) until those that were joined are done (`Exit`), or the
process is killed or its six seconds are over (`Crash`); `Restart` starts a run
from `disk` with whatever masters and forwards the last one left.

`MasterConnect` takes a step for each request or file operation:
`Dial`, `CheckOwn`, `RemoveStale`, `Spawn`, `Poll`, `Deadline` are `connect`,
`CloseExit`, `CloseKill`, `CloseRemove` are `close`. `Ui` takes one for each
stage of the main loop and each key. `RemoteScan` takes one for each round of a
loop: over the lines (a scan may be cut after any of them), over the rows of
`/proc` that are joined with their owners, and over what `dedupe` merges;
`ParseSshArgs` one for each word. In `Discovery` a tick is one step, and a
command line is folded with the very `ReadWord` that `ParseSshArgs` steps by.

The worker's channel is not modelled as a queue. When a thread gets to its
`send` is bounded by nothing, so results of different threads may be handled in
any order, and no thread but the cancelling one sends twice. In `Worker`
commands may name any row at any time, because the screen may be out of date;
those that only raise a toast leave the state alone and are not actions. The
channels of `Ui` are queues, because there the order matters.

### What is abstracted

- Time. A tick may find any interval passed, any failed master ripe for a retry.
  A cooldown ends at any time after the requests concerning its port are over;
  the event "slow" lets it end earlier. In `MasterConnect` a failed host is
  dialed again only when no connect or close of it is under way, as 30 s outlast
  them (15 s and 5 s).
- A handler's own probes (`is_free`, `alive`) happen at one instant with it.
- The two attempts at one forward in the loop of `spawn_cancels` are one step.
- In `Worker`, masters are addressed by socket path as ssh addresses them: a
  thread that uses the path of a replaced master talks to its successor.
- ssh itself: an `ssh -M` binds its path only if nothing is there and runs on
  without a socket otherwise; one that exits by itself unlinks the path.
  `MuxForward` of a forward the master already holds succeeds and `MuxCancel` of
  one it does not hold fails; with "timeout" a request may fail with or without
  effect.
- A scan reads what listens at one instant. When masters may die it may also be
  cut short, and then counts with what it has printed (`control.rs:72`).
- In `Worker` the tier of a port is a choice from the set the instance gives it.
  Notes, pids, command lines and error texts are left out.
- A command line is a sequence of words, and a word of several options stands as
  a word for each. Values ssh would reject, and options that do not go together,
  count as what they ask for. In `Discovery` the ports of an `-L` value and
  the answer of `ssh -G` are constants. `ssh -G` may fail whenever it is asked.
- In `RemoteScan` an address is loopback, every address or another one; an inode
  is the socket itself. A line of the output is there whole or not at all: one
  that is cut in the middle of a name would give a name nobody has.
- In `Ui` the text in a prompt is left out (Enter may find it valid or not), and
  so are toasts, scrolling, wording and `o`, which opens a browser.

## 3. Runs

`Commands` and `Events` of a `.cfg` name what the user and the surroundings may
do in it, at any time and as often as they like. Deadlock is checked except in
`connect`, where the host may be gone with the bound on sessions that end used
up, and `readers`, which ends when a line or a scan has been read.

| Run | Instance | Checks |
| --- | --- | --- |
| `one_row` | one application, two local ports, the switches of the host and the row, assigns, the global switch on or off from the start, entries with and without a saved mute; nothing fails | `TypeOK`, `MuteRemembered`, `HideRemembered`, `NoOrphanForward`, `OffIsOff`, `KeepsBooks` |
| `adoption` | the user's config claims local 3000, which another program holds now and then; masters refuse; the row and the global switch are toggled | `NoSelfAdoption`, `TakenOver`, `PendingResolves`, `StoppedForGood` |
| `recovery` | our master dies, sessions end and start, `ps` fails, applications come and go, scans are cut short, cooldowns end early; no commands | `LossNoticed`, `Reconnects`, `AutoForwarded`, `ClosedTornDown`, `NoLostWakeup` |
| `collision` | two servers with the same port, three local ports | `CollisionsSettle` |
| `shutdown` | one row, on the user's master or on ours; toggle, hide, assign, note; quit, kill, restart | `LeftBehind`, `ChoicesSurvive`, `QuitEnds` |
| `connect` | two connects and two closes at a time, four processes, two sessions that end, one fault; a stale or living master of an earlier run | `NoLeak`, `Settles`, `Stops` |
| `ui` | two servers, three rows, four snapshots between which the worker moves at will | `SelectionSound`, `SelectionKept`, `ActsOnShown`, `Fresh`, `SignalQuits` |
| `discovery` | two processes of the user from nine command lines, four of ours, three destinations for two servers | `EndsWithSession`, `Seen`, `ClaimsEnd` |
| `readers` | every command line of up to four words from sixteen, each of which has one reading by ssh (`OneReading`); or some 190 servers, two ports in seven shapes each, with and without a fixed rest, in both orders, and three tools | `ReadsAsSsh`, `Real`, `Complete`, `TierRight` |
| `v_closed_shared` | sessions end and start over the user's ControlMaster | refutes `ClosedTornDown` |
| `v_truthful` | assigns only | refutes `TruthfulRows` |
| `v_one_port` | two servers, one local port, toggles, timeouts | refutes `OnePortPerRow` |

**Bounds.** `MaxThreads` limits the threads of one kind for one row (forwards)
or one host (the others); a handler that would start one more waits. Two are
enough for a late result to meet a newer request for the same row, which is
where the matching in `on_fwd` matters. Runs that explore something else have
one; so `recovery`, whose instance with two is too large to check, never has two
connects of one host. A late connect that meets the next one is covered for the
flags by the theorem `NoWakeupIsLost`, which is for every `MaxThreads`, and for
the masters by `connect`. With one application, batches of cancels are of one;
larger ones are covered by the theorems on ownership. `MaxBusy` lets the user
act only while fewer than that many requests to forward or cancel are under way;
it bounds how many commands overlap, and the automatic steps are not subject to
it. Two local ports for one row (its own number and an ephemeral one) let a row
move and let a failed bind go elsewhere; `collision` has one more than rows. One
host is enough for the flags and the matching, as hosts share only local ports
and the global switch; the runs on sharing have two. In `connect`, two sessions
that end let an old connect and an old close meet a new host twice; four
processes are as many as can be referred to at once, and a process nothing
refers to any more may stand for a new one. In `ui`, the queues hold one message
before the next handler (which may add three), so a key always may come between
a change and its display. In `discovery`, two processes of one destination are
what duplicates and claims need. In `readers`, three words are an option, its
value and a host, and the fourth is one too many; `ClusterMin` is 2 instead of
5, so that a cluster is just met and just missed by two ports. No server of
`readers` has a port that is bound to loopback and to another single address
(section 5). Each run stays below 1.2 million states; the theorems cover all
instances for the properties they name.

`adoption` has no assigns: a user who re-assigns for ever keeps a row pending
for ever. `collision` has no toggles: a row that ran out of ports and shows an
error is not tried again by itself.

**Fairness.** `FairSpec` of `Worker` assumes that ticks keep coming with a `ps`
that works (`DueTick`: the loop sends a tick every interval, `worker.rs:119-128`)
and that each host's and each row's threads make progress: every request to ssh
has a timeout (`util.rs:35-54`), threads are scheduled, and the worker gets to
every message. Fairness is on steps of all threads of a host or row together,
the weaker choice: a thread can starve while another of the same row keeps
going. `Shutdown` assumes that the worker gets to `Quit`, that the teardowns
that were joined go on, and that main takes `CleanedUp`. `MasterConnect` assumes
that threads and processes go on, that the deadline passes, and that a dead
master is noticed by a later scan. `Discovery` assumes that `ps` is read again
and again, and that what we started for a host ends once there is none. `Ui`
assumes that the loop goes round without a key (the poll times out), that the
worker takes what it is sent, and strongly that the loop gets the queue empty
(`Drained`): the worker does not publish faster than the loop reads. Nothing is
assumed of the user or of the surroundings: they may act for ever or stop.

**What the passing runs show.** No interleaving in these instances leaves a
flag without the thread that resets it, a forward without an owner (while
nothing fails), or a switch forgotten; a scan does not take our own listener for
the user's; a row does not wait for ever; a lost master comes back with its
rows; an application whose number is taken goes to another port. A quit leaves
only what a detached thread was busy with at that moment. Connects and closes
that overlap on one path recover, and lose no master that was alone. Commands
act on what was on the screen. Command lines are read as ssh reads them, with
two exceptions that `ReadsAsSsh` names (options after the host; options with
which ssh only prints something), and discovery does not keep itself alive. Rows
and tiers do not depend on how the server lists its sockets, provided that the
sockets that listen on one port and are visible have one name (`OneName`), and
that a port bound to loopback and to something else is bound to every address
as well (`ClearBinds`).

**What the violations show.**

- `ClosedTornDown` on a shared master: "closed ones are torn down (with their
  forwards)" (README.md:44). `on_fwd` returns at `worker.rs:673` when the host
  is gone, before it looks at the result. A forward that comes up after
  `teardown_host` has tried to cancel it stays on the user's master.
- `TruthfulRows`: "The result only applies if this exact forward is still
  awaited" (`worker.rs:678`). Assigning to a pending row the port it already
  waits for leaves two requests of the same key. The first result is taken for
  the second's, and the row becomes `Active`. The second request's thread
  cancels the forward and binds it again (`worker.rs:790-793`); its result finds
  the row no longer `Pending` and is taken for a stray, so `on_fwd` cancels the
  forward that has just come up (`worker.rs:685-691`). The row stays `Active`
  without one. The same mix-up lets the result of an automatic request
  (`pin = false`) undo the pin the user has just set.
- `OnePortPerRow`: "already forwarding another app on it" (`worker.rs:758`).
  A failed cancel sets its row back to `Active` without looking at the ports
  given out since.

**Observations** without a run of their own, each built into a model or into a
property's proviso:

- `cleanup`'s comment (`worker.rs:967-968`) says that nothing may be left
  dangling in detached threads; it joins the teardowns it starts and no other
  thread. `LeftBehind` says exactly what that can leave: the requests under way,
  for the same reason as in `v_closed_shared`.
- "the master dies with us" (`control.rs:179`) is kept by `close` only: a child
  that loses its socket to another connect, and whose `Master` is replaced in
  `on_master` (`worker.rs:347`), is dropped without being killed. `NoLeak`
  states what is left of the promise: it holds for a process that never ran
  beside another process, connect or close and met no check that timed out.
- A check of our living master that times out makes the host `Failed`; if its
  session then ends, `teardown_host` closes nothing (`worker.rs:989`), so
  `ClosedTornDown` does not hold with "timeout".
- `ssh -G web`, `ssh -Q key web`, `ssh -V web` and lines with options ssh does
  not know make no connection, as `discover.rs:135` says of `-G`, but are taken
  for sessions for as long as they run: `parse_ssh_args` looks for `-O` and `-W`
  only (`discover.rs:99`; `OnlyPrints` in `ReadsAsSsh` and, through `NamesHost`,
  in `EndsWithSession`).
- Options after the host are read as a remote command, and such a session is not
  seen (`discover.rs:129`; the proviso of `ReadsAsSsh`). `ARG_OPTS` lacks options
  newer than OpenSSH 9.3 (`-P`).
- Of two sessions to one destination with different `-L`, `dedup_by`
  (`discover.rs:54`) keeps the claims of one only.
- A failed `ssh -G` is never asked again (`worker.rs:304`; the proviso of `Seen`).
- A row of a host without a master is not drawn but stays selected, and keys act
  on it; `h` persists there (the exception in `ActsOnShown`). `F` without a
  selected row toggles the first host.
- `f` is a flip: pressed on a snapshot that is out of date it does the opposite
  of what the screen suggested.
- The retry after a lost bind race (`worker.rs:715`) does nothing while
  forwarding is off, so a row started by hand ends up `Off`.
- `assign` does not save the promotion of a hidden row (`worker.rs:782`); the
  result of its forward does. `ChoicesSurvive` is therefore about rows that have
  come up.
- It is not true of those without exception either: a muted row is assigned a
  port (shown as not muted, its entry still is), its host or everything is
  switched off while it is pending, the cancel overtakes the request and fails
  because there is nothing to cancel yet, and once the request has come through
  `CancelFailed` shows the row as up: it is active and not muted, and a restart
  mutes it. `Harmless` in `ShutdownProofs` names this exception.

**Mutants.** Each property of a passing run has a wrong variant of the code that
breaks it under the same configuration; they are the operators with an
underscore in the modules, each placed before the operator it replaces (a result
accepted for any pending row, a scan that does not clear its flag, a stale
socket left in place, a prompt that acts on the selection, ...).

## 4. Theorems

Proved for all sets of hosts, ports, claims, snapshots, servers and command
lines, all commands and events, and all bounds, from the named assumptions of
the modules only (hosts are numbers, local ports are positive numbers, the
remote numbers and the ephemeral ports are among the local ports, bounds are
naturals, the given sets have their types, no process and no word is the empty
text, the connect threads are a finite set). Hypotheses beyond these are part of
the statement and explained below the table.

| Theorem | States | Argument |
| --- | --- | --- |
| `TypeCorrect` | `Spec => []TypeOK` | `TypeOK` is inductive; one lemma for each group of handlers, over lemmas on the helpers. |
| `NoWakeupIsLost` | `Spec => []NoLostWakeup` | The invariant is `WakeInv` = `GoneIsEmpty` and `NoLostWakeup`. Without `GoneIsEmpty` (a host that has gone keeps no flag and no row) it is not inductive: `FwdIgnored`, `ScanIgnored` and `MasterDone` consume the result of a host that has gone, and could take the last thread of a flag with them. |
| `MuteIsRemembered`, `HideIsRemembered` | `Spec => []MuteRemembered`, `Spec => []HideRemembered` | The invariant `SavedInv` adds that a pending row is not muted (so that `FwdUp`, which clears the saved flag, never meets a muted row) and that what memory has muted or hidden the file has too, which survives the one handler that does not save. |
| `OffStaysOff` | `Spec => OffIsOff` | Each step by cases: only `StartForwards` makes a row pending; `AutoForwardPass` calls it for rows that pass all switches, `ToggleOn` and `AssignOther` for the row the user names. Needs `TypeOK` only. |
| `NothingIsOrphaned` | `Quiet => (Spec => []NoOrphanForward)` | The invariant is `OwnInv`: hosts keep the master they have and a host that connects has one connect (`Stands`), everything open or in hand is on the host's present master (`AllMine`), a thread requests a forward only after the cancel it starts with (`UndoneFirst`), and every open forward is covered by an active row or a thread (`Covered`). `Covered` is stronger than `NoOrphanForward`: a pending row covers nothing by itself, its thread does, or else the row could be stopped between the two without a cancel for what the thread has opened. |
| `WorkerKeepsBooks` | `Quiet => (Spec => KeepsBooks)` | `Worker` implements `Ownership` with open = `tunnels`, rows = what the rows claim, busy = what threads have in hand or have yet to report. From `OwnInv` each step is `Open` (`Bind`), `Close` (a cancel), `HandOver` (handlers) or a stutter; one lemma for each group of handlers. |
| `OursIsNotAdopted` | `Quiet /\ Outlasted => (Spec => NoSelfAdoption)` | By `OwnInv` every open forward has an active row or a thread. `HotInv` adds that a thread's port is cooling down, unless the thread will be awaited by its row and no other request for that row and port stands behind it: then the row claims the port, and when it stops waiting `SpawnCancels`, the result or the assign puts the port into `cooldown`. So the port of any open forward is claimed or cooling down, and `ExtValid` passes over it. |
| `LifeTypeCorrect` | `LifeSpec => [](TypeOK /\ LifeTypeOK)` | Every step of the process is one of the worker's, or of its threads without it, or one of the five moves between phases. |
| `QuitLeavesOnlyLate` | `Quiet => (LifeSpec => []LeftBehind)` | `OwnInv` takes a parameter, what earlier runs left open and this one knows nothing of; a restarted run keeps it for `lateFwds`. `LeftInv` then goes with the phase: while the worker runs, `OwnInv(lateFwds)`, and every master of ours is the host's, a connect's, or was found at the start (`Manned`); while `cleanup` waits, all that is open and was not under way when it began is the task of a teardown that is joined (`Dwindling`), so that there is none of it once they are done; after that nothing runs (`Idle`). |
| `ChoicesOutlive` | `LifeSpec /\ []Harmless => ChoicesSurvive` | `ChoiceInv(FALSE)`: a row agrees with its entry in memory about what hides it, a row that is up and neither muted nor hidden agrees with both its entries, and the entries of a row that is not there agree with the last impression it made. Handlers are reduced to what they do to one row and its entries (`FollowsTo`). |
| `ChoicesOutliveQuiet` | `Quiet` and no switches of hosts or of everything: `LifeSpec => ChoicesSurvive` | `ChoiceInv(TRUE)`: rows that are off but still have their port count as up, since a failed cancel may show them so. |
| `LinesReadAsSsh` | `ArgSpec => []ReadsAsSsh` | `ReadInv` says what the words before `pos` have come to: while options are read (`Searching`), no plain word has gone by, `dashed` is whether `--` has, and `want` is the option whose value is next; at the host (`AtHost`), it was the first plain word; once it has given up (`Refused`), there is an option no session has, or something after the host. The values kept for each option are those that have gone by (`KnownBefore`). One lemma for each branch of `ReadWord`. |
| `RowsAreReal`, `RowsAreComplete` | `Spec => []Real`, `Spec => []Complete` of `RemoteScan` | `ScanInv`: what is in any list was read of a socket that listens (`Sound`); what has been read is in the list the stage should have it in, and with its name once the owners are known (`Got`); a merged row has an address and a name of entries merged so far, a name and the wildcard if any entry had one (`Merged`); rows appear at the end only (`Result`). |
| `TiersAreRight` | `OneName /\ ClearBinds => (Spec => []TierRight)` | From `ScanInv` a merged row is local if and only if the port is (`LocalOnly`) and has the one name that is visible; so the clusters that are counted over rows are those of the server. |
| `SelectionIsSound` | `Spec => []SelectionSound` | Inductive; lemmas on what `fix_selection` and `move_sel` choose. |
| `SelectionIsKept` | `Spec => SelectionKept` | From the same invariant: only `Apply` changes the snapshot, and `fix_selection` looks for the selected row first. |
| `CommandsActOnShown` | `Spec => ActsOnShown` | The invariant adds that while the loop polls, what the screen shows is what the present state would show, as events are applied before drawing only. |
| `NoMasterIsLost` | `Spec => []NoLeak` | The invariant adds to the types, for each master that was alone so far (`Safe`): while it is starting or mute the one thread that started it polls it and no close is meant for it (`Polled`); once it is up its socket is at the path, no thread is about to remove a stale file and no close is past its exit request (`Reached`). `NoLeak` by itself is not inductive: the step that removes a file would take the socket of a master that is up, were a thread to be there. The theorem shows more than `NoLeak` says: a master that was alone is reached by its socket or its connect, even without the child handle. |

The strengthened invariants have been model-checked as well before they were
proved. The last step of each proof combines `Init`, the step lemma and the
implication by temporal logic.

**Hypotheses.**

- `Quiet`: no master is lost, no request times out, no session ends, `ps` does
  not fail; servers may refuse connections, and other programs, applications
  and the user's masters come and go. It is needed: when a master is lost its
  forwards go with it and rows claim what nobody has; a late result may then be
  undone on another master (`worker.rs:679`).
- `Outlasted`: a cooldown does not end before the requests concerning its port
  (the event "slow" is not among the events). Whether 15 s are enough for that
  is a question of time the model does not answer (section 5).
- `Harmless`: no cancel is about to report a failure for a row that is off with
  that very port and neither muted nor hidden. Without it `ChoicesSurvive` is
  false of the code, for the reason given among the observations above.
- `OneName`, `ClearBinds`: sockets that listen on one port and are visible have
  one name, and a port that is bound to loopback and to something else is bound
  to every address as well. Otherwise the tier is that of the line listed first
  (section 5). All servers of `readers` satisfy both.

**Only model-checked.** All liveness properties: `TakenOver`,
`PendingResolves`, `StoppedForGood`, `LossNoticed`, `Reconnects`,
`AutoForwarded`, `ClosedTornDown`, `CollisionsSettle`, `QuitEnds`, `Settles`,
`Stops`, `Fresh`, `SignalQuits`, `EndsWithSession`, `Seen`, `ClaimsEnd`. Proofs
of liveness under fairness are out of the prover's reach. Two facts about
sequences would need an induction over data that the installed provers cannot
do: that every command line has exactly one set of words ssh takes for values
(`OneReading`; `LinesReadAsSsh` is about any set that satisfies the definition),
and that folding `ReadWord` over a line, as `Discovery` does, ends where the
steps of `ParseSshArgs` end.

## 5. Not modelled, and why

- `State::save` (temporary file, rename) is one step that works. The rename makes
  a crash in between harmless; a full disk, and two programs saving at once, are
  left out.
- Splitting text: words of `ps`, fields of `ss`, `netstat` and `/proc`, `-L`
  values, the output of `ssh -G`, `state.json`. Unit tests reach these.
- Addresses finer than three classes. Two things follow that `readers` does
  not show: for a port bound to loopback and to one other single address the merged
  address is that of the line listed first (`remote.rs:118-126`; only "*"
  widens), and a loopback address mapped into IPv6 is "lo" from `/proc`
  (`remote.rs:204`) but a literal from `ss` and `netstat`.
- The pids and command lines fetched after a scan (`control.rs:80`), `who_uses`,
  toasts, scrolling, drawing: output only.
- The inside of `output_timeout`: the pipe readers are joined after the child
  has ended, without a timeout of their own.
- Discrete time: whether 15 s of cooldown outlast a batch of 10 s and attempts
  of up to 20 s for each forward (`worker.rs:36`), whether 6 s at quit outlast a
  worker that is in `on_tick` or `alive`, and the teardowns (`Crash` allows
  either outcome).

## 6. Possible extensions

Everything planned at first has been modelled, and every safety property the
runs check has been proved. What would add most next:

1. `Cooldown`: discrete time for the cooldown and the deadline at quit, in place
   of `Outlasted`.
2. A refinement from `MasterConnect` to the `Connect` and `MasterExit` of
   `Network`, with two paths and the user's master.
3. `NothingIsOrphaned` and `WorkerKeepsBooks` with masters that die: `Ownership`
   with a step that loses all forwards of one master.
