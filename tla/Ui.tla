---------------------------------- MODULE Ui ----------------------------------
(***************************************************************************)
(* The screen and the keyboard: the state of src/src/ui.rs and the main    *)
(* loop of src/src/main.rs that applies events, draws and handles keys,    *)
(* with the two channels that join them to the worker.                     *)
(*                                                                         *)
(* The worker is reduced to what the screen can see of it: it publishes    *)
(* one of Views after every message, and takes commands in order.  A view  *)
(* is a snapshot: its hosts, those with a master, their rows, and the rows *)
(* that row_visible shows without show_hidden.  What a command does to the *)
(* rows is in Worker; here the next view may be any.                       *)
(*                                                                         *)
(* The text typed into a prompt is left out: Enter may find it valid or    *)
(* not.  Toasts, wording, colours and scrolling are left out.              *)
(***************************************************************************)
EXTENDS Naturals, Sequences

CONSTANTS
    Hosts,      \* servers, as numbers in the order of their keys
    RPorts,     \* remote ports
    Views,      \* snapshots the worker of the instance may publish
    MaxEvents,  \* bound: events waiting for the screen
    MaxCmds     \* bound: commands waiting for the worker

Apps == Hosts \X RPorts
View == [hosts : SUBSET Hosts, ready : SUBSET Hosts,
         rows : SUBSET Apps, plain : SUBSET Apps]

ASSUME OrderAssumption == Hosts \subseteq Nat /\ RPorts \subseteq Nat
ASSUME ViewsAssumption == Views \subseteq View
ASSUME QueuesAssumption == MaxEvents \in Nat /\ MaxCmds \in Nat

NoRow == <<>>
NoView == [hosts |-> {}, ready |-> {}, rows |-> {}, plain |-> {}]
NoEdit == [kind |-> "none", row |-> NoRow]
NoScreen == [ready |-> {}, row |-> NoRow, prompt |-> NoRow]

VARIABLES
    view, auto,         \* what the worker has, as published or about to be
    events, cmds,       \* the channels
    snap, autoShown, showHidden, sel, editing,      \* Ui
    pc,                 \* of the main loop
    signal,             \* SHOULD_QUIT
    shown               \* history: what the screen shows while the loop polls

worker == <<view, auto>>
ui == <<snap, autoShown, showHidden, sel, editing>>
vars == <<worker, events, cmds, ui, pc, signal, shown>>

Event == [kind : {"snapshot"}, view : View] \cup [kind : {"auto"}, on : BOOLEAN]
         \cup [kind : {"cleaned"}]
Cmd == [kind : {"assign", "comment", "toggle", "hide"}, row : Apps]
       \cup [kind : {"host"}, host : Hosts]
       \cup [kind : {"auto", "refresh", "quit"}]

TypeOK ==
    /\ view \in View /\ auto \in BOOLEAN
    /\ events \in Seq(Event) /\ cmds \in Seq(Cmd)
    /\ snap \in View /\ autoShown \in BOOLEAN /\ showHidden \in BOOLEAN
    /\ sel \in Apps \cup {NoRow}
    /\ editing \in {NoEdit} \cup [kind : {"port", "comment"}, row : Apps]
    /\ pc \in {"check", "apply", "draw", "poll", "send", "wait", "done"}
    /\ signal \in BOOLEAN
    /\ shown \in [ready : SUBSET Hosts, row : Apps \cup {NoRow},
                  prompt : Apps \cup {NoRow}]

----------------------------------------------------------------------------
(* The worker's side of the channels: push_snapshot after every message.   *)

Published(v, on) ==
    (IF on = auto THEN <<>> ELSE <<[kind |-> "auto", on |-> on]>>)
    \o <<[kind |-> "snapshot", view |-> v]>>

Publish ==      \* until it has handled Quit, the last command it is sent
    /\ pc /= "done" /\ (pc = "wait" => cmds /= <<>>)
    /\ Len(events) < MaxEvents
    /\ \E v \in Views : view' = v /\ events' = events \o Published(v, auto)
    /\ UNCHANGED <<auto, cmds, ui, pc, signal, shown>>

Serve ==        \* run: a command, and what it makes of the view
    /\ cmds /= <<>> /\ pc /= "done" /\ Len(events) < MaxEvents
    /\ cmds' = Tail(cmds)
    /\ auto' = IF Head(cmds).kind = "auto" THEN ~auto ELSE auto
    /\ \E v \in Views :
         /\ view' = v
         /\ events' = events \o Published(v, auto') \o
                IF Head(cmds).kind = "quit" THEN <<[kind |-> "cleaned"]>> ELSE <<>>
    /\ UNCHANGED <<ui, pc, signal, shown>>

----------------------------------------------------------------------------
(* Selection.                                                              *)

Before(a, b) == a[1] < b[1] \/ (a[1] = b[1] /\ a[2] < b[2])

Selectable(v, all) == {a \in v.rows : all \/ a \in v.plain}
Top(S) == {a \in S : \A b \in S : ~Before(b, a)}

FixSelection_First(v, all) ==
    sel' \in IF Selectable(v, all) = {} THEN {NoRow} ELSE Top(Selectable(v, all))
FixSelection(v, all) ==
    sel' \in IF sel \in Selectable(v, all) THEN {sel}
             ELSE IF Selectable(v, all) = {} THEN {NoRow}
             ELSE Top(Selectable(v, all))

(* The rows next to a in S, below it or above it; a itself at the end. *)
Below(S, a) ==
    LET next == {b \in S : Before(a, b) /\ ~\E c \in S : Before(a, c) /\ Before(c, b)}
    IN  IF next = {} THEN {a} ELSE next
Above(S, a) ==
    LET next == {b \in S : Before(b, a) /\ ~\E c \in S : Before(b, c) /\ Before(c, a)}
    IN  IF next = {} THEN {a} ELSE next

(* move_sel: from the top row if the selected one is not there. *)
MoveSel(Beside(_, _)) ==
    LET S == Selectable(snap, showHidden) IN
    sel' \in IF S = {} THEN {NoRow}
             ELSE UNION {Beside(S, a) : a \in IF sel \in S THEN {sel} ELSE Top(S)}

----------------------------------------------------------------------------
(* Keys.                                                                   *)

Send(c) == Len(cmds) < MaxCmds /\ cmds' = Append(cmds, c)

(* selected_app: the row may be gone from the snapshot. *)
Selected == {a \in snap.rows : a = sel}

Arrow ==
    /\ editing = NoEdit
    /\ MoveSel(Above) \/ MoveSel(Below)
    /\ UNCHANGED <<snap, autoShown, showHidden, editing, cmds>>

Open ==
    /\ editing = NoEdit
    /\ \E a \in Selected, kind \in {"port", "comment"} :
          editing' = [kind |-> kind, row |-> a]
    /\ UNCHANGED <<snap, autoShown, showHidden, sel, cmds>>

RowKey ==
    /\ editing = NoEdit
    /\ \E a \in Selected, kind \in {"toggle", "hide"} :
          Send([kind |-> kind, row |-> a])
    /\ UNCHANGED ui

(* F: the host of the selected row, else the first one on the screen. *)
HostsMeant ==
    IF Selected /= {} THEN {a[1] : a \in Selected}
    ELSE {h \in snap.hosts : \A g \in snap.hosts : h <= g}
HostKey ==
    /\ editing = NoEdit
    /\ \E h \in HostsMeant : Send([kind |-> "host", host |-> h])
    /\ UNCHANGED ui

GlobalKey ==
    /\ editing = NoEdit
    /\ \E kind \in {"auto", "refresh"} : Send([kind |-> kind])
    /\ UNCHANGED ui

ShowAll_NoFix ==
    /\ editing = NoEdit
    /\ showHidden' = ~showHidden
    /\ UNCHANGED <<snap, autoShown, sel, editing, cmds>>
ShowAll ==
    /\ editing = NoEdit
    /\ showHidden' = ~showHidden
    /\ FixSelection(snap, showHidden')
    /\ UNCHANGED <<snap, autoShown, editing, cmds>>

Escape ==
    /\ editing /= NoEdit
    /\ editing' = NoEdit
    /\ UNCHANGED <<snap, autoShown, showHidden, sel, cmds>>

Target_Selected == Selected
Target == {editing.row}

Enter ==        \* a port that is not valid sends nothing
    /\ editing /= NoEdit
    /\ editing' = NoEdit
    /\ \/ \E a \in Target :
            Send([kind |-> IF editing.kind = "port" THEN "assign" ELSE "comment",
                  row |-> a])
       \/ editing.kind = "port" /\ UNCHANGED cmds
    /\ UNCHANGED <<snap, autoShown, showHidden, sel>>

(* Any other key; while a prompt is open q and Ctrl-C are text, too. *)
OtherKey == UNCHANGED <<ui, cmds>>

Key == Arrow \/ Open \/ RowKey \/ HostKey \/ GlobalKey \/ ShowAll
       \/ Escape \/ Enter \/ OtherKey

----------------------------------------------------------------------------
(* The main loop.                                                          *)

Goto(from, to) == pc = from /\ pc' = to

Signalled ==
    /\ pc /= "done" /\ ~signal
    /\ signal' = TRUE
    /\ UNCHANGED <<worker, events, cmds, ui, pc, shown>>

SignalSeen_NotEditing == signal /\ editing = NoEdit
SignalSeen == signal

Check ==
    /\ Goto("check", IF SignalSeen THEN "send" ELSE "apply")
    /\ UNCHANGED <<worker, events, cmds, ui, signal, shown>>

Apply ==        \* Ui::apply
    /\ pc = "apply" /\ events /= <<>>
    /\ events' = Tail(events)
    /\ LET ev == Head(events) IN
       \/ /\ ev.kind = "snapshot"
          /\ snap' = ev.view
          /\ FixSelection(ev.view, showHidden)
          /\ UNCHANGED autoShown
       \/ ev.kind = "auto" /\ autoShown' = ev.on /\ UNCHANGED <<snap, sel>>
       \/ ev.kind = "cleaned" /\ UNCHANGED <<snap, sel, autoShown>>
    /\ UNCHANGED <<worker, cmds, showHidden, editing, pc, signal, shown>>

Drained == /\ events = <<>> /\ Goto("apply", "draw")
           /\ UNCHANGED <<worker, events, cmds, ui, signal, shown>>

(* body_lines draws the rows of hosts with a master only; the prompt covers
   the line of the toast. *)
Draw ==
    /\ Goto("draw", "poll")
    /\ shown' = [ready |-> snap.ready,
                 row |-> IF \E a \in Selectable(snap, showHidden) :
                                a = sel /\ a[1] \in snap.ready THEN sel ELSE NoRow,
                 prompt |-> editing.row]
    /\ UNCHANGED <<worker, events, cmds, ui, signal>>

Fails ==        \* draw or poll
    /\ Goto("draw", "send") \/ Goto("poll", "send")
    /\ shown' = NoScreen
    /\ UNCHANGED <<worker, events, cmds, ui, signal>>

Press ==
    /\ Goto("poll", "check") /\ Key
    /\ shown' = NoScreen
    /\ UNCHANGED <<worker, events, signal>>

Quit ==         \* q or Ctrl-C
    /\ editing = NoEdit /\ Goto("poll", "send")
    /\ shown' = NoScreen
    /\ UNCHANGED <<worker, events, cmds, ui, signal>>

Timeout_Never == FALSE /\ UNCHANGED vars
Timeout ==
    /\ Goto("poll", "check")
    /\ shown' = NoScreen
    /\ UNCHANGED <<worker, events, cmds, ui, signal>>

SendQuit ==
    /\ Goto("send", "wait")
    /\ cmds' = Append(cmds, [kind |-> "quit"])
    /\ UNCHANGED <<worker, events, ui, signal, shown>>

Wait ==         \* for CleanedUp; other events are dropped
    /\ pc = "wait" /\ events /= <<>>
    /\ events' = Tail(events)
    /\ pc' = IF Head(events).kind = "cleaned" THEN "done" ELSE pc
    /\ UNCHANGED <<worker, cmds, ui, signal, shown>>

Deadline ==     \* six seconds
    /\ Goto("wait", "done")
    /\ UNCHANGED <<worker, events, cmds, ui, signal, shown>>

Done == pc = "done" /\ UNCHANGED vars

----------------------------------------------------------------------------

Init ==
    /\ view = NoView /\ auto \in BOOLEAN
    /\ events = <<[kind |-> "auto", on |-> auto]>>
    /\ cmds = <<>>
    /\ snap = NoView /\ autoShown = TRUE /\ showHidden \in BOOLEAN
    /\ sel = NoRow /\ editing = NoEdit
    /\ pc = "check" /\ signal = FALSE
    /\ shown = NoScreen

Loop == Check \/ Apply \/ Drained \/ Draw \/ Timeout \/ SendQuit \/ Deadline

Next == Publish \/ Serve \/ Signalled \/ Loop \/ Fails \/ Press \/ Quit \/ Wait \/ Done

(* The loop goes on without a key; the worker takes what it is sent; and it
   does not publish so fast that the queue never drains. *)
Fairness == WF_vars(Loop) /\ WF_vars(Serve) /\ SF_vars(Drained)

Spec == Init /\ [][Next]_vars
FairSpec == Spec /\ Fairness

----------------------------------------------------------------------------
(* Properties.                                                             *)

(* The selection is a row of the last snapshot that is in view, and there is
   one whenever there is such a row: no snapshot, arrow or change of the
   view leaves the keys without a target or with one that has gone. *)
SelectionSound ==
    LET S == Selectable(snap, showHidden) IN
    IF S = {} THEN sel = NoRow ELSE sel \in S

(* "tracked by identity so it survives refreshes" (ui.rs:48): the selection
   leaves a row that stays in view only by an arrow key. *)
SelectionKept ==
    [][sel' /= sel /\ sel \in Selectable(snap', showHidden') => Arrow]_vars

(* A command for a row goes to the row that was marked on the screen when
   the key was pressed, or that the prompt was opened for, whatever the
   worker has published since.  The one exception is a row of a host without
   a master: it stays selected though it is not drawn. *)
ActsOnShown ==
    [][\A c \in Cmd : cmds' = Append(cmds, c) =>
         /\ c.kind \in {"assign", "comment"} => c.row = shown.prompt
         /\ c.kind \in {"toggle", "hide"} =>
               IF c.row[1] \in shown.ready THEN c.row = shown.row
               ELSE shown.row = NoRow]_vars

(* Once the worker's rows and switch stop changing, the screen has them,
   whether or not anybody touches the keyboard, and even if the worker was
   started with forwarding off, which the screen does not know at first. *)
Fresh ==
    <>[][FALSE]_worker =>
        <>(pc \in {"send", "wait", "done"}) \/ <>[](snap = view /\ autoShown = auto)

(* A signal ends the program without a key, in the middle of an edit too,
   so that it can cancel forwards before dying (main.rs:18). *)
SignalQuits == signal ~> pc = "done"
=============================================================================
