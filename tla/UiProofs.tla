------------------------------- MODULE UiProofs -------------------------------
(***************************************************************************)
(* Proofs about Ui, for every set of servers, ports and views and every    *)
(* bound of the queues: the selection is sound (SelectionSound), stays on  *)
(* its row (SelectionKept), and a command goes to the row that the screen  *)
(* showed (ActsOnShown).                                                   *)
(*                                                                         *)
(* SelectionSound is inductive as it stands.  ActsOnShown needs what the   *)
(* order of the main loop gives: while it polls, the screen shows the      *)
(* state the next key will be handled in (OnScreen).                       *)
(***************************************************************************)
EXTENDS Ui, TLAPS

Visible == Selectable(snap, showHidden)

(* What the screen shows is what the user interface holds, for as long as
   the loop waits for a key. *)
OnScreen ==
    pc = "poll" =>
       /\ shown.ready = snap.ready
       /\ shown.row = IF \E a \in Visible : a = sel /\ a[1] \in snap.ready
                      THEN sel ELSE NoRow
       /\ shown.prompt = editing.row

----------------------------------------------------------------------------
(* The selection.                                                          *)

(* A selection that has been fixed is sound for the view it was fixed for. *)
LEMMA Fixed ==
    ASSUME NEW v, NEW all, FixSelection(v, all)
    PROVE  IF Selectable(v, all) = {} THEN sel' = NoRow
           ELSE sel' \in Selectable(v, all)
BY DEF FixSelection, Top

(* An arrow key ends on a row in view. *)
LEMMA Moved ==
    ASSUME MoveSel(Above) \/ MoveSel(Below)
    PROVE  IF Visible = {} THEN sel' = NoRow ELSE sel' \in Visible
<1> DEFINE From == IF sel \in Visible THEN {sel} ELSE Top(Visible)
<1>1. From \subseteq Visible
    BY DEF Top
<1>2. \A a \in Visible : Below(Visible, a) \subseteq Visible
    BY DEF Below
<1>3. \A a \in Visible : Above(Visible, a) \subseteq Visible
    BY DEF Above
<1>4. CASE Visible = {}
    BY <1>4 DEF MoveSel, Visible
<1>5. CASE Visible /= {} /\ MoveSel(Below)
    <2>1. sel' \in UNION {Below(Visible, a) : a \in From}
        BY <1>5 DEF MoveSel, Visible
    <2> QED BY <2>1, <1>1, <1>2, <1>5
<1>6. CASE Visible /= {} /\ MoveSel(Above)
    <2>1. sel' \in UNION {Above(Visible, a) : a \in From}
        BY <1>6 DEF MoveSel, Visible
    <2> QED BY <2>1, <1>1, <1>3, <1>6
<1> QED BY <1>4, <1>5, <1>6

(* Keys that leave the selection and the view alone. *)
LEMMA Kept ==
    ASSUME SelectionSound, UNCHANGED <<snap, showHidden, sel>>
    PROVE  SelectionSound'
BY DEF SelectionSound, Selectable

(* Every step keeps the selection sound. *)
LEMMA SelectionStep == SelectionSound /\ [Next]_vars => SelectionSound'
<1> SUFFICES ASSUME SelectionSound, [Next]_vars PROVE SelectionSound'
    OBVIOUS
<1>1. CASE Apply
    <2>1. CASE Head(events).kind = "snapshot"
        <3>1. snap' = Head(events).view /\ showHidden' = showHidden
              /\ FixSelection(Head(events).view, showHidden)
            BY <1>1, <2>1 DEF Apply
        <3> QED BY <3>1, Fixed DEF SelectionSound
    <2>2. CASE Head(events).kind /= "snapshot"
        BY <1>1, <2>2, Kept DEF Apply
    <2> QED BY <2>1, <2>2
<1>2. CASE Press /\ Arrow
    BY <1>2, Moved DEF Arrow, SelectionSound, Visible
<1>3. CASE Press /\ ShowAll
    <2>1. snap' = snap /\ FixSelection(snap, showHidden')
        BY <1>3 DEF ShowAll
    <2> QED BY <2>1, Fixed DEF SelectionSound
<1>4. CASE Press /\ ~Arrow /\ ~ShowAll
    BY <1>4, Kept DEF Press, Key, Open, RowKey, HostKey, GlobalKey, Escape, Enter,
                      OtherKey, ui
<1>5. CASE UNCHANGED ui
    BY <1>5, Kept DEF ui
<1>6. CASE Next /\ ~Apply /\ ~Press
    BY <1>6, <1>5 DEF Next, Publish, Serve, Signalled, Loop, Check, Drained, Draw,
                      Timeout, SendQuit, Deadline, Fails, Quit, Wait, Done, vars
<1>7. CASE UNCHANGED vars
    BY <1>7, <1>5 DEF vars
<1> QED BY <1>1, <1>2, <1>3, <1>4, <1>6, <1>7

(* The selection is a visible row whenever there is one, in every reachable
   state of every instance. *)
THEOREM SelectionIsSound == Spec => []SelectionSound
<1>1. Init => SelectionSound
    BY DEF Init, SelectionSound, Selectable, NoView
<1> QED BY <1>1, SelectionStep, PTL DEF Spec

(* A view that still has the selected row leaves it selected. *)
LEMMA FixedKeeps ==
    ASSUME NEW v, NEW all, FixSelection(v, all), sel \in Selectable(v, all)
    PROVE  sel' = sel
BY DEF FixSelection

(* Neither a snapshot nor h moves the selection off a row that stays in view:
   only an arrow key does (ui.rs:48). *)
THEOREM SelectionIsKept == Spec => SelectionKept
<1>1. ASSUME [Next]_vars, sel' /= sel, sel \in Selectable(snap', showHidden')
      PROVE  Arrow
    <2>1. CASE Apply
        <3>1. CASE Head(events).kind = "snapshot"
            <4>1. snap' = Head(events).view /\ showHidden' = showHidden
                  /\ FixSelection(Head(events).view, showHidden)
                BY <2>1, <3>1 DEF Apply
            <4> QED BY <1>1, <4>1, FixedKeeps
        <3>2. CASE Head(events).kind /= "snapshot"
            BY <1>1, <2>1, <3>2 DEF Apply
        <3> QED BY <3>1, <3>2
    <2>2. CASE Press /\ ShowAll
        <3>1. snap' = snap /\ FixSelection(snap, showHidden')
            BY <2>2 DEF ShowAll
        <3> QED BY <1>1, <3>1, FixedKeeps
    <2>3. CASE Press /\ ~ShowAll
        BY <1>1, <2>3 DEF Press, Key, Open, RowKey, HostKey, GlobalKey, Escape, Enter,
                          OtherKey, ui
    <2>4. CASE ~Apply /\ ~Press
        BY <1>1, <2>4 DEF Next, Publish, Serve, Signalled, Loop, Check, Drained, Draw,
                          Timeout, SendQuit, Deadline, Fails, Quit, Wait, Done, vars, ui
    <2> QED BY <2>1, <2>2, <2>3, <2>4
<1>2. [Next]_vars =>
         [sel' /= sel /\ sel \in Selectable(snap', showHidden') => Arrow]_vars
    BY <1>1
<1> QED BY <1>2, PTL DEF Spec, SelectionKept

----------------------------------------------------------------------------
(* Types.                                                                  *)

LEMMA EventsTyped ==
    ASSUME TypeOK, NEW v \in Views, NEW on \in BOOLEAN
    PROVE  Published(v, on) \in Seq(Event)
<1>1. v \in View
    BY ViewsAssumption
<1>2. [kind |-> "snapshot", view |-> v] \in Event /\ [kind |-> "auto", on |-> on] \in Event
    BY <1>1 DEF Event
<1> QED BY <1>2 DEF Published

(* Keys keep the types of what they touch. *)
LEMMA KeyTyped ==
    ASSUME TypeOK, SelectionSound, Key
    PROVE  /\ snap' \in View /\ autoShown' \in BOOLEAN /\ showHidden' \in BOOLEAN
           /\ sel' \in Apps \cup {NoRow}
           /\ editing' \in {NoEdit} \cup [kind : {"port", "comment"}, row : Apps]
           /\ cmds' \in Seq(Cmd)
<1>1. Selected \subseteq Apps /\ \A all : Selectable(snap, all) \subseteq Apps
    BY DEF Selected, Selectable, TypeOK, View
<1>2. CASE Arrow
    <2>1. sel' \in Apps \cup {NoRow}
        BY <1>1, <1>2, Moved DEF Arrow, Visible
    <2> QED BY <1>2, <2>1 DEF Arrow, TypeOK
<1>3. CASE Open
    BY <1>1, <1>3 DEF Open, TypeOK
<1>4. CASE RowKey
    <2>1. PICK a \in Selected, kind \in {"toggle", "hide"} :
              cmds' = Append(cmds, [kind |-> kind, row |-> a])
        BY <1>4 DEF RowKey, Send
    <2>2. [kind |-> kind, row |-> a] \in Cmd
        BY <1>1, <2>1 DEF Cmd
    <2> QED BY <1>4, <2>1, <2>2 DEF RowKey, ui, TypeOK
<1>5. CASE HostKey
    <2>1. HostsMeant \subseteq Hosts
        BY <1>1 DEF HostsMeant, TypeOK, View, Apps
    <2>2. PICK h \in HostsMeant : cmds' = Append(cmds, [kind |-> "host", host |-> h])
        BY <1>5 DEF HostKey, Send
    <2>3. [kind |-> "host", host |-> h] \in Cmd
        BY <2>1, <2>2 DEF Cmd
    <2> QED BY <1>5, <2>2, <2>3 DEF HostKey, ui, TypeOK
<1>6. CASE GlobalKey
    <2>1. PICK kind \in {"auto", "refresh"} : cmds' = Append(cmds, [kind |-> kind])
        BY <1>6 DEF GlobalKey, Send
    <2>2. [kind |-> kind] \in Cmd
        BY <2>1 DEF Cmd
    <2> QED BY <1>6, <2>1, <2>2 DEF GlobalKey, ui, TypeOK
<1>7. CASE ShowAll
    <2>1. sel' \in Apps \cup {NoRow}
        BY <1>1, <1>7, Fixed DEF ShowAll
    <2> QED BY <1>7, <2>1 DEF ShowAll, TypeOK
<1>8. CASE Escape
    BY <1>8 DEF Escape, TypeOK
<1>9. CASE Enter
    <2>1. editing.row \in Apps /\ editing.kind \in {"port", "comment"}
        BY <1>9 DEF Enter, TypeOK
    <2>2. \A a \in Target : [kind |-> IF editing.kind = "port" THEN "assign"
                                      ELSE "comment", row |-> a] \in Cmd
        BY <2>1 DEF Target, Cmd
    <2>3. CASE cmds' = cmds
        BY <1>9, <2>3 DEF Enter, TypeOK
    <2>4. CASE cmds' /= cmds
        <3>1. PICK a \in Target :
                  cmds' = Append(cmds, [kind |-> IF editing.kind = "port"
                                                 THEN "assign" ELSE "comment",
                                        row |-> a])
            BY <1>9, <2>4 DEF Enter, Send
        <3>2. cmds' \in Seq(Cmd)
            BY <2>2, <3>1 DEF TypeOK
        <3> QED BY <1>9, <3>2 DEF Enter, TypeOK
    <2> QED BY <2>3, <2>4
<1>10. CASE OtherKey
    BY <1>10 DEF OtherKey, ui, TypeOK
<1> QED BY <1>2, <1>3, <1>4, <1>5, <1>6, <1>7, <1>8, <1>9, <1>10 DEF Key

LEMMA TypeInit == Init => TypeOK
<1> SUFFICES ASSUME Init PROVE TypeOK
    OBVIOUS
<1>1. NoView \in View
    BY DEF NoView, View
<1>2. [kind |-> "auto", on |-> auto] \in Event
    BY DEF Init, Event
<1>3. NoScreen \in [ready : SUBSET Hosts, row : Apps \cup {NoRow},
                    prompt : Apps \cup {NoRow}]
    BY DEF NoScreen
<1>4. auto \in BOOLEAN /\ showHidden \in BOOLEAN /\ autoShown = TRUE
    BY Zenon DEF Init
<1>5. events \in Seq(Event) /\ cmds \in Seq(Cmd)
    BY <1>2 DEF Init
<1>6. pc = "check" /\ (signal = FALSE) /\ sel = NoRow /\ editing = NoEdit
      /\ snap = NoView /\ view = NoView /\ shown = NoScreen
    BY Zenon DEF Init
<1> QED BY <1>1, <1>3, <1>4, <1>5, <1>6, Zenon DEF TypeOK

LEMMA TypeStep == TypeOK /\ SelectionSound /\ [Next]_vars => TypeOK'
<1> SUFFICES ASSUME TypeOK, SelectionSound, [Next]_vars PROVE TypeOK'
    OBVIOUS
<1> USE DEF TypeOK
<1>1. CASE Publish
    <2>1. PICK v \in Views : view' = v /\ events' = events \o Published(v, auto)
        BY <1>1 DEF Publish
    <2>2. Published(v, auto) \in Seq(Event)
        BY EventsTyped
    <2> QED BY <1>1, <2>1, <2>2, ViewsAssumption DEF Publish, ui
<1>2. CASE Serve
    <2>1. auto' \in BOOLEAN /\ cmds' \in Seq(Cmd)
        <3>1. auto' = auto \/ auto' = ~auto
            BY <1>2 DEF Serve
        <3>2. auto' \in BOOLEAN
            BY <3>1, Zenon
        <3>3. cmds' \in Seq(Cmd)
            BY <1>2 DEF Serve
        <3> QED BY <3>2, <3>3
    <2>2. PICK v \in Views :
             /\ view' = v
             /\ events' = events \o Published(v, auto') \o
                   IF Head(cmds).kind = "quit" THEN <<[kind |-> "cleaned"]>> ELSE <<>>
        BY <1>2 DEF Serve
    <2>3. Published(v, auto') \in Seq(Event)
        BY <2>1, EventsTyped
    <2>4. [kind |-> "cleaned"] \in Event
        BY DEF Event
    <2>5. events' \in Seq(Event)
        BY <2>2, <2>3, <2>4
    <2> QED BY <1>2, <2>1, <2>2, <2>5, ViewsAssumption DEF Serve, ui
<1>3. CASE Apply
    <2>1. Head(events) \in Event /\ Tail(events) \in Seq(Event)
        BY <1>3 DEF Apply
    <2>2. CASE Head(events).kind = "snapshot"
        <3>1. Head(events).view \in View
            BY <2>1, <2>2 DEF Event
        <3>2. snap' = Head(events).view /\ FixSelection(Head(events).view, showHidden)
              /\ autoShown' = autoShown
            BY <1>3, <2>2 DEF Apply
        <3>3. sel' \in Apps \cup {NoRow}
            BY <3>1, <3>2, Fixed DEF Selectable, View
        <3> QED BY <1>3, <2>1, <3>1, <3>2, <3>3 DEF Apply, worker
    <2>3. CASE Head(events).kind = "auto"
        <3>1. Head(events).on \in BOOLEAN
            BY <2>1, <2>3 DEF Event
        <3> QED BY <1>3, <2>1, <2>3, <3>1 DEF Apply, worker
    <2>4. CASE Head(events).kind = "cleaned"
        BY <1>3, <2>1, <2>4 DEF Apply, worker
    <2> QED BY <1>3, <2>2, <2>3, <2>4 DEF Apply
<1>4. CASE Draw
    <2>1. shown' \in [ready : SUBSET Hosts, row : Apps \cup {NoRow},
                      prompt : Apps \cup {NoRow}]
        BY <1>4 DEF Draw, View, NoEdit
    <2> QED BY <1>4, <2>1 DEF Draw, Goto, worker, ui
<1>5. CASE Press
    <2>1. shown' \in [ready : SUBSET Hosts, row : Apps \cup {NoRow},
                      prompt : Apps \cup {NoRow}]
        BY <1>5 DEF Press, NoScreen
    <2> QED BY <1>5, <2>1, KeyTyped DEF Press, Goto, worker
<1>6. CASE Check \/ Drained \/ Signalled \/ Deadline
    BY <1>6 DEF Check, Drained, Signalled, Deadline, Goto, worker, ui
<1>7. CASE Timeout \/ Fails \/ Quit
    <2>1. shown' \in [ready : SUBSET Hosts, row : Apps \cup {NoRow},
                      prompt : Apps \cup {NoRow}]
        BY <1>7 DEF Timeout, Fails, Quit, NoScreen
    <2> QED BY <1>7, <2>1 DEF Timeout, Fails, Quit, Goto, worker, ui
<1>8. CASE SendQuit
    <2>1. [kind |-> "quit"] \in Cmd
        BY DEF Cmd
    <2> QED BY <1>8, <2>1 DEF SendQuit, Goto, worker, ui
<1>9. CASE Wait
    BY <1>9 DEF Wait, worker, ui
<1>10. CASE UNCHANGED vars
    BY <1>10 DEF vars, worker, ui
<1> QED BY <1>1, <1>2, <1>3, <1>4, <1>5, <1>6, <1>7, <1>8, <1>9, <1>10
           DEF Next, Loop, Done

----------------------------------------------------------------------------
(* Commands go where the screen said.                                      *)

(* The screen is current whenever the loop waits for a key. *)
LEMMA ScreenStep == OnScreen /\ [Next]_vars => OnScreen'
<1> SUFFICES ASSUME OnScreen, [Next]_vars PROVE OnScreen'
    OBVIOUS
<1>1. CASE Draw
    BY <1>1 DEF Draw, OnScreen, Visible, Selectable, ui
<1>2. CASE UNCHANGED <<ui, pc, shown>>
    BY <1>2 DEF OnScreen, Visible, Selectable, ui
<1>3. CASE pc' /= "poll"
    BY <1>3 DEF OnScreen
<1>4. CASE Publish \/ Serve \/ Signalled \/ Done \/ UNCHANGED vars
    BY <1>2, <1>4 DEF Publish, Serve, Signalled, Done, vars
<1>5. CASE Check \/ Apply \/ Drained \/ Timeout \/ SendQuit \/ Deadline
           \/ Fails \/ Press \/ Quit \/ Wait
    BY <1>3, <1>5 DEF Check, Apply, Drained, Timeout, SendQuit, Deadline, Fails,
                      Press, Quit, Wait, Goto
<1> QED BY <1>1, <1>4, <1>5 DEF Next, Loop

(* A row is not the absence of one. *)
LEMMA NoRowIsNone == NoRow \notin Apps
<1> SUFFICES ASSUME NEW h \in Hosts, NEW r \in RPorts PROVE <<h, r>> /= <<>>
    BY DEF Apps, NoRow
<1>1. <<h, r>> \in Seq({h, r}) /\ Len(<<h, r>>) = 2
    OBVIOUS
<1> QED BY <1>1

(* A channel tells its last message. *)
LEMMA AppendIs ==
    ASSUME NEW S, NEW q \in Seq(S), NEW c \in S, NEW d \in S
    PROVE  /\ Append(q, c) = Append(q, d) => c = d
           /\ Append(q, c) /= q
<1>1. Append(q, c)[Len(q) + 1] = c /\ Append(q, d)[Len(q) + 1] = d
    OBVIOUS
<1>2. Len(Append(q, c)) = Len(q) + 1
    OBVIOUS
<1> QED BY <1>1, <1>2

ActsRight ==
    \A c \in Cmd : cmds' = Append(cmds, c) =>
         /\ c.kind \in {"assign", "comment"} => c.row = shown.prompt
         /\ c.kind \in {"toggle", "hide"} =>
               IF c.row[1] \in shown.ready THEN c.row = shown.row
               ELSE shown.row = NoRow

LEMMA ActsStep ==
    ASSUME TypeOK, SelectionSound, OnScreen, [Next]_vars
    PROVE  ActsRight
<1> SUFFICES ASSUME NEW c \in Cmd, cmds' = Append(cmds, c)
             PROVE  /\ c.kind \in {"assign", "comment"} => c.row = shown.prompt
                    /\ c.kind \in {"toggle", "hide"} =>
                          IF c.row[1] \in shown.ready THEN c.row = shown.row
                          ELSE shown.row = NoRow
    BY DEF ActsRight
<1>1. cmds \in Seq(Cmd)
    BY DEF TypeOK
<1>2. \A d \in Cmd : cmds' = Append(cmds, d) => c = d
    BY <1>1, AppendIs
<1>3. cmds' /= cmds
    BY <1>1, AppendIs
<1>4. CASE SendQuit
    <2>1. [kind |-> "quit"] \in Cmd
        BY DEF Cmd
    <2> QED BY <1>2, <1>4, <2>1 DEF SendQuit
<1>5. CASE Serve
    <2>1. cmds' = Tail(cmds) /\ cmds /= <<>>
        BY <1>5 DEF Serve
    <2>2. Len(cmds') = Len(cmds) - 1
        BY <1>1, <2>1
    <2> QED BY <1>1, <2>2
<1>6. CASE Press /\ RowKey
    <2>1. PICK a \in Selected, kind \in {"toggle", "hide"} :
              cmds' = Append(cmds, [kind |-> kind, row |-> a])
        BY <1>6 DEF RowKey, Send
    <2>2. a = sel /\ a \in Apps
        BY <2>1 DEF Selected, TypeOK, View
    <2>3. c = [kind |-> kind, row |-> a]
        BY <1>2, <2>1, <2>2 DEF Cmd
    <2>4. sel /= NoRow
        BY <2>2, NoRowIsNone
    <2>5. sel \in Visible
        BY <2>4 DEF SelectionSound, Visible
    <2>6. /\ shown.ready = snap.ready
          /\ shown.row = IF sel[1] \in snap.ready THEN sel ELSE NoRow
        BY <1>6, <2>5 DEF Press, Goto, OnScreen
    <2> QED BY <2>2, <2>3, <2>6
<1>7. CASE Press /\ Enter
    <2>1. PICK a \in Target :
              cmds' = Append(cmds, [kind |-> IF editing.kind = "port"
                                             THEN "assign" ELSE "comment",
                                    row |-> a])
        BY <1>3, <1>7 DEF Enter, Send
    <2>2. a = editing.row /\ a \in Apps
        BY <1>7, <2>1 DEF Enter, Target, TypeOK
    <2>3. c = [kind |-> IF editing.kind = "port" THEN "assign" ELSE "comment",
               row |-> a]
        BY <1>2, <2>1, <2>2 DEF Cmd
    <2>4. shown.prompt = editing.row
        BY <1>7 DEF Press, Goto, OnScreen
    <2> QED BY <2>2, <2>3, <2>4
<1>8. CASE Press /\ HostKey
    <2>1. PICK h \in HostsMeant : cmds' = Append(cmds, [kind |-> "host", host |-> h])
        BY <1>8 DEF HostKey, Send
    <2>2. h \in Hosts
        BY <2>1 DEF HostsMeant, Selected, TypeOK, View, Apps
    <2> QED BY <1>2, <2>1, <2>2 DEF Cmd
<1>9. CASE Press /\ GlobalKey
    <2>1. PICK kind \in {"auto", "refresh"} : cmds' = Append(cmds, [kind |-> kind])
        BY <1>9 DEF GlobalKey, Send
    <2> QED BY <1>2, <2>1 DEF Cmd
<1>10. CASE Press /\ (Arrow \/ Open \/ ShowAll \/ Escape \/ OtherKey)
    BY <1>3, <1>10 DEF Arrow, Open, ShowAll, Escape, OtherKey
<1>11. CASE Publish \/ Signalled \/ Check \/ Apply \/ Drained \/ Draw \/ Timeout
            \/ Deadline \/ Fails \/ Quit \/ Wait \/ Done \/ UNCHANGED vars
    BY <1>3, <1>11 DEF Publish, Signalled, Check, Apply, Drained, Draw, Timeout,
                       Deadline, Fails, Quit, Wait, Done, vars
<1> QED BY <1>4, <1>5, <1>6, <1>7, <1>8, <1>9, <1>10, <1>11 DEF Next, Loop, Press, Key

(* A command that names a row names the one the screen marked, or the one
   the prompt was opened for; only a host without a master has a selected
   row that is not drawn. *)
THEOREM CommandsActOnShown == Spec => ActsOnShown
<1> DEFINE Inv == TypeOK /\ SelectionSound /\ OnScreen
<1>1. Init => Inv
    BY TypeInit DEF Init, SelectionSound, Selectable, NoView, OnScreen
<1>2. Inv /\ [Next]_vars => Inv'
    BY TypeStep, SelectionStep, ScreenStep
<1>3. Inv /\ [Next]_vars => [ActsRight]_vars
    BY ActsStep
<1> QED BY <1>1, <1>2, <1>3, PTL DEF Spec, ActsOnShown, ActsRight
=============================================================================
