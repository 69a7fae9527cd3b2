------------------------------- MODULE Ownership -------------------------------
(***************************************************************************)
(* What the worker promises about forwards, whatever its threads and       *)
(* messages do: a forward that is open is on the books, of a row that      *)
(* shows it or of a thread that has it in hand, and changes hands without  *)
(* ever being on nobody's.  Worker implements this (WorkerProperties).     *)
(***************************************************************************)
CONSTANT Lines      \* forwards there may be

VARIABLES
    open,       \* forwards that are bound
    rows,       \* those the rows claim, open or about to be
    busy        \* those a request, a cancel or a report is under way for

vars == <<open, rows, busy>>

Kept == open \subseteq rows \cup busy

Init == open = {} /\ rows = {} /\ busy = {}

(* Only what somebody has in hand is opened, and it stays in that hand. *)
Open ==
    /\ \E t \in Lines : t \in busy \ open /\ open' = open \cup {t}
    /\ UNCHANGED <<rows, busy>>

(* Only what somebody has in hand is closed, never what rows alone show. *)
Close ==
    /\ open' \subseteq open /\ open \ open' \subseteq busy
    /\ busy' \subseteq busy
    /\ UNCHANGED rows
    /\ Kept'

(* A row comes to claim what some thread has, had or now gets in hand. *)
HandOver ==
    /\ UNCHANGED open
    /\ rows' \subseteq rows \cup busy \cup busy' /\ busy' \subseteq Lines
    /\ Kept'

Next == Open \/ Close \/ HandOver

Spec == Init /\ [][Next]_vars
=============================================================================
