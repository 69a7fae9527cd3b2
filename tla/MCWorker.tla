------------------------------ MODULE MCWorker ------------------------------
(* Values for the constants of Worker that a .cfg cannot write.            *)
EXTENDS WorkerProperties

(* What the heuristic of remote.rs makes of every remote port. *)
AlwaysApp == [r \in RPorts |-> {"app"}]
AppOrSystem == [r \in RPorts |-> {"app", "system"}]

(* What state.json remembers at the start: nothing, or possibly a port the
   user had pinned and then switched off and hidden. *)
NoEntry == [lport |-> None, pinned |-> FALSE, muted |-> FALSE, tier |-> "none"]
OffEntry == [lport |-> 40000, pinned |-> TRUE, muted |-> TRUE, tier |-> "bg"]
NothingSaved == {NoEntry}
SavedOff == {NoEntry, OffEntry}

(* What the user's sessions claim to forward: nothing, or local 3000 for
   every application, from one tick to the next. *)
NoClaims == {[a \in Apps |-> None]}
Claim3000 == {[a \in Apps |-> None], [a \in Apps |-> 3000]}
=============================================================================
