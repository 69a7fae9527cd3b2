----------------------------- MODULE MCShutdown -----------------------------
(* Values for the constants of Shutdown that a .cfg cannot write. *)
EXTENDS Shutdown

AppOrSystem == [r \in RPorts |-> {"app", "system"}]
OnlySystem == [r \in RPorts |-> {"system"}]

NoEntry == [lport |-> None, pinned |-> FALSE, muted |-> FALSE, tier |-> "none"]
NothingSaved == {NoEntry}
NoClaims == {[a \in Apps |-> None]}
=============================================================================
