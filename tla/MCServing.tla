------------------------------ MODULE MCServing ------------------------------
(* Small instances of Serving for TLC. *)
EXTENDS Serving, TLC

CONSTANTS p1, p2, a1, a2, b1

TwoPeers == a1 :> p1 @@ a2 :> p1 @@ b1 :> p2
OnePeer == a1 :> p1 @@ a2 :> p1

\* The owner may pause the worker and make it serve only when idle.
MCPolicies == {[serving |-> TRUE, idleOnly |-> TRUE, limit |-> 1],
               [serving |-> TRUE, idleOnly |-> FALSE, limit |-> 1],
               [serving |-> FALSE, idleOnly |-> FALSE, limit |-> 1]}
AlwaysServing == {[serving |-> TRUE, idleOnly |-> FALSE, limit |-> 1]}

=============================================================================
