------------------------------ MODULE MCSessions ------------------------------
(* Small instances of Sessions for TLC: the node with id 1 is the lower one. *)
EXTENDS Sessions

TwoNodes == 1..2

=============================================================================
