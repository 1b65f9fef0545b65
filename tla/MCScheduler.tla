----------------------------- MODULE MCScheduler -----------------------------
(* Small instances of Scheduler for TLC. *)
EXTENDS Scheduler, TLC

CONSTANTS t1, t2, n1, n2, f1, f2

\* Both nodes offer both families: one pair more than a task with k_max = 3
\* may ask.
FourOffers == Nodes \X Families
MCOffers == {<<n1, f1>>, <<n1, f2>>, <<n2, f1>>}
TwoOffers == {<<n1, f1>>, <<n2, f2>>}
MCCapacity == [n \in Nodes |-> 1]

Independent == [t \in Tasks |-> {}]
Chain == t1 :> {} @@ t2 :> {t1}

=============================================================================
