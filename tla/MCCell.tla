------------------------------- MODULE MCCell -------------------------------
(* Instances of Cell for TLC. *)
EXTENDS Cell

\* The integration, or every step, may consume, and items may be labelled.
MCPlans ==
    {Chain(1, {}, {})} \union {Chain(3, c, {}) : c \in {{}, {2, 3}}} \union {Chain(4, {2, 3}, {})} \union
    {FanIn(3, c, l) : c \in {{}, {3}}, l \in {{}, {1, 2}}} \union {FanIn(4, {4}, {1, 2})}
MCBudgets == {20, 44, 60, 80, 110}
MCSummaries == {0, 2, 5}
\* One sentence each: a piece may share its only sentence with both neighbours.
MCSentences == {1}
=============================================================================
