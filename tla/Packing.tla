------------------------------- MODULE Packing -------------------------------
(***************************************************************************)
(* Packets under a token budget (swarmbly_v0/packing.py), the plans of the *)
(* planner and their levels (planner.py, schema.py).  A packet is the      *)
(* task, the contract header and the carry of the values that the task     *)
(* consumes, none of which can be rationed, and then context blocks in     *)
(* priority order, the first that does not fit being cut.                  *)
(*                                                                         *)
(* A text is its number of tokens, which concatenation adds up and cutting *)
(* bounds.  A plan is [tasks, depends, sequential, consumes, labelled]:    *)
(* whose text asks for a predecessor's value, and whose answers belong to  *)
(* numbered items.  summaries[t] is 0 until t has one.  A rational budget  *)
(* is a numerator over a denominator.                                      *)
(***************************************************************************)
EXTENDS Integers, FiniteSets, Functions

CONSTANTS
    PromptTokens,  \* |P|
    TaskTokens,    \* the block of a task
    HeaderTokens, LengthTokens, GlossaryTokens, ForbiddenTokens,
    ExpansionTokens,  \* the finite list of expansion blocks, together
    MarkerTokens      \* the marker of a block of predecessors

ASSUME PackingAssumption ==
    /\ {PromptTokens, TaskTokens, HeaderTokens, LengthTokens} \subseteq Nat \ {0}
    /\ {GlossaryTokens, ForbiddenTokens, ExpansionTokens, MarkerTokens} \subseteq Nat

-----------------------------------------------------------------------------
(* Plans *)

\* The planner's topologies: steps that follow one another, or sections and the
\* integration that needs them all.
Chain(n, consumes, labelled) ==
    [tasks |-> 1 .. n, depends |-> [t \in 1 .. n |-> IF t = 1 THEN {} ELSE {t - 1}],
     sequential |-> TRUE, consumes |-> consumes, labelled |-> labelled]

FanIn(n, consumes, labelled) ==
    [tasks |-> 1 .. n, depends |-> [t \in 1 .. n |-> IF t = n THEN 1 .. n - 1 ELSE {}],
     sequential |-> FALSE, consumes |-> consumes, labelled |-> labelled]

IsPlan(plan) ==
    LET n == Cardinality(plan.tasks)
        shaped == {Chain(n, plan.consumes, plan.labelled), FanIn(n, plan.consumes, plan.labelled)}
    IN  /\ n \in Nat \ {0} /\ plan.tasks = 1 .. n
        /\ plan.consumes \subseteq plan.tasks /\ plan.labelled \subseteq plan.tasks
        /\ plan \in shaped

\* The tasks placed after k rounds of Kahn's algorithm.
Placed(plan) ==
    LET placed[k \in 0 .. Cardinality(plan.tasks)] ==
            IF k = 0 THEN {} ELSE {t \in plan.tasks : plan.depends[t] \subseteq placed[k - 1]}
    IN  placed

Level(plan, k) == Placed(plan)[k] \ Placed(plan)[k - 1]

Levels(plan) == {k \in 1 .. Cardinality(plan.tasks) : Level(plan, k) # {}}

-----------------------------------------------------------------------------

Larger(a, b) == IF a > b THEN a ELSE b
Smaller(a, b) == IF a < b THEN a ELSE b

\* Python's round(): halves go to the even neighbour.
Round(n, d) ==
    LET q == n \div d
        r == 2 * (n % d)
    IN  IF r < d \/ (r = d /\ q % 2 = 0) THEN q ELSE q + 1

-----------------------------------------------------------------------------
(* Blocks *)

TaskFloor == TaskTokens + HeaderTokens

\* Of each predecessor that has a summary, a label and the summary.
PredecessorBlock(plan, t, summaries) ==
    LET relevant == {d \in plan.depends[t] : summaries[d] > 0}
    IN  IF relevant = {} THEN 0
        ELSE MarkerTokens + SumFunction([d \in relevant |-> 1 + summaries[d]])

CarryBlock(plan, t, summaries) ==
    IF t \in plan.consumes THEN PredecessorBlock(plan, t, summaries) ELSE 0

\* Mutant: the carry is context like any other.
MandatoryWithoutCarry(plan, t, summaries) == TaskFloor

Mandatory(plan, t, summaries) == TaskFloor + CarryBlock(plan, t, summaries)

\* The context besides the header: length, glossary, forbidden terms ...
ContractContext == LengthTokens + GlossaryTokens + ForbiddenTokens

\* ... and predecessors, which an answer sheet is not shown.
PredecessorContext(plan, t, summaries) ==
    IF t \in plan.labelled THEN 0 ELSE PredecessorBlock(plan, t, summaries)

Desired(plan, t, summaries) ==
    HeaderTokens + ContractContext + PredecessorContext(plan, t, summaries)

\* What a packet holds besides, when its context is not rationed ...
Natural(plan, t, summaries) ==
    ContractContext + (IF Mandatory(plan, t, summaries) > TaskFloor THEN 0
                       ELSE PredecessorContext(plan, t, summaries))

\* ... and when it holds all there is.
Whole(plan, t, summaries) ==
    Mandatory(plan, t, summaries) + Natural(plan, t, summaries) + ExpansionTokens

-----------------------------------------------------------------------------
(* build_packet, with a budget in tokens *)

\* Blocks fill the room in their order, the first that does not fit is cut: what
\* goes in is all of them or all of the room.
Packet(plan, t, summaries, budget) ==
    LET mandatory == Mandatory(plan, t, summaries)
        room == Larger(mandatory, budget) - mandatory
        natural == Natural(plan, t, summaries)
        blocks == IF room > natural THEN natural + ExpansionTokens ELSE natural
    IN  [tokens |-> mandatory + Smaller(blocks, room), mandatory |-> mandatory,
         carry |-> mandatory > TaskFloor]

-----------------------------------------------------------------------------
(* build_packets, for some tasks and the budget num / den they share *)

Dispatched(packets) == SumFunction([t \in DOMAIN packets |-> packets[t].tokens])

\* Every task block, and the slack in proportion to the context desired.
FirstPass(plan, tasks, summaries, num, den) ==
    LET all == SumFunction([t \in tasks |-> Desired(plan, t, summaries)])
        slack == Larger(0, num - den * TaskTokens * Cardinality(tasks))
        budget(t) == Round(TaskTokens * den * all + slack * Desired(plan, t, summaries), den * all)
    IN  [t \in tasks |-> Packet(plan, t, summaries, budget(t))]

\* The residue is shared equally, unless it is within one token or 0.5 %.
Correct(plan, packets, summaries, num, den) ==
    LET tasks == DOMAIN packets
        n == Cardinality(tasks)
        residual == num - den * Dispatched(packets)
        small == \E size \in {residual, -residual} :
                    size >= 0 /\ (size <= den \/ 200 * size <= num)
        budget(t) == Round(Larger(TaskTokens * (den * n), packets[t].tokens * (den * n) + residual),
                           den * n)
    IN  IF small THEN packets ELSE [t \in tasks |-> Packet(plan, t, summaries, budget(t))]

BuildPackets(plan, tasks, summaries, num, den) ==
    LET first == FirstPass(plan, tasks, summaries, num, den)
        second == Correct(plan, first, summaries, num, den)
    IN  IF num > den * TaskTokens * Cardinality(tasks)
        THEN Correct(plan, second, summaries, num, den)
        ELSE first

-----------------------------------------------------------------------------
(* The window of a plan, in tokens *)

NoSummaries(plan) == [t \in plan.tasks |-> 0]

\* packing_floor: carries count on a sequential plan, once summaries exist.
Floor(plan, summaries) ==
    TaskFloor * Cardinality(plan.tasks)
      + (IF plan.sequential
         THEN SumFunction([t \in plan.tasks |-> CarryBlock(plan, t, summaries)]) ELSE 0)

\* The target that no plan can reach.
Unreachable == 999 * PromptTokens

\* packing_ceiling: what the packer makes of it.
Ceiling(plan, summaries) ==
    Dispatched(BuildPackets(plan, plan.tasks, summaries, Unreachable, 1))

TaskWeight(plan, t) == TaskTokens + Desired(plan, t, NoSummaries(plan))

=============================================================================
