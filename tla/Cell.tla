-------------------------------- MODULE Cell --------------------------------
(***************************************************************************)
(* One cell of the sweep (experiment.py, run_fragmented): a plan, a budget *)
(* of tokens, packets built level by level as summaries come into being,   *)
(* generation, the bounds that the row records, the invariant that may     *)
(* refuse it, and the splice of the fragments (assembler.py).              *)
(*                                                                         *)
(* Abstractions.  rho is the budget it stands for.  What a model writes is *)
(* the size of its summary and whether the fragment is empty; whether a    *)
(* seam is bad and whether its bridge can be made is a choice, and so is   *)
(* the number of sentences of a piece.  The joined text is split into      *)
(* sentences anew: at a seam the last sentence of one piece and the first  *)
(* of the next may be one (a piece that ends in ":" or ";", a next one     *)
(* that does not begin with a capital), and whether they are is a choice.  *)
(* Replicas and their consensus, the editor and the metrics come after or  *)
(* beside what is modelled here.                                           *)
(***************************************************************************)
EXTENDS Packing, Sequences, FiniteSetsExt

CONSTANTS
    Plans,      \* plans that the planner builds
    Budgets,    \* token budgets, rho_target * |P|
    Summaries,  \* sizes of a summary; none for an empty fragment
    Sentences   \* sentences of a fragment or a bridge, split on its own

ASSUME CellAssumption ==
    /\ \A p \in Plans : IsPlan(p)
    /\ Budgets \subseteq Nat \ {0}
    /\ Summaries \subseteq Nat
    /\ Sentences \subseteq Nat \ {0}

\* "A target no plan can reach" (packing.py:469): not even when each packet holds
\* all there is, twice over.
ASSUME UnreachableAssumption ==
    \A p \in Plans : \A summaries \in [p.tasks -> Summaries \union {0}] : \A t \in p.tasks :
        2 * (Cardinality(p.tasks) * Whole(p, t, summaries)) < Unreachable

VARIABLES
    plan, budget,
    refused,     \* the planner declined to fragment
    level,       \* the level being dispatched
    summaries,   \* summaries[t]: tokens, 0 until produced
    produced,    \* tasks whose fragment exists
    empty,       \* tasks whose fragment is empty
    packets,     \* packets[t], for the tasks packed so far
    status,      \* "packing", "generating", "measuring", "splicing", "done" or "raised"
    row,         \* the bounds the row records
    spliced,     \* the pieces so far, and the sentences in them
    offsets      \* offsets[t]: the sentence where the fragment of t is said to start

vars == <<plan, budget, refused, level, summaries, produced, empty, packets, status, row,
          spliced, offsets>>

cell == <<plan, budget, refused>>
text == <<spliced, offsets>>

-----------------------------------------------------------------------------

Slack == Larger(0, budget - TaskFloor * Cardinality(plan.tasks))

Weight(tasks) == SumFunction([t \in tasks |-> TaskWeight(plan, t)])

\* Mutant: every level is given the whole budget.
WholeBudget(tasks) == budget * Weight(plan.tasks)

\* The share of a level over the weight of the plan: its floors, and the slack
\* in proportion to its weight.
Share(tasks) == TaskFloor * Cardinality(tasks) * Weight(plan.tasks) + Slack * Weight(tasks)

\* A packet that consumes a value and has none of the values produced.
Unanswerable(t, built) ==
    /\ t \in plan.consumes
    /\ \E d \in plan.depends[t] : summaries[d] > 0
    /\ ~built[t].carry

\* build_packets for the level, then assert_packet_invariants.
PackLevel ==
    /\ status = "packing"
    /\ LET tasks == Level(plan, level)
           built == BuildPackets(plan, tasks, summaries, Share(tasks), Weight(plan.tasks))
           reachable == budget >= Floor(plan, NoSummaries(plan))
       IN  IF reachable /\ \E t \in tasks : Unanswerable(t, built)
           THEN status' = "raised" /\ UNCHANGED packets
           ELSE /\ packets' = [t \in DOMAIN packets \union tasks |->
                                 IF t \in tasks THEN built[t] ELSE packets[t]]
                /\ status' = "generating"
    /\ UNCHANGED <<cell, level, summaries, produced, empty, row, text>>

\* The tasks of a level are generated in the order of the plan.
Generate(size) ==
    /\ status = "generating"
    /\ LET t == Min(Level(plan, level) \ produced)
       IN  /\ summaries' = [summaries EXCEPT ![t] = size]
           /\ produced' = produced \union {t}
           /\ empty' = IF size = 0 THEN empty \union {t} ELSE empty
           /\ IF Level(plan, level) \subseteq produced'
              THEN /\ level' = level + 1
                   /\ status' = IF level + 1 \in Levels(plan) THEN "packing" ELSE "measuring"
              ELSE UNCHANGED <<level, status>>
    /\ UNCHANGED <<cell, packets, row, text>>

\* The backend raises: no row.
BackendRaises ==
    /\ status = "generating"
    /\ status' = "raised"
    /\ UNCHANGED <<cell, level, summaries, produced, empty, packets, row, text>>

-----------------------------------------------------------------------------
(* The bounds, and the invariant *)

Achieved == Dispatched(packets)

\* The relative deviation is above RHO_TOLERANCE, 0.05.
Drifts ==
    \/ 20 * (Achieved - budget) > budget
    \/ 20 * (budget - Achieved) > budget

Measure ==
    /\ status = "measuring"
    /\ LET floor == Floor(plan, summaries)
           ceiling == Ceiling(plan, summaries)
           above == budget > ceiling
       IN  /\ row' = [achieved |-> Achieved, floor |-> floor, ceiling |-> ceiling,
                      paid |-> SumFunction([t \in plan.tasks |-> packets[t].mandatory]),
                      reachable |-> budget >= floor, above |-> above]
           /\ status' = IF ~refused /\ ~above /\ budget >= floor /\ Drifts
                        THEN "raised" ELSE "splicing"
    /\ UNCHANGED <<cell, level, summaries, produced, empty, packets, text>>

-----------------------------------------------------------------------------
(* select_then_splice *)

\* The order of the levels, and of the plan within a level.
Before(s, t) ==
    LET rank(x) == CHOOSE k \in Levels(plan) : x \in Level(plan, k)
    IN  rank(s) < rank(t) \/ (rank(s) = rank(t) /\ s < t)

Bridge == 0

NoText == [pieces |-> <<>>, cursor |-> 0, total |-> 0]

\* One more piece of some sentences.  cursor adds up the sentences of the pieces,
\* each split on its own; total is how many the joined text has, in which `at' is
\* the first of the piece.  fused is 1 when it is also the last of the piece before.
Behind(x, of, size, fused) ==
    [pieces |-> Append(x.pieces, [of |-> of, at |-> x.total - fused]),
     cursor |-> x.cursor + size,
     total |-> x.total - fused + size]

Followed(x, of) ==
    {Behind(x, of, size, fused) : size \in Sentences,
                                  fused \in IF x.pieces = <<>> THEN {0} ELSE {0, 1}}

\* Mutant: the sentences of the bridge are not counted.
OffsetOfBridge(old, new) == old.cursor

\* The sentences before a fragment, its bridge among them.
OffsetBehind(old, new) == new.cursor

\* The next fragment, behind a bridge when the seam is bad and one can be made.
Splice ==
    /\ status = "splicing"
    /\ \E t \in plan.tasks \ DOMAIN offsets :
         /\ \A s \in plan.tasks \ DOMAIN offsets : s # t => Before(t, s)
         /\ \E before \in {spliced} \union
                  (IF t \in empty \/ spliced.pieces = <<>> THEN {} ELSE Followed(spliced, Bridge)) :
              /\ offsets' = [s \in DOMAIN offsets \union {t} |->
                               IF s = t THEN OffsetBehind(spliced, before) ELSE offsets[s]]
              /\ IF t \in empty THEN spliced' = before ELSE spliced' \in Followed(before, t)
    /\ UNCHANGED <<cell, level, summaries, produced, empty, packets, status, row>>

\* Offsets beyond the sentences of the joined text are clamped to the last one.
Join ==
    /\ status = "splicing"
    /\ DOMAIN offsets = plan.tasks
    /\ offsets' = [t \in plan.tasks |-> IF offsets[t] < spliced.total THEN offsets[t]
                                        ELSE Larger(spliced.total - 1, 0)]
    /\ status' = "done"
    /\ UNCHANGED <<cell, level, summaries, produced, empty, packets, row, spliced>>

-----------------------------------------------------------------------------

Init ==
    /\ plan \in Plans
    /\ budget \in Budgets
    /\ refused \in IF Cardinality(plan.tasks) = 1 THEN BOOLEAN ELSE {FALSE}
    /\ level = 1
    /\ summaries = NoSummaries(plan)
    /\ produced = {}
    /\ empty = {}
    /\ packets = <<>>
    /\ status = "packing"
    /\ row = <<>>
    /\ spliced = NoText
    /\ offsets = <<>>

Next ==
    \/ PackLevel
    \/ \E size \in Summaries : Generate(size)
    \/ BackendRaises
    \/ Measure
    \/ Splice
    \/ Join

Spec == Init /\ [][Next]_vars

-----------------------------------------------------------------------------
(* Properties *)

\* The budget is global: whatever the levels and the summaries that come into
\* being between them, what is dispatched stays within the target, or the floor
\* when the target is below it, plus the carries that are never rationed and
\* one token of rounding for each packet.
WithinBudget ==
    LET packed == DOMAIN packets
        carries == SumFunction([t \in packed |-> packets[t].mandatory - TaskFloor])
    IN  packed = plan.tasks =>
            Achieved <= Larger(budget, TaskFloor * Cardinality(packed))
                          + carries + Cardinality(packed)

\* The window that a row records is the packer's own: every packet carries the
\* values its task consumes, as they stood when its predecessors were done, the
\* floor is not above what the packets could not be talked out of, and what was
\* dispatched lies between that and the ceiling.
WindowIsHonest ==
    row # <<>> =>
        /\ \A t \in plan.tasks :
              packets[t].mandatory >= TaskFloor + CarryBlock(plan, t, summaries)
        /\ row.floor <= row.paid /\ row.paid <= row.achieved
        /\ row.achieved <= row.ceiling

\* The splice loses and repeats no fragment, whatever the seams, the bridges
\* that fail and the fragments that are empty: all other pieces are bridges, and
\* the order is the plan's.  The sentence that a fragment is said to start at is
\* in the text and never before its true place; it is that place when no two
\* pieces share a sentence (assembler.py:251-258), and may lie behind it when
\* some do, although the docstring calls the attribution exact.
NoFragmentLost ==
    status = "done" =>
        LET told == plan.tasks \ empty
            pieces == spliced.pieces
            places == {i \in 1 .. Len(pieces) : pieces[i].of # Bridge}
        IN  /\ {pieces[i].of : i \in places} = told
            /\ \A i, j \in places : i < j => Before(pieces[i].of, pieces[j].of)
            /\ \A i \in places :
                  /\ pieces[i].at <= offsets[pieces[i].of]
                  /\ offsets[pieces[i].of] < spliced.total
                  /\ spliced.total = spliced.cursor => offsets[pieces[i].of] = pieces[i].at

=============================================================================
