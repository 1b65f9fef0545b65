------------------------------ MODULE CellProofs ------------------------------
(***************************************************************************)
(* Theorems about Cell, for every plan, budget and size of summaries: the  *)
(* budget is kept, the window is the packer's own, the splice loses no     *)
(* fragment, and no dependent task goes without its carry.                 *)
(***************************************************************************)
EXTENDS Cell, PackingProofs

-----------------------------------------------------------------------------
(* The shares of the levels *)

WeightOf(p, T) == SumFunction([t \in T |-> TaskWeight(p, t)])

SlackOf(p, b) == Larger(0, b - TaskFloor * Cardinality(p.tasks))

ShareOf(p, b, T) ==
    TaskFloor * Cardinality(T) * WeightOf(p, p.tasks) + SlackOf(p, b) * WeightOf(p, T)

\* The weight of a plan is positive, and weights of separate tasks add up.
LEMMA WeightFacts ==
  ASSUME NEW p, IsPlan(p)
  PROVE  /\ WeightOf(p, p.tasks) \in Nat \ {0}
         /\ \A T \in SUBSET p.tasks : IsFiniteSet(T) /\ Cardinality(T) \in Nat /\ WeightOf(p, T) \in Nat
         /\ \A A, L \in SUBSET p.tasks : A \intersect L = {} =>
              WeightOf(p, A \union L) = WeightOf(p, A) + WeightOf(p, L)
              /\ Cardinality(A \union L) = Cardinality(A) + Cardinality(L)
<1> DEFINE w == [t \in p.tasks |-> TaskWeight(p, t)]
<1>1. IsFiniteSet(p.tasks) /\ p.tasks # {}
  BY PlanFields
<1>2. ASSUME NEW t \in p.tasks PROVE w[t] \in Nat \ {0}
  <2>1. NoSummaries(p) \in [p.tasks -> Nat]
    BY DEF NoSummaries
  <2>2. Desired(p, t, NoSummaries(p)) \in Nat
    BY <2>1, BlockTypes
  <2> QED
    BY <2>2, Constants DEF TaskWeight
<1>3. ASSUME NEW T \in SUBSET p.tasks
      PROVE  IsFiniteSet(T) /\ Cardinality(T) \in Nat /\ WeightOf(p, T) \in Nat
             /\ WeightOf(p, T) = SumFunctionOnSet(w, T)
  <2>1. IsFiniteSet(T) /\ Cardinality(T) \in Nat
    BY <1>1, FS_Subset, FS_CardinalityType
  <2> DEFINE f == [t \in T |-> TaskWeight(p, t)]
  <2>2. WeightOf(p, T) = SumFunctionOnSet(f, T)
    BY DEF WeightOf, SumFunction
  <2>3. \A t \in T : f[t] \in Nat /\ f[t] \in Int /\ w[t] = f[t]
    <3>1. \A t \in T : w[t] \in Nat /\ w[t] = f[t]
      BY <1>2
    <3> QED
      BY <3>1
  <2> HIDE DEF f, w
  <2>4. SumFunctionOnSet(f, T) = SumFunctionOnSet(w, T) /\ SumFunctionOnSet(f, T) \in Nat
    <3>1. SumFunctionOnSet(f, T) = SumFunctionOnSet(w, T)
      BY <2>1, <2>3, SumSame
    <3>2. SumFunctionOnSet(f, T) \in Nat
      BY <2>1, <2>3, SumType
    <3> QED
      BY <3>1, <3>2
  <2> QED
    BY <2>1, <2>2, <2>4
<1> HIDE DEF w
<1>4. WeightOf(p, p.tasks) # 0
  <2>1. PICK x \in p.tasks : TRUE
    BY <1>1
  <2> DEFINE R == p.tasks \ {x}
  <2>2. R \in SUBSET p.tasks /\ p.tasks \in SUBSET p.tasks
    OBVIOUS
  <2>3. SumFunctionOnSet(w, p.tasks) = w[x] + SumFunctionOnSet(w, R)
    BY <1>1, <1>2, SumOut
  <2> HIDE DEF R
  <2> QED
    BY <1>2, <1>3, <2>2, <2>3
<1>5. ASSUME NEW A \in SUBSET p.tasks, NEW L \in SUBSET p.tasks, A \intersect L = {}
      PROVE  WeightOf(p, A \union L) = WeightOf(p, A) + WeightOf(p, L)
             /\ Cardinality(A \union L) = Cardinality(A) + Cardinality(L)
  <2> DEFINE S == A \union L
  <2>1. S \in SUBSET p.tasks /\ A \in SUBSET S /\ S \ A = L
    BY <1>5
  <2>2. IsFiniteSet(S) /\ \A t \in S : w[t] \in Int
    BY <1>2, <1>3, <2>1
  <2>3. Cardinality(S) = Cardinality(A) + Cardinality(L)
    <3>1. IsFiniteSet(A) /\ IsFiniteSet(L)
      BY <1>3
    <3>2. Cardinality(S) = Cardinality(A) + Cardinality(L) - Cardinality(A \intersect L)
      BY <3>1, FS_Union
    <3>3. Cardinality(A \intersect L) = 0 /\ Cardinality(A) \in Nat /\ Cardinality(L) \in Nat
      BY <1>3, <1>5, FS_EmptySet
    <3> HIDE DEF S
    <3> QED
      BY <3>2, <3>3
  <2> HIDE DEF S
  <2>4. SumFunctionOnSet(w, S) = SumFunctionOnSet(w, A) + SumFunctionOnSet(w, L)
    BY <2>1, <2>2, SumOfUnion
  <2>5. WeightOf(p, S) = WeightOf(p, A) + WeightOf(p, L)
    BY <1>3, <2>1, <2>4
  <2> QED
    BY <2>3, <2>5 DEF S
<1> QED
  BY <1>3, <1>4, <1>5

\* A share covers the floors of its tasks, and shares of separate tasks add up.
LEMMA ShareFacts ==
  ASSUME NEW p, IsPlan(p), NEW b \in Nat
  PROVE  /\ SlackOf(p, b) \in Nat
         /\ \A T \in SUBSET p.tasks :
              /\ ShareOf(p, b, T) \in Nat
              /\ WeightOf(p, p.tasks) * (TaskFloor * Cardinality(T)) <= ShareOf(p, b, T)
         /\ \A A, L \in SUBSET p.tasks : A \intersect L = {} =>
              ShareOf(p, b, A \union L) = ShareOf(p, b, A) + ShareOf(p, b, L)
<1> DEFINE W == WeightOf(p, p.tasks)
           S == SlackOf(p, b)
<1>1. /\ W \in Nat \ {0}
      /\ \A T \in SUBSET p.tasks : Cardinality(T) \in Nat /\ WeightOf(p, T) \in Nat
      /\ \A A, L \in SUBSET p.tasks : A \intersect L = {} =>
              WeightOf(p, A \union L) = WeightOf(p, A) + WeightOf(p, L)
              /\ Cardinality(A \union L) = Cardinality(A) + Cardinality(L)
  BY WeightFacts
<1>2. S \in Nat
  <2>1. TaskFloor * Cardinality(p.tasks) \in Nat
    BY PlanFields, Constants
  <2> QED
    BY <2>1 DEF SlackOf, Larger
<1>3. \A T : ShareOf(p, b, T) = TaskFloor * Cardinality(T) * W + S * WeightOf(p, T)
  BY DEF ShareOf
<1>4. TaskFloor \in Nat
  BY Constants
<1> HIDE DEF W, S
<1>5. ASSUME NEW T \in SUBSET p.tasks
      PROVE  ShareOf(p, b, T) \in Nat /\ W * (TaskFloor * Cardinality(T)) <= ShareOf(p, b, T)
  <2> DEFINE x == TaskFloor * Cardinality(T) * W
             y == S * WeightOf(p, T)
  <2>1. x \in Nat /\ y \in Nat /\ W * (TaskFloor * Cardinality(T)) = x /\ ShareOf(p, b, T) = x + y
    BY <1>1, <1>2, <1>3, <1>4
  <2> HIDE DEF x, y
  <2> QED
    BY <2>1
<1>6. ASSUME NEW A \in SUBSET p.tasks, NEW L \in SUBSET p.tasks, A \intersect L = {}
      PROVE  ShareOf(p, b, A \union L) = ShareOf(p, b, A) + ShareOf(p, b, L)
  <2> DEFINE a == Cardinality(A)
             l == Cardinality(L)
             u == WeightOf(p, A)
             v == WeightOf(p, L)
  <2>1. a \in Nat /\ l \in Nat /\ u \in Nat /\ v \in Nat
    BY <1>1
  <2>2. Cardinality(A \union L) = a + l /\ WeightOf(p, A \union L) = u + v
    BY <1>1, <1>6
  <2>3. /\ ShareOf(p, b, A) = TaskFloor * a * W + S * u
        /\ ShareOf(p, b, L) = TaskFloor * l * W + S * v
        /\ ShareOf(p, b, A \union L) = TaskFloor * (a + l) * W + S * (u + v)
    BY <1>3, <2>2
  <2> HIDE DEF a, l, u, v
  <2>4. TaskFloor * (a + l) * W = TaskFloor * a * W + TaskFloor * l * W
    BY <1>1, <1>4, <2>1
  <2>5. S * (u + v) = S * u + S * v
    BY <1>2, <2>1
  <2>6. /\ TaskFloor * a * W \in Int /\ TaskFloor * l * W \in Int
        /\ S * u \in Int /\ S * v \in Int
    BY <1>1, <1>2, <1>4, <2>1
  <2> QED
    BY <2>3, <2>4, <2>5, <2>6
<1> QED
  BY <1>2, <1>5, <1>6 DEF W, S

\* Packets depend on the summaries of predecessors only.
LEMMA PacketsLater ==
  ASSUME NEW p, IsPlan(p), NEW T \in SUBSET p.tasks, NEW s1, NEW s2, NEW k, NEW num, NEW den,
         \A t \in T : \A d \in p.depends[t] : s1[d] = s2[d],
         PacketsOf(p, T, s1, k), WithinShare(p, T, s1, k, num, den)
  PROVE  PacketsOf(p, T, s2, k) /\ WithinShare(p, T, s2, k, num, den)
<1>1. \A t \in T : /\ CarryBlock(p, t, s1) = CarryBlock(p, t, s2)
                   /\ Mandatory(p, t, s1) = Mandatory(p, t, s2)
                   /\ Whole(p, t, s1) = Whole(p, t, s2)
  BY BlocksDepend
<1>2. PacketsOf(p, T, s2, k)
  BY <1>1 DEF PacketsOf
<1>3. [t \in T |-> CarryBlock(p, t, s1)] = [t \in T |-> CarryBlock(p, t, s2)]
  BY <1>1
<1>4. Carries(p, T, s1) = Carries(p, T, s2)
  BY <1>3 DEF Carries
<1> QED
  BY <1>2, <1>4 DEF WithinShare

\* The packets of two sets of tasks, each within its share, are within both.
LEMMA PacketsTogether ==
  ASSUME NEW p, IsPlan(p), NEW A \in SUBSET p.tasks, NEW L \in SUBSET p.tasks, A \intersect L = {},
         NEW s \in [p.tasks -> Nat], NEW b \in Nat, NEW k, NEW m,
         PacketsOf(p, A, s, k), PacketsOf(p, L, s, m),
         NEW r, r = [t \in A \union L |-> IF t \in L THEN m[t] ELSE k[t]],
         WithinShare(p, A, s, k, ShareOf(p, b, A), WeightOf(p, p.tasks)),
         WithinShare(p, L, s, m, ShareOf(p, b, L), WeightOf(p, p.tasks))
  PROVE  /\ PacketsOf(p, A \union L, s, r)
         /\ WithinShare(p, A \union L, s, r, ShareOf(p, b, A \union L), WeightOf(p, p.tasks))
<1> DEFINE S == A \union L
           W == WeightOf(p, p.tasks)
           f == [t \in S |-> r[t].tokens]
           c == [t \in S |-> CarryBlock(p, t, s)]
<1>1. /\ DOMAIN r = S
      /\ \A t \in A : r[t] = k[t]
      /\ \A t \in L : r[t] = m[t]
  OBVIOUS
<1>2. PacketsOf(p, S, s, r)
  <2>1. DOMAIN r = S
    BY <1>1
  <2>2. \A t \in S : /\ r[t].mandatory = Mandatory(p, t, s)
                     /\ r[t].carry = (Mandatory(p, t, s) > TaskFloor)
                     /\ r[t].tokens \in Nat
                     /\ Mandatory(p, t, s) <= r[t].tokens
                     /\ r[t].tokens <= Whole(p, t, s)
    <3> TAKE t \in S
    <3>1. CASE t \in A
      BY <1>1, <3>1 DEF PacketsOf
    <3>2. CASE t \in L
      BY <1>1, <3>2 DEF PacketsOf
    <3> QED
      BY <3>1, <3>2
  <2> QED
    BY <2>1, <2>2 DEF PacketsOf
<1>3. /\ S \in SUBSET p.tasks /\ A \in SUBSET S /\ S \ A = L /\ L \in SUBSET S
      /\ IsFiniteSet(S) /\ IsFiniteSet(A) /\ IsFiniteSet(L)
      /\ Cardinality(S) = Cardinality(A) + Cardinality(L)
      /\ Cardinality(A) \in Nat /\ Cardinality(L) \in Nat /\ W \in Nat \ {0}
  <2>1. S \in SUBSET p.tasks /\ A \in SUBSET S /\ S \ A = L /\ L \in SUBSET S
    OBVIOUS
  <2> QED
    BY <2>1, WeightFacts
<1>4. /\ ShareOf(p, b, S) = ShareOf(p, b, A) + ShareOf(p, b, L)
      /\ ShareOf(p, b, A) \in Nat /\ ShareOf(p, b, L) \in Nat
  BY ShareFacts
<1>5. \A t \in S : f[t] = r[t].tokens /\ c[t] = CarryBlock(p, t, s)
  OBVIOUS
<1> HIDE DEF S, W, f, c
<1>6. /\ Dispatched(r) = SumFunctionOnSet(f, S) /\ Dispatched(k) = SumFunctionOnSet(f, A)
      /\ Dispatched(m) = SumFunctionOnSet(f, L)
      /\ Dispatched(k) \in Nat /\ Dispatched(m) \in Nat
  <2>1. Dispatched(r) = SumFunctionOnSet(f, S)
    <3>1. \A t \in S : f[t] = r[t].tokens
      BY <1>5
    <3> QED
      BY <1>2, <1>3, <3>1, DispatchedIs
  <2>2. \A t \in A : f[t] = k[t].tokens
    BY <1>1, <1>3, <1>5
  <2>3. \A t \in L : f[t] = m[t].tokens
    BY <1>1, <1>3, <1>5
  <2>4. Dispatched(k) = SumFunctionOnSet(f, A) /\ Dispatched(k) \in Nat
    BY <2>2, DispatchedIs
  <2>5. Dispatched(m) = SumFunctionOnSet(f, L) /\ Dispatched(m) \in Nat
    BY <2>3, DispatchedIs
  <2> QED
    BY <2>1, <2>4, <2>5
<1>7. Dispatched(r) = Dispatched(k) + Dispatched(m)
  <2>1. \A t \in S : f[t] \in Int
    <3> TAKE t \in S
    <3>1. r[t].tokens \in Nat
      BY <1>2 DEF PacketsOf
    <3> QED
      BY <1>5, <3>1
  <2> QED
    BY <1>3, <1>6, <2>1, SumOfUnion
<1>8. ASSUME NEW T \in SUBSET S
      PROVE  Carries(p, T, s) = SumFunctionOnSet(c, T) /\ Carries(p, T, s) \in Nat
  <2> DEFINE g == [t \in T |-> CarryBlock(p, t, s)]
  <2>1. Carries(p, T, s) = SumFunctionOnSet(g, T)
    BY DEF Carries, SumFunction
  <2>2. \A t \in T : g[t] \in Nat /\ g[t] \in Int /\ c[t] = g[t]
    <3>1. \A t \in T : g[t] \in Nat /\ c[t] = g[t]
      BY <1>3, <1>5, BlockTypes
    <3> QED
      BY <3>1
  <2>3. IsFiniteSet(T)
    BY <1>3, FS_Subset
  <2> HIDE DEF g
  <2>4. SumFunctionOnSet(g, T) = SumFunctionOnSet(c, T)
    BY <2>2, <2>3, SumSame
  <2>5. SumFunctionOnSet(g, T) \in Nat
    BY <2>2, <2>3, SumType
  <2> QED
    BY <2>1, <2>4, <2>5
<1>9. /\ Carries(p, S, s) = Carries(p, A, s) + Carries(p, L, s)
      /\ Carries(p, A, s) \in Nat /\ Carries(p, L, s) \in Nat
  <2>1. \A t \in S : c[t] \in Int
    BY <1>3, <1>5, BlockTypes
  <2>2. SumFunctionOnSet(c, S) = SumFunctionOnSet(c, A) + SumFunctionOnSet(c, L)
    BY <1>3, <2>1, SumOfUnion
  <2>3. S \in SUBSET S
    OBVIOUS
  <2> QED
    BY <1>3, <1>8, <2>2, <2>3
<1>10. WithinShare(p, S, s, r, ShareOf(p, b, S), W)
  <2> DEFINE x1 == W * Dispatched(k)
             x2 == W * Dispatched(m)
             y1 == W * Cardinality(A)
             y2 == W * Cardinality(L)
             z1 == W * Carries(p, A, s)
             z2 == W * Carries(p, L, s)
             n1 == ShareOf(p, b, A)
             n2 == ShareOf(p, b, L)
  <2>1. /\ x1 \in Int /\ x2 \in Int /\ y1 \in Int /\ y2 \in Int /\ z1 \in Int /\ z2 \in Int
        /\ n1 \in Int /\ n2 \in Int
    BY <1>3, <1>4, <1>6, <1>9
  <2>2. 2 * x1 <= 2 * n1 + y1 + 2 * z1 /\ 2 * x2 <= 2 * n2 + y2 + 2 * z2
    BY DEF WithinShare, W
  <2>3. /\ W * Dispatched(r) = x1 + x2
        /\ W * Cardinality(S) = y1 + y2
        /\ W * Carries(p, S, s) = z1 + z2
        /\ ShareOf(p, b, S) = n1 + n2
    <3>1. W * (Dispatched(k) + Dispatched(m)) = x1 + x2
      BY <1>3, <1>6, Products
    <3>2. W * (Cardinality(A) + Cardinality(L)) = y1 + y2
      BY <1>3, Products
    <3>3. W * (Carries(p, A, s) + Carries(p, L, s)) = z1 + z2
      BY <1>3, <1>9, Products
    <3> QED
      BY <1>3, <1>4, <1>7, <1>9, <3>1, <3>2, <3>3
  <2> HIDE DEF x1, x2, y1, y2, z1, z2, n1, n2
  <2>4. 2 * (x1 + x2) <= 2 * (n1 + n2) + (y1 + y2) + 2 * (z1 + z2)
    BY <2>1, <2>2
  <2> QED
    BY <2>3, <2>4 DEF WithinShare
<1> QED
  BY <1>2, <1>10 DEF S, W

-----------------------------------------------------------------------------
(* The packets of the levels so far *)

CellType ==
    /\ plan \in Plans /\ budget \in Budgets
    /\ summaries \in [plan.tasks -> Summaries \union {0}]
    /\ produced \subseteq plan.tasks
    /\ status \in {"packing", "generating", "measuring", "splicing", "done", "raised"}

\* Where the cell is among the levels.
Progress ==
    LET P == Placed(plan)
    IN  /\ status \in {"packing", "generating"} => level \in Levels(plan)
        /\ status = "packing" => DOMAIN packets = P[level - 1] /\ produced = P[level - 1]
        /\ status = "generating" =>
             /\ DOMAIN packets = P[level]
             /\ P[level - 1] \subseteq produced /\ produced \subseteq P[level] /\ produced # P[level]
        /\ status \in {"measuring", "splicing", "done"} => DOMAIN packets = plan.tasks

\* What the packets hold stays what their summaries made it, and within the shares.
PacketsKept ==
    /\ DOMAIN packets \subseteq plan.tasks
    /\ \A t \in DOMAIN packets : plan.depends[t] \subseteq produced
    /\ PacketsOf(plan, DOMAIN packets, summaries, packets)
    /\ WithinShare(plan, DOMAIN packets, summaries, packets,
                   ShareOf(plan, budget, DOMAIN packets), WeightOf(plan, plan.tasks))

PackInvariant == CellType /\ Progress /\ PacketsKept

\* The share and the weight of the model are those of its plan and budget.
LEMMA ShareIs ==
  /\ \A T : Share(T) = ShareOf(plan, budget, T)
  /\ Weight(plan.tasks) = WeightOf(plan, plan.tasks)
BY DEF Share, ShareOf, Slack, SlackOf, Weight, WeightOf

\* What the types say of the plan, the budget and the summaries.
LEMMA CellFacts ==
  ASSUME CellType
  PROVE  /\ IsPlan(plan) /\ budget \in Nat
         /\ summaries \in [plan.tasks -> Nat]
<1>1. IsPlan(plan)
  BY CellAssumption DEF CellType
<1>2. budget \in Nat /\ Summaries \union {0} \subseteq Nat
  BY CellAssumption DEF CellType
<1> QED
  BY <1>1, <1>2 DEF CellType

\* The tasks of a level: new, and their predecessors are placed before.
LEMMA LevelFacts ==
  ASSUME NEW p, IsPlan(p), NEW k \in Levels(p), NEW P, P = Placed(p), NEW L, L = Level(p, k)
  PROVE  /\ k \in 1 .. Cardinality(p.tasks) /\ k \in Nat
         /\ L # {} /\ L \subseteq p.tasks /\ P[k - 1] \subseteq P[k] /\ P[k] \subseteq p.tasks
         /\ P[k - 1] \intersect L = {} /\ P[k - 1] \union L = P[k] /\ L = P[k] \ P[k - 1]
         /\ \A t \in P[k] : p.depends[t] \subseteq P[k - 1]
<1> DEFINE n == Cardinality(p.tasks)
<1>1. k \in 1 .. n /\ L # {} /\ L = P[k] \ P[k - 1]
  BY DEF Levels, Level
<1>2. /\ n \in Nat \ {0}
      /\ \A j \in 0 .. n : P[j] \subseteq p.tasks
      /\ \A j \in 1 .. n : \A t \in P[j] : p.depends[t] \subseteq P[j - 1]
  BY PlacedTasks
<1>3. P[k - 1] \subseteq P[k]
  BY <1>1, RoundsGrow
<1>4. k \in 0 .. n /\ k \in Nat
  BY <1>1, <1>2
<1>5. P[k] \subseteq p.tasks /\ \A t \in P[k] : p.depends[t] \subseteq P[k - 1]
  BY <1>1, <1>2, <1>4
<1>6. P[k - 1] \intersect L = {} /\ P[k - 1] \union L = P[k] /\ L \subseteq p.tasks
  BY <1>1, <1>3, <1>5
<1> QED
  BY <1>1, <1>3, <1>4, <1>5, <1>6

\* A cell starts with nothing packed.
LEMMA InitPacks == Init => PackInvariant
<1> SUFFICES ASSUME Init PROVE PackInvariant
  OBVIOUS
<1>1. CellType
  <2>1. summaries \in [plan.tasks -> Summaries \union {0}]
    BY DEF Init, NoSummaries
  <2> QED
    BY <2>1 DEF Init, CellType
<1>2. IsPlan(plan) /\ budget \in Nat /\ summaries \in [plan.tasks -> Nat]
  BY <1>1, CellFacts
<1>3. DOMAIN packets = {} /\ status = "packing" /\ level = 1 /\ produced = {}
  BY DEF Init
<1>4. Progress
  <2> DEFINE n == Cardinality(plan.tasks)
             P == Placed(plan)
  <2>1. n \in Nat \ {0} /\ P[0] = {} /\ 1 \in P[1]
    BY <1>2, PlacedTasks
  <2>2. 1 \in Levels(plan) /\ 1 - 1 = 0
    BY <2>1 DEF Levels, Level
  <2> HIDE DEF P
  <2>3. P[level - 1] = {}
    BY <1>3, <2>1, <2>2
  <2> QED
    BY <1>3, <2>2, <2>3 DEF Progress, P
<1>5. PacketsKept
  <2>1. PacketsOf(plan, {}, summaries, packets)
    BY <1>3 DEF PacketsOf
  <2> DEFINE W == WeightOf(plan, plan.tasks)
             H == ShareOf(plan, budget, {})
             f == [t \in {} |-> 0]
  <2>2. W \in Nat \ {0} /\ H \in Nat
    BY <1>2, WeightFacts, ShareFacts
  <2>3. Dispatched(packets) = 0 /\ Carries(plan, {}, summaries) \in Nat
    <3>1. \A t \in {} : f[t] = packets[t].tokens
      OBVIOUS
    <3>2. {} \in SUBSET plan.tasks
      OBVIOUS
    <3> HIDE DEF f
    <3>3. Dispatched(packets) = SumFunctionOnSet(f, {}) /\ Carries(plan, {}, summaries) \in Nat
      BY <1>2, <2>1, <3>1, <3>2, DispatchedIs
    <3> QED
      BY <3>3, SumOfNone
  <2>4. Cardinality({}) = 0
    BY FS_EmptySet
  <2> DEFINE c == W * Carries(plan, {}, summaries)
  <2>5. c \in Nat
    BY <2>2, <2>3
  <2> HIDE DEF W, H, c
  <2>6. 2 * (W * 0) <= 2 * H + W * 0 + 2 * c
    BY <2>2, <2>5
  <2>7. WithinShare(plan, {}, summaries, packets, H, W)
    BY <2>3, <2>4, <2>6 DEF WithinShare, c
  <2> QED
    BY <1>3, <2>1, <2>7 DEF PacketsKept, W, H
<1> QED
  BY <1>1, <1>4, <1>5 DEF PackInvariant

\* A level's packets join those before, within the share of both.
LEMMA PackLevelPacks == PackInvariant /\ PackLevel => PackInvariant'
<1> SUFFICES ASSUME PackInvariant, PackLevel PROVE PackInvariant'
  OBVIOUS
<1> DEFINE P == Placed(plan)
           L == Level(plan, level)
           A == DOMAIN packets
           W == WeightOf(plan, plan.tasks)
           H == ShareOf(plan, budget, L)
           built == BuildPackets(plan, L, summaries, H, W)
           all == [t \in A \union L |-> IF t \in L THEN built[t] ELSE packets[t]]
<1>0. CellType /\ Progress /\ PacketsKept
  BY DEF PackInvariant
<1>1. IsPlan(plan) /\ budget \in Nat /\ summaries \in [plan.tasks -> Nat]
  BY <1>0, CellFacts
<1>2. /\ status = "packing" /\ plan' = plan /\ budget' = budget /\ level' = level
      /\ summaries' = summaries /\ produced' = produced
      /\ \/ status' = "raised" /\ packets' = packets
         \/ status' = "generating" /\ packets' = all
  <2>1. Share(L) = H /\ Weight(plan.tasks) = W
    BY ShareIs
  <2> QED
    BY <2>1 DEF PackLevel, cell
<1>3. level \in Levels(plan) /\ A = P[level - 1] /\ produced = P[level - 1]
  BY <1>0, <1>2 DEF Progress
<1>4. /\ level \in 1 .. Cardinality(plan.tasks)
      /\ L # {} /\ L \subseteq plan.tasks /\ P[level - 1] \subseteq P[level] /\ P[level] \subseteq plan.tasks
      /\ P[level - 1] \intersect L = {} /\ P[level - 1] \union L = P[level]
      /\ \A t \in P[level] : plan.depends[t] \subseteq P[level - 1]
  BY <1>1, <1>3, LevelFacts
<1>5. CellType'
  BY <1>0, <1>2 DEF CellType
<1>6. CASE status' = "raised" /\ packets' = packets
  <2>1. PacketsKept'
    BY <1>0, <1>2, <1>6 DEF PacketsKept
  <2>2. Progress'
    BY <1>6 DEF Progress
  <2> QED
    BY <1>5, <2>1, <2>2 DEF PackInvariant
<1>7. CASE status' = "generating" /\ packets' = all
  <2>1. DOMAIN packets' = P[level]
    BY <1>3, <1>4, <1>7
  <2>2. Progress'
    <3>1. P[level - 1] # P[level]
      BY <1>4
    <3> HIDE DEF P
    <3>2. /\ DOMAIN packets' = P[level] /\ produced' = P[level - 1]
          /\ level' \in Levels(plan)' /\ level' = level
          /\ P[level - 1] \subseteq P[level]
      BY <1>2, <1>3, <1>4, <2>1
    <3> QED
      BY <1>2, <1>7, <3>1, <3>2 DEF Progress, P
  <2>3. /\ PacketsOf(plan, A, summaries, packets)
        /\ WithinShare(plan, A, summaries, packets, ShareOf(plan, budget, A), W)
    BY <1>0 DEF PacketsKept
  <2>4. W \in Nat \ {0} /\ H \in Nat /\ W * (TaskFloor * Cardinality(L)) <= H
    BY <1>1, <1>4, WeightFacts, ShareFacts
  <2>5. PacketsOf(plan, L, summaries, built) /\ WithinShare(plan, L, summaries, built, H, W)
    <3> HIDE DEF W, H
    <3> QED
      BY <1>1, <1>4, <2>4, LevelWithinShare
  <2>6. /\ PacketsOf(plan, A \union L, summaries, all)
        /\ WithinShare(plan, A \union L, summaries, all, ShareOf(plan, budget, A \union L), W)
    <3>1. A \in SUBSET plan.tasks /\ L \in SUBSET plan.tasks /\ A \intersect L = {}
      BY <1>3, <1>4
    <3> HIDE DEF A, L, built
    <3>2. all = [t \in A \union L |-> IF t \in L THEN built[t] ELSE packets[t]]
      OBVIOUS
    <3> HIDE DEF all
    <3> QED
      BY <1>1, <2>3, <2>5, <3>1, <3>2, PacketsTogether DEF W, H
  <2>7. DOMAIN packets' = A \union L
    BY <1>7
  <2>8. PacketsKept'
    <3>1. \A t \in DOMAIN packets' : plan.depends[t] \subseteq produced
      BY <1>3, <1>4, <2>1
    <3>2. DOMAIN packets' \subseteq plan.tasks
      BY <1>4, <2>1
    <3> HIDE DEF all
    <3> QED
      BY <1>2, <1>7, <2>6, <2>7, <3>1, <3>2 DEF PacketsKept, W
  <2> QED
    BY <1>5, <2>2, <2>8 DEF PackInvariant
<1> QED
  BY <1>2, <1>6, <1>7

\* A summary that comes into being leaves the packets of its level as they stood.
LEMMA GeneratePacks ==
  ASSUME NEW size \in Summaries
  PROVE  PackInvariant /\ Generate(size) => PackInvariant'
<1> SUFFICES ASSUME PackInvariant, Generate(size) PROVE PackInvariant'
  OBVIOUS
<1> DEFINE P == Placed(plan)
           L == Level(plan, level)
           t == Min(L \ produced)
<1>0. CellType /\ Progress /\ PacketsKept
  BY DEF PackInvariant
<1>1. IsPlan(plan) /\ budget \in Nat /\ summaries \in [plan.tasks -> Nat]
  BY <1>0, CellFacts
<1>2. /\ status = "generating" /\ plan' = plan /\ budget' = budget /\ packets' = packets
      /\ summaries' = [summaries EXCEPT ![t] = size]
      /\ produced' = produced \union {t}
      /\ \/ /\ L \subseteq produced' /\ level' = level + 1
            /\ status' = IF level + 1 \in Levels(plan) THEN "packing" ELSE "measuring"
         \/ ~(L \subseteq produced') /\ level' = level /\ status' = status
  BY DEF Generate, cell
<1>3. /\ level \in Levels(plan) /\ DOMAIN packets = P[level]
      /\ P[level - 1] \subseteq produced /\ produced \subseteq P[level] /\ produced # P[level]
  BY <1>0, <1>2 DEF Progress
<1>4. /\ level \in 1 .. Cardinality(plan.tasks) /\ level \in Nat
      /\ L \subseteq plan.tasks /\ P[level - 1] \subseteq P[level] /\ P[level] \subseteq plan.tasks
      /\ P[level - 1] \union L = P[level] /\ L = P[level] \ P[level - 1]
  BY <1>1, <1>3, LevelFacts
<1>5. t \in L \ produced
  <2> DEFINE R == L \ produced
  <2>1. R # {}
    BY <1>3, <1>4
  <2>2. R \in SUBSET Nat
    <3>1. plan.tasks \subseteq Nat
      BY <1>1, PlanFields
    <3> QED
      BY <1>4, <3>1
  <2> HIDE DEF R
  <2>3. \E x \in R : \A y \in R : x <= y
    BY <2>1, <2>2, LeastNumber
  <2>4. Min(R) \in R
    BY <2>3 DEF Min
  <2> QED
    BY <2>4 DEF R
<1> HIDE DEF t
<1>6. CellType'
  <2>1. summaries' \in [plan.tasks -> Summaries \union {0}]
    BY <1>0, <1>2 DEF CellType
  <2>2. produced' \subseteq plan.tasks
    BY <1>0, <1>2, <1>4, <1>5 DEF CellType
  <2>3. plan' \in Plans /\ budget' \in Budgets
    BY <1>0, <1>2 DEF CellType
  <2>4. status' \in {"packing", "generating", "measuring"}
    BY <1>2
  <2> QED
    BY <1>2, <2>1, <2>2, <2>3, <2>4 DEF CellType
<1>7. PacketsKept'
  <2>1. DOMAIN packets \in SUBSET plan.tasks
    BY <1>0 DEF PacketsKept
  <2>2. \A u \in DOMAIN packets : \A d \in plan.depends[u] : summaries[d] = summaries'[d]
    <3> TAKE u \in DOMAIN packets
    <3> TAKE d \in plan.depends[u]
    <3>1. d \in produced /\ d \in plan.tasks
      BY <1>0, <2>1 DEF PacketsKept, CellType
    <3> QED
      BY <1>1, <1>2, <1>5, <3>1
  <2>3. /\ PacketsOf(plan, DOMAIN packets, summaries, packets)
        /\ WithinShare(plan, DOMAIN packets, summaries, packets,
                   ShareOf(plan, budget, DOMAIN packets), WeightOf(plan, plan.tasks))
    BY <1>0 DEF PacketsKept
  <2>4. /\ PacketsOf(plan, DOMAIN packets, summaries', packets)
        /\ WithinShare(plan, DOMAIN packets, summaries', packets,
                   ShareOf(plan, budget, DOMAIN packets), WeightOf(plan, plan.tasks))
    BY <1>1, <2>1, <2>2, <2>3, PacketsLater
  <2>5. \A u \in DOMAIN packets : plan.depends[u] \subseteq produced'
    BY <1>0, <1>2 DEF PacketsKept
  <2> QED
    BY <1>2, <2>1, <2>4, <2>5 DEF PacketsKept
<1>8. Progress'
  <2>0. P[level - 1] \subseteq produced' /\ produced' \subseteq P[level]
    BY <1>2, <1>3, <1>4, <1>5
  <2>1. CASE ~(L \subseteq produced') /\ level' = level /\ status' = status
    <3>1. produced' # P[level]
      BY <1>4, <2>1
    <3> HIDE DEF P
    <3> QED
      BY <1>2, <1>3, <2>0, <2>1, <3>1 DEF Progress, P
  <2>2. CASE L \subseteq produced' /\ level' = level + 1 /\ level + 1 \in Levels(plan) /\ status' = "packing"
    <3>1. produced' = P[level]
      BY <1>4, <2>0, <2>2
    <3>2. level' - 1 = level
      BY <1>4, <2>2
    <3> HIDE DEF P
    <3>3. DOMAIN packets' = P[level' - 1] /\ produced' = P[level' - 1]
      BY <1>2, <1>3, <3>1, <3>2
    <3> QED
      BY <1>2, <2>2, <3>3 DEF Progress, P
  <2>3. CASE level + 1 \notin Levels(plan) /\ status' = "measuring"
    <3>1. P[level] = plan.tasks
      BY <1>1, <1>4, <2>3, LastLevel
    <3> HIDE DEF P
    <3>2. DOMAIN packets' = plan.tasks
      BY <1>2, <1>3, <3>1
    <3> QED
      BY <1>2, <2>3, <3>2 DEF Progress
  <2> QED
    BY <1>2, <2>1, <2>2, <2>3
<1> QED
  BY <1>6, <1>7, <1>8 DEF PackInvariant

\* Every step keeps the packets within their shares.
LEMMA NextPacks == PackInvariant /\ [Next]_vars => PackInvariant'
<1> SUFFICES ASSUME PackInvariant, [Next]_vars PROVE PackInvariant'
  OBVIOUS
<1>0. CellType /\ Progress /\ PacketsKept
  BY DEF PackInvariant
<1>1. CASE PackLevel
  BY <1>1, PackLevelPacks
<1>2. ASSUME NEW size \in Summaries, Generate(size) PROVE PackInvariant'
  BY <1>2, GeneratePacks
<1>3. ASSUME UNCHANGED <<plan, budget, level, summaries, produced, packets>>,
             \/ status' = status
             \/ status' = "raised"
             \/ status \in {"measuring", "splicing"} /\ status' \in {"splicing", "done"}
      PROVE  PackInvariant'
  <2>1. CellType'
    BY <1>0, <1>3 DEF CellType
  <2>2. Progress'
    BY <1>0, <1>3 DEF Progress
  <2>3. PacketsKept'
    BY <1>0, <1>3 DEF PacketsKept
  <2> QED
    BY <2>1, <2>2, <2>3 DEF PackInvariant
<1>4. CASE BackendRaises
  BY <1>3, <1>4 DEF BackendRaises, cell
<1>5. CASE Measure
  <2>1. status = "measuring" /\ status' \in {"raised", "splicing"}
        /\ UNCHANGED <<plan, budget, level, summaries, produced, packets>>
    BY <1>5 DEF Measure, cell
  <2> QED
    BY <1>3, <2>1
<1>6. CASE Splice
  <2>1. status' = status /\ UNCHANGED <<plan, budget, level, summaries, produced, packets>>
    BY <1>6 DEF Splice, cell
  <2> QED
    BY <1>3, <2>1
<1>7. CASE Join
  <2>1. status = "splicing" /\ status' = "done" /\ UNCHANGED <<plan, budget, level, summaries, produced, packets>>
    BY <1>7 DEF Join, cell
  <2> QED
    BY <1>3, <2>1
<1>8. CASE UNCHANGED vars
  BY <1>3, <1>8 DEF vars
<1> QED
  BY <1>1, <1>2, <1>4, <1>5, <1>6, <1>7, <1>8 DEF Next

\* Each level is packed once, in the order of Kahn's rounds (run_fragmented), and what
\* it was packed with stays what its summaries say, within the shares of the levels so far.
THEOREM LevelsPacked == Spec => []PackInvariant
<1> QED
  BY InitPacks, NextPacks, PTL DEF Spec

-----------------------------------------------------------------------------
(* The budget, and the window *)

\* What the mandatory parts add up to: the floors and the carries.
LEMMA MandatoryParts ==
  ASSUME NEW p, IsPlan(p), NEW s \in [p.tasks -> Nat], NEW k, PacketsOf(p, p.tasks, s, k)
  PROVE  /\ SumFunction([t \in p.tasks |-> k[t].mandatory - TaskFloor]) = Carries(p, p.tasks, s)
         /\ SumFunction([t \in p.tasks |-> k[t].mandatory])
              = TaskFloor * Cardinality(p.tasks) + Carries(p, p.tasks, s)
         /\ SumFunction([t \in p.tasks |-> k[t].mandatory]) <= Dispatched(k)
<1> DEFINE T == p.tasks
           f == [t \in T |-> TaskFloor]
           c == [t \in T |-> CarryBlock(p, t, s)]
           m == [t \in T |-> k[t].mandatory]
           g == [t \in T |-> k[t].mandatory - TaskFloor]
           x == [t \in T |-> k[t].tokens]
<1>1. IsFiniteSet(T) /\ DOMAIN k = T
  BY PlanFields DEF PacketsOf
<1>2. TaskFloor \in Int
  BY Constants
<1>3. ASSUME NEW t \in T
      PROVE  /\ f[t] = TaskFloor /\ c[t] \in Int /\ m[t] = f[t] + c[t] /\ m[t] \in Int /\ g[t] = c[t]
             /\ x[t] \in Int /\ m[t] <= x[t]
  <2>1. /\ CarryBlock(p, t, s) \in Nat /\ k[t].mandatory = TaskFloor + CarryBlock(p, t, s)
        /\ k[t].tokens \in Nat /\ k[t].mandatory <= k[t].tokens
    BY BlockTypes DEF PacketsOf
  <2> QED
    BY <1>2, <2>1
<1>4. /\ SumFunction([t \in p.tasks |-> k[t].mandatory - TaskFloor]) = SumFunctionOnSet(g, T)
      /\ SumFunction([t \in p.tasks |-> k[t].mandatory]) = SumFunctionOnSet(m, T)
      /\ Carries(p, T, s) = SumFunctionOnSet(c, T)
      /\ Dispatched(k) = SumFunctionOnSet(x, T)
  BY <1>1 DEF SumFunction, Carries, Dispatched
<1> HIDE DEF T, f, c, m, g, x
<1>5. SumFunctionOnSet(c, T) = SumFunctionOnSet(g, T)
  <2>1. \A t \in T : c[t] \in Int /\ g[t] = c[t]
    BY <1>3
  <2> QED
    BY <1>1, <2>1, SumSame
<1>6. SumFunctionOnSet(m, T) = SumFunctionOnSet(f, T) + SumFunctionOnSet(c, T)
  <2>1. \A t \in T : f[t] \in Int /\ c[t] \in Int /\ m[t] = f[t] + c[t]
    BY <1>2, <1>3
  <2> QED
    BY <1>1, <2>1, SumOfSums
<1>7. SumFunctionOnSet(f, T) = TaskFloor * Cardinality(T)
  <2>1. \A t \in T : f[t] = TaskFloor
    BY <1>3
  <2> QED
    BY <1>1, <1>2, <2>1, SumOfConstant
<1>8. SumFunctionOnSet(m, T) <= SumFunctionOnSet(x, T)
  <2>1. \A t \in T : m[t] \in Int /\ x[t] \in Int /\ m[t] <= x[t]
    BY <1>3
  <2> QED
    BY <1>1, <2>1, SumAtMost
<1> QED
  BY <1>4, <1>5, <1>6, <1>7, <1>8 DEF T

\* The shares of all levels make up the budget, or the floors above it.
LEMMA BudgetFromShares == PackInvariant => WithinBudget
<1> SUFFICES ASSUME PackInvariant, DOMAIN packets = plan.tasks PROVE WithinBudget
  BY DEF WithinBudget
<1> DEFINE n == Cardinality(plan.tasks)
           W == WeightOf(plan, plan.tasks)
           D == Dispatched(packets)
           C == Carries(plan, plan.tasks, summaries)
           S == SlackOf(plan, budget)
           F == TaskFloor * n
<1>1. IsPlan(plan) /\ budget \in Nat /\ summaries \in [plan.tasks -> Nat]
  BY CellFacts DEF PackInvariant
<1>2. PacketsOf(plan, plan.tasks, summaries, packets)
      /\ WithinShare(plan, plan.tasks, summaries, packets, ShareOf(plan, budget, plan.tasks), W)
  BY DEF PackInvariant, PacketsKept
<1>3. n \in Nat /\ W \in Nat \ {0} /\ S \in Nat
  BY <1>1, PlanFields, WeightFacts, ShareFacts
<1>4. D \in Nat /\ C \in Nat
  <2>1. plan.tasks \in SUBSET plan.tasks
    OBVIOUS
  <2> QED
    BY <1>1, <1>2, <2>1, DispatchedSum
<1>5. F \in Nat
  BY <1>3, Constants
<1>6. ShareOf(plan, budget, plan.tasks) = F * W + S * W
  BY DEF ShareOf
<1>7. 2 * (W * D) <= 2 * (F * W + S * W) + W * n + 2 * (W * C)
  BY <1>2, <1>6 DEF WithinShare
<1>8. S = Larger(0, budget - F)
  BY DEF SlackOf
<1>9. SumFunction([t \in plan.tasks |-> packets[t].mandatory - TaskFloor]) = C
  BY <1>1, <1>2, MandatoryParts
<1> HIDE DEF n, W, D, C, S, F
<1>10. W * (2 * D) <= W * (2 * (F + S) + n + 2 * C)
  <2>1. W * (2 * D) = 2 * (W * D)
    BY <1>3, <1>4
  <2>2. W * (2 * (F + S) + n + 2 * C) = 2 * (F * W + S * W) + W * n + 2 * (W * C)
    BY <1>3, <1>4, <1>5
  <2> QED
    BY <1>7, <2>1, <2>2
<1>11. 2 * D <= 2 * (F + S) + n + 2 * C
  <2> DEFINE a == 2 * D
             b == 2 * (F + S) + n + 2 * C
  <2>1. a \in Int /\ b \in Int /\ W * a <= W * b
    BY <1>3, <1>4, <1>5, <1>10
  <2> HIDE DEF a, b
  <2>2. a <= b
    BY <1>3, <2>1, Products
  <2> QED
    BY <2>2 DEF a, b
<1>12. F + S = Larger(budget, F)
  BY <1>1, <1>5, <1>8 DEF Larger
<1>13. D <= Larger(budget, F) + C + n
  BY <1>3, <1>4, <1>5, <1>11, <1>12
<1> QED
  BY <1>9, <1>13 DEF WithinBudget, Achieved, D, F, n

\* WithinBudget: plan_fragments and build_packets, dispatching level by level with
\* the slack in proportion to the weights, never send more than the target or the
\* floors, the carries and a token a packet; for every plan, budget and summary.
THEOREM BudgetHolds == Spec => []WithinBudget
<1>1. Init => PackInvariant
  BY InitPacks
<1>2. PackInvariant /\ [Next]_vars => PackInvariant'
  BY NextPacks
<1>3. PackInvariant => WithinBudget
  BY BudgetFromShares
<1> QED
  BY <1>1, <1>2, <1>3, PTL DEF Spec

\* The row and what it was recorded from.
RowKept ==
    /\ status \in {"packing", "generating", "measuring"} => row = <<>>
    /\ WindowIsHonest

\* What Measure records is the window of the packets in hand.
LEMMA MeasureIsHonest == PackInvariant /\ Measure => WindowIsHonest'
<1> SUFFICES ASSUME PackInvariant, Measure PROVE WindowIsHonest'
  OBVIOUS
<1> DEFINE n == Cardinality(plan.tasks)
           C == Carries(plan, plan.tasks, summaries)
           paid == SumFunction([t \in plan.tasks |-> packets[t].mandatory])
<1>1. IsPlan(plan) /\ budget \in Nat /\ summaries \in [plan.tasks -> Nat]
  BY CellFacts DEF PackInvariant
<1>2. /\ plan' = plan /\ packets' = packets /\ summaries' = summaries /\ status = "measuring"
      /\ row'.achieved = Dispatched(packets) /\ row'.floor = Floor(plan, summaries)
      /\ row'.ceiling = Ceiling(plan, summaries) /\ row'.paid = paid
  BY DEF Measure, cell, Achieved
<1>3. DOMAIN packets = plan.tasks
  BY <1>2 DEF PackInvariant, Progress
<1>4. PacketsOf(plan, plan.tasks, summaries, packets)
  BY <1>3 DEF PackInvariant, PacketsKept
<1>5. \A t \in plan.tasks : packets[t].mandatory >= TaskFloor + CarryBlock(plan, t, summaries)
  <2> TAKE t \in plan.tasks
  <2>1. packets[t].mandatory = TaskFloor + CarryBlock(plan, t, summaries) /\ packets[t].mandatory \in Int
    BY <1>1, <1>4, BlockTypes DEF PacketsOf
  <2> QED
    BY <2>1
<1>6. paid = TaskFloor * n + C /\ paid <= Dispatched(packets)
  BY <1>1, <1>4, MandatoryParts
<1>7. TaskFloor * n \in Nat /\ C \in Nat
  <2>1. plan.tasks \in SUBSET plan.tasks
    OBVIOUS
  <2>2. C \in Nat
    BY <1>1, <1>4, <2>1, DispatchedSum
  <2> QED
    BY <1>1, <2>2, PlanFields, Constants
<1>8. Floor(plan, summaries) <= paid
  <2>1. Floor(plan, summaries) = TaskFloor * n + (IF plan.sequential THEN C ELSE 0)
    BY DEF Floor, Carries
  <2> HIDE DEF C, paid, n
  <2> QED
    BY <1>6, <1>7, <2>1
<1>9. Dispatched(packets) <= Ceiling(plan, summaries)
  <2>1. \A t \in plan.tasks : packets[t].tokens \in Nat /\ packets[t].tokens <= Whole(plan, t, summaries)
    BY <1>4 DEF PacketsOf
  <2>2. \A t \in plan.tasks : 2 * (n * Whole(plan, t, summaries)) < Unreachable
    BY UnreachableAssumption DEF PackInvariant, CellType
  <2> QED
    BY <1>1, <1>3, <2>1, <2>2, CeilingAbove
<1>10. \A t \in plan.tasks' : packets[t]'.mandatory >= TaskFloor + CarryBlock(plan, t, summaries)'
  BY <1>2, <1>5
<1> HIDE DEF paid
<1> QED
  BY <1>2, <1>6, <1>8, <1>9, <1>10 DEF WindowIsHonest

\* The row, once recorded, stays true to packets that no longer change.
LEMMA NextRow == PackInvariant /\ RowKept /\ [Next]_vars => RowKept'
<1> SUFFICES ASSUME PackInvariant, RowKept, [Next]_vars PROVE RowKept'
  OBVIOUS
<1>1. ASSUME status \in {"packing", "generating"}, row' = row PROVE RowKept'
  BY <1>1 DEF RowKept, WindowIsHonest
<1>2. ASSUME status' = status \/ status' \in {"splicing", "done", "raised"},
             UNCHANGED <<plan, summaries, packets, row>>
      PROVE  RowKept'
  BY <1>2 DEF RowKept, WindowIsHonest
<1>3. CASE PackLevel
  BY <1>1, <1>3 DEF PackLevel
<1>4. ASSUME NEW size \in Summaries, Generate(size) PROVE RowKept'
  BY <1>1, <1>4 DEF Generate
<1>5. CASE BackendRaises
  BY <1>2, <1>5 DEF BackendRaises, cell
<1>6. CASE Measure
  <2>1. status' \in {"raised", "splicing"}
    BY <1>6 DEF Measure
  <2> QED
    BY <1>6, <2>1, MeasureIsHonest DEF RowKept
<1>7. CASE Splice
  <2>1. status' = status /\ UNCHANGED <<plan, summaries, packets, row>>
    BY <1>7 DEF Splice, cell
  <2> QED
    BY <1>2, <2>1
<1>8. CASE Join
  BY <1>2, <1>8 DEF Join, cell
<1>9. CASE UNCHANGED vars
  BY <1>2, <1>9 DEF vars
<1> QED
  BY <1>3, <1>4, <1>5, <1>6, <1>7, <1>8, <1>9 DEF Next

\* WindowIsHonest: the floor and the ceiling that run_fragmented records, the latter
\* from a target out of reach (packing.py:430-472), enclose what was dispatched,
\* and every packet still carries the values its task consumes.
THEOREM WindowHolds == Spec => []WindowIsHonest
<1>1. Init => PackInvariant /\ RowKept
  BY InitPacks DEF Init, RowKept, WindowIsHonest
<1>2. PackInvariant /\ RowKept /\ [Next]_vars => PackInvariant' /\ RowKept'
  BY NextPacks, NextRow
<1>3. RowKept => WindowIsHonest
  BY DEF RowKept
<1> QED
  BY <1>1, <1>2, <1>3, PTL DEF Spec

-----------------------------------------------------------------------------
(* The splice *)

\* The order of the levels is the order of the plan.
LEMMA BeforeIsLess ==
  ASSUME IsPlan(plan), NEW s \in plan.tasks, NEW t \in plan.tasks
  PROVE  Before(s, t) <=> s < t
<1> DEFINE n == Cardinality(plan.tasks)
           P == Placed(plan)
           rank(x) == CHOOSE k \in Levels(plan) : x \in Level(plan, k)
<1>1. /\ n \in Nat \ {0} /\ plan.tasks = 1 .. n /\ P[0] = {} /\ P[n] = plan.tasks
      /\ \A k \in 0 .. n : \A j \in 0 .. k : P[j] \subseteq P[k]
  BY PlacedTasks
<1>2. \A k \in 1 .. n : \A u \in P[k] : 1 .. u \subseteq P[k]
  BY RoundsGrow
<1>3. ASSUME NEW x \in plan.tasks
      PROVE  rank(x) \in 1 .. n /\ x \in P[rank(x)] /\ x \notin P[rank(x) - 1]
  <2> DEFINE K == {k \in 1 .. n : x \in P[k]}
  <2>1. n \in K /\ K \in SUBSET Nat
    BY <1>1
  <2>2. PICK k \in K : \A j \in K : k <= j
    <3> HIDE DEF K
    <3> QED
      BY <2>1, LeastNumber
  <2>3. k \in 1 .. n /\ x \in P[k] /\ k \in Nat
    BY <2>1, <2>2
  <2>4. x \notin P[k - 1]
    <3>1. CASE k = 1
      BY <1>1, <3>1
    <3>2. CASE k # 1
      <4>1. k - 1 \in 1 .. n /\ ~(k <= k - 1)
        BY <1>1, <2>3, <3>2
      <4> QED
        BY <2>2, <4>1
    <3> QED
      BY <3>1, <3>2
  <2>5. k \in Levels(plan) /\ x \in Level(plan, k)
    BY <2>3, <2>4 DEF Levels, Level
  <2>6. rank(x) \in Levels(plan) /\ x \in Level(plan, rank(x))
    BY <2>5
  <2> HIDE DEF rank
  <2> QED
    BY <2>6 DEF Levels, Level
<1>4. Before(s, t) <=> rank(s) < rank(t) \/ (rank(s) = rank(t) /\ s < t)
  BY DEF Before
<1> HIDE DEF rank, P, n
<1>5. ASSUME NEW a \in plan.tasks, NEW b \in plan.tasks, rank(a) < rank(b)
      PROVE  a < b
  <2> DEFINE j == rank(a)
             k == rank(b)
  <2>1. j \in 1 .. n /\ k \in 1 .. n /\ j < k /\ a \in P[j] /\ b \notin P[k - 1] /\ a \in 1 .. n /\ b \in 1 .. n
    BY <1>1, <1>3, <1>5
  <2> HIDE DEF j, k
  <2>2. k - 1 \in 0 .. n /\ j \in 0 .. k - 1
    BY <1>1, <2>1
  <2>3. b \notin P[j]
    BY <1>1, <2>1, <2>2
  <2>4. b \notin 1 .. a
    BY <1>2, <2>1, <2>3
  <2> QED
    BY <1>1, <2>1, <2>4
<1>6. s < t \/ s = t \/ t < s
  BY <1>1
<1>7. rank(s) \in Int /\ rank(t) \in Int /\ s \in Int /\ t \in Int
  BY <1>1, <1>3
<1> QED
  BY <1>4, <1>5, <1>6, <1>7

\* The pieces of a text, by the task or the bridge they come from.
PieceOf == [of : {Bridge} \union plan.tasks, at : Nat]

\* One more piece: the pieces before it, the place of the new one, and how many
\* sentences there are, on the whole and added up.
LEMMA BehindFields ==
  ASSUME NEW x, x.pieces \in Seq(PieceOf), x.cursor \in Nat, x.total \in Nat,
         x.total <= x.cursor, x.pieces # <<>> => x.total >= 1,
         NEW of \in {Bridge} \union plan.tasks, NEW y \in Followed(x, of)
  PROVE  /\ y.pieces \in Seq(PieceOf) /\ Len(y.pieces) = Len(x.pieces) + 1
         /\ \A i \in 1 .. Len(x.pieces) : y.pieces[i] = x.pieces[i]
         /\ \E at \in Nat : /\ y.pieces[Len(x.pieces) + 1] = [of |-> of, at |-> at]
                            /\ at <= x.total /\ at < y.total
                            /\ y.total = y.cursor => x.total = x.cursor /\ at = x.total
         /\ y.cursor \in Nat /\ y.total \in Nat /\ y.total <= y.cursor
         /\ x.total <= y.total /\ x.cursor < y.cursor /\ y.total >= 1
<1>1. PICK size \in Sentences, fused \in IF x.pieces = <<>> THEN {0} ELSE {0, 1} :
        y = Behind(x, of, size, fused)
  BY DEF Followed
<1> DEFINE at == x.total - fused
<1>2. size \in Nat /\ size >= 1 /\ fused \in {0, 1}
  BY <1>1, CellAssumption
<1>3. fused = 1 => x.total >= 1
  BY <1>1
<1>4. at \in Nat /\ at <= x.total
  BY <1>2, <1>3
<1>5. /\ y.pieces = Append(x.pieces, [of |-> of, at |-> at])
      /\ y.cursor = x.cursor + size /\ y.total = at + size
  BY <1>1 DEF Behind
<1>6. at < y.total /\ y.cursor \in Nat /\ y.total \in Nat /\ y.total <= y.cursor
      /\ x.cursor < y.cursor /\ y.total >= 1
  BY <1>2, <1>4, <1>5
<1>7. x.total <= y.total
  BY <1>2, <1>5
<1>8. y.total = y.cursor => x.total = x.cursor /\ at = x.total
  BY <1>2, <1>5
<1>9. [of |-> of, at |-> at] \in PieceOf
  BY <1>4 DEF PieceOf
<1> DEFINE new == [of |-> of, at |-> at]
<1> HIDE DEF at, new
<1>10. /\ y.pieces \in Seq(PieceOf) /\ Len(y.pieces) = Len(x.pieces) + 1
       /\ \A i \in 1 .. Len(x.pieces) : y.pieces[i] = x.pieces[i]
       /\ y.pieces[Len(x.pieces) + 1] = new
  <2>1. y.pieces = Append(x.pieces, new) /\ new \in PieceOf
    BY <1>5, <1>9 DEF new
  <2> QED
    BY <2>1
<1> QED
  BY <1>4, <1>6, <1>7, <1>8, <1>10 DEF new

\* The splice so far: the tasks up to some number have had their turn, the fragment
\* of each is a piece unless it is empty, in the order of the plan, and the offset
\* of each is in the text, at its place or behind it.
Spliced ==
    LET pieces == spliced.pieces
    IN  /\ status \in {"packing", "generating", "measuring"} => spliced = NoText /\ offsets = <<>>
        /\ pieces \in Seq(PieceOf)
        /\ spliced.cursor \in Nat /\ spliced.total \in Nat /\ spliced.total <= spliced.cursor
        /\ pieces # <<>> => spliced.total >= 1
        /\ DOMAIN offsets \subseteq plan.tasks
        /\ status = "done" => DOMAIN offsets = plan.tasks
        /\ \A t \in DOMAIN offsets : \A s \in plan.tasks \ DOMAIN offsets : t < s
        /\ \A t \in DOMAIN offsets \ empty : \E i \in 1 .. Len(pieces) : pieces[i].of = t
        /\ \A i \in 1 .. Len(pieces) : pieces[i].of # Bridge =>
              /\ pieces[i].of \in DOMAIN offsets \ empty
              /\ offsets[pieces[i].of] \in Nat
              /\ pieces[i].at <= offsets[pieces[i].of]
              /\ pieces[i].at < spliced.total
              /\ spliced.total = spliced.cursor => offsets[pieces[i].of] = pieces[i].at
              /\ status = "done" => offsets[pieces[i].of] < spliced.total
        /\ \A i, j \in 1 .. Len(pieces) :
              i < j /\ pieces[i].of # Bridge /\ pieces[j].of # Bridge => pieces[i].of < pieces[j].of

\* Nothing is spliced before the last level is done.
LEMMA SplicedAtFirst == spliced = NoText /\ offsets = <<>> /\ status # "done" => Spliced
<1> SUFFICES ASSUME spliced = NoText, offsets = <<>>, status # "done" PROVE Spliced
  OBVIOUS
<1>1. /\ spliced.pieces = <<>> /\ spliced.cursor = 0 /\ spliced.total = 0
      /\ DOMAIN offsets = {} /\ Len(spliced.pieces) = 0
  BY DEF NoText
<1>2. spliced.pieces \in Seq(PieceOf)
  BY <1>1
<1> QED
  BY <1>1, <1>2 DEF Spliced

\* Nor is anything after a step that splices nothing.
LEMMA NothingSpliced == spliced' = NoText /\ offsets' = <<>> /\ status' # "done" => Spliced'
<1> SUFFICES ASSUME spliced' = NoText, offsets' = <<>>, status' # "done" PROVE Spliced'
  OBVIOUS
<1>1. /\ spliced.pieces' = <<>> /\ spliced.cursor' = 0 /\ spliced.total' = 0
      /\ DOMAIN offsets' = {} /\ Len(spliced.pieces') = 0
  BY DEF NoText
<1>2. spliced.pieces' \in Seq(PieceOf')
  BY <1>1
<1> QED
  BY <1>1, <1>2 DEF Spliced

\* One more fragment, with or without a bridge, keeps the splice in order.
LEMMA SpliceStep == PackInvariant /\ Spliced /\ Splice => Spliced'
<1> SUFFICES ASSUME PackInvariant, Spliced, Splice PROVE Spliced'
  OBVIOUS
<1> DEFINE D == DOMAIN offsets
           n == Cardinality(plan.tasks)
           pieces == spliced.pieces
           last == Len(pieces)
<1>1. IsPlan(plan)
  BY CellFacts DEF PackInvariant
<1>2. n \in Nat \ {0} /\ plan.tasks = 1 .. n /\ Bridge = 0
  BY <1>1, PlanFields DEF Bridge
<1> DEFINE starts(t, before) ==
              offsets' = [s \in D \union {t} |->
                            IF s = t THEN OffsetBehind(spliced, before) ELSE offsets[s]]
           follows(t, before) == IF t \in empty THEN spliced' = before ELSE spliced' \in Followed(before, t)
<1>3a. PICK t \in plan.tasks \ D :
        /\ \A s \in plan.tasks \ D : s # t => Before(t, s)
        /\ \E before \in {spliced} \union
                  (IF t \in empty \/ pieces = <<>> THEN {} ELSE Followed(spliced, Bridge)) :
              starts(t, before) /\ follows(t, before)
  BY DEF Splice
<1>3. PICK before \in {spliced} \union
                  (IF t \in empty \/ pieces = <<>> THEN {} ELSE Followed(spliced, Bridge)) :
        starts(t, before) /\ follows(t, before)
  BY <1>3a
<1>4. /\ status = "splicing" /\ status' = status /\ plan' = plan /\ empty' = empty
  BY DEF Splice, cell
<1>5. /\ pieces \in Seq(PieceOf) /\ D \subseteq plan.tasks /\ last \in Nat
      /\ spliced.cursor \in Nat /\ spliced.total \in Nat /\ spliced.total <= spliced.cursor
      /\ pieces # <<>> => spliced.total >= 1
  BY DEF Spliced
<1>6. /\ \A u \in D : \A s \in plan.tasks \ D : u < s
      /\ \A u \in D \ empty : \E i \in 1 .. last : pieces[i].of = u
      /\ \A i, j \in 1 .. last :
            i < j /\ pieces[i].of # Bridge /\ pieces[j].of # Bridge => pieces[i].of < pieces[j].of
  BY DEF Spliced
<1>7. ASSUME NEW i \in 1 .. last, pieces[i].of # Bridge
      PROVE  /\ pieces[i].of \in D \ empty /\ offsets[pieces[i].of] \in Nat
             /\ pieces[i].at <= offsets[pieces[i].of] /\ pieces[i].at < spliced.total
             /\ spliced.total = spliced.cursor => offsets[pieces[i].of] = pieces[i].at
  BY <1>7 DEF Spliced
<1>8. \A i \in 1 .. last : pieces[i].at \in Nat
  <2>1. \A i \in 1 .. last : pieces[i] \in PieceOf
    <3> HIDE DEF pieces
    <3> QED
      BY <1>5
  <2> QED
    BY <2>1 DEF PieceOf
<1>9. Bridge \in {Bridge} \union plan.tasks
  OBVIOUS
<1>10. /\ before.pieces \in Seq(PieceOf) /\ Len(before.pieces) \in Nat /\ last <= Len(before.pieces)
       /\ \A i \in 1 .. last : before.pieces[i] = pieces[i]
       /\ \A i \in 1 .. Len(before.pieces) : i \notin 1 .. last => before.pieces[i].of = Bridge
       /\ before.cursor \in Nat /\ before.total \in Nat /\ before.total <= before.cursor
       /\ before.pieces # <<>> => before.total >= 1
       /\ spliced.total <= before.total
       /\ before.total = before.cursor => spliced.total = spliced.cursor
  <2>1. CASE before = spliced
    BY <1>5, <2>1
  <2>2. CASE before # spliced
    <3>1. before \in Followed(spliced, Bridge)
      BY <1>3, <2>2
    <3>2. /\ before.pieces \in Seq(PieceOf) /\ Len(before.pieces) = last + 1
          /\ \A i \in 1 .. last : before.pieces[i] = pieces[i]
          /\ \E at \in Nat : before.pieces[last + 1] = [of |-> Bridge, at |-> at]
          /\ before.cursor \in Nat /\ before.total \in Nat /\ before.total <= before.cursor
          /\ spliced.total <= before.total /\ before.total >= 1
          /\ before.total = before.cursor => spliced.total = spliced.cursor
      <4> HIDE DEF Bridge
      <4> QED
        BY <1>5, <1>9, <3>1, BehindFields
    <3>3. \A i \in 1 .. Len(before.pieces) : i \notin 1 .. last => i = last + 1
      BY <1>5, <3>2
    <3>4. before.pieces[last + 1].of = Bridge
      BY <3>2
    <3> QED
      BY <1>5, <3>2, <3>3, <3>4
  <2> QED
    BY <2>1, <2>2
<1>11. /\ DOMAIN offsets' = D \union {t}
       /\ offsets'[t] = before.cursor
       /\ \A u \in D : offsets'[u] = offsets[u]
  <2>1. offsets' = [s \in D \union {t} |-> IF s = t THEN before.cursor ELSE offsets[s]]
    BY <1>3 DEF OffsetBehind
  <2>2. t \notin D
    BY <1>3a
  <2> HIDE DEF D
  <2> QED
    BY <2>1, <2>2
<1>12. t \in plan.tasks /\ t \notin D /\ t # Bridge
  BY <1>2, <1>3a
<1>13. \A s \in plan.tasks \ (D \union {t}) : t < s
  BY <1>1, <1>3a, BeforeIsLess
<1> DEFINE after == spliced'
           texts == after.pieces
           added == Len(before.pieces) + 1
<1>14. /\ texts \in Seq(PieceOf) /\ Len(texts) \in Nat /\ Len(before.pieces) <= Len(texts)
       /\ \A i \in 1 .. Len(before.pieces) : texts[i] = before.pieces[i]
       /\ after.cursor \in Nat /\ after.total \in Nat /\ after.total <= after.cursor
       /\ texts # <<>> => after.total >= 1
       /\ before.total <= after.total
       /\ after.total = after.cursor => before.total = before.cursor
       /\ \A i \in 1 .. Len(texts) : i \notin 1 .. Len(before.pieces) => i = added /\ t \notin empty
       /\ t \notin empty => /\ Len(texts) = added /\ texts[added].of = t
                            /\ texts[added].at \in Nat
                            /\ texts[added].at <= before.total /\ texts[added].at < after.total
                            /\ after.total = after.cursor => texts[added].at = before.total
  <2>1. CASE t \in empty
    <3>1. after = before
      BY <1>3, <2>1
    <3> HIDE DEF after
    <3> QED
      BY <1>10, <2>1, <3>1
  <2>2. CASE t \notin empty
    <3>1. after \in Followed(before, t)
      BY <1>3, <2>2
    <3>2. t \in {Bridge} \union plan.tasks
      BY <1>12
    <3> HIDE DEF after
    <3>3. /\ texts \in Seq(PieceOf) /\ Len(texts) = added
          /\ \A i \in 1 .. Len(before.pieces) : texts[i] = before.pieces[i]
          /\ \E at \in Nat : /\ texts[added] = [of |-> t, at |-> at]
                             /\ at <= before.total /\ at < after.total
                             /\ after.total = after.cursor => before.total = before.cursor /\ at = before.total
          /\ after.cursor \in Nat /\ after.total \in Nat /\ after.total <= after.cursor
          /\ before.total <= after.total /\ after.total >= 1
      BY <1>10, <3>1, <3>2, BehindFields
    <3>4. \A i \in 1 .. Len(texts) : i \notin 1 .. Len(before.pieces) => i = added
      BY <1>10, <3>3
    <3>5. /\ texts[added].of = t /\ texts[added].at \in Nat
          /\ texts[added].at <= before.total /\ texts[added].at < after.total
          /\ after.total = after.cursor => before.total = before.cursor /\ texts[added].at = before.total
      BY <3>3
    <3>6. Len(texts) \in Nat /\ Len(before.pieces) <= Len(texts)
      BY <1>10, <3>3
    <3>7. after.total = after.cursor => before.total = before.cursor
      BY <3>5
    <3> HIDE DEF texts, added
    <3> QED
      BY <2>2, <3>3, <3>4, <3>5, <3>6, <3>7
  <2> QED
    BY <2>1, <2>2
<1> HIDE DEF D, n, pieces, last, after, texts, added
<1>15. last \in Nat /\ last <= Len(before.pieces)
  BY <1>5, <1>10
<1>16. ASSUME NEW i \in 1 .. Len(texts), texts[i].of # Bridge
       PROVE  \/ i \in 1 .. last /\ texts[i] = pieces[i] /\ pieces[i].of \in D \ empty
              \/ i = added /\ t \notin empty /\ texts[i].of = t
  <2>1. CASE i \in 1 .. last
    <3>1. i \in 1 .. Len(before.pieces)
      BY <1>10, <1>15, <2>1
    <3>2. texts[i] = pieces[i]
      BY <1>10, <1>14, <2>1, <3>1
    <3> QED
      BY <1>7, <1>16, <2>1, <3>2
  <2>2. CASE i \notin 1 .. last /\ i \in 1 .. Len(before.pieces)
    BY <1>10, <1>14, <1>16, <2>2
  <2>3. CASE i \notin 1 .. Len(before.pieces)
    BY <1>14, <2>3
  <2> QED
    BY <2>1, <2>2, <2>3
<1>17. ASSUME NEW u \in (D \union {t}) \ empty PROVE \E i \in 1 .. Len(texts) : texts[i].of = u
  <2>1. CASE u = t
    <3>1. added \in 1 .. Len(texts) /\ texts[added].of = t
      BY <1>10, <1>14, <1>17, <2>1 DEF added
    <3> QED
      BY <2>1, <3>1
  <2>2. CASE u # t
    <3>1. PICK i \in 1 .. last : pieces[i].of = u
      BY <1>6, <1>17, <2>2
    <3>2. i \in 1 .. Len(before.pieces) /\ i \in 1 .. Len(texts)
      BY <1>10, <1>14, <1>15
    <3>3. texts[i] = pieces[i]
      BY <1>10, <1>14, <3>2
    <3> QED
      BY <3>1, <3>2, <3>3
  <2> QED
    BY <2>1, <2>2
<1>18. ASSUME NEW i \in 1 .. Len(texts), texts[i].of # Bridge
       PROVE  /\ texts[i].of \in (D \union {t}) \ empty
              /\ offsets'[texts[i].of] \in Nat
              /\ texts[i].at <= offsets'[texts[i].of]
              /\ texts[i].at < after.total
              /\ after.total = after.cursor => offsets'[texts[i].of] = texts[i].at
  <2>1. CASE i \in 1 .. last /\ texts[i] = pieces[i] /\ pieces[i].of \in D \ empty
    <3>1. /\ offsets[pieces[i].of] \in Nat
          /\ pieces[i].at <= offsets[pieces[i].of] /\ pieces[i].at < spliced.total
          /\ spliced.total = spliced.cursor => offsets[pieces[i].of] = pieces[i].at
      BY <1>7, <1>18, <2>1
    <3>2. offsets'[texts[i].of] = offsets[pieces[i].of]
      BY <1>11, <2>1
    <3>3. spliced.total <= after.total /\ spliced.total \in Nat /\ after.total \in Nat
      BY <1>5, <1>10, <1>14
    <3>4. pieces[i].at \in Nat
      BY <1>8, <2>1
    <3>5. pieces[i].at < after.total
      BY <3>1, <3>3, <3>4
    <3>6. after.total = after.cursor => spliced.total = spliced.cursor
      BY <1>10, <1>14
    <3> QED
      BY <2>1, <3>1, <3>2, <3>5, <3>6
  <2>2. CASE i = added /\ t \notin empty /\ texts[i].of = t
    <3>1. /\ texts[i].at \in Nat /\ texts[i].at <= before.total /\ texts[i].at < after.total
          /\ after.total = after.cursor => texts[i].at = before.total /\ before.total = before.cursor
      BY <1>14, <2>2
    <3>2. offsets'[texts[i].of] = before.cursor
      BY <1>11, <2>2
    <3>3. texts[i].at <= before.cursor
      BY <1>10, <3>1
    <3> QED
      BY <1>10, <2>2, <3>1, <3>2, <3>3
  <2> QED
    BY <1>16, <1>18, <2>1, <2>2
<1>19. ASSUME NEW i \in 1 .. Len(texts), NEW j \in 1 .. Len(texts), i < j,
              texts[i].of # Bridge, texts[j].of # Bridge
       PROVE  texts[i].of < texts[j].of
  <2>1. added \in Nat /\ \A k \in 1 .. Len(texts) : k <= added
    <3>1. added \in Nat
      BY <1>10 DEF added
    <3>2. \A k \in 1 .. Len(before.pieces) : k <= added
      BY <1>10 DEF added
    <3> QED
      BY <1>14, <3>1, <3>2
  <2>2. i # added
    BY <1>14, <1>19, <2>1
  <2>3. i \in 1 .. last /\ texts[i] = pieces[i] /\ pieces[i].of \in D \ empty
    BY <1>16, <1>19, <2>2
  <2>4. CASE j = added /\ texts[j].of = t
    BY <1>6, <1>12, <2>3, <2>4
  <2>5. CASE j \in 1 .. last /\ texts[j] = pieces[j]
    BY <1>6, <1>19, <2>3, <2>5
  <2> QED
    BY <1>16, <1>19, <2>4, <2>5
<1>20. ASSUME NEW u \in D \union {t}, NEW s \in plan.tasks \ (D \union {t}) PROVE u < s
  BY <1>6, <1>13
<1>21. D \union {t} \subseteq plan.tasks
  BY <1>5, <1>12
<1>22. PieceOf' = PieceOf
  BY <1>4 DEF PieceOf
<1>23. texts \in Seq(PieceOf) /\ after.cursor \in Nat /\ after.total \in Nat /\ after.total <= after.cursor
       /\ (texts # <<>> => after.total >= 1)
  BY <1>14
<1> QED
  BY <1>4, <1>11, <1>17, <1>18, <1>19, <1>20, <1>21, <1>22, <1>23 DEF Spliced, after, texts

\* Clamping leaves an offset in the text, at its place or behind it.
LEMMA JoinStep == PackInvariant /\ Spliced /\ Join => Spliced'
<1> SUFFICES ASSUME PackInvariant, Spliced, Join PROVE Spliced'
  OBVIOUS
<1> DEFINE pieces == spliced.pieces
           total == spliced.total
<1>1. /\ status' = "done" /\ plan' = plan /\ empty' = empty /\ spliced' = spliced
      /\ DOMAIN offsets = plan.tasks /\ DOMAIN offsets' = plan.tasks
  BY DEF Join, cell
<1>2. /\ \A t \in plan.tasks : offsets[t] < total => offsets'[t] = offsets[t]
      /\ \A t \in plan.tasks : ~(offsets[t] < total) => offsets'[t] = Larger(total - 1, 0)
  BY DEF Join
<1>3. /\ pieces \in Seq(PieceOf) /\ total \in Nat /\ spliced.cursor \in Nat /\ total <= spliced.cursor
      /\ pieces # <<>> => total >= 1
      /\ \A t \in plan.tasks \ empty : \E i \in 1 .. Len(pieces) : pieces[i].of = t
      /\ \A i, j \in 1 .. Len(pieces) :
            i < j /\ pieces[i].of # Bridge /\ pieces[j].of # Bridge => pieces[i].of < pieces[j].of
  BY <1>1 DEF Spliced
<1>4. ASSUME NEW i \in 1 .. Len(pieces), pieces[i].of # Bridge
      PROVE  /\ pieces[i].of \in plan.tasks \ empty
             /\ offsets'[pieces[i].of] \in Nat
             /\ pieces[i].at <= offsets'[pieces[i].of]
             /\ pieces[i].at < total
             /\ total = spliced.cursor => offsets'[pieces[i].of] = pieces[i].at
             /\ offsets'[pieces[i].of] < total
  <2> DEFINE t == pieces[i].of
             at == pieces[i].at
  <2>1. /\ t \in plan.tasks \ empty /\ offsets[t] \in Nat /\ at <= offsets[t] /\ at < total
        /\ total = spliced.cursor => offsets[t] = at
    BY <1>1, <1>4 DEF Spliced
  <2>2. at \in Nat
    <3>1. pieces[i] \in PieceOf
      <4> HIDE DEF pieces
      <4> QED
        BY <1>3
    <3> QED
      BY <3>1 DEF PieceOf
  <2> HIDE DEF t, at
  <2>3. CASE offsets[t] < total
    <3>1. offsets'[t] = offsets[t]
      BY <1>2, <2>1, <2>3
    <3> QED
      BY <2>1, <2>3, <3>1 DEF t, at
  <2>4. CASE ~(offsets[t] < total)
    <3>1. offsets'[t] = total - 1
      BY <1>2, <1>3, <2>1, <2>2, <2>4 DEF Larger
    <3>2. total # spliced.cursor
      BY <2>1, <2>4
    <3>3. total - 1 \in Nat /\ at <= total - 1 /\ total - 1 < total
      BY <1>3, <2>1, <2>2
    <3> QED
      BY <2>1, <3>1, <3>2, <3>3 DEF t, at
  <2> QED
    BY <2>3, <2>4
<1>5. PieceOf' = PieceOf
  BY <1>1 DEF PieceOf
<1> QED
  BY <1>1, <1>3, <1>4, <1>5 DEF Spliced

\* Every step keeps the splice in order.
LEMMA NextSpliced == PackInvariant /\ Spliced /\ [Next]_vars => Spliced'
<1> SUFFICES ASSUME PackInvariant, Spliced, [Next]_vars PROVE Spliced'
  OBVIOUS
<1>1. ASSUME status \in {"packing", "generating", "measuring"}, UNCHANGED <<plan, spliced, offsets>>,
             status' # "done"
      PROVE  Spliced'
  <2>1. spliced' = NoText /\ offsets' = <<>>
    BY <1>1 DEF Spliced
  <2> QED
    BY <1>1, <2>1, NothingSpliced
<1>2. CASE PackLevel
  BY <1>1, <1>2 DEF PackLevel, text, cell
<1>3. ASSUME NEW size \in Summaries, Generate(size) PROVE Spliced'
  BY <1>1, <1>3 DEF Generate, text, cell
<1>4. CASE BackendRaises
  BY <1>1, <1>4 DEF BackendRaises, text, cell
<1>5. CASE Measure
  BY <1>1, <1>5 DEF Measure, text, cell
<1>6. CASE Splice
  BY <1>6, SpliceStep
<1>7. CASE Join
  BY <1>7, JoinStep
<1>8. CASE UNCHANGED vars
  BY <1>8 DEF vars, Spliced, PieceOf
<1> QED
  BY <1>2, <1>3, <1>4, <1>5, <1>6, <1>7, <1>8 DEF Next

\* A splice in order, when complete, has lost no fragment.
LEMMA SplicedIsWhole == PackInvariant /\ Spliced => NoFragmentLost
<1> SUFFICES ASSUME PackInvariant, Spliced, status = "done" PROVE NoFragmentLost
  BY DEF NoFragmentLost
<1> DEFINE told == plan.tasks \ empty
           pieces == spliced.pieces
           places == {i \in 1 .. Len(pieces) : pieces[i].of # Bridge}
<1>1. IsPlan(plan) /\ DOMAIN offsets = plan.tasks
  BY CellFacts DEF PackInvariant, Spliced
<1>2. \A t \in plan.tasks : t # Bridge
  BY <1>1, PlanFields DEF Bridge
<1>3. \A i \in places :
         /\ pieces[i].of \in told
         /\ pieces[i].at <= offsets[pieces[i].of]
         /\ offsets[pieces[i].of] < spliced.total
         /\ spliced.total = spliced.cursor => offsets[pieces[i].of] = pieces[i].at
  BY <1>1 DEF Spliced
<1>4. \A t \in told : \E i \in places : pieces[i].of = t
  <2>1. \A t \in told : \E i \in 1 .. Len(pieces) : pieces[i].of = t
    BY <1>1 DEF Spliced
  <2> QED
    BY <1>2, <2>1
<1>5. {pieces[i].of : i \in places} = told
  BY <1>3, <1>4
<1>6. \A i, j \in places : i < j => Before(pieces[i].of, pieces[j].of)
  <2>1. \A i, j \in places : i < j => pieces[i].of < pieces[j].of
    BY DEF Spliced
  <2> QED
    BY <1>1, <1>3, <2>1, BeforeIsLess
<1> QED
  BY <1>3, <1>5, <1>6 DEF NoFragmentLost

\* NoFragmentLost: select_then_splice puts every fragment that is not empty in the
\* text once, in the order of the plan, and says of each that it starts at a sentence
\* of the text, its own or a later one, and its own when no two pieces share one, for
\* every choice of bad seams, bridges that fail, empty fragments, numbers of
\* sentences and seams at which two sentences become one.
THEOREM SpliceHolds == Spec => []NoFragmentLost
<1>1. Init => PackInvariant /\ Spliced
  <2> SUFFICES ASSUME Init PROVE Spliced
    BY InitPacks
  <2>1. spliced = NoText /\ offsets = <<>> /\ status = "packing"
    BY DEF Init
  <2> QED
    BY <2>1, SplicedAtFirst
<1>2. PackInvariant /\ Spliced /\ [Next]_vars => PackInvariant' /\ Spliced'
  BY NextPacks, NextSpliced
<1>3. PackInvariant /\ Spliced => NoFragmentLost
  BY SplicedIsWhole
<1> QED
  BY <1>1, <1>2, <1>3, PTL DEF Spec

-----------------------------------------------------------------------------
(* Dependent tasks *)

\* A predecessor with a summary is carried by who consumes its value.
LEMMA CarryThere ==
  ASSUME NEW p, IsPlan(p), NEW t \in p.tasks, NEW s \in [p.tasks -> Nat], t \in p.consumes,
         NEW d \in p.depends[t], s[d] > 0
  PROVE  Mandatory(p, t, s) > TaskFloor
<1> DEFINE relevant == {x \in p.depends[t] : s[x] > 0}
           f == [x \in relevant |-> 1 + s[x]]
<1>1. p.depends[t] \subseteq p.tasks /\ IsFiniteSet(p.depends[t])
  BY PlanFields, FS_Subset
<1>2. IsFiniteSet(relevant) /\ d \in relevant /\ relevant # {}
  BY <1>1, FS_Subset
<1>3. \A x \in relevant : f[x] \in Nat \ {0}
  BY <1>1
<1>4. CarryBlock(p, t, s) = MarkerTokens + SumFunctionOnSet(f, relevant)
  <2>1. CarryBlock(p, t, s) = MarkerTokens + SumFunction(f)
    BY <1>2 DEF CarryBlock, PredecessorBlock
  <2>2. SumFunction(f) = SumFunctionOnSet(f, relevant)
    BY DEF SumFunction
  <2> HIDE DEF f, relevant
  <2> QED
    BY <2>1, <2>2
<1> HIDE DEF f, relevant
<1>5. SumFunctionOnSet(f, relevant) \in Nat \ {0}
  <2>1. SumFunctionOnSet(f, relevant) = f[d] + SumFunctionOnSet(f, relevant \ {d})
    BY <1>2, <1>3, SumOut
  <2>2. IsFiniteSet(relevant \ {d}) /\ \A x \in relevant \ {d} : f[x] \in Nat
    BY <1>2, <1>3, FS_Subset
  <2>3. SumFunctionOnSet(f, relevant \ {d}) \in Nat
    BY <2>2, SumType
  <2> QED
    BY <1>2, <1>3, <2>1, <2>3
<1>6. Mandatory(p, t, s) = TaskFloor + CarryBlock(p, t, s)
  BY BlockTypes
<1> QED
  BY <1>4, <1>5, <1>6, Constants

\* "A dependent task without its mandatory carry" (packing.py:656): what the packer
\* builds is never refused for it, so that the invariant guards against other code.
DependentsCarry == [][PackLevel => status' = "generating"]_vars

\* The packets of a level carry the values that their tasks consume, whatever the
\* budget left for them (packing.py:656-659).
THEOREM DependentsAlwaysCarry == Spec => DependentsCarry
<1> DEFINE Carried == PackLevel => status' = "generating"
<1>1. PackInvariant /\ [Next]_vars => [Carried]_vars
  <2> SUFFICES ASSUME PackInvariant, PackLevel PROVE status' = "generating"
    OBVIOUS
  <2> DEFINE L == Level(plan, level)
             W == WeightOf(plan, plan.tasks)
             H == ShareOf(plan, budget, L)
             built == BuildPackets(plan, L, summaries, H, W)
  <2>1. IsPlan(plan) /\ budget \in Nat /\ summaries \in [plan.tasks -> Nat]
    BY CellFacts DEF PackInvariant
  <2>2. level \in Levels(plan)
    BY DEF PackInvariant, Progress, PackLevel
  <2>3. level \in 1 .. Cardinality(plan.tasks) /\ L # {} /\ L \subseteq plan.tasks
    BY <2>1, <2>2, LevelFacts
  <2>4. Share(L) = H /\ Weight(plan.tasks) = W
    BY ShareIs
  <2>5. W \in Nat \ {0} /\ H \in Nat
    BY <2>1, <2>3, WeightFacts, ShareFacts
  <2>6. PacketsOf(plan, L, summaries, built)
    <3> HIDE DEF W, H
    <3> QED
      BY <2>1, <2>3, <2>5, LevelWithinShare
  <2>7. ASSUME NEW t \in L PROVE ~Unanswerable(t, built)
    <3>1. t \in plan.tasks /\ built[t].carry = (Mandatory(plan, t, summaries) > TaskFloor)
      BY <2>3, <2>6 DEF PacketsOf
    <3> HIDE DEF built
    <3> QED
      BY <2>1, <3>1, CarryThere DEF Unanswerable
  <2> HIDE DEF L, W, H
  <2>8. status' = "raised" => \E t \in L : Unanswerable(t, built)
    BY <2>4 DEF PackLevel, L
  <2>9. status' \in {"raised", "generating"}
    BY DEF PackLevel
  <2> QED
    BY <2>7, <2>8, <2>9
<1>2. Init => PackInvariant
  BY InitPacks
<1>3. PackInvariant /\ [Next]_vars => PackInvariant'
  BY NextPacks
<1> QED
  BY <1>1, <1>2, <1>3, PTL DEF Spec, DependentsCarry

==============================================================================
