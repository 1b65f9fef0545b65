---------------------------- MODULE PackingProofs ----------------------------
(***************************************************************************)
(* Lemmas about Packing, for every plan, budget and set of summaries: what *)
(* sums over a finite set are, what rounding moves, which tasks make up a  *)
(* level, that the packets of a level stay within the budget they share,   *)
(* and that no packets hold more than the ceiling.                         *)
(***************************************************************************)
EXTENDS Packing, NaturalsInduction, WellFoundedInduction, FiniteSetTheorems, TLAPS

-----------------------------------------------------------------------------
(* Induction over the subsets of a finite set *)

\* A set of numbers has a least one.
LEMMA LeastNumber ==
  ASSUME NEW T \in SUBSET Nat, T # {}
  PROVE  \E n \in T : \A m \in T : n <= m
<1> DEFINE R == OpToRel(<, Nat)
<1>1. IsWellFoundedOn(R, Nat)
  BY NatLessThanWellFounded
<1> HIDE DEF R
<1>2. PICK n \in T : \A m \in T : <<m, n>> \notin R
  BY <1>1, WFMin
<1>3. \A m \in T : ~(m < n)
  BY <1>2 DEF R, OpToRel
<1> QED
  BY <1>3

\* Induction over the subsets of a finite set, G being those for which a claim holds.
LEMMA SubsetInduction ==
  ASSUME NEW S, IsFiniteSet(S), NEW G,
         {} \in G,
         \A T \in SUBSET S : T # {} /\ (\A x \in T : T \ {x} \in G) => T \in G
  PROVE  S \in G
<1> SUFFICES ASSUME S \notin G PROVE FALSE
  OBVIOUS
<1> DEFINE Bad == {T \in SUBSET S : T \notin G}
           Sizes == {Cardinality(T) : T \in Bad}
<1>1. \A T \in SUBSET S : IsFiniteSet(T) /\ Cardinality(T) \in Nat
  BY FS_Subset, FS_CardinalityType
<1>2. Sizes \in SUBSET Nat /\ Sizes # {}
  BY <1>1
<1>3. PICK T \in Bad : \A U \in Bad : Cardinality(T) <= Cardinality(U)
  <2> HIDE DEF Sizes
  <2>1. PICK n \in Sizes : \A m \in Sizes : n <= m
    BY <1>2, LeastNumber
  <2> QED
    BY <2>1 DEF Sizes
<1>4. \A x \in T : T \ {x} \in G
  <2> TAKE x \in T
  <2>1. Cardinality(T \ {x}) = Cardinality(T) - 1
    BY <1>1, FS_RemoveElement
  <2>2. T \ {x} \in SUBSET S
    OBVIOUS
  <2> QED
    BY <1>1, <1>3, <2>1, <2>2
<1> QED
  BY <1>4

-----------------------------------------------------------------------------
(* What SumFunctionOnSet is *)

First(s) == CHOOSE x \in s : TRUE

\* g sums f over each subset of S.
Sums(f, S, g) ==
    g = [s \in SUBSET S |-> IF s = {} THEN 0 ELSE f[First(s)] + g[s \ {First(s)}]]

TheSums(f, S) == CHOOSE g : Sums(f, S, g)

\* A sum over a set is the value there of the function that the library chooses.
LEMMA SumIsFold ==
  ASSUME NEW f, NEW S
  PROVE  SumFunctionOnSet(f, S) = TheSums(f, S)[S]
BY Zenon DEF TheSums, Sums, First, SumFunctionOnSet, FoldFunctionOnSet, MapThenFoldSet

\* The element taken out of a set is one of its own.
LEMMA FirstIn ==
  ASSUME NEW s, s # {}
  PROVE  First(s) \in s
BY DEF First

\* g sums f over each subset of S: without the equation between functions.
SumsAt(f, S, g) ==
    \A s \in SUBSET S : g[s] = IF s = {} THEN 0 ELSE f[First(s)] + g[s \ {First(s)}]

\* The function equation and its values at each subset say the same.
LEMMA SumsAreSums ==
  ASSUME NEW f, NEW S, NEW g
  PROVE  /\ Sums(f, S, g) => SumsAt(f, S, g)
         /\ SumsAt(f, S, g) /\ g = [s \in SUBSET S |-> g[s]] => Sums(f, S, g)
<1>1. ASSUME Sums(f, S, g) PROVE SumsAt(f, S, g)
  <2> DEFINE v(s) == IF s = {} THEN 0 ELSE f[First(s)] + g[s \ {First(s)}]
  <2>1. g = [s \in SUBSET S |-> v(s)]
    BY <1>1 DEF Sums
  <2> HIDE DEF v
  <2>2. \A s \in SUBSET S : g[s] = v(s)
    BY <2>1
  <2> QED
    BY <2>2 DEF v, SumsAt
<1>2. ASSUME SumsAt(f, S, g), g = [s \in SUBSET S |-> g[s]] PROVE Sums(f, S, g)
  <2> DEFINE v(s) == IF s = {} THEN 0 ELSE f[First(s)] + g[s \ {First(s)}]
  <2>1. \A s \in SUBSET S : g[s] = v(s)
    BY <1>2 DEF SumsAt
  <2> HIDE DEF v
  <2>2. g = [s \in SUBSET S |-> v(s)]
    BY <1>2, <2>1
  <2> QED
    BY <2>2 DEF v, Sums
<1> QED
  BY <1>1, <1>2

\* Two functions that sum f over the subsets of a finite set agree.
LEMMA SumsUnique ==
  ASSUME NEW f, NEW S, IsFiniteSet(S), NEW g, NEW h, SumsAt(f, S, g), SumsAt(f, S, h)
  PROVE  g[S] = h[S]
<1> DEFINE G == {T \in SUBSET S : g[T] = h[T]}
<1>1. {} \in G
  BY DEF SumsAt
<1>2. ASSUME NEW T \in SUBSET S, T # {}, \A x \in T : T \ {x} \in G PROVE T \in G
  <2>1. First(T) \in T
    BY <1>2, FirstIn
  <2>2. g[T \ {First(T)}] = h[T \ {First(T)}]
    BY <1>2, <2>1
  <2> QED
    BY <1>2, <2>2 DEF SumsAt
<1>3. S \in G
  <2> HIDE DEF G
  <2> QED
    BY <1>1, <1>2, SubsetInduction
<1> QED
  BY <1>3

\* The sums over the subsets of a subset are among those over the subsets.
LEMMA SumsBelow ==
  ASSUME NEW f, NEW S, NEW g, SumsAt(f, S, g), NEW T \in SUBSET S
  PROVE  SumsAt(f, T, g)
BY DEF SumsAt

\* Over a finite set there is such a function, so that the choice is one.
LEMMA SumsExist ==
  ASSUME NEW f, NEW S, IsFiniteSet(S)
  PROVE  SumsAt(f, S, TheSums(f, S))
<1> DEFINE G == {T \in SUBSET S : SumsAt(f, T, TheSums(f, T))}
<1>0. \A T : (\E g : Sums(f, T, g)) => SumsAt(f, T, TheSums(f, T))
  <2> TAKE T
  <2> HAVE \E g : Sums(f, T, g)
  <2>1. Sums(f, T, TheSums(f, T))
    BY DEF TheSums
  <2> QED
    BY <2>1, SumsAreSums
<1>1. {} \in G
  <2> DEFINE g == [s \in SUBSET {} |-> 0]
  <2>1. SumsAt(f, {}, g) /\ g = [s \in SUBSET {} |-> g[s]]
    BY DEF SumsAt
  <2>2. Sums(f, {}, g)
    <3> HIDE DEF g
    <3> QED
      BY <2>1, SumsAreSums
  <2> QED
    BY <1>0, <2>2
<1>2. ASSUME NEW T \in SUBSET S, T # {}, \A U \in SUBSET S : U \subseteq T /\ U # T => U \in G PROVE T \in G
  <2> DEFINE F(U) == TheSums(f, U)[U]
             h == [s \in SUBSET T |-> IF s = {} THEN 0 ELSE f[First(s)] + F(s \ {First(s)})]
  <2>1. ASSUME NEW s \in SUBSET T, s # T
        PROVE  F(s) = h[s]
    <3>1. SumsAt(f, s, TheSums(f, s))
      BY <1>2, <2>1
    <3>2. CASE s = {}
      BY <3>1, <3>2 DEF SumsAt
    <3>3. CASE s # {}
      <4> DEFINE u == s \ {First(s)}
      <4>1. First(s) \in s
        BY <3>3, FirstIn
      <4>2. u \in SUBSET s /\ u # s /\ u \in SUBSET S /\ u \subseteq T /\ u # T
        BY <4>1
      <4>3. SumsAt(f, u, TheSums(f, u)) /\ SumsAt(f, u, TheSums(f, s))
        BY <1>2, <3>1, <4>2, SumsBelow
      <4>4. IsFiniteSet(u)
        BY <4>2, FS_Subset
      <4>5. TheSums(f, s)[u] = F(u)
        BY <4>3, <4>4, SumsUnique
      <4>6. F(s) = f[First(s)] + TheSums(f, s)[u]
        BY <3>1, <3>3 DEF SumsAt
      <4> QED
        BY <3>3, <4>5, <4>6
    <3> QED
      BY <3>2, <3>3
  <2>2. SumsAt(f, T, h)
    <3> SUFFICES ASSUME NEW s \in SUBSET T
                 PROVE  h[s] = IF s = {} THEN 0 ELSE f[First(s)] + h[s \ {First(s)}]
      BY DEF SumsAt
    <3>1. s # {} => First(s) \in s
      BY FirstIn
    <3>2. s # {} => F(s \ {First(s)}) = h[s \ {First(s)}]
      BY <2>1, <3>1
    <3> QED
      BY <3>2
  <2>3. h = [s \in SUBSET T |-> h[s]]
    OBVIOUS
  <2>4. Sums(f, T, h)
    <3> HIDE DEF h
    <3> QED
      BY <2>2, <2>3, SumsAreSums
  <2> QED
    BY <1>0, <2>4
<1> DEFINE H == {T \in SUBSET S : \A U \in SUBSET T : U \in G}
<1>3. {} \in H
  BY <1>1
<1>4. ASSUME NEW T \in SUBSET S, T # {}, \A x \in T : T \ {x} \in H PROVE T \in H
  <2>1. \A U \in SUBSET T : U # T => U \in G
    <3> TAKE U \in SUBSET T
    <3> HAVE U # T
    <3>1. PICK x \in T : x \notin U
      OBVIOUS
    <3>2. U \in SUBSET (T \ {x})
      BY <3>1
    <3> HIDE DEF G
    <3> QED
      BY <1>4, <3>2
  <2>2. T \in G
    <3> HIDE DEF G
    <3> QED
      BY <1>2, <1>4, <2>1
  <2> HIDE DEF G
  <2> QED
    BY <2>1, <2>2
<1>5. S \in H
  <2> HIDE DEF H
  <2> QED
    BY <1>3, <1>4, SubsetInduction
<1> QED
  BY <1>5

\* The sum over no elements.
LEMMA SumOfNone == ASSUME NEW f PROVE SumFunctionOnSet(f, {}) = 0
BY SumIsFold, SumsExist, FS_EmptySet DEF SumsAt

\* The first element and the sum over the others.
LEMMA SumOfFirst ==
  ASSUME NEW f, NEW S, IsFiniteSet(S), S # {}
  PROVE  SumFunctionOnSet(f, S) = f[First(S)] + SumFunctionOnSet(f, S \ {First(S)})
<1> DEFINE U == S \ {First(S)}
<1>1. U \in SUBSET S /\ IsFiniteSet(U)
  BY FS_Subset
<1>2. SumsAt(f, S, TheSums(f, S)) /\ SumsAt(f, U, TheSums(f, U)) /\ SumsAt(f, U, TheSums(f, S))
  BY <1>1, SumsExist, SumsBelow
<1>3. TheSums(f, S)[U] = TheSums(f, U)[U]
  BY <1>1, <1>2, SumsUnique
<1>4. TheSums(f, S)[S] = f[First(S)] + TheSums(f, S)[U]
  BY <1>2 DEF SumsAt
<1> QED
  BY <1>3, <1>4, SumIsFold

-----------------------------------------------------------------------------
(* Sums over a set *)

\* A sum of integers is one, and of natural numbers is one.
LEMMA SumType ==
  ASSUME NEW S, IsFiniteSet(S), NEW f
  PROVE  /\ (\A x \in S : f[x] \in Int) => SumFunctionOnSet(f, S) \in Int
         /\ (\A x \in S : f[x] \in Nat) => SumFunctionOnSet(f, S) \in Nat
<1>1. ASSUME NEW N \in {Int, Nat}, \A x \in S : f[x] \in N
      PROVE  SumFunctionOnSet(f, S) \in N
  <2> DEFINE G == {T \in SUBSET S : SumFunctionOnSet(f, T) \in N}
  <2>1. {} \in G
    BY SumOfNone
  <2>2. ASSUME NEW T \in SUBSET S, T # {}, \A x \in T : T \ {x} \in G PROVE T \in G
    <3>1. First(T) \in T
      BY <2>2, FirstIn
    <3>2. SumFunctionOnSet(f, T) = f[First(T)] + SumFunctionOnSet(f, T \ {First(T)})
      BY <2>2, SumOfFirst, FS_Subset
    <3>3. f[First(T)] \in N /\ SumFunctionOnSet(f, T \ {First(T)}) \in N
      BY <1>1, <2>2, <3>1
    <3> QED
      BY <3>2, <3>3
  <2>3. S \in G
    <3> HIDE DEF G
    <3> QED
      BY <2>1, <2>2, SubsetInduction
  <2> QED
    BY <2>3
<1> QED
  BY <1>1

\* Any element may be taken out of a sum.
LEMMA SumOut ==
  ASSUME NEW S, IsFiniteSet(S), NEW f, \A x \in S : f[x] \in Int, NEW y \in S
  PROVE  SumFunctionOnSet(f, S) = f[y] + SumFunctionOnSet(f, S \ {y})
<1> DEFINE G == {T \in SUBSET S : \A x \in T : SumFunctionOnSet(f, T) = f[x] + SumFunctionOnSet(f, T \ {x})}
<1>0. \A T \in SUBSET S : IsFiniteSet(T) /\ SumFunctionOnSet(f, T) \in Int
  <2> TAKE T \in SUBSET S
  <2>1. IsFiniteSet(T)
    BY FS_Subset
  <2> QED
    BY <2>1, SumType
<1>1. {} \in G
  OBVIOUS
<1>2. ASSUME NEW T \in SUBSET S, T # {}, \A x \in T : T \ {x} \in G PROVE T \in G
  <2> SUFFICES ASSUME NEW x \in T PROVE SumFunctionOnSet(f, T) = f[x] + SumFunctionOnSet(f, T \ {x})
    OBVIOUS
  <2> DEFINE c == First(T)
  <2>1. c \in T
    BY FirstIn
  <2>2. SumFunctionOnSet(f, T) = f[c] + SumFunctionOnSet(f, T \ {c})
    BY <1>0, SumOfFirst
  <2> HIDE DEF c
  <2>3. CASE x = c
    BY <2>2, <2>3
  <2>4. CASE x # c
    <3>1. /\ SumFunctionOnSet(f, T \ {c}) = f[x] + SumFunctionOnSet(f, (T \ {c}) \ {x})
          /\ SumFunctionOnSet(f, T \ {x}) = f[c] + SumFunctionOnSet(f, (T \ {x}) \ {c})
      BY <1>2, <2>1, <2>4
    <3>2. (T \ {c}) \ {x} = (T \ {x}) \ {c}
      OBVIOUS
    <3>3. /\ SumFunctionOnSet(f, (T \ {x}) \ {c}) \in Int /\ f[x] \in Int /\ f[c] \in Int
      BY <1>0, <2>1
    <3> DEFINE u == SumFunctionOnSet(f, (T \ {x}) \ {c})
               p == f[x]
               q == f[c]
    <3>4. SumFunctionOnSet(f, T) = q + (p + u) /\ SumFunctionOnSet(f, T \ {x}) = q + u
      BY <2>2, <3>1, <3>2
    <3>5. u \in Int /\ p \in Int /\ q \in Int
      BY <3>3
    <3> HIDE DEF u, p, q
    <3>6. q + (p + u) = p + (q + u)
      BY <3>5
    <3>7. SumFunctionOnSet(f, T) = p + SumFunctionOnSet(f, T \ {x})
      BY <3>4, <3>6
    <3> QED
      BY <3>7 DEF p
  <2> QED
    BY <2>3, <2>4
<1>3. S \in G
  <2> HIDE DEF G
  <2> QED
    BY <1>1, <1>2, SubsetInduction
<1> QED
  BY <1>3

\* The subsets for which a claim about sums holds, element by element: the form in
\* which the lemmas below use induction.
LEMMA SumStep ==
  ASSUME NEW S, IsFiniteSet(S), NEW f, \A x \in S : f[x] \in Int
  PROVE  /\ SumFunctionOnSet(f, {}) = 0
         /\ \A T \in SUBSET S : /\ IsFiniteSet(T) /\ Cardinality(T) \in Nat
                                /\ SumFunctionOnSet(f, T) \in Int
         /\ \A T \in SUBSET S : \A x \in T :
              SumFunctionOnSet(f, T) = f[x] + SumFunctionOnSet(f, T \ {x})
<1>1. ASSUME NEW T \in SUBSET S
      PROVE  /\ IsFiniteSet(T) /\ Cardinality(T) \in Nat /\ SumFunctionOnSet(f, T) \in Int
             /\ \A x \in T : SumFunctionOnSet(f, T) = f[x] + SumFunctionOnSet(f, T \ {x})
  <2>1. IsFiniteSet(T) /\ Cardinality(T) \in Nat
    BY FS_Subset, FS_CardinalityType
  <2>2. SumFunctionOnSet(f, T) \in Int
    BY <2>1, SumType
  <2>3. \A x \in T : SumFunctionOnSet(f, T) = f[x] + SumFunctionOnSet(f, T \ {x})
    BY <2>1, SumOut
  <2> QED
    BY <2>1, <2>2, <2>3
<1> QED
  BY <1>1, SumOfNone

\* Summands that are not above others sum up to no more.
LEMMA SumAtMost ==
  ASSUME NEW S, IsFiniteSet(S), NEW f, NEW g,
         \A x \in S : f[x] \in Int /\ g[x] \in Int /\ f[x] <= g[x]
  PROVE  SumFunctionOnSet(f, S) <= SumFunctionOnSet(g, S)
<1> DEFINE F(T) == SumFunctionOnSet(f, T)
           H(T) == SumFunctionOnSet(g, T)
           G == {T \in SUBSET S : F(T) <= H(T)}
<1>0. /\ F({}) = 0 /\ H({}) = 0
      /\ \A T \in SUBSET S : F(T) \in Int /\ H(T) \in Int
      /\ \A T \in SUBSET S : \A x \in T : F(T) = f[x] + F(T \ {x}) /\ H(T) = g[x] + H(T \ {x})
  BY SumStep
<1> HIDE DEF F, H
<1>1. {} \in G
  BY <1>0
<1>2. ASSUME NEW T \in SUBSET S, T # {}, \A x \in T : T \ {x} \in G PROVE T \in G
  <2>1. PICK x \in T : TRUE
    BY <1>2
  <2>2. F(T) = f[x] + F(T \ {x}) /\ H(T) = g[x] + H(T \ {x}) /\ F(T \ {x}) <= H(T \ {x})
    BY <1>0, <1>2
  <2>3. F(T \ {x}) \in Int /\ H(T \ {x}) \in Int /\ f[x] \in Int /\ g[x] \in Int /\ f[x] <= g[x]
    BY <1>0
  <2> QED
    BY <2>2, <2>3
<1>3. S \in G
  <2> HIDE DEF G
  <2> QED
    BY <1>1, <1>2, SubsetInduction
<1> QED
  BY <1>3 DEF F, H

\* Functions that agree on a set have the same sum there.
LEMMA SumSame ==
  ASSUME NEW S, IsFiniteSet(S), NEW f, NEW g, \A x \in S : f[x] \in Int /\ g[x] = f[x]
  PROVE  SumFunctionOnSet(f, S) = SumFunctionOnSet(g, S)
<1>1. SumFunctionOnSet(f, S) <= SumFunctionOnSet(g, S) /\ SumFunctionOnSet(g, S) <= SumFunctionOnSet(f, S)
  BY SumAtMost
<1>2. SumFunctionOnSet(f, S) \in Int /\ SumFunctionOnSet(g, S) \in Int
  BY SumType
<1> QED
  BY <1>1, <1>2

\* The sum of two functions adds up their sums.
LEMMA SumOfSums ==
  ASSUME NEW S, IsFiniteSet(S), NEW f, NEW g, NEW h,
         \A x \in S : f[x] \in Int /\ g[x] \in Int /\ h[x] = f[x] + g[x]
  PROVE  SumFunctionOnSet(h, S) = SumFunctionOnSet(f, S) + SumFunctionOnSet(g, S)
<1> DEFINE F(T) == SumFunctionOnSet(f, T)
           K(T) == SumFunctionOnSet(g, T)
           H(T) == SumFunctionOnSet(h, T)
           G == {T \in SUBSET S : H(T) = F(T) + K(T)}
<1>0. /\ F({}) = 0 /\ H({}) = 0 /\ K({}) = 0
      /\ \A T \in SUBSET S : F(T) \in Int /\ H(T) \in Int /\ K(T) \in Int
      /\ \A T \in SUBSET S : \A x \in T :
           F(T) = f[x] + F(T \ {x}) /\ H(T) = h[x] + H(T \ {x}) /\ K(T) = g[x] + K(T \ {x})
  BY SumStep
<1> HIDE DEF F, H, K
<1>1. {} \in G
  BY <1>0
<1>2. ASSUME NEW T \in SUBSET S, T # {}, \A x \in T : T \ {x} \in G PROVE T \in G
  <2>1. PICK x \in T : TRUE
    BY <1>2
  <2>2. /\ F(T) = f[x] + F(T \ {x}) /\ H(T) = h[x] + H(T \ {x}) /\ K(T) = g[x] + K(T \ {x})
        /\ H(T \ {x}) = F(T \ {x}) + K(T \ {x})
    BY <1>0, <1>2
  <2>3. /\ F(T \ {x}) \in Int /\ K(T \ {x}) \in Int /\ f[x] \in Int /\ g[x] \in Int /\ h[x] = f[x] + g[x]
    BY <1>0
  <2> QED
    BY <2>2, <2>3
<1>3. S \in G
  <2> HIDE DEF G
  <2> QED
    BY <1>1, <1>2, SubsetInduction
<1> QED
  BY <1>3 DEF F, H, K

\* Equal summands are multiplied by their number.
LEMMA SumOfConstant ==
  ASSUME NEW S, IsFiniteSet(S), NEW c \in Int, NEW f, \A x \in S : f[x] = c
  PROVE  SumFunctionOnSet(f, S) = c * Cardinality(S)
<1> DEFINE F(T) == SumFunctionOnSet(f, T)
           G == {T \in SUBSET S : F(T) = c * Cardinality(T)}
<1>0. /\ F({}) = 0 /\ \A T \in SUBSET S : \A x \in T : F(T) = f[x] + F(T \ {x})
      /\ \A T \in SUBSET S : IsFiniteSet(T)
  BY SumStep
<1> HIDE DEF F
<1>1. {} \in G
  BY <1>0, FS_EmptySet
<1>2. ASSUME NEW T \in SUBSET S, T # {}, \A x \in T : T \ {x} \in G PROVE T \in G
  <2>1. PICK x \in T : TRUE
    BY <1>2
  <2>2. F(T) = c + c * Cardinality(T \ {x})
    BY <1>0, <1>2
  <2>3. Cardinality(T \ {x}) = Cardinality(T) - 1 /\ Cardinality(T) \in Nat
    BY <1>0, FS_RemoveElement, FS_CardinalityType
  <2>4. \A m \in Int : c + c * (m - 1) = c * m
    OBVIOUS
  <2> QED
    BY <2>2, <2>3, <2>4
<1>3. S \in G
  <2> HIDE DEF G
  <2> QED
    BY <1>1, <1>2, SubsetInduction
<1> QED
  BY <1>3 DEF F

\* A set and the rest of a larger one sum up to the larger.
LEMMA SumOfUnion ==
  ASSUME NEW S, IsFiniteSet(S), NEW A \in SUBSET S, NEW f, \A x \in S : f[x] \in Int
  PROVE  SumFunctionOnSet(f, S) = SumFunctionOnSet(f, A) + SumFunctionOnSet(f, S \ A)
<1> DEFINE F(T) == SumFunctionOnSet(f, T)
           B == S \ A
           G == {T \in SUBSET B : F(A \union T) = F(A) + F(T)}
<1>0. /\ F({}) = 0
      /\ \A T \in SUBSET S : F(T) \in Int
      /\ \A T \in SUBSET S : \A x \in T : F(T) = f[x] + F(T \ {x})
  BY SumStep
<1> HIDE DEF F
<1>1. {} \in G
  <2>1. A \union {} = A
    OBVIOUS
  <2> QED
    BY <1>0, <2>1
<1>2. ASSUME NEW T \in SUBSET B, T # {}, \A x \in T : T \ {x} \in G PROVE T \in G
  <2>1. PICK x \in T : TRUE
    BY <1>2
  <2>2. (A \union T) \ {x} = A \union (T \ {x})
    OBVIOUS
  <2>3. F(A \union T) = f[x] + F(A \union (T \ {x}))
    BY <1>0, <2>2
  <2>4. F(T) = f[x] + F(T \ {x}) /\ F(A \union (T \ {x})) = F(A) + F(T \ {x})
    BY <1>0, <1>2
  <2>5. F(A) \in Int /\ F(T \ {x}) \in Int /\ f[x] \in Int
    BY <1>0
  <2> QED
    BY <2>3, <2>4, <2>5
<1>3. B \in G
  <2>1. IsFiniteSet(B)
    BY FS_Subset
  <2> HIDE DEF G, B
  <2> QED
    BY <1>1, <1>2, <2>1, SubsetInduction
<1>4. A \union B = S
  OBVIOUS
<1> QED
  BY <1>3, <1>4 DEF F

\* Summands below a rational bound, on the whole, stay below it.
LEMMA SumBounded ==
  ASSUME NEW S, IsFiniteSet(S), NEW c \in Int, NEW m \in Int, NEW f,
         \A x \in S : f[x] \in Int /\ c * f[x] <= m
  PROVE  c * SumFunctionOnSet(f, S) <= m * Cardinality(S)
<1> DEFINE F(T) == SumFunctionOnSet(f, T)
           G == {T \in SUBSET S : c * F(T) <= m * Cardinality(T)}
<1>0. /\ F({}) = 0
      /\ \A T \in SUBSET S : IsFiniteSet(T) /\ F(T) \in Int
      /\ \A T \in SUBSET S : \A x \in T : F(T) = f[x] + F(T \ {x})
  <2>1. \A x \in S : f[x] \in Int
    OBVIOUS
  <2> HIDE DEF G
  <2>2. SumFunctionOnSet(f, {}) = 0
    BY SumOfNone
  <2>3. \A T \in SUBSET S : IsFiniteSet(T) /\ SumFunctionOnSet(f, T) \in Int
    BY <2>1, SumStep
  <2>4. \A T \in SUBSET S : \A x \in T :
          SumFunctionOnSet(f, T) = f[x] + SumFunctionOnSet(f, T \ {x})
    <3> TAKE T \in SUBSET S
    <3> TAKE x \in T
    <3>1. IsFiniteSet(T) /\ \A y \in T : f[y] \in Int
      BY <2>1, <2>3
    <3> QED
      BY <3>1, SumOut
  <2> QED
    BY <2>2, <2>3, <2>4
<1> HIDE DEF F
<1>1. {} \in G
  BY <1>0, FS_EmptySet
<1>2. ASSUME NEW T \in SUBSET S, T # {}, \A x \in T : T \ {x} \in G PROVE T \in G
  <2>1. PICK x \in T : TRUE
    BY <1>2
  <2>2. F(T) = f[x] + F(T \ {x}) /\ c * F(T \ {x}) <= m * Cardinality(T \ {x})
    BY <1>0, <1>2
  <2>3. Cardinality(T \ {x}) = Cardinality(T) - 1 /\ Cardinality(T) \in Nat
    BY <1>0, FS_RemoveElement, FS_CardinalityType
  <2>4. f[x] \in Int /\ c * f[x] <= m /\ F(T \ {x}) \in Int
    BY <1>0
  <2>5. \A a, b, k \in Int : c * a <= m /\ c * b <= m * (k - 1) => c * (a + b) <= m * k
    <3> TAKE a, b, k \in Int
    <3>1. c * (a + b) = c * a + c * b /\ m * k = m + m * (k - 1)
      OBVIOUS
    <3>2. c * a \in Int /\ c * b \in Int /\ m * (k - 1) \in Int
      OBVIOUS
    <3> QED
      BY <3>1, <3>2
  <2>6. c * (f[x] + F(T \ {x})) <= m * Cardinality(T)
    BY <2>2, <2>3, <2>4, <2>5
  <2> QED
    BY <2>2, <2>6
<1>3. S \in G
  <2> HIDE DEF G
  <2> QED
    BY <1>1, <1>2, SubsetInduction
<1> QED
  BY <1>3 DEF F

-----------------------------------------------------------------------------
(* Rounding *)

\* Division with a remainder, for a positive divisor.
LEMMA Division ==
  ASSUME NEW n \in Int, NEW d \in Nat \ {0}
  PROVE  /\ n \div d \in Int /\ n % d \in Int
         /\ n = d * (n \div d) + (n % d)
         /\ 0 <= n % d /\ n % d < d
OBVIOUS

\* Multiplying by a positive number keeps and reflects order.
LEMMA Products ==
  ASSUME NEW d \in Nat \ {0}, NEW a \in Int, NEW b \in Int
  PROVE  /\ d * a \in Int
         /\ d * (a + b) = d * a + d * b
         /\ d * (a + 1) = d * a + d
         /\ a <= b => d * a <= d * b
         /\ a + 1 <= b => d * a + d <= d * b
         /\ d * a <= d * b => a <= b
         /\ d * a < d * b + d => a <= b
         /\ a >= 0 => d * a >= 0
OBVIOUS

\* Rounding moves a number by one half at most.
LEMMA RoundNear ==
  ASSUME NEW n \in Int, NEW d \in Nat \ {0}
  PROVE  /\ Round(n, d) \in Int
         /\ 2 * (d * Round(n, d)) <= 2 * n + d
         /\ 2 * n - d <= 2 * (d * Round(n, d))
<1> DEFINE q == n \div d
           r == n % d
           p == d * q
<1>1. q \in Int /\ r \in Int /\ p \in Int /\ n = p + r /\ 0 <= r /\ r < d
  BY Division
<1>2. \/ Round(n, d) = q /\ 2 * r <= d
      \/ Round(n, d) = q + 1 /\ 2 * r >= d
  BY <1>1 DEF Round
<1> HIDE DEF r, q
<1>3. d * (q + 1) = p + d
  BY <1>1
<1>4. CASE Round(n, d) = q /\ 2 * r <= d
  <2> HIDE DEF p
  <2>1. d * Round(n, d) = p
    BY <1>4 DEF p
  <2> QED
    BY <1>1, <1>4, <2>1
<1>5. CASE Round(n, d) = q + 1 /\ 2 * r >= d
  <2>1. d * Round(n, d) = p + d
    BY <1>3, <1>5
  <2> HIDE DEF p
  <2> QED
    BY <1>1, <1>5, <2>1
<1> QED
  BY <1>2, <1>4, <1>5

\* It does not pass an integer.
LEMMA RoundKeeps ==
  ASSUME NEW n \in Int, NEW d \in Nat \ {0}, NEW m \in Int
  PROVE  /\ n <= d * m => Round(n, d) <= m
         /\ d * m <= n => m <= Round(n, d)
<1> DEFINE p == d * m
           s == d * Round(n, d)
<1>1. Round(n, d) \in Int /\ p \in Int /\ s \in Int
  <2>1. Round(n, d) \in Int
    BY RoundNear
  <2> QED
    BY <2>1, Products
<1>2. 2 * s <= 2 * n + d /\ 2 * n - d <= 2 * s
  BY RoundNear
<1>3. /\ s < p + d => Round(n, d) <= m
      /\ p < s + d => m <= Round(n, d)
  BY <1>1, Products
<1> HIDE DEF p, s
<1>4. n <= p => s < p + d
  BY <1>1, <1>2
<1>5. p <= n => p < s + d
  BY <1>1, <1>2
<1> QED
  BY <1>3, <1>4, <1>5 DEF p

-----------------------------------------------------------------------------
(* Plans and levels *)

\* The parts of a plan: finite tasks, and dependencies among them that precede.
LEMMA PlanFields ==
  ASSUME NEW p, IsPlan(p)
  PROVE  LET n == Cardinality(p.tasks) IN
         /\ n \in Nat \ {0} /\ p.tasks = 1 .. n /\ IsFiniteSet(p.tasks)
         /\ p.sequential \in BOOLEAN
         /\ p.consumes \subseteq p.tasks /\ p.labelled \subseteq p.tasks
         /\ \A t \in p.tasks : p.depends[t] \subseteq p.tasks /\ \A d \in p.depends[t] : d < t
         /\ \/ /\ p.depends[1] = {}
               /\ \A t \in p.tasks \ {1} : p.depends[t] = {t - 1}
            \/ /\ p.depends[n] = 1 .. n - 1
               /\ \A t \in p.tasks \ {n} : p.depends[t] = {}
<1> DEFINE n == Cardinality(p.tasks)
<1>1. /\ n \in Nat \ {0} /\ p.tasks = 1 .. n
      /\ p.consumes \subseteq p.tasks /\ p.labelled \subseteq p.tasks
      /\ p \in {Chain(n, p.consumes, p.labelled), FanIn(n, p.consumes, p.labelled)}
  BY DEF IsPlan
<1>2. IsFiniteSet(p.tasks)
  BY <1>1, FS_Interval
<1> HIDE DEF n
<1>3. CASE p = Chain(n, p.consumes, p.labelled)
  <2>1. p.depends = [t \in 1 .. n |-> IF t = 1 THEN {} ELSE {t - 1}] /\ p.sequential = TRUE
    BY <1>3 DEF Chain
  <2>2. 1 \in 1 .. n
    BY <1>1
  <2>3. /\ p.depends[1] = {}
        /\ \A t \in p.tasks \ {1} : p.depends[t] = {t - 1} /\ t - 1 \in 1 .. n /\ t - 1 < t
    BY <1>1, <2>1, <2>2
  <2>4. ASSUME NEW t \in p.tasks
        PROVE  p.depends[t] \subseteq p.tasks /\ \A d \in p.depends[t] : d < t
    BY <1>1, <2>3
  <2> QED
    BY <1>1, <1>2, <2>1, <2>3, <2>4 DEF n
<1>4. CASE p = FanIn(n, p.consumes, p.labelled)
  <2>1. p.depends = [t \in 1 .. n |-> IF t = n THEN 1 .. n - 1 ELSE {}] /\ p.sequential = FALSE
    BY <1>4 DEF FanIn
  <2>2. /\ p.depends[n] = 1 .. n - 1
        /\ \A t \in p.tasks \ {n} : p.depends[t] = {}
        /\ 1 .. n - 1 \subseteq 1 .. n /\ \A d \in 1 .. n - 1 : d < n
    BY <1>1, <2>1
  <2> QED
    BY <1>1, <1>2, <2>1, <2>2 DEF n
<1> QED
  BY <1>1, <1>3, <1>4 DEF n

\* The rounds of Kahn's algorithm, after k of them.
Kahn(p, f) ==
    f = [k \in 0 .. Cardinality(p.tasks) |->
           IF k = 0 THEN {} ELSE {t \in p.tasks : p.depends[t] \subseteq f[k - 1]}]

\* Placed is the choice of the rounds.
LEMMA PlacedIsKahn ==
  ASSUME NEW p
  PROVE  Placed(p) = CHOOSE f : Kahn(p, f)
BY DEF Placed, Kahn

\* In the planner's plans Kahn's algorithm reaches the tasks up to a number.
LEMMA Reached ==
  ASSUME NEW p, IsPlan(p)
  PROVE  \E f : Kahn(p, f)
<1> DEFINE n == Cardinality(p.tasks)
<1>1. n \in Nat \ {0} /\ p.tasks = 1 .. n
  BY PlanFields
<1>2. CASE p.depends[1] = {} /\ \A t \in p.tasks \ {1} : p.depends[t] = {t - 1}
  <2> DEFINE f == [k \in 0 .. n |-> 1 .. k]
  <2>1. ASSUME NEW k \in 0 .. n, k # 0
        PROVE  {t \in p.tasks : p.depends[t] \subseteq f[k - 1]} = 1 .. k
    <3>1. f[k - 1] = 1 .. k - 1
      BY <1>1, <2>1
    <3>2. ASSUME NEW t \in p.tasks PROVE p.depends[t] \subseteq 1 .. k - 1 <=> t \in 1 .. k
      <4>1. CASE t = 1
        BY <1>1, <1>2, <2>1, <4>1
      <4>2. CASE t # 1
        <5>1. p.depends[t] = {t - 1}
          BY <1>2, <4>2
        <5>2. t - 1 \in 1 .. k - 1 <=> t \in 1 .. k
          BY <1>1, <2>1, <4>2
        <5> QED
          BY <5>1, <5>2
      <4> QED
        BY <4>1, <4>2
    <3>3. 1 .. k \subseteq p.tasks
      BY <1>1
    <3> QED
      BY <3>1, <3>2, <3>3
  <2>2. \A k \in 0 .. n : f[k] = IF k = 0 THEN {} ELSE {t \in p.tasks : p.depends[t] \subseteq f[k - 1]}
    <3>1. 0 \in 0 .. n /\ f[0] = {} /\ \A k \in 0 .. n : k # 0 => f[k] = 1 .. k
      BY <1>1
    <3> HIDE DEF f
    <3> QED
      BY <2>1, <3>1
  <2>3. f = [k \in 0 .. n |-> f[k]]
    OBVIOUS
  <2> HIDE DEF f
  <2>4. f = [k \in 0 .. n |-> IF k = 0 THEN {} ELSE {t \in p.tasks : p.depends[t] \subseteq f[k - 1]}]
    BY <2>2, <2>3
  <2> QED
    BY <2>4 DEF Kahn
<1>3. CASE p.depends[n] = 1 .. n - 1 /\ \A t \in p.tasks \ {n} : p.depends[t] = {}
  <2> DEFINE f == [k \in 0 .. n |-> IF k = 0 THEN {} ELSE IF k = 1 /\ n > 1 THEN 1 .. n - 1 ELSE 1 .. n]
  <2>1. ASSUME NEW k \in 0 .. n, k # 0
        PROVE  {t \in p.tasks : p.depends[t] \subseteq f[k - 1]} = f[k]
    <3>1. CASE k = 1
      <4>1. f[k - 1] = {}
        BY <1>1, <3>1
      <4>2. ASSUME NEW t \in p.tasks PROVE p.depends[t] \subseteq {} <=> t \in f[k]
        <5>1. f[k] = IF n > 1 THEN 1 .. n - 1 ELSE 1 .. n
          BY <1>1, <3>1
        <5>2. CASE t # n
          BY <1>1, <1>3, <5>1, <5>2
        <5>3. CASE t = n /\ n > 1
          <6>1. p.depends[t] = 1 .. n - 1 /\ 1 \in 1 .. n - 1 /\ t \notin 1 .. n - 1
            BY <1>1, <1>3, <5>3
          <6> QED
            BY <5>1, <5>3, <6>1
        <5>4. CASE t = n /\ n = 1
          <6>1. p.depends[t] = 1 .. 0 /\ 1 .. 0 = {} /\ t \in 1 .. 1
            BY <1>3, <5>4
          <6> QED
            BY <5>1, <5>4, <6>1
        <5> QED
          BY <1>1, <5>2, <5>3, <5>4
      <4>3. f[k] \subseteq p.tasks
        BY <1>1, <3>1
      <4> HIDE DEF f
      <4> QED
        BY <4>1, <4>2, <4>3
    <3>2. CASE k # 1
      <4>1. f[k - 1] \in {1 .. n - 1, 1 .. n} /\ f[k] = 1 .. n
        BY <1>1, <2>1, <3>2
      <4>2. 1 .. n - 1 \subseteq f[k - 1]
        BY <1>1, <4>1
      <4> HIDE DEF f
      <4>3. \A t \in p.tasks : p.depends[t] \subseteq f[k - 1]
        BY <1>1, <1>3, <4>2
      <4>4. {t \in p.tasks : p.depends[t] \subseteq f[k - 1]} = p.tasks
        BY <4>3
      <4> QED
        BY <1>1, <4>1, <4>4
    <3> QED
      BY <3>1, <3>2
  <2>2. \A k \in 0 .. n : f[k] = IF k = 0 THEN {} ELSE {t \in p.tasks : p.depends[t] \subseteq f[k - 1]}
    <3>1. 0 \in 0 .. n /\ f[0] = {}
      BY <1>1
    <3> HIDE DEF f
    <3> QED
      BY <2>1, <3>1
  <2>3. f = [k \in 0 .. n |-> f[k]]
    OBVIOUS
  <2> HIDE DEF f
  <2>4. f = [k \in 0 .. n |-> IF k = 0 THEN {} ELSE {t \in p.tasks : p.depends[t] \subseteq f[k - 1]}]
    BY <2>2, <2>3
  <2> QED
    BY <2>4 DEF Kahn
<1> QED
  BY <1>2, <1>3, PlanFields

\* What each round places, and what it adds to.
LEMMA Rounds ==
  ASSUME NEW p, IsPlan(p)
  PROVE  LET n == Cardinality(p.tasks)
             P == Placed(p)
         IN  /\ P[0] = {}
             /\ \A k \in 1 .. n : P[k] = {t \in p.tasks : p.depends[t] \subseteq P[k - 1]}
<1> DEFINE n == Cardinality(p.tasks)
           P == Placed(p)
           v(k) == IF k = 0 THEN {} ELSE {t \in p.tasks : p.depends[t] \subseteq P[k - 1]}
<1>1. Kahn(p, P)
  BY PlacedIsKahn, Reached
<1>2. P = [k \in 0 .. n |-> v(k)]
  BY <1>1 DEF Kahn
<1>3. n \in Nat \ {0}
  BY PlanFields
<1> HIDE DEF P, v, n
<1>4. \A k \in 0 .. n : P[k] = v(k)
  BY <1>2
<1>5. 0 \in 0 .. n /\ \A k \in 1 .. n : k \in 0 .. n /\ k # 0
  BY <1>3
<1>6. P[0] = v(0) /\ \A k \in 1 .. n : P[k] = v(k)
  BY <1>4, <1>5
<1> QED
  BY <1>5, <1>6 DEF P, v, n

\* P grows, k rounds place the first k tasks, and no round skips a task.
LEMMA RoundsGrow ==
  ASSUME NEW p, IsPlan(p), NEW n, n = Cardinality(p.tasks), NEW P, P = Placed(p)
  PROVE  \A k \in 1 .. n : /\ P[k - 1] \subseteq P[k]
                           /\ 1 .. k \subseteq P[k]
                           /\ \A t \in P[k] : 1 .. t \subseteq P[k]
<1> DEFINE Good(k) == /\ P[k - 1] \subseteq P[k]
                      /\ 1 .. k \subseteq P[k]
                      /\ \A t \in P[k] : 1 .. t \subseteq P[k]
           Bad == {k \in 1 .. n : ~Good(k)}
<1>1. n \in Nat \ {0} /\ p.tasks = 1 .. n
  BY PlanFields
<1>2. P[0] = {} /\ \A k \in 1 .. n : P[k] = {t \in p.tasks : p.depends[t] \subseteq P[k - 1]}
  BY Rounds
<1>3. /\ \A t \in 1 .. n : p.depends[t] \subseteq 1 .. n /\ \A d \in p.depends[t] : d < t
      /\ \/ /\ p.depends[1] = {}
            /\ \A t \in (1 .. n) \ {1} : p.depends[t] = {t - 1}
         \/ /\ p.depends[n] = 1 .. n - 1
            /\ \A t \in (1 .. n) \ {n} : p.depends[t] = {}
  BY <1>1, PlanFields
<1>4. ASSUME NEW k \in 1 .. n, k = 1 \/ Good(k - 1) PROVE Good(k)
  <2>1. P[k] = {t \in 1 .. n : p.depends[t] \subseteq P[k - 1]}
    BY <1>1, <1>2
  <2>2. P[k - 1] \subseteq P[k]
    <3>1. CASE k = 1
      BY <1>2, <3>1
    <3>2. CASE k # 1
      <4>1. k - 1 \in 1 .. n /\ Good(k - 1)
        BY <1>1, <1>4, <3>2
      <4>2. P[k - 1] = {t \in 1 .. n : p.depends[t] \subseteq P[k - 1 - 1]} /\ P[k - 1 - 1] \subseteq P[k - 1]
        BY <1>1, <1>2, <4>1
      <4> QED
        BY <2>1, <4>2
    <3> QED
      BY <3>1, <3>2
  <2>3. 1 .. k - 1 \subseteq P[k - 1]
    <3>1. CASE k = 1
      BY <3>1
    <3>2. CASE k # 1
      BY <1>4, <3>2
    <3> QED
      BY <3>1, <3>2
  <2>4. 1 .. k \subseteq P[k]
    <3>1. p.depends[k] \subseteq 1 .. k - 1
      BY <1>1, <1>3
    <3>2. k \in P[k]
      BY <2>1, <2>3, <3>1
    <3>3. 1 .. k \subseteq (1 .. k - 1) \union {k}
      BY <1>1
    <3> QED
      BY <2>2, <2>3, <3>2, <3>3
  <2>5. ASSUME NEW t \in P[k], NEW s \in 1 .. t PROVE s \in P[k]
    <3>0. t \in 1 .. n /\ s \in 1 .. n /\ p.depends[t] \subseteq P[k - 1]
      <4>1. t \in 1 .. n /\ p.depends[t] \subseteq P[k - 1]
        BY <2>1
      <4> QED
        BY <1>1, <4>1
    <3>1. CASE s = t
      BY <3>1
    <3>2. CASE s # t /\ p.depends[s] = {}
      BY <2>1, <3>0, <3>2
    <3>3. CASE s # t /\ p.depends[t] = 1 .. n - 1 /\ t = n
      <4>1. s \in 1 .. n - 1
        BY <1>1, <3>0, <3>3
      <4> QED
        BY <2>2, <3>0, <3>3, <4>1
    <3>4. CASE s # t /\ p.depends[t] = {t - 1} /\ t # 1
      <4>1. t - 1 \in P[k - 1] /\ k # 1
        BY <1>2, <3>0, <3>4
      <4>2. 1 .. t - 1 \subseteq P[k - 1]
        BY <1>4, <4>1
      <4>3. s \in 1 .. t - 1
        BY <3>0, <3>4
      <4> QED
        BY <2>2, <4>2, <4>3
    <3>5. s < t \/ s = t
      BY <3>0
    <3>6. \/ s = t
          \/ p.depends[s] = {}
          \/ p.depends[t] = 1 .. n - 1 /\ t = n
          \/ p.depends[t] = {t - 1} /\ t # 1
      BY <1>1, <1>3, <3>0, <3>5
    <3> QED
      BY <3>1, <3>2, <3>3, <3>4, <3>6
  <2> QED
    BY <2>2, <2>4, <2>5
<1>5. Bad = {}
  <2> SUFFICES ASSUME Bad # {} PROVE FALSE
    OBVIOUS
  <2>1. Bad \in SUBSET Nat
    BY <1>1
  <2> HIDE DEF Bad
  <2>2. PICK k \in Bad : \A m \in Bad : k <= m
    BY <2>1, LeastNumber
  <2> USE DEF Bad
  <2>3. k \in 1 .. n /\ ~Good(k)
    BY <2>2
  <2>4. k = 1 \/ (k - 1 \in 1 .. n /\ k - 1 < k)
    BY <1>1, <2>3
  <2>5. k = 1 \/ Good(k - 1)
    <3> HIDE DEF Good
    <3>1. k - 1 \notin Bad \/ k <= k - 1
      BY <2>2
    <3> QED
      BY <2>3, <2>4, <3>1
  <2> HIDE DEF Good
  <2> QED
    BY <1>4, <2>3, <2>5
<1> QED
  BY <1>5

\* The rounds in any order, the last, and the levels.
LEMMA PlacedTasks ==
  ASSUME NEW p, IsPlan(p), NEW n, n = Cardinality(p.tasks), NEW P, P = Placed(p)
  PROVE  /\ n \in Nat \ {0} /\ p.tasks = 1 .. n
         /\ P[0] = {} /\ P[n] = p.tasks /\ 1 \in P[1]
         /\ \A k \in 0 .. n : P[k] \subseteq p.tasks
         /\ \A k \in 1 .. n : \A t \in P[k] : p.depends[t] \subseteq P[k - 1]
         /\ \A k \in 0 .. n : \A j \in 0 .. k : P[j] \subseteq P[k]
<1>1. n \in Nat \ {0} /\ p.tasks = 1 .. n
  BY PlanFields
<1>2. P[0] = {} /\ \A k \in 1 .. n : P[k] = {t \in p.tasks : p.depends[t] \subseteq P[k - 1]}
  BY Rounds
<1>3. \A k \in 1 .. n : P[k - 1] \subseteq P[k] /\ 1 .. k \subseteq P[k]
  BY RoundsGrow
<1>4. 1 \in 1 .. n /\ n \in 1 .. n /\ 1 \in 1 .. 1
  BY <1>1
<1>5. \A k \in 0 .. n : P[k] \subseteq p.tasks
  BY <1>1, <1>2
<1>6. 1 \in P[1] /\ 1 .. n \subseteq P[n] /\ P[n] \subseteq p.tasks
  BY <1>2, <1>3, <1>4
<1> DEFINE Bad == {k \in 0 .. n : \E j \in 0 .. k : ~(P[j] \subseteq P[k])}
<1>7. Bad = {}
  <2> SUFFICES ASSUME Bad # {} PROVE FALSE
    OBVIOUS
  <2>1. Bad \in SUBSET Nat
    BY <1>1
  <2> HIDE DEF Bad
  <2>2. PICK k \in Bad : \A m \in Bad : k <= m
    BY <2>1, LeastNumber
  <2>3. k \in 0 .. n /\ \E j \in 0 .. k : ~(P[j] \subseteq P[k])
    BY DEF Bad
  <2>4. PICK j \in 0 .. k : ~(P[j] \subseteq P[k])
    BY <2>3
  <2>5. k # 0 /\ j \in 0 .. k - 1 /\ k - 1 \in 0 .. n /\ k \in 1 .. n
    BY <1>1, <2>3, <2>4
  <2>6. k - 1 \notin Bad
    BY <1>1, <2>2, <2>3
  <2>7. P[j] \subseteq P[k - 1]
    BY <2>5, <2>6 DEF Bad
  <2> QED
    BY <1>3, <2>4, <2>5, <2>7
<1>8. \A k \in 1 .. n : \A t \in P[k] : p.depends[t] \subseteq P[k - 1]
  BY <1>2
<1>9. \A k \in 0 .. n : \A j \in 0 .. k : P[j] \subseteq P[k]
  BY <1>7
<1>10. P[0] = {} /\ P[n] = p.tasks
  BY <1>1, <1>2, <1>6
<1> QED
  BY <1>1, <1>5, <1>6, <1>8, <1>9, <1>10

\* Tasks of one level depend on the same tasks.
LEMMA LevelAlike ==
  ASSUME NEW p, IsPlan(p), NEW k \in 1 .. Cardinality(p.tasks),
         NEW s \in Level(p, k), NEW t \in Level(p, k), s # t
  PROVE  p.depends[s] = {} /\ p.depends[t] = {}
<1> DEFINE n == Cardinality(p.tasks)
           P == Placed(p)
<1>1. /\ n \in Nat \ {0} /\ p.tasks = 1 .. n /\ P[0] = {}
      /\ \A j \in 0 .. n : P[j] \subseteq p.tasks
      /\ \A j \in 1 .. n : \A u \in P[j] : p.depends[u] \subseteq P[j - 1]
  BY PlacedTasks
<1>2. \A j \in 1 .. n : \A u \in P[j] : 1 .. u \subseteq P[j]
  BY RoundsGrow
<1>3. \/ p.depends[1] = {} /\ \A u \in p.tasks \ {1} : p.depends[u] = {u - 1}
      \/ p.depends[n] = 1 .. n - 1 /\ \A u \in p.tasks \ {n} : p.depends[u] = {}
  BY PlanFields
<1> HIDE DEF n, P
<1>4. \A u \in Level(p, k) : u \in P[k] /\ u \notin P[k - 1] /\ u \in 1 .. n
  BY <1>1 DEF Level, P, n
<1>5. ASSUME NEW a \in Level(p, k), NEW b \in Level(p, k), a < b
      PROVE  p.depends[a] = {} /\ p.depends[b] = {}
  <2>0. k \in 1 .. n
    BY DEF n
  <2>1. a \in 1 .. n /\ b \in 1 .. n /\ a # n /\ b # 1 /\ a \notin P[k - 1] /\ p.depends[b] \subseteq P[k - 1]
    BY <1>1, <1>4, <1>5, <2>0
  <2>2. CASE p.depends[b] = {b - 1}
    <3>1. b - 1 \in P[k - 1] /\ k # 1 /\ k - 1 \in 1 .. n
      BY <1>1, <2>0, <2>1, <2>2
    <3>2. a \in 1 .. b - 1
      BY <1>5, <2>1
    <3> QED
      BY <1>2, <2>1, <3>1, <3>2
  <2>3. CASE p.depends[b] = 1 .. n - 1 /\ b = n
    <3>1. a \in 1 .. n - 1
      BY <1>1, <1>5, <2>1, <2>3
    <3> QED
      BY <2>1, <2>3, <3>1
  <2>4. CASE p.depends[a] = {} /\ p.depends[b] = {}
    BY <2>4
  <2> QED
    BY <1>1, <1>3, <2>1, <2>2, <2>3, <2>4
<1>6. s < t \/ t < s
  BY <1>1, <1>4
<1> QED
  BY <1>5, <1>6

\* A level in which nothing is new comes after all tasks.
LEMMA LastLevel ==
  ASSUME NEW p, IsPlan(p), NEW k \in 1 .. Cardinality(p.tasks), k + 1 \notin Levels(p)
  PROVE  Placed(p)[k] = p.tasks
<1> DEFINE n == Cardinality(p.tasks)
           P == Placed(p)
<1>1. /\ n \in Nat \ {0} /\ p.tasks = 1 .. n /\ P[n] = p.tasks /\ P[k] \subseteq p.tasks
  BY PlacedTasks
<1>2. CASE k = n
  BY <1>1, <1>2
<1>3. CASE k # n
  <2>1. k + 1 \in 1 .. n /\ k + 1 - 1 = k
    BY <1>1, <1>3
  <2>2. P[k + 1] \subseteq P[k]
    BY <2>1 DEF Levels, Level
  <2>3. P[k + 1] = {t \in p.tasks : p.depends[t] \subseteq P[k]}
    BY <2>1, Rounds
  <2>4. \A t \in p.tasks : p.depends[t] \subseteq p.tasks /\ \A d \in p.depends[t] : d < t
    BY PlanFields
  <2> DEFINE Rest == p.tasks \ P[k]
  <2>5. Rest = {}
    <3> SUFFICES ASSUME Rest # {} PROVE FALSE
      OBVIOUS
    <3>1. Rest \in SUBSET Nat
      BY <1>1
    <3>2. PICK t \in Rest : \A m \in Rest : t <= m
      <4> HIDE DEF Rest
      <4> QED
        BY <3>1, LeastNumber
    <3>3. \A d \in p.depends[t] : d \in p.tasks /\ d \notin Rest
      BY <1>1, <2>4, <3>1, <3>2
    <3> QED
      BY <2>2, <2>3, <3>2, <3>3
  <2> QED
    BY <1>1, <2>5
<1> QED
  BY <1>2, <1>3

-----------------------------------------------------------------------------
(* Blocks and packets *)

\* The sizes of the blocks, positive where each packet has them.
LEMMA Constants ==
  /\ TaskTokens \in Nat \ {0} /\ HeaderTokens \in Nat \ {0} /\ LengthTokens \in Nat \ {0}
  /\ PromptTokens \in Nat \ {0} /\ GlossaryTokens \in Nat /\ ForbiddenTokens \in Nat
  /\ ExpansionTokens \in Nat /\ MarkerTokens \in Nat
  /\ TaskFloor \in Nat \ {0} /\ TaskTokens < TaskFloor /\ ContractContext \in Nat \ {0}
BY PackingAssumption DEF TaskFloor, ContractContext

\* Sizes are natural numbers.
LEMMA BlockTypes ==
  ASSUME NEW p, IsPlan(p), NEW t \in p.tasks, NEW s \in [p.tasks -> Nat]
  PROVE  /\ PredecessorBlock(p, t, s) \in Nat /\ PredecessorContext(p, t, s) \in Nat
         /\ CarryBlock(p, t, s) \in Nat
         /\ Mandatory(p, t, s) = TaskFloor + CarryBlock(p, t, s) /\ Mandatory(p, t, s) \in Nat
         /\ Desired(p, t, s) \in Nat \ {0}
         /\ Natural(p, t, s) \in Nat
         /\ Whole(p, t, s) \in Nat /\ Mandatory(p, t, s) + 1 <= Whole(p, t, s)
<1>1. /\ p.depends[t] \subseteq p.tasks /\ IsFiniteSet(p.depends[t])
  BY PlanFields, FS_Subset
<1>2. PredecessorBlock(p, t, s) \in Nat
  <2> DEFINE relevant == {d \in p.depends[t] : s[d] > 0}
             f == [d \in relevant |-> 1 + s[d]]
  <2>1. IsFiniteSet(relevant)
    BY <1>1, FS_Subset
  <2>2. \A d \in relevant : f[d] \in Nat
    BY <1>1
  <2>3. DOMAIN f = relevant
    OBVIOUS
  <2>4. SumFunctionOnSet(f, DOMAIN f) \in Nat
    <3> HIDE DEF f, relevant
    <3> QED
      BY <2>1, <2>2, <2>3, SumType
  <2>5. SumFunction(f) \in Nat
    BY <2>4 DEF SumFunction
  <2>6. PredecessorBlock(p, t, s) = IF relevant = {} THEN 0 ELSE MarkerTokens + SumFunction(f)
    BY DEF PredecessorBlock
  <2> HIDE DEF f, relevant
  <2> QED
    BY <2>5, <2>6, Constants
<1>3. PredecessorContext(p, t, s) \in Nat /\ CarryBlock(p, t, s) \in Nat
  BY <1>2 DEF PredecessorContext, CarryBlock
<1>4. Mandatory(p, t, s) = TaskFloor + CarryBlock(p, t, s) /\ Mandatory(p, t, s) \in Nat
  BY <1>3, Constants DEF Mandatory
<1>5. Desired(p, t, s) \in Nat \ {0}
  BY <1>3, Constants DEF Desired
<1>6. Natural(p, t, s) \in Nat \ {0}
  BY <1>3, Constants DEF Natural
<1> QED
  BY <1>2, <1>3, <1>4, <1>5, <1>6, Constants DEF Whole

\* The blocks of a task depend on the summaries of its predecessors only.
LEMMA BlocksDepend ==
  ASSUME NEW p, NEW t, NEW s1, NEW s2, \A d \in p.depends[t] : s1[d] = s2[d]
  PROVE  /\ PredecessorBlock(p, t, s1) = PredecessorBlock(p, t, s2)
         /\ CarryBlock(p, t, s1) = CarryBlock(p, t, s2)
         /\ Mandatory(p, t, s1) = Mandatory(p, t, s2)
         /\ Whole(p, t, s1) = Whole(p, t, s2)
<1> DEFINE r1 == {d \in p.depends[t] : s1[d] > 0}
           r2 == {d \in p.depends[t] : s2[d] > 0}
           f1 == [d \in r1 |-> 1 + s1[d]]
           f2 == [d \in r2 |-> 1 + s2[d]]
<1>1. r1 = r2
  OBVIOUS
<1>2. f1 = f2
  BY <1>1
<1>3. /\ PredecessorBlock(p, t, s1) = IF r1 = {} THEN 0 ELSE MarkerTokens + SumFunction(f1)
      /\ PredecessorBlock(p, t, s2) = IF r2 = {} THEN 0 ELSE MarkerTokens + SumFunction(f2)
  BY DEF PredecessorBlock
<1>4. PredecessorBlock(p, t, s1) = PredecessorBlock(p, t, s2)
  <2> HIDE DEF r1, r2, f1, f2
  <2> QED
    BY <1>1, <1>2, <1>3
<1> QED
  BY <1>4 DEF CarryBlock, Mandatory, Whole, Natural, PredecessorContext

\* A packet has all that is mandatory, and stays within the budget that leaves
\* room for it; with enough budget it has all there is.
LEMMA PacketSize ==
  ASSUME NEW p, IsPlan(p), NEW t \in p.tasks, NEW s \in [p.tasks -> Nat], NEW b \in Int
  PROVE  LET k == Packet(p, t, s, b)
         IN  /\ k.mandatory = Mandatory(p, t, s)
             /\ k.carry = (Mandatory(p, t, s) > TaskFloor)
             /\ k.tokens \in Nat
             /\ Mandatory(p, t, s) <= k.tokens
             /\ k.tokens <= Mandatory(p, t, s) \/ k.tokens <= b
             /\ k.tokens <= Whole(p, t, s)
             /\ Whole(p, t, s) <= b => k.tokens = Whole(p, t, s)
<1> DEFINE m == Mandatory(p, t, s)
           n == Natural(p, t, s)
           w == Whole(p, t, s)
           room == Larger(m, b) - m
           blocks == IF room > n THEN n + ExpansionTokens ELSE n
           k == Packet(p, t, s, b)
<1>1. k = [tokens |-> m + Smaller(blocks, room), mandatory |-> m, carry |-> m > TaskFloor]
  BY DEF Packet
<1>2. m \in Nat /\ n \in Nat /\ ExpansionTokens \in Nat /\ w = m + n + ExpansionTokens
  BY BlockTypes, Constants DEF Whole
<1> HIDE DEF m, n, w
<1>3. /\ room \in Nat /\ (room = 0 \/ room = b - m)
      /\ blocks \in Nat /\ blocks <= n + ExpansionTokens
  BY <1>2 DEF Larger
<1>4. /\ Smaller(blocks, room) \in Nat /\ Smaller(blocks, room) <= blocks /\ Smaller(blocks, room) <= room
  BY <1>3 DEF Smaller
<1>5. w <= b => Smaller(blocks, room) = n + ExpansionTokens
  BY <1>2 DEF Smaller, Larger
<1>6. k.tokens = m + Smaller(blocks, room) /\ k.mandatory = m /\ k.carry = (m > TaskFloor)
  BY <1>1
<1> HIDE DEF room, blocks, k
<1>7. k.tokens \in Nat /\ m <= k.tokens /\ k.tokens <= w /\ (k.tokens <= m \/ k.tokens <= b)
  BY <1>2, <1>3, <1>4, <1>6
<1>8. w <= b => k.tokens = w
  BY <1>2, <1>5, <1>6
<1> QED
  BY <1>6, <1>7, <1>8 DEF m, w, k

-----------------------------------------------------------------------------
(* Packets that share a budget *)

\* Packets as build_packet makes them.
PacketsOf(p, tasks, s, k) ==
    /\ DOMAIN k = tasks
    /\ \A t \in tasks : /\ k[t].mandatory = Mandatory(p, t, s)
                        /\ k[t].carry = (Mandatory(p, t, s) > TaskFloor)
                        /\ k[t].tokens \in Nat
                        /\ Mandatory(p, t, s) <= k[t].tokens
                        /\ k[t].tokens <= Whole(p, t, s)

Carries(p, tasks, s) == SumFunction([t \in tasks |-> CarryBlock(p, t, s)])

\* What some packets hold is within the budget they share, but for half a token of
\* rounding each, and their carries.
WithinShare(p, tasks, s, k, num, den) ==
    2 * (den * Dispatched(k)) <=
        2 * num + den * Cardinality(tasks) + 2 * (den * Carries(p, tasks, s))

\* What packets hold, and their carries, are sums of natural numbers.
LEMMA DispatchedSum ==
  ASSUME NEW p, IsPlan(p), NEW tasks \in SUBSET p.tasks, NEW s \in [p.tasks -> Nat], NEW k,
         PacketsOf(p, tasks, s, k)
  PROVE  /\ IsFiniteSet(tasks) /\ Cardinality(tasks) \in Nat
         /\ Dispatched(k) = SumFunctionOnSet([t \in tasks |-> k[t].tokens], tasks)
         /\ Dispatched(k) \in Nat
         /\ Carries(p, tasks, s) = SumFunctionOnSet([t \in tasks |-> CarryBlock(p, t, s)], tasks)
         /\ Carries(p, tasks, s) \in Nat
<1> DEFINE f == [t \in tasks |-> k[t].tokens]
           c == [t \in tasks |-> CarryBlock(p, t, s)]
<1>1. IsFiniteSet(tasks) /\ Cardinality(tasks) \in Nat
  BY PlanFields, FS_Subset, FS_CardinalityType
<1>2. \A t \in tasks : f[t] \in Nat /\ c[t] \in Nat
  BY BlockTypes DEF PacketsOf
<1>3. Dispatched(k) = SumFunctionOnSet(f, tasks) /\ Carries(p, tasks, s) = SumFunctionOnSet(c, tasks)
  BY DEF PacketsOf, Dispatched, SumFunction, Carries
<1> HIDE DEF f, c
<1>4. SumFunctionOnSet(f, tasks) \in Nat /\ SumFunctionOnSet(c, tasks) \in Nat
  BY <1>1, <1>2, SumType
<1> QED
  BY <1>1, <1>3, <1>4 DEF f, c

\* Any function with the sizes of the packets sums up to what is dispatched.
LEMMA DispatchedIs ==
  ASSUME NEW p, IsPlan(p), NEW tasks \in SUBSET p.tasks, NEW s \in [p.tasks -> Nat], NEW k,
         PacketsOf(p, tasks, s, k), NEW f, \A t \in tasks : f[t] = k[t].tokens
  PROVE  /\ Dispatched(k) = SumFunctionOnSet(f, tasks)
         /\ Dispatched(k) \in Nat
         /\ Carries(p, tasks, s) \in Nat
<1> DEFINE g == [t \in tasks |-> k[t].tokens]
<1>1. /\ IsFiniteSet(tasks)
      /\ Dispatched(k) = SumFunctionOnSet(g, tasks) /\ Dispatched(k) \in Nat
      /\ Carries(p, tasks, s) \in Nat
  BY DispatchedSum
<1>2. \A t \in tasks : g[t] \in Int /\ f[t] = g[t]
  BY DEF PacketsOf
<1> HIDE DEF g
<1>3. SumFunctionOnSet(g, tasks) = SumFunctionOnSet(f, tasks)
  BY <1>1, <1>2, SumSame
<1> QED
  BY <1>1, <1>3

\* The residue of a budget, and the budget of a packet in the correction.
Residual(k, num, den) == num - den * Dispatched(k)

Small(k, num, den) ==
    \E size \in {Residual(k, num, den), -Residual(k, num, den)} :
        size >= 0 /\ (size <= den \/ 200 * size <= num)

Corrected(k, t, num, e, den) ==
    Round(Larger(TaskTokens * e, k[t].tokens * e + Residual(k, num, den)), e)

\* A correction, by its residue and its budgets.
LEMMA CorrectIs ==
  ASSUME NEW p, NEW s, NEW k, NEW num, NEW den
  PROVE  LET e == den * Cardinality(DOMAIN k)
         IN  Correct(p, k, s, num, den) =
               IF Small(k, num, den) THEN k
               ELSE [t \in DOMAIN k |-> Packet(p, t, s, Corrected(k, t, num, e, den))]
BY DEF Correct, Small, Residual, Corrected

\* What build_packet makes of any budgets are packets.
LEMMA PacketsArePackets ==
  ASSUME NEW p, IsPlan(p), NEW tasks \in SUBSET p.tasks, NEW s \in [p.tasks -> Nat],
         NEW b, \A t \in tasks : b[t] \in Int
  PROVE  PacketsOf(p, tasks, s, [t \in tasks |-> Packet(p, t, s, b[t])])
<1> DEFINE k == [t \in tasks |-> Packet(p, t, s, b[t])]
<1>1. \A t \in tasks : k[t] = Packet(p, t, s, b[t])
  OBVIOUS
<1>2. DOMAIN k = tasks
  OBVIOUS
<1> HIDE DEF k
<1>3. ASSUME NEW t \in tasks
      PROVE  /\ k[t].mandatory = Mandatory(p, t, s)
             /\ k[t].carry = (Mandatory(p, t, s) > TaskFloor)
             /\ k[t].tokens \in Nat
             /\ Mandatory(p, t, s) <= k[t].tokens
             /\ k[t].tokens <= Whole(p, t, s)
  <2>1. t \in p.tasks /\ b[t] \in Int
    OBVIOUS
  <2> QED
    BY <1>1, <2>1, PacketSize
<1>4. PacketsOf(p, tasks, s, k)
  BY <1>2, <1>3 DEF PacketsOf
<1> QED
  BY <1>4 DEF k

\* The numbers of a correction are integers.
LEMMA CorrectedType ==
  ASSUME NEW p, IsPlan(p), NEW tasks \in SUBSET p.tasks, NEW s \in [p.tasks -> Nat], NEW k,
         PacketsOf(p, tasks, s, k), NEW num \in Int, NEW den \in Nat \ {0}, tasks # {},
         NEW e, e = den * Cardinality(tasks)
  PROVE  /\ e \in Nat \ {0} /\ Residual(k, num, den) \in Int
         /\ \A t \in tasks : Corrected(k, t, num, e, den) \in Int
         /\ \A t \in tasks : TaskTokens * e <= k[t].tokens * e /\ TaskTokens * e \in Int
                             /\ k[t].tokens * e \in Int
<1>1. Cardinality(tasks) \in Nat /\ Cardinality(tasks) # 0
  BY DispatchedSum, FS_EmptySet
<1>2. e \in Nat \ {0}
  BY <1>1
<1>3. Residual(k, num, den) \in Int
  <2>1. Dispatched(k) \in Nat
    BY DispatchedSum
  <2>2. den * Dispatched(k) \in Int
    BY <2>1
  <2> QED
    BY <2>2 DEF Residual
<1>4. ASSUME NEW t \in tasks
      PROVE  TaskTokens * e <= k[t].tokens * e /\ TaskTokens * e \in Int /\ k[t].tokens * e \in Int
  <2>1. k[t].tokens \in Nat /\ Mandatory(p, t, s) <= k[t].tokens
    BY DEF PacketsOf
  <2>2. TaskTokens \in Nat /\ TaskTokens <= k[t].tokens
    BY <2>1, BlockTypes, Constants
  <2> QED
    BY <1>2, <2>1, <2>2, Products
<1>5. ASSUME NEW t \in tasks PROVE Corrected(k, t, num, e, den) \in Int
  <2>1. Larger(TaskTokens * e, k[t].tokens * e + Residual(k, num, den)) \in Int
    BY <1>3, <1>4 DEF Larger
  <2> QED
    BY <1>2, <2>1, RoundNear DEF Corrected
<1> QED
  BY <1>2, <1>3, <1>4, <1>5

\* A correction of packets gives packets.
LEMMA CorrectPackets ==
  ASSUME NEW p, IsPlan(p), NEW tasks \in SUBSET p.tasks, NEW s \in [p.tasks -> Nat], NEW k,
         PacketsOf(p, tasks, s, k), NEW num \in Int, NEW den \in Nat \ {0}, tasks # {}
  PROVE  PacketsOf(p, tasks, s, Correct(p, k, s, num, den))
<1> DEFINE e == den * Cardinality(tasks)
           b == [t \in tasks |-> Corrected(k, t, num, e, den)]
<1>1. DOMAIN k = tasks
  BY DEF PacketsOf
<1>2. \A t \in tasks : Corrected(k, t, num, e, den) \in Int
  BY CorrectedType
<1>3. PacketsOf(p, tasks, s, [t \in tasks |-> Packet(p, t, s, b[t])])
  <2>1. \A t \in tasks : b[t] \in Int
    BY <1>2
  <2> HIDE DEF b
  <2> QED
    BY <2>1, PacketsArePackets
<1>4. [t \in tasks |-> Packet(p, t, s, b[t])] = [t \in tasks |-> Packet(p, t, s, Corrected(k, t, num, e, den))]
  OBVIOUS
<1> QED
  BY <1>1, <1>3, <1>4, CorrectIs

-----------------------------------------------------------------------------
(* The correction *)

\* A correction keeps packets within the budget they share.
LEMMA CorrectKeeps ==
  ASSUME NEW p, IsPlan(p), NEW tasks \in SUBSET p.tasks, NEW s \in [p.tasks -> Nat], NEW k,
         PacketsOf(p, tasks, s, k), NEW num \in Int, NEW den \in Nat \ {0}, tasks # {},
         WithinShare(p, tasks, s, k, num, den)
  PROVE  WithinShare(p, tasks, s, Correct(p, k, s, num, den), num, den)
<1> DEFINE n == Cardinality(tasks)
           e == den * n
           R == Residual(k, num, den)
           b == [t \in tasks |-> Corrected(k, t, num, e, den)]
           l == [t \in tasks |-> Packet(p, t, s, b[t])]
           old == [t \in tasks |-> k[t].tokens]
           new == [t \in tasks |-> l[t].tokens]
<1>1. DOMAIN k = tasks
  BY DEF PacketsOf
<1>2. /\ IsFiniteSet(tasks) /\ n \in Nat
      /\ Dispatched(k) = SumFunctionOnSet(old, tasks) /\ Dispatched(k) \in Nat
  <2>1. \A t \in tasks : old[t] = k[t].tokens
    OBVIOUS
  <2>2. IsFiniteSet(tasks) /\ n \in Nat
    BY PlanFields, FS_Subset, FS_CardinalityType
  <2> HIDE DEF old, n
  <2>3. Dispatched(k) = SumFunctionOnSet(old, tasks) /\ Dispatched(k) \in Nat
    BY <2>1, DispatchedIs
  <2> QED
    BY <2>2, <2>3
<1>3. /\ e \in Nat \ {0} /\ R \in Int /\ \A t \in tasks : b[t] \in Int
      /\ \A t \in tasks : TaskTokens * e <= k[t].tokens * e /\ TaskTokens * e \in Int
                          /\ k[t].tokens * e \in Int
  BY CorrectedType
<1>4. Correct(p, k, s, num, den) = IF Small(k, num, den) THEN k ELSE l
  <2>1. l = [t \in tasks |-> Packet(p, t, s, Corrected(k, t, num, e, den))]
    OBVIOUS
  <2> QED
    BY <1>1, <2>1, CorrectIs
<1>5. \A t \in tasks : b[t] = Corrected(k, t, num, e, den)
  OBVIOUS
<1>6. PacketsOf(p, tasks, s, l)
  <2> HIDE DEF b
  <2> QED
    BY <1>3, PacketsArePackets
<1>7. /\ Dispatched(l) = SumFunctionOnSet(new, tasks) /\ Dispatched(l) \in Nat
      /\ Carries(p, tasks, s) \in Nat
  <2>1. \A t \in tasks : new[t] = l[t].tokens
    OBVIOUS
  <2> HIDE DEF l, new
  <2> QED
    BY <1>6, <2>1, DispatchedIs
<1>8. \A t \in tasks : l[t] = Packet(p, t, s, b[t])
  OBVIOUS
<1>9. \A t \in tasks : old[t] = k[t].tokens /\ new[t] = l[t].tokens
  OBVIOUS
<1> HIDE DEF n, e, R, b, l, old, new
<1>10. ASSUME NEW t \in tasks
       PROVE  /\ old[t] \in Nat /\ new[t] \in Nat
              /\ R <= 0 => new[t] <= old[t]
              /\ R > 0 => 2 * (e * new[t]) <= 2 * (e * old[t]) + 2 * R + e
  <2> DEFINE x == e * old[t]
             v == Larger(TaskTokens * e, k[t].tokens * e + R)
  <2>1. t \in p.tasks /\ b[t] \in Int
    BY <1>3
  <2>2. /\ new[t] \in Nat /\ (new[t] <= Mandatory(p, t, s) \/ new[t] <= b[t])
        /\ old[t] \in Nat /\ Mandatory(p, t, s) <= old[t]
        /\ Mandatory(p, t, s) \in Nat
    <3>1. new[t] \in Nat /\ (new[t] <= Mandatory(p, t, s) \/ new[t] <= b[t])
      BY <1>8, <1>9, <2>1, PacketSize
    <3>2. old[t] \in Nat /\ Mandatory(p, t, s) <= old[t]
      BY <1>9 DEF PacketsOf
    <3>3. Mandatory(p, t, s) \in Nat
      BY <2>1, BlockTypes
    <3> QED
      BY <3>1, <3>2, <3>3
  <2>3. x \in Int /\ k[t].tokens * e = x /\ TaskTokens * e \in Int /\ TaskTokens * e <= x
    <3>1. k[t].tokens = old[t]
      BY <1>9
    <3>2. k[t].tokens * e = e * old[t]
      BY <1>3, <2>2, <3>1
    <3> QED
      BY <1>3, <2>2, <3>2
  <2>4. b[t] = Round(v, e)
    BY <1>5 DEF Corrected, R
  <2>5. v \in Int /\ (R <= 0 => v <= x) /\ (R > 0 => v = x + R)
    <3>1. v = Larger(TaskTokens * e, x + R)
      BY <2>3
    <3>2. TaskTokens * e \in Int /\ TaskTokens * e <= x /\ x \in Int /\ R \in Int
      BY <1>3, <2>3
    <3> HIDE DEF v, x
    <3> QED
      BY <3>1, <3>2 DEF Larger
  <2>6. R <= 0 => new[t] <= old[t]
    <3> SUFFICES ASSUME R <= 0 PROVE new[t] <= old[t]
      OBVIOUS
    <3>1. v <= e * old[t] /\ v \in Int
      BY <2>5
    <3> HIDE DEF v, x
    <3>2. b[t] <= old[t]
      BY <1>3, <2>2, <2>4, <3>1, RoundKeeps
    <3>3. b[t] \in Int /\ old[t] \in Int /\ new[t] \in Int /\ Mandatory(p, t, s) \in Int
      BY <2>1, <2>2
    <3> QED
      BY <2>2, <3>2, <3>3
  <2>7. R > 0 => 2 * (e * new[t]) <= 2 * (e * old[t]) + 2 * R + e
    <3> SUFFICES ASSUME R > 0 PROVE 2 * (e * new[t]) <= 2 * x + 2 * R + e
      OBVIOUS
    <3>1. v = x + R /\ v \in Int /\ v >= e * old[t]
      BY <1>3, <2>3, <2>5
    <3> HIDE DEF v
    <3>2. 2 * (e * b[t]) <= 2 * v + e
      BY <1>3, <2>4, <3>1, RoundNear
    <3>3. old[t] <= b[t]
      BY <1>3, <2>2, <2>4, <3>1, RoundKeeps
    <3>4. new[t] <= b[t]
      BY <2>1, <2>2, <3>3
    <3>5. e * new[t] <= e * b[t] /\ e * new[t] \in Int /\ e * b[t] \in Int
      <4>1. e \in Nat \ {0} /\ new[t] \in Int /\ b[t] \in Int
        BY <1>3, <2>1, <2>2
      <4> QED
        BY <3>4, <4>1, Products
    <3> DEFINE y == e * new[t]
               z == e * b[t]
    <3>6. y <= z /\ y \in Int /\ z \in Int /\ 2 * z <= 2 * v + e /\ v = x + R /\ x \in Int /\ e \in Nat /\ R \in Int
      BY <1>3, <2>3, <3>1, <3>2, <3>5
    <3> HIDE DEF x, y, z
    <3>7. 2 * y <= 2 * x + 2 * R + e
      BY <3>6
    <3> QED
      BY <3>7 DEF y
  <2> QED
    BY <2>2, <2>6, <2>7
<1>11. CASE R <= 0
  <2>1. Dispatched(l) <= Dispatched(k)
    <3>1. \A t \in tasks : new[t] \in Int /\ old[t] \in Int /\ new[t] <= old[t]
      BY <1>10, <1>11
    <3> QED
      BY <1>2, <1>7, <3>1, SumAtMost
  <2>2. den * Dispatched(l) <= den * Dispatched(k)
    BY <1>2, <1>7, <2>1, Products
  <2> DEFINE x == den * Dispatched(l)
             y == den * Dispatched(k)
             w == 2 * num + den * Cardinality(tasks) + 2 * (den * Carries(p, tasks, s))
  <2>3. x \in Int /\ y \in Int /\ w \in Int /\ x <= y
    <3>1. Cardinality(tasks) \in Nat
      BY <1>2 DEF n
    <3>2. den * Cardinality(tasks) \in Int /\ den * Carries(p, tasks, s) \in Int
          /\ den * Dispatched(l) \in Int /\ den * Dispatched(k) \in Int
      BY <1>2, <1>7, <3>1, Products
    <3> QED
      BY <2>2, <3>2
  <2>4. 2 * y <= w
    BY DEF WithinShare
  <2>5. 2 * x <= w
    <3> HIDE DEF x, y, w
    <3> QED
      BY <2>3, <2>4
  <2>6. WithinShare(p, tasks, s, l, num, den)
    BY <2>5 DEF WithinShare
  <2> QED
    BY <1>4, <2>6
<1>12. CASE R > 0
  <2> DEFINE g == [t \in tasks |-> new[t] - old[t]]
             E == 2 * e
             M == 2 * R + e
  <2>1. \A t \in tasks : g[t] = new[t] - old[t]
    OBVIOUS
  <2> HIDE DEF g
  <2>2. E \in Int /\ M \in Int
    BY <1>3
  <2>3. ASSUME NEW t \in tasks
        PROVE  g[t] \in Int /\ new[t] = g[t] + old[t] /\ E * g[t] <= M
    <3>1. old[t] \in Int /\ new[t] \in Int /\ 2 * (e * new[t]) <= 2 * (e * old[t]) + M
      BY <1>3, <1>10, <1>12
    <3>2. E * (new[t] - old[t]) = 2 * (e * new[t]) - 2 * (e * old[t])
      BY <1>3, <3>1
    <3>3. e * new[t] \in Int /\ e * old[t] \in Int
      BY <1>3, <3>1
    <3>4. g[t] = new[t] - old[t]
      BY <2>1
    <3> HIDE DEF E, M
    <3>5. E * g[t] <= M
      BY <2>2, <3>1, <3>2, <3>3, <3>4
    <3> QED
      BY <3>1, <3>4, <3>5
  <2> DEFINE G == SumFunctionOnSet(g, tasks)
  <2>4. E * G <= M * n /\ G \in Int
    <3> HIDE DEF E, M
    <3>1. \A t \in tasks : g[t] \in Int /\ E * g[t] <= M
      BY <2>3
    <3> QED
      BY <1>2, <2>2, <3>1, SumBounded, SumType DEF n
  <2>5. Dispatched(l) = G + Dispatched(k)
    <3>1. \A t \in tasks : g[t] \in Int /\ old[t] \in Int /\ new[t] = g[t] + old[t]
      BY <1>10, <2>3
    <3> QED
      BY <1>2, <1>7, <3>1, SumOfSums
  <2>6. 2 * (den * G) <= M
    <3> DEFINE a == 2 * (den * G)
    <3>1. n \in Nat \ {0}
      <4>1. n # 0
        BY <1>3 DEF e
      <4> QED
        BY <1>2, <4>1
    <3>2. E * G = n * a /\ a \in Int /\ M * n = n * M
      BY <2>2, <2>4, <3>1 DEF e
    <3> HIDE DEF a, E, M
    <3>3. n * a <= n * M
      BY <2>4, <3>2
    <3>4. a <= M
      BY <2>2, <3>1, <3>2, <3>3, Products
    <3> QED
      BY <3>4 DEF a
  <2>7. den * Dispatched(l) = den * G + den * Dispatched(k)
    BY <1>2, <2>4, <2>5, Products
  <2>8. R = num - den * Dispatched(k)
    BY DEF R, Residual
  <2> DEFINE x == den * G
             y == den * Dispatched(k)
             z == den * Dispatched(l)
             c == den * Carries(p, tasks, s)
  <2>9. x \in Int /\ y \in Int /\ z \in Int /\ c \in Int /\ z = x + y /\ R = num - y
        /\ 2 * x <= 2 * R + e /\ c >= 0
    <3>1. x \in Int /\ y \in Int /\ z \in Int /\ c \in Int /\ c >= 0
      BY <1>2, <1>7, <2>4, Products
    <3> QED
      BY <2>6, <2>7, <2>8, <3>1
  <2>10. 2 * z <= 2 * num + e + 2 * c
    <3> HIDE DEF x, y, z, c
    <3> QED
      BY <1>3, <2>9
  <2>11. WithinShare(p, tasks, s, l, num, den)
    BY <2>10 DEF WithinShare, e, n
  <2> QED
    BY <1>4, <2>11
<1> QED
  BY <1>3, <1>11, <1>12

-----------------------------------------------------------------------------
(* The first pass, and the packets of a level *)

\* Tasks of one level desire the same amount of context.
LEMMA LevelDesires ==
  ASSUME NEW p, IsPlan(p), NEW k \in 1 .. Cardinality(p.tasks), NEW s \in [p.tasks -> Nat],
         NEW a \in Level(p, k)
  PROVE  \A t \in Level(p, k) : Desired(p, t, s) = Desired(p, a, s)
<1> TAKE t \in Level(p, k)
<1>1. CASE t = a
  BY <1>1
<1>2. CASE t # a
  <2>1. p.depends[t] = {} /\ p.depends[a] = {}
    BY <1>2, LevelAlike
  <2>2. \A x : p.depends[x] = {} => PredecessorContext(p, x, s) = 0
    BY DEF PredecessorContext, PredecessorBlock
  <2>3. PredecessorContext(p, t, s) = 0 /\ PredecessorContext(p, a, s) = 0
    BY <2>1, <2>2
  <2> QED
    BY <2>3 DEF Desired
<1> QED
  BY <1>1, <1>2

\* The budget of a packet in the first pass.
First1(p, t, s, all, slack, den) ==
    Round(TaskTokens * den * all + slack * Desired(p, t, s), den * all)

\* The first pass, by its budgets.
LEMMA FirstPassIs ==
  ASSUME NEW p, NEW tasks, NEW s, NEW num, NEW den
  PROVE  FirstPass(p, tasks, s, num, den) =
           [t \in tasks |-> Packet(p, t, s,
              First1(p, t, s, SumFunction([x \in tasks |-> Desired(p, x, s)]),
                     Larger(0, num - den * TaskTokens * Cardinality(tasks)), den))]
BY DEF FirstPass, First1

\* What the first pass gives is packets, and within the budget when the tasks desire the
\* same and the budget is not below their floors.
LEMMA FirstPassKeeps ==
  ASSUME NEW p, IsPlan(p), NEW tasks \in SUBSET p.tasks, NEW s \in [p.tasks -> Nat],
         NEW num \in Int, NEW den \in Nat \ {0}, tasks # {},
         NEW d, \A t \in tasks : Desired(p, t, s) = d
  PROVE  /\ PacketsOf(p, tasks, s, FirstPass(p, tasks, s, num, den))
         /\ den * (TaskFloor * Cardinality(tasks)) <= num
              => WithinShare(p, tasks, s, FirstPass(p, tasks, s, num, den), num, den)
<1> DEFINE n == Cardinality(tasks)
           want == [t \in tasks |-> Desired(p, t, s)]
           all == SumFunction(want)
           slack == Larger(0, num - den * TaskTokens * n)
           b == [t \in tasks |-> First1(p, t, s, all, slack, den)]
           l == [t \in tasks |-> Packet(p, t, s, b[t])]
<1>1. IsFiniteSet(tasks) /\ n \in Nat \ {0}
  BY PlanFields, FS_Subset, FS_CardinalityType, FS_EmptySet
<1>2. d \in Nat \ {0}
  BY BlockTypes
<1>3. all = d * n
  <2>1. (\A t \in tasks : want[t] = d) /\ all = SumFunctionOnSet(want, tasks)
    BY DEF SumFunction
  <2> HIDE DEF want, all
  <2> QED
    BY <1>1, <1>2, <2>1, SumOfConstant
<1>4. FirstPass(p, tasks, s, num, den) = l
  <2>1. l = [t \in tasks |-> Packet(p, t, s, First1(p, t, s, all, slack, den))]
    OBVIOUS
  <2> QED
    BY <2>1, FirstPassIs
<1>5. \A t \in tasks : b[t] = First1(p, t, s, all, slack, den)
  OBVIOUS
<1>6. \A t \in tasks : l[t] = Packet(p, t, s, b[t])
  OBVIOUS
<1>7. slack = Larger(0, num - den * TaskTokens * n)
  OBVIOUS
<1> DEFINE e == den * n
           q == d * e
<1>8. e \in Nat \ {0} /\ q \in Nat \ {0}
  BY <1>1, <1>2
<1>9. den * all = q /\ TaskTokens * den * all = TaskTokens * q /\ den * TaskTokens * n = TaskTokens * e
      /\ TaskTokens * q = d * (TaskTokens * e) /\ TaskTokens * e \in Int /\ TaskTokens * q \in Int
  BY <1>1, <1>2, <1>3, <1>8, Constants
<1>10. slack \in Int
  BY <1>7, <1>9 DEF Larger
<1> HIDE DEF n, want, all, slack, b, l, e, q
<1>11. \A t \in tasks : b[t] = Round(TaskTokens * q + slack * d, q)
  BY <1>5, <1>9 DEF First1
<1>12. \A t \in tasks : b[t] \in Int
  <2>1. slack * d \in Int
    BY <1>2, <1>10
  <2>2. TaskTokens * q + slack * d \in Int
    BY <1>9, <2>1
  <2> QED
    BY <1>8, <1>11, <2>2, RoundNear
<1>13. PacketsOf(p, tasks, s, l)
  <2>1. PacketsOf(p, tasks, s, [t \in tasks |-> Packet(p, t, s, b[t])])
    BY <1>12, PacketsArePackets
  <2> QED
    BY <2>1 DEF l
<1>14. ASSUME den * (TaskFloor * Cardinality(tasks)) <= num
       PROVE  WithinShare(p, tasks, s, l, num, den)
  <2>1. TaskFloor * e <= num /\ TaskTokens * e <= num /\ TaskFloor * e \in Int
    <3>1. den * (TaskFloor * Cardinality(tasks)) = TaskFloor * e
      BY <1>1, Constants DEF e, n
    <3>2. TaskTokens * e <= TaskFloor * e /\ TaskFloor * e \in Int
      <4>1. e * TaskTokens <= e * TaskFloor /\ e * TaskFloor \in Int
        BY <1>8, Constants, Products
      <4> QED
        BY <1>8, <4>1, Constants
    <3> QED
      BY <1>9, <1>14, <3>1, <3>2
  <2>2. slack = num - TaskTokens * e
    <3>1. slack = Larger(0, num - TaskTokens * e)
      BY <1>7, <1>9
    <3> DEFINE z == TaskTokens * e
    <3>2. z \in Int /\ z <= num /\ slack = Larger(0, num - z)
      BY <1>9, <2>1, <3>1
    <3> HIDE DEF z
    <3>3. slack = num - z
      BY <3>2 DEF Larger
    <3> QED
      BY <3>3 DEF z
  <2>3. TaskTokens * q + slack * d = d * num
    <3> DEFINE z == TaskTokens * e
    <3>1. z \in Int /\ TaskTokens * q = d * z /\ slack = num - z
      BY <1>9, <2>2
    <3> HIDE DEF z
    <3>2. slack * d = d * num - d * z
      BY <1>2, <3>1
    <3>3. d * num \in Int /\ d * z \in Int
      BY <1>2, <3>1
    <3> QED
      BY <3>1, <3>2, <3>3
  <2>4. ASSUME NEW t \in tasks
        PROVE  TaskFloor <= b[t] /\ 2 * (e * b[t]) <= 2 * num + e
    <3>1. b[t] = Round(d * num, q) /\ d * num \in Int /\ b[t] \in Int
      BY <1>2, <1>11, <1>12, <2>3
    <3>2. 2 * (q * b[t]) <= 2 * (d * num) + q
      BY <1>8, <3>1, RoundNear
    <3>3. q * TaskFloor <= d * num
      <4>1. q * TaskFloor = d * (TaskFloor * e)
        BY <1>2, <1>8, Constants DEF q
      <4>2. d * (TaskFloor * e) <= d * num
        BY <1>2, <2>1, Products
      <4> QED
        BY <4>1, <4>2
    <3>4. TaskFloor <= b[t]
      BY <1>8, <3>1, <3>3, Constants, RoundKeeps
    <3>5. d * (2 * (e * b[t])) <= d * (2 * num + e)
      <4>1. d * (2 * (e * b[t])) = 2 * (q * b[t])
        BY <1>2, <1>8, <3>1 DEF q
      <4>2. d * (2 * num + e) = 2 * (d * num) + q
        BY <1>2, <1>8 DEF q
      <4> QED
        BY <3>2, <4>1, <4>2
    <3>6. 2 * (e * b[t]) <= 2 * num + e
      <4>1. 2 * (e * b[t]) \in Int /\ 2 * num + e \in Int
        BY <1>8, <3>1
      <4> DEFINE y == 2 * (e * b[t])
                 z == 2 * num + e
      <4>2. y \in Int /\ z \in Int /\ d * y <= d * z
        BY <3>5, <4>1
      <4> HIDE DEF y, z
      <4>3. y <= z
        BY <1>2, <4>2, Products
      <4> QED
        BY <4>3 DEF y, z
    <3> QED
      BY <3>4, <3>6
  <2> DEFINE tok == [t \in tasks |-> l[t].tokens]
             car == [t \in tasks |-> CarryBlock(p, t, s)]
             g == [t \in tasks |-> tok[t] - car[t]]
             E == 2 * e
             M == 2 * num + e
  <2>5. /\ \A t \in tasks : tok[t] = l[t].tokens /\ car[t] = CarryBlock(p, t, s)
                            /\ g[t] = tok[t] - car[t]
        /\ Carries(p, tasks, s) = SumFunctionOnSet(car, tasks)
    BY DEF Carries, SumFunction
  <2>6. E \in Int /\ M \in Int
    BY <1>8
  <2> HIDE DEF tok, car, g
  <2>7. ASSUME NEW t \in tasks
        PROVE  tok[t] \in Int /\ g[t] \in Int /\ car[t] \in Int /\ tok[t] = g[t] + car[t]
               /\ E * g[t] <= M
    <3>1. t \in p.tasks /\ b[t] \in Int
      BY <1>12
    <3>2. /\ tok[t] \in Nat /\ (tok[t] <= Mandatory(p, t, s) \/ tok[t] <= b[t])
      BY <1>6, <2>5, <3>1, PacketSize
    <3>3. car[t] \in Nat /\ Mandatory(p, t, s) = TaskFloor + car[t]
      BY <2>5, <3>1, BlockTypes
    <3>4. g[t] = tok[t] - car[t] /\ g[t] \in Int /\ g[t] <= b[t]
      <4>1. TaskFloor <= b[t] /\ TaskFloor \in Int
        BY <2>4, Constants
      <4> QED
        BY <2>5, <3>1, <3>2, <3>3, <4>1
    <3>5. e * g[t] <= e * b[t] /\ e * g[t] \in Int /\ e * b[t] \in Int
      BY <1>8, <3>1, <3>4, Products
    <3>6. E * g[t] = 2 * (e * g[t])
      BY <1>8, <3>4
    <3>7. E * g[t] <= M
      <4>1. 2 * (e * b[t]) <= M
        BY <2>4
      <4> DEFINE y == e * g[t]
                 z == e * b[t]
      <4>2. y \in Int /\ z \in Int /\ y <= z /\ 2 * z <= M /\ E * g[t] = 2 * y
        BY <3>5, <3>6, <4>1
      <4> HIDE DEF y, z, M, E
      <4> QED
        BY <2>6, <4>2
    <3> QED
      BY <3>2, <3>3, <3>4, <3>7
  <2> HIDE DEF E, M
  <2> DEFINE G == SumFunctionOnSet(g, tasks)
             C == Carries(p, tasks, s)
             D == Dispatched(l)
  <2>8. E * G <= M * n /\ G \in Int
    <3>1. \A t \in tasks : g[t] \in Int /\ E * g[t] <= M
      BY <2>7
    <3> QED
      BY <1>1, <2>6, <3>1, SumBounded, SumType DEF n
  <2>9. D = G + C /\ C \in Nat /\ D \in Nat
    <3>1. D = SumFunctionOnSet(tok, tasks) /\ C \in Nat /\ D \in Nat
      BY <1>13, <2>5, DispatchedIs
    <3>2. \A t \in tasks : g[t] \in Int /\ car[t] \in Int /\ tok[t] = g[t] + car[t]
      BY <2>7
    <3> QED
      BY <1>1, <2>5, <3>1, <3>2, SumOfSums
  <2> HIDE DEF G, C, D
  <2>10. 2 * (den * G) <= M
    <3> DEFINE a == 2 * (den * G)
    <3>1. E * G = n * a /\ a \in Int /\ M * n = n * M
      BY <1>1, <2>6, <2>8 DEF E, e
    <3> HIDE DEF a
    <3>2. n * a <= n * M
      BY <2>8, <3>1
    <3>3. a <= M
      BY <1>1, <2>6, <3>1, <3>2, Products
    <3> QED
      BY <3>3 DEF a
  <2>11. den * D = den * G + den * C
    BY <2>8, <2>9, Products
  <2>12. 2 * (den * D) <= 2 * num + e + 2 * (den * C)
    <3> DEFINE x == den * G
               y == den * C
               z == den * D
    <3>1. x \in Int /\ y \in Int /\ z \in Int /\ z = x + y /\ 2 * x <= 2 * num + e
      <4>1. x \in Int /\ y \in Int /\ z \in Int
        BY <2>8, <2>9, Products
      <4> QED
        BY <2>10, <2>11, <4>1 DEF M
    <3> HIDE DEF x, y, z
    <3>2. 2 * z <= 2 * num + e + 2 * y
      BY <1>8, <3>1
    <3> QED
      BY <3>2 DEF y, z
  <2> QED
    BY <2>12 DEF WithinShare, D, C, e, n
<1> QED
  BY <1>4, <1>13, <1>14

\* build_packets is the first pass, corrected twice where there is slack.
LEMMA BuildIs ==
  ASSUME NEW p, NEW tasks, NEW s, NEW num, NEW den
  PROVE  BuildPackets(p, tasks, s, num, den) =
           IF num > den * TaskTokens * Cardinality(tasks)
           THEN Correct(p, Correct(p, FirstPass(p, tasks, s, num, den), s, num, den), s, num, den)
           ELSE FirstPass(p, tasks, s, num, den)
BY DEF BuildPackets

\* The packets of a level are within its share of the budget, when that covers its floors.
LEMMA LevelWithinShare ==
  ASSUME NEW p, IsPlan(p), NEW k \in 1 .. Cardinality(p.tasks), NEW s \in [p.tasks -> Nat],
         Level(p, k) # {}, NEW num \in Int, NEW den \in Nat \ {0}
  PROVE  LET tasks == Level(p, k)
             built == BuildPackets(p, tasks, s, num, den)
         IN  /\ PacketsOf(p, tasks, s, built)
             /\ den * (TaskFloor * Cardinality(tasks)) <= num
                  => WithinShare(p, tasks, s, built, num, den)
<1> DEFINE tasks == Level(p, k)
           a == FirstPass(p, tasks, s, num, den)
           b == Correct(p, a, s, num, den)
           c == Correct(p, b, s, num, den)
           built == BuildPackets(p, tasks, s, num, den)
<1>1. tasks \in SUBSET p.tasks
  <2>1. k \in 0 .. Cardinality(p.tasks)
    BY PlanFields
  <2>2. Placed(p)[k] \subseteq p.tasks
    BY <2>1, PlacedTasks
  <2> QED
    BY <2>2 DEF Level
<1>2. \E d : \A t \in tasks : Desired(p, t, s) = d
  BY LevelDesires
<1>3. built = a \/ built = c
  BY BuildIs
<1>0. tasks # {}
  OBVIOUS
<1> HIDE DEF tasks, a, b, c
<1>4. /\ PacketsOf(p, tasks, s, a)
      /\ den * (TaskFloor * Cardinality(tasks)) <= num => WithinShare(p, tasks, s, a, num, den)
  BY <1>0, <1>1, <1>2, FirstPassKeeps DEF a
<1>5. /\ PacketsOf(p, tasks, s, b)
      /\ WithinShare(p, tasks, s, a, num, den) => WithinShare(p, tasks, s, b, num, den)
  BY <1>0, <1>1, <1>4, CorrectPackets, CorrectKeeps DEF b
<1>6. /\ PacketsOf(p, tasks, s, c)
      /\ WithinShare(p, tasks, s, b, num, den) => WithinShare(p, tasks, s, c, num, den)
  BY <1>0, <1>1, <1>5, CorrectPackets, CorrectKeeps DEF c
<1> QED
  BY <1>3, <1>4, <1>5, <1>6 DEF tasks

-----------------------------------------------------------------------------
(* The ceiling *)

\* The first pass gives packets, whatever the tasks desire.
LEMMA FirstPassPackets ==
  ASSUME NEW p, IsPlan(p), NEW tasks \in SUBSET p.tasks, NEW s \in [p.tasks -> Nat],
         NEW num \in Int, NEW den \in Nat \ {0}, tasks # {}
  PROVE  PacketsOf(p, tasks, s, FirstPass(p, tasks, s, num, den))
<1> DEFINE n == Cardinality(tasks)
           want == [t \in tasks |-> Desired(p, t, s)]
           all == SumFunction(want)
           slack == Larger(0, num - den * TaskTokens * n)
           b == [t \in tasks |-> First1(p, t, s, all, slack, den)]
           l == [t \in tasks |-> Packet(p, t, s, b[t])]
<1>1. IsFiniteSet(tasks) /\ n \in Nat
  BY PlanFields, FS_Subset, FS_CardinalityType
<1>2. \A t \in tasks : want[t] \in Nat \ {0}
  BY BlockTypes
<1>3. all = SumFunctionOnSet(want, tasks)
  BY DEF SumFunction
<1>4. all \in Nat \ {0}
  <2> HIDE DEF want, all
  <2>1. PICK x \in tasks : TRUE
    OBVIOUS
  <2>2. all = want[x] + SumFunctionOnSet(want, tasks \ {x})
    BY <1>1, <1>2, <1>3, SumOut
  <2>3. IsFiniteSet(tasks \ {x}) /\ \A t \in tasks \ {x} : want[t] \in Nat
    BY <1>1, <1>2, FS_Subset
  <2>4. SumFunctionOnSet(want, tasks \ {x}) \in Nat
    BY <2>3, SumType
  <2> QED
    BY <1>2, <2>2, <2>4
<1>5. FirstPass(p, tasks, s, num, den) = l
  <2>1. l = [t \in tasks |-> Packet(p, t, s, First1(p, t, s, all, slack, den))]
    OBVIOUS
  <2> QED
    BY <2>1, FirstPassIs
<1>6. slack \in Int
  <2>1. den * TaskTokens * n \in Int
    BY <1>1, Constants
  <2> QED
    BY <2>1 DEF Larger
<1>7. \A t \in tasks : b[t] = Round(TaskTokens * den * all + slack * Desired(p, t, s), den * all)
  BY DEF First1
<1> HIDE DEF n, want, all, slack, b
<1>8. ASSUME NEW t \in tasks PROVE b[t] \in Int
  <2>1. Desired(p, t, s) \in Int
    BY BlockTypes
  <2>2. den * all \in Nat \ {0} /\ TaskTokens * den * all \in Int
    BY <1>4, Constants
  <2>3. slack * Desired(p, t, s) \in Int
    BY <1>6, <2>1
  <2>4. TaskTokens * den * all + slack * Desired(p, t, s) \in Int
    BY <2>2, <2>3
  <2> QED
    BY <1>7, <2>2, <2>4, RoundNear
<1>9. PacketsOf(p, tasks, s, [t \in tasks |-> Packet(p, t, s, b[t])])
  BY <1>8, PacketsArePackets
<1> QED
  BY <1>5, <1>9

\* A target that is out of reach is met by a correction: each packet holds all there is.
LEMMA CorrectSaturates ==
  ASSUME NEW p, IsPlan(p), NEW s \in [p.tasks -> Nat], NEW k, PacketsOf(p, p.tasks, s, k),
         NEW U \in Int,
         \A t \in p.tasks : 2 * (Cardinality(p.tasks) * Whole(p, t, s)) < U
  PROVE  \A t \in p.tasks : Correct(p, k, s, U, 1)[t].tokens = Whole(p, t, s)
<1> DEFINE n == Cardinality(p.tasks)
           e == 1 * n
           R == Residual(k, U, 1)
           D == Dispatched(k)
           old == [t \in p.tasks |-> k[t].tokens]
<1>1. n \in Nat \ {0} /\ IsFiniteSet(p.tasks) /\ p.tasks # {}
  BY PlanFields
<1>2. DOMAIN k = p.tasks /\ \A t \in p.tasks : k[t].tokens \in Nat /\ k[t].tokens <= Whole(p, t, s)
  BY DEF PacketsOf
<1>3. \A t \in p.tasks : old[t] = k[t].tokens
  OBVIOUS
<1>4. e = n
  BY <1>1
<1> HIDE DEF n, e, R, D, old
<1>5. D = SumFunctionOnSet(old, p.tasks) /\ D \in Nat
  BY <1>3, DispatchedIs DEF D
<1>6. ASSUME NEW t \in p.tasks
      PROVE  Whole(p, t, s) \in Nat \ {0} /\ old[t] \in Int /\ (2 * n) * old[t] <= U
             /\ n * Whole(p, t, s) \in Nat \ {0} /\ 2 * (n * Whole(p, t, s)) < U
  <2>1. Whole(p, t, s) \in Nat \ {0}
    BY BlockTypes
  <2>2. old[t] \in Nat /\ old[t] <= Whole(p, t, s) /\ 2 * (n * Whole(p, t, s)) < U
    BY <1>2, <1>3 DEF n
  <2>3. n * old[t] <= n * Whole(p, t, s) /\ n * old[t] \in Int
    BY <1>1, <2>1, <2>2, Products
  <2>4. n * Whole(p, t, s) \in Nat \ {0}
    BY <1>1, <2>1
  <2>5. (2 * n) * old[t] = 2 * (n * old[t])
    BY <1>1, <2>2
  <2> DEFINE x == n * old[t]
             y == n * Whole(p, t, s)
  <2>6. x \in Int /\ y \in Int /\ x <= y /\ 2 * y < U
    BY <2>2, <2>3, <2>4
  <2> HIDE DEF x, y
  <2>7. 2 * x <= U
    BY <2>6
  <2> QED
    BY <2>1, <2>2, <2>4, <2>5, <2>7 DEF x
<1>7. 2 * D <= U
  <2>1. (2 * n) * D <= U * n
    <3>1. 2 * n \in Int /\ \A t \in p.tasks : old[t] \in Int /\ (2 * n) * old[t] <= U
      BY <1>1, <1>6
    <3> QED
      BY <1>1, <1>5, <3>1, SumBounded DEF n
  <2> DEFINE a == 2 * D
  <2>2. (2 * n) * D = n * a /\ U * n = n * U /\ a \in Int
    BY <1>1, <1>5
  <2> HIDE DEF a
  <2>3. n * a <= n * U
    BY <2>1, <2>2
  <2>4. a <= U
    BY <1>1, <2>2, <2>3, Products
  <2> QED
    BY <2>4 DEF a
<1>8. R = U - D /\ R \in Int /\ 2 * R >= U
  <2>1. R = U - 1 * D
    BY DEF R, Residual, D
  <2> QED
    BY <1>5, <1>7, <2>1
<1>9. U > 2
  <2>1. PICK t \in p.tasks : TRUE
    BY <1>1
  <2> DEFINE y == n * Whole(p, t, s)
  <2>2. y \in Nat \ {0} /\ 2 * y < U
    BY <1>6
  <2> HIDE DEF y
  <2> QED
    BY <2>2
<1>10. ~Small(k, U, 1)
  <2>1. \A size \in {R, -R} : ~(size >= 0 /\ (size <= 1 \/ 200 * size <= U))
    BY <1>8, <1>9
  <2> QED
    BY <2>1 DEF Small, R
<1>11. Correct(p, k, s, U, 1) = [t \in p.tasks |-> Packet(p, t, s, Corrected(k, t, U, e, 1))]
  BY <1>2, <1>10, CorrectIs DEF e, n
<1>12. ASSUME NEW t \in p.tasks
       PROVE  Packet(p, t, s, Corrected(k, t, U, e, 1)).tokens = Whole(p, t, s)
  <2> DEFINE w == Whole(p, t, s)
             v == Larger(TaskTokens * e, k[t].tokens * e + R)
             b == Corrected(k, t, U, e, 1)
  <2>1. b = Round(v, e)
    BY DEF Corrected, R
  <2>2. v \in Int /\ n * w <= v
    <3>1. TaskTokens * e \in Int /\ k[t].tokens * e \in Nat
      BY <1>1, <1>2, <1>4, Constants
    <3> DEFINE x == TaskTokens * e
               y == k[t].tokens * e
               z == n * w
    <3>2. x \in Int /\ y \in Nat /\ z \in Nat /\ 2 * z < U
      BY <1>6, <3>1
    <3>3. v = Larger(x, y + R)
      OBVIOUS
    <3> HIDE DEF x, y, z, v
    <3>4. v \in Int /\ z <= v
      BY <1>8, <3>2, <3>3 DEF Larger
    <3> QED
      BY <3>4 DEF z
  <2>3. w \in Nat /\ e \in Nat \ {0} /\ e * w <= v
    BY <1>1, <1>4, <1>6, <2>2
  <2> HIDE DEF v, w, b
  <2>4. w <= b /\ b \in Int
    BY <2>1, <2>2, <2>3, RoundKeeps, RoundNear
  <2> QED
    BY <2>4, PacketSize DEF w, b
<1> QED
  BY <1>11, <1>12

\* No packets of the plan hold more than the ceiling.
LEMMA CeilingAbove ==
  ASSUME NEW p, IsPlan(p), NEW s \in [p.tasks -> Nat],
         \A t \in p.tasks : 2 * (Cardinality(p.tasks) * Whole(p, t, s)) < Unreachable,
         NEW k, DOMAIN k = p.tasks,
         \A t \in p.tasks : k[t].tokens \in Nat /\ k[t].tokens <= Whole(p, t, s)
  PROVE  Dispatched(k) <= Ceiling(p, s)
<1> DEFINE n == Cardinality(p.tasks)
           U == Unreachable
           a == FirstPass(p, p.tasks, s, U, 1)
           b == Correct(p, a, s, U, 1)
           c == Correct(p, b, s, U, 1)
<1>1. n \in Nat \ {0} /\ IsFiniteSet(p.tasks) /\ p.tasks # {}
  BY PlanFields
<1>2. U \in Int
  BY Constants DEF Unreachable
<1>3. 1 * TaskTokens * n < U
  <2>1. PICK t \in p.tasks : TRUE
    BY <1>1
  <2>2. Whole(p, t, s) \in Nat /\ TaskTokens <= Whole(p, t, s)
    BY BlockTypes, Constants
  <2>3. n * TaskTokens <= n * Whole(p, t, s) /\ n * TaskTokens \in Nat /\ n * Whole(p, t, s) \in Int
    BY <1>1, <2>2, Constants, Products
  <2>4. 1 * TaskTokens * n = n * TaskTokens
    BY <1>1, Constants
  <2> DEFINE x == n * TaskTokens
             y == n * Whole(p, t, s)
  <2>5. x \in Nat /\ y \in Int /\ x <= y /\ 2 * y < U
    BY <2>3
  <2> HIDE DEF x, y, U
  <2>6. x < U
    BY <1>2, <2>5
  <2> QED
    BY <2>4, <2>6 DEF x
<1>4. Ceiling(p, s) = Dispatched(c)
  <2>1. U > 1 * TaskTokens * n
    <3>1. 1 * TaskTokens * n \in Int
      BY <1>1, Constants
    <3> HIDE DEF n, U
    <3> QED
      BY <1>2, <1>3, <3>1
  <2>2. BuildPackets(p, p.tasks, s, U, 1) = c
    BY <2>1, BuildIs
  <2> QED
    BY <2>2 DEF Ceiling
<1> HIDE DEF a, b, c, n
<1>5. PacketsOf(p, p.tasks, s, a)
  <2>1. 1 \in Nat \ {0} /\ p.tasks \in SUBSET p.tasks
    OBVIOUS
  <2>2. PICK one \in Nat \ {0} : one = 1
    BY <2>1
  <2> QED
    BY <1>1, <1>2, <2>1, <2>2, FirstPassPackets DEF a
<1>6. PacketsOf(p, p.tasks, s, b) /\ PacketsOf(p, p.tasks, s, c)
  <2>1. p.tasks \in SUBSET p.tasks
    OBVIOUS
  <2>2. PICK one \in Nat \ {0} : one = 1
    OBVIOUS
  <2>3. PacketsOf(p, p.tasks, s, b)
    BY <1>1, <1>2, <1>5, <2>1, <2>2, CorrectPackets DEF b
  <2> QED
    BY <1>1, <1>2, <2>1, <2>2, <2>3, CorrectPackets DEF c
<1>7. \A t \in p.tasks : c[t].tokens = Whole(p, t, s)
  <2> HIDE DEF U
  <2>1. \A t \in p.tasks : 2 * (Cardinality(p.tasks) * Whole(p, t, s)) < U
    BY DEF U
  <2> QED
    BY <1>2, <1>6, <2>1, CorrectSaturates DEF c
<1> DEFINE f == [t \in p.tasks |-> k[t].tokens]
           g == [t \in p.tasks |-> c[t].tokens]
<1>8. (\A t \in p.tasks : f[t] = k[t].tokens /\ g[t] = c[t].tokens)
      /\ Dispatched(k) = SumFunctionOnSet(f, p.tasks)
  BY DEF Dispatched, SumFunction
<1> HIDE DEF f, g
<1>9. Dispatched(c) = SumFunctionOnSet(g, p.tasks)
  BY <1>6, <1>8, DispatchedIs
<1>10. \A t \in p.tasks : f[t] \in Int /\ g[t] \in Int /\ f[t] <= g[t]
  <2> TAKE t \in p.tasks
  <2>1. f[t] \in Nat /\ f[t] <= Whole(p, t, s) /\ g[t] = Whole(p, t, s)
    BY <1>7, <1>8
  <2>2. Whole(p, t, s) \in Nat
    BY BlockTypes
  <2> QED
    BY <2>1, <2>2
<1> QED
  BY <1>1, <1>4, <1>8, <1>9, <1>10, SumAtMost

=============================================================================
