---------------------------- MODULE ServingProofs ----------------------------
(* Machine-checked theorems about Serving, for any peers, attempts, limits   *)
(* and policies: what a handler takes it gives back, and limits hold.        *)
EXTENDS Serving, FiniteSetTheorems, SequenceTheorems, TLAPS

-----------------------------------------------------------------------------
(* The inductive invariant *)

\* A handler that was let in is remembered, so no attempt has two handlers.
JobsSeen == \A a \in Attempts : job[a] # "none" => a \in seen

\* The limit a probing handler read is one the owner set.
LimitsRead ==
  \A a \in Attempts : job[a] = "probing" => \E q \in Policies : limitRead[a] = q.limit

IInv == TypeOK /\ CountersExact /\ Bounded /\ JobsSeen /\ LimitsRead

-----------------------------------------------------------------------------
(* Counting the attempts whose handler is in some stages *)

Stages == {"none", "probing", "executing", "over"}

\* Those of S whose stage under f is one of some stages.
Those(f, S, stages) == {a \in S : f[a] \in stages}

\* Any set of attempts is finite, and its size a number.
LEMMA AttemptsFinite ==
  ASSUME NEW S \in SUBSET Attempts
  PROVE  IsFiniteSet(S) /\ Cardinality(S) \in Nat
BY ServingAssumption, FS_Subset, FS_CardinalityType

\* A handler that enters the stages counts one more.
LEMMA OneMore ==
  ASSUME NEW f, NEW g, NEW S \in SUBSET Attempts, NEW stages, NEW a \in S,
         \A b \in S : b # a => (g[b] \in stages <=> f[b] \in stages),
         f[a] \notin stages, g[a] \in stages
  PROVE  Cardinality(Those(g, S, stages)) = Cardinality(Those(f, S, stages)) + 1
<1>1. Those(f, S, stages) \in SUBSET Attempts /\ a \notin Those(f, S, stages)
  BY DEF Those
<1>2. Those(g, S, stages) = Those(f, S, stages) \cup {a}
  BY DEF Those
<1>3. IsFiniteSet(Those(f, S, stages))
  BY <1>1, AttemptsFinite
<1>4. Cardinality(Those(f, S, stages) \cup {a}) = Cardinality(Those(f, S, stages)) + 1
  BY <1>1, <1>3, FS_AddElement
<1> QED
  BY <1>2, <1>4

\* One that leaves them counts one less.
LEMMA OneLess ==
  ASSUME NEW f, NEW g, NEW S \in SUBSET Attempts, NEW stages, NEW a \in S,
         \A b \in S : b # a => (g[b] \in stages <=> f[b] \in stages),
         f[a] \in stages, g[a] \notin stages
  PROVE  Cardinality(Those(g, S, stages)) = Cardinality(Those(f, S, stages)) - 1
<1>1. Cardinality(Those(f, S, stages)) = Cardinality(Those(g, S, stages)) + 1
  BY OneMore
<1>2. Those(g, S, stages) \in SUBSET Attempts
  BY DEF Those
<1> QED
  BY <1>1, <1>2, AttemptsFinite

\* When nobody enters or leaves, those counted are the same.
LEMMA NoneMore ==
  ASSUME NEW f, NEW g, NEW S, NEW stages,
         \A b \in S : g[b] \in stages <=> f[b] \in stages
  PROVE  Those(g, S, stages) = Those(f, S, stages)
BY DEF Those

\* The counters in these terms.
Exact(jobs, run, keys, places) ==
  /\ run = Cardinality(Those(jobs, Attempts, {"executing"}))
  /\ keys = Those(jobs, Attempts, {"executing"})
  /\ \A p \in Peers :
       places[p] = Cardinality(Those(jobs, AttemptsOf(p), {"probing", "executing"}))

\* Exact counters, as a statement about the four variables ...
LEMMA CountersAreExact == CountersExact <=> Exact(job, running, cancels, queued)
<1>1. \A p \in Peers : Doing({"probing", "executing"}) \cap AttemptsOf(p)
                         = Those(job, AttemptsOf(p), {"probing", "executing"})
  BY DEF Doing, AttemptsOf, Those
<1> QED
  BY <1>1 DEF CountersExact, Exact, Doing, Those

\* ... and about their next values.
LEMMA CountersAreExactNext == CountersExact' <=> Exact(job', running', cancels', queued')
<1>1. \A p \in Peers : Doing({"probing", "executing"})' \cap AttemptsOf(p)
                         = Those(job', AttemptsOf(p), {"probing", "executing"})
  BY DEF Doing, AttemptsOf, Those
<1> QED
  BY <1>1 DEF CountersExact, Exact, Doing, Those

\* How many of each counter a handler in a stage holds.
Slot(stage) == IF stage = "executing" THEN 1 ELSE 0
Place(stage) == IF stage \in {"probing", "executing"} THEN 1 ELSE 0
Keys(stage, a) == IF stage = "executing" THEN {a} ELSE {}

\* The handler of a goes to a stage and its counters with it.
Moves(a, to) ==
  /\ job' = [job EXCEPT ![a] = to]
  /\ running' = running - Slot(job[a]) + Slot(to)
  /\ cancels' = (cancels \ {a}) \cup Keys(to, a)
  /\ queued' = [queued EXCEPT ![Owner[a]] = @ - Place(job[a]) + Place(to)]

\* A handler that takes and gives back what its stages hold keeps every counter
\* exact, and a natural number.
LEMMA MovesKeepCounters ==
  ASSUME TypeOK, CountersExact, NEW a \in Attempts, NEW to \in Stages, Moves(a, to)
  PROVE  /\ CountersExact'
         /\ running' \in Nat
         /\ cancels' \subseteq Attempts
         /\ queued' \in [Peers -> Nat]
         /\ job' \in [Attempts -> Stages]
<1> DEFINE X == {"executing"}
           B == {"probing", "executing"}
<1>0. job \in [Attempts -> Stages] /\ job' = [job EXCEPT ![a] = to]
  BY DEF TypeOK, Moves, Stages
<1>1. job' \in [Attempts -> Stages]
  BY <1>0
<1>2. Owner[a] \in Peers /\ \A p \in Peers : AttemptsOf(p) \in SUBSET Attempts
  BY ServingAssumption DEF AttemptsOf
<1>3. Exact(job, running, cancels, queued)
  BY CountersAreExact
<1>4. cancels' = Those(job', Attempts, X)
  <2>1. cancels = Those(job, Attempts, X) /\ cancels' = (cancels \ {a}) \cup Keys(to, a)
    BY <1>3 DEF Exact, Moves
  <2>2. \A b \in Attempts : job'[b] = IF b = a THEN to ELSE job[b]
    BY <1>0
  <2>3. CASE to = "executing"
    BY <2>1, <2>2, <2>3 DEF Keys, Those
  <2>4. CASE to # "executing"
    BY <2>1, <2>2, <2>4 DEF Keys, Those
  <2> QED
    BY <2>3, <2>4
<1>S. /\ \A stages, b : b \in Attempts /\ b # a => (job'[b] \in stages <=> job[b] \in stages)
      /\ job'[a] = to
  BY <1>0
<1> HIDE DEF X, B
<1>5. running' = Cardinality(Those(job', Attempts, X))
  <2>0. /\ running = Cardinality(Those(job, Attempts, X))
        /\ running \in Nat
        /\ running' = running - Slot(job[a]) + Slot(to)
    BY <1>3 DEF TypeOK, Moves, Exact, X
  <2>1. CASE job[a] \notin X /\ to \in X
    <3>1. Cardinality(Those(job', Attempts, X)) = Cardinality(Those(job, Attempts, X)) + 1
      <4>1. \A b \in Attempts : b # a => (job'[b] \in X <=> job[b] \in X)
        BY <1>S
      <4>2. job[a] \notin X /\ job'[a] \in X
        BY <1>S, <2>1
      <4> QED
        BY <4>1, <4>2, OneMore
    <3> QED
      <4>1. Slot(job[a]) = 0 /\ Slot(to) = 1
        BY <2>1 DEF Slot, X
      <4>2. running' = running + 1
        BY <2>0, <4>1
      <4> QED
        BY <2>0, <3>1, <4>2
  <2>2. CASE job[a] \in X /\ to \notin X
    <3>1. Cardinality(Those(job', Attempts, X)) = Cardinality(Those(job, Attempts, X)) - 1
      <4>1. \A b \in Attempts : b # a => (job'[b] \in X <=> job[b] \in X)
        BY <1>S
      <4>2. job[a] \in X /\ job'[a] \notin X
        BY <1>S, <2>2
      <4> QED
        BY <4>1, <4>2, OneLess
    <3> QED
      <4>1. Slot(job[a]) = 1 /\ Slot(to) = 0
        BY <2>2 DEF Slot, X
      <4> QED
        BY <2>0, <3>1, <4>1
  <2>3. CASE job[a] \in X <=> to \in X
    <3>1. Those(job', Attempts, X) = Those(job, Attempts, X)
      <4>1. \A b \in Attempts : job'[b] \in X <=> job[b] \in X
        BY <1>S, <2>3
      <4> QED
        BY <4>1, NoneMore
    <3> QED
      <4>1. Slot(job[a]) = Slot(to) /\ Slot(to) \in {0, 1}
        BY <2>3 DEF Slot, X
      <4> QED
        BY <2>0, <3>1, <4>1
  <2> QED
    BY <2>1, <2>2, <2>3
<1>6. ASSUME NEW p \in Peers
      PROVE  queued'[p] = Cardinality(Those(job', AttemptsOf(p), B))
  <2>0. /\ queued \in [Peers -> Nat] /\ queued[p] = Cardinality(Those(job, AttemptsOf(p), B))
        /\ queued' = [queued EXCEPT ![Owner[a]] = @ - Place(job[a]) + Place(to)]
    BY <1>3 DEF TypeOK, Exact, Moves, B
  <2>1. CASE p # Owner[a]
    <3>1. queued'[p] = queued[p] /\ a \notin AttemptsOf(p)
      BY <1>2, <2>0, <2>1 DEF AttemptsOf
    <3>2. Those(job', AttemptsOf(p), B) = Those(job, AttemptsOf(p), B)
      <4>1. \A b \in AttemptsOf(p) : job'[b] \in B <=> job[b] \in B
        BY <1>S, <1>2, <3>1
      <4> QED
        BY <4>1, NoneMore
    <3> QED
      BY <2>0, <3>1, <3>2
  <2>2. CASE p = Owner[a]
    <3>1. a \in AttemptsOf(p) /\ queued'[p] = queued[p] - Place(job[a]) + Place(to)
      BY <1>2, <2>0, <2>2 DEF AttemptsOf
    <3>5. \A b \in AttemptsOf(p) : b # a => (job'[b] \in B <=> job[b] \in B)
      BY <1>S, <1>2
    <3>2. CASE job[a] \notin B /\ to \in B
      <4>1. Cardinality(Those(job', AttemptsOf(p), B)) = Cardinality(Those(job, AttemptsOf(p), B)) + 1
        <5>1. job[a] \notin B /\ job'[a] \in B
          BY <1>S, <3>2
        <5> QED
          <6>1. AttemptsOf(p) \in SUBSET Attempts /\ a \in AttemptsOf(p)
            BY <1>2, <3>1
          <6> QED
            BY ONLY <3>5, <5>1, <6>1, OneMore
      <4> QED
        <5>1. Place(job[a]) = 0 /\ Place(to) = 1
          BY <3>2 DEF Place, B
        <5> QED
          BY <2>0, <3>1, <4>1, <5>1
    <3>3. CASE job[a] \in B /\ to \notin B
      <4>1. Cardinality(Those(job', AttemptsOf(p), B)) = Cardinality(Those(job, AttemptsOf(p), B)) - 1
        <5>1. job[a] \in B /\ job'[a] \notin B
          BY <1>S, <3>3
        <5> QED
          BY <1>2, <3>5, <3>1, <5>1, OneLess
      <4> QED
        <5>1. Place(job[a]) = 1 /\ Place(to) = 0
          BY <3>3 DEF Place, B
        <5> QED
          BY <2>0, <3>1, <4>1, <5>1
    <3>4. CASE job[a] \in B <=> to \in B
      <4>1. Those(job', AttemptsOf(p), B) = Those(job, AttemptsOf(p), B)
        <5>1. \A b \in AttemptsOf(p) : job'[b] \in B <=> job[b] \in B
          BY <1>S, <3>5, <3>4
        <5> QED
          BY <5>1, NoneMore
      <4> QED
        <5>1. Place(job[a]) = Place(to) /\ Place(to) \in {0, 1}
          BY <3>4 DEF Place, B
        <5> QED
          BY <2>0, <3>1, <4>1, <5>1
    <3> QED
      BY <3>2, <3>3, <3>4
  <2> QED
    BY <2>1, <2>2
<1>7. CountersExact'
  BY <1>4, <1>5, <1>6, CountersAreExactNext DEF Exact, X, B
<1>8. running' \in Nat /\ cancels' \subseteq Attempts
  BY <1>4, <1>5, AttemptsFinite DEF Those
<1>9. queued' \in [Peers -> Nat]
  <2>1. \A p \in Peers : queued'[p] \in Nat
    <3> TAKE p \in Peers
    <3>1. Those(job', AttemptsOf(p), B) \in SUBSET Attempts
      BY <1>2 DEF Those
    <3> QED
      BY <1>6, <3>1, AttemptsFinite
  <2>2. queued' = [p \in Peers |-> queued'[p]]
    BY DEF Moves, TypeOK
  <2> QED
    BY <2>1, <2>2
<1> QED
  BY <1>1, <1>7, <1>8, <1>9

-----------------------------------------------------------------------------
(* What the steps of a handler do to its stage and its counters *)

\* A handler that is not executing has no cancel event.
LEMMA NotExecuting ==
  ASSUME CountersExact, NEW a \in Attempts, job[a] # "executing"
  PROVE  a \notin cancels
BY DEF CountersExact, Doing

\* A handler that ends without having had a slot gives its place back.
LEMMA EndMoves ==
  ASSUME TypeOK, CountersExact, NEW a \in Attempts, NEW session, NEW kind,
         job[a] \in {"none", "probing"},
         NEW others, others = queued[Owner[a]] - Place(job[a]),
         End(a, session, kind, others), UNCHANGED slots
  PROVE  Moves(a, "over")
<1>1. queued[Owner[a]] \in Nat /\ running \in Nat
  BY ServingAssumption DEF TypeOK
<1>2. Slot(job[a]) = 0 /\ Slot("over") = 0 /\ Place("over") = 0 /\ Keys("over", a) = {}
  BY DEF Slot, Place, Keys
<1>3. Place(job[a]) \in {0, 1}
  BY DEF Place
<1>4. running' = running - Slot(job[a]) + Slot("over")
  BY <1>1, <1>2 DEF slots
<1>5. cancels' = (cancels \ {a}) \cup Keys("over", a)
  BY <1>2, NotExecuting DEF slots
<1>6. others = queued[Owner[a]] - Place(job[a]) + Place("over")
  BY <1>1, <1>2, <1>3
<1> QED
  BY <1>4, <1>5, <1>6 DEF End, Moves

\* One that gets a slot takes it, its cancel event and its place.
LEMMA TakeMoves ==
  ASSUME TypeOK, CountersExact, NEW a \in Attempts,
         job[a] \in {"none", "probing"},
         NEW others, others = queued[Owner[a]] - Place(job[a]),
         running' = running + 1, cancels' = cancels \cup {a},
         job' = [job EXCEPT ![a] = "executing"],
         queued' = [queued EXCEPT ![Owner[a]] = others + 1]
  PROVE  Moves(a, "executing")
<1>1. queued[Owner[a]] \in Nat /\ running \in Nat
  BY ServingAssumption DEF TypeOK
<1>2. Slot(job[a]) = 0 /\ Slot("executing") = 1 /\ Place("executing") = 1 /\ Keys("executing", a) = {a}
  BY DEF Slot, Place, Keys
<1>3. Place(job[a]) \in {0, 1}
  BY DEF Place
<1>4. running' = running - Slot(job[a]) + Slot("executing")
  BY <1>1, <1>2
<1>5. cancels' = (cancels \ {a}) \cup Keys("executing", a)
  BY <1>2, NotExecuting
<1>6. others + 1 = queued[Owner[a]] - Place(job[a]) + Place("executing")
  BY <1>1, <1>2, <1>3
<1> QED
  BY <1>4, <1>5, <1>6 DEF Moves

\* A reply is a frame on its way, or lost.
LEMMA ReplyTyped ==
  ASSUME TypeOK, NEW a \in Attempts, NEW session, NEW kind \in Replies, Reply(a, session, kind)
  PROVE  toPeer' \in [Peers -> Seq(Answers)]
<1>1. Frame(kind, a) \in Answers
  BY DEF Frame, Answers, Replies
<1>2. toPeer \in [Peers -> Seq(Answers)] /\ Owner[a] \in Peers
  BY ServingAssumption DEF TypeOK
<1>3. Append(toPeer[Owner[a]], Frame(kind, a)) \in Seq(Answers)
  BY <1>1, <1>2
<1> QED
  BY <1>2, <1>3 DEF Reply

-----------------------------------------------------------------------------
(* What every step of a handler has in common *)

\* A step that moves one handler, on a limit the owner set and within the peer's
\* queue, keeps the counters, the bounds and what is remembered.
LEMMA HandlerKeeps ==
  ASSUME IInv, NEW a \in Attempts, NEW to \in Stages \ {"none"}, Moves(a, to),
         seen \subseteq seen', a \in seen',
         \A b \in Attempts \ {a} : limitRead'[b] = limitRead[b],
         to = "probing" => \E q \in Policies : limitRead'[a] = q.limit,
         to = "executing" => \E q \in Policies : running < q.limit,
         Place(job[a]) = 1 \/ Place(to) = 0 \/ queued[Owner[a]] < MaxQueued
  PROVE  /\ CountersExact' /\ Bounded' /\ JobsSeen' /\ LimitsRead'
         /\ running' \in Nat
         /\ cancels' \subseteq Attempts
         /\ queued' \in [Peers -> Nat]
         /\ job' \in [Attempts -> Stages]
<1>1. TypeOK /\ CountersExact /\ Bounded /\ JobsSeen /\ LimitsRead
  BY DEF IInv
<1>2. /\ CountersExact'
      /\ running' \in Nat
      /\ cancels' \subseteq Attempts
      /\ queued' \in [Peers -> Nat]
      /\ job' \in [Attempts -> Stages]
  BY <1>1, MovesKeepCounters
<1>3. \A q \in Policies : q.limit \in Nat
  BY ServingAssumption DEF Policy
<1>4. \E q \in Policies : running' <= q.limit
  <2>1. running \in Nat /\ running' = running - Slot(job[a]) + Slot(to) /\ Slot(job[a]) \in {0, 1}
    BY <1>1 DEF TypeOK, Moves, Slot
  <2>2. CASE to = "executing"
    <3>1. PICK q \in Policies : running < q.limit
      BY <2>2
    <3>2. Slot(to) = 1
      BY <2>2 DEF Slot
    <3>3. running' <= q.limit
      BY <1>3, <2>1, <3>1, <3>2
    <3> QED
      BY <3>3
  <2>3. CASE to # "executing"
    <3>1. PICK q \in Policies : running <= q.limit
      BY <1>1 DEF Bounded
    <3>2. Slot(to) = 0
      BY <2>3 DEF Slot
    <3>3. running' <= q.limit
      BY <1>3, <2>1, <3>1, <3>2
    <3> QED
      BY <3>3
  <2> QED
    BY <2>2, <2>3
<1>5. ASSUME NEW p \in Peers
      PROVE  queued'[p] <= MaxQueued
  <2>1. /\ queued \in [Peers -> Nat] /\ queued[p] <= MaxQueued
        /\ queued' = [queued EXCEPT ![Owner[a]] = @ - Place(job[a]) + Place(to)]
        /\ MaxQueued \in Nat
    BY <1>1, ServingAssumption DEF TypeOK, Bounded, Moves
  <2>2. Place(job[a]) \in {0, 1} /\ Place(to) \in {0, 1}
    BY DEF Place
  <2>3. CASE p # Owner[a]
    BY <2>1, <2>3
  <2>4. CASE p = Owner[a]
    <3>1. queued'[p] = queued[p] - Place(job[a]) + Place(to)
      BY <2>1, <2>4
    <3>2. CASE queued[p] < MaxQueued
      BY <2>1, <2>2, <3>1, <3>2
    <3>3. CASE Place(job[a]) = 1 \/ Place(to) = 0
      BY <2>1, <2>2, <3>1, <3>3
    <3> QED
      BY <2>4, <3>2, <3>3
  <2> QED
    BY <2>3, <2>4
<1>6. Bounded'
  BY <1>4, <1>5 DEF Bounded
<1>7. job \in [Attempts -> Stages] /\ job' = [job EXCEPT ![a] = to]
  BY <1>1 DEF TypeOK, Moves, Stages
<1>8. JobsSeen'
  BY <1>1, <1>7 DEF JobsSeen
<1>9. LimitsRead'
  <2> SUFFICES ASSUME NEW b \in Attempts, job'[b] = "probing"
               PROVE  \E q \in Policies : limitRead'[b] = q.limit
    BY DEF LimitsRead
  <2>1. CASE b = a
    BY <1>7, <2>1
  <2>2. CASE b # a
    <3>1. job[b] = "probing" /\ limitRead'[b] = limitRead[b]
      BY <1>7, <2>2
    <3> QED
      BY <1>1, <3>1 DEF LimitsRead
  <2> QED
    BY <2>1, <2>2
<1> QED
  BY <1>2, <1>6, <1>8, <1>9

\* A step that touches no handler.
LEMMA OthersKeep ==
  ASSUME IInv, UNCHANGED <<job, running, cancels, queued, seen, limitRead>>
  PROVE  CountersExact' /\ Bounded' /\ JobsSeen' /\ LimitsRead'
<1>1. CountersExact'
  BY DEF IInv, CountersExact, Doing, AttemptsOf
<1>2. Bounded' /\ JobsSeen' /\ LimitsRead'
  BY DEF IInv, Bounded, JobsSeen, LimitsRead
<1> QED
  BY <1>1, <1>2

-----------------------------------------------------------------------------
(* The steps of the requesters and of the sessions *)

\* The requester sends: nothing happens at the worker.
LEMMA SendKeeps ==
  ASSUME IInv, NEW a \in Attempts, Send(a)
  PROVE  IInv'
<1>1. Owner[a] \in Peers
  BY ServingAssumption
<1>2. TypeOK'
  <2>1. /\ call' \in [Attempts -> Calls]
        /\ sentOn' \in [Attempts -> 0..sessions]
    BY <1>1 DEF IInv, TypeOK, Send, Calls
  <2>2. sends' \in 0..MaxSends
    BY ServingAssumption DEF IInv, TypeOK, Send
  <2>3. toWorker' \in [Peers -> Seq(Packets)]
    <3>1. Frame("task", a) \in Packets
      BY DEF Frame, Packets
    <3>2. toWorker \in [Peers -> Seq(Packets)] /\ Append(toWorker[Owner[a]], Frame("task", a)) \in Seq(Packets)
      BY <1>1, <3>1 DEF IInv, TypeOK
    <3> QED
      BY <3>2 DEF Send
  <2> QED
    BY <2>1, <2>2, <2>3 DEF IInv, TypeOK, Send, handlers, slots
<1>3. CountersExact' /\ Bounded' /\ JobsSeen' /\ LimitsRead'
  BY OthersKeep DEF Send, handlers, slots
<1> QED
  BY <1>2, <1>3 DEF IInv

\* The requester gives up: its call and its cancel are no counters.
LEMMA GiveUpKeeps ==
  ASSUME IInv, NEW a \in Attempts, NEW why \in GivenUp, GiveUp(a, why)
  PROVE  IInv'
<1>1. Owner[a] \in Peers
  BY ServingAssumption
<1>2. TypeOK'
  <2>1. call' \in [Attempts -> Calls]
    BY DEF IInv, TypeOK, GiveUp, Calls
  <2>2. toWorker' \in [Peers -> Seq(Packets)]
    <3>1. Frame("cancel", a) \in Packets
      BY DEF Frame, Packets
    <3>2. toWorker \in [Peers -> Seq(Packets)] /\ Append(toWorker[Owner[a]], Frame("cancel", a)) \in Seq(Packets)
      BY <1>1, <3>1 DEF IInv, TypeOK
    <3> QED
      BY <3>2 DEF GiveUp
  <2> QED
    BY <2>1, <2>2 DEF IInv, TypeOK, GiveUp, handlers, slots
<1>3. CountersExact' /\ Bounded' /\ JobsSeen' /\ LimitsRead'
  BY OthersKeep DEF GiveUp, handlers, slots
<1> QED
  BY <1>2, <1>3 DEF IInv

\* The requester reads: a reply resolves a call.
LEMMA PeerReadsKeeps ==
  ASSUME IInv, NEW p \in Peers, PeerReads(p)
  PROVE  IInv'
<1>1. toPeer[p] \in Seq(Answers) /\ toPeer[p] # <<>>
  BY DEF IInv, TypeOK, PeerReads
<1>2. Head(toPeer[p]) \in Answers /\ Tail(toPeer[p]) \in Seq(Answers)
  BY <1>1, HeadTailProperties
<1>3. TypeOK'
  <2>1. call' \in [Attempts -> Calls]
    BY <1>2 DEF IInv, TypeOK, PeerReads, Calls, Answers
  <2>2. toPeer' \in [Peers -> Seq(Answers)]
    BY <1>2 DEF IInv, TypeOK, PeerReads
  <2> QED
    BY <2>1, <2>2 DEF IInv, TypeOK, PeerReads, handlers, slots
<1>4. CountersExact' /\ Bounded' /\ JobsSeen' /\ LimitsRead'
  BY OthersKeep DEF PeerReads, handlers, slots
<1> QED
  BY <1>3, <1>4 DEF IInv

\* A family of sequences of records with a session number, when sessions grow.
LEMMA ReadyGrows ==
  ASSUME TypeOK, sessions' = sessions + 1
  PROVE  ready \in Seq([attempt: Attempts, session: 0..sessions'])
<1> DEFINE Now == [attempt: Attempts, session: 0..sessions]
           Then == [attempt: Attempts, session: 0..sessions']
<1>1. sessions \in Nat
  BY ServingAssumption DEF TypeOK
<1>2. Now \subseteq Then
  BY <1>1
<1>3. ready \in Seq(Now)
  BY DEF TypeOK
<1> HIDE DEF Now, Then
<1>4. ready \in Seq(Then)
  BY <1>2, <1>3, SeqMonotonic
<1> QED
  BY <1>4 DEF Then

\* A new session, whether it is the first or replaces another.
LEMMA NewSessionTyped ==
  ASSUME TypeOK, NEW p \in Peers, NewSession(p)
  PROVE  /\ sessions' \in 0..MaxSessions
         /\ link' \in [Peers -> 0..sessions']
         /\ sentOn \in [Attempts -> 0..sessions']
         /\ replyOn \in [Attempts -> 0..sessions']
         /\ ready \in Seq([attempt: Attempts, session: 0..sessions'])
<1>1. sessions \in 0..MaxSessions /\ sessions' = sessions + 1 /\ sessions' \in 0..MaxSessions
  BY ServingAssumption DEF TypeOK, NewSession
<1>2. 0..sessions \subseteq 0..sessions' /\ sessions' \in 0..sessions'
  BY <1>1
<1>3. link' \in [Peers -> 0..sessions']
  <2>1. link \in [Peers -> 0..sessions'] /\ link' = [link EXCEPT ![p] = sessions']
    BY <1>1, <1>2 DEF TypeOK, NewSession
  <2> QED
    BY <1>2, <2>1
<1>4. sentOn \in [Attempts -> 0..sessions'] /\ replyOn \in [Attempts -> 0..sessions']
  BY <1>2 DEF TypeOK
<1> QED
  BY <1>1, <1>3, <1>4, ReadyGrows

\* A session begins with no frame under way.
LEMMA ConnectKeeps ==
  ASSUME IInv, NEW p \in Peers, Connect(p)
  PROVE  IInv'
<1>1. TypeOK'
  BY NewSessionTyped DEF IInv, TypeOK, Connect, requester, handlers, slots
<1>2. CountersExact' /\ Bounded' /\ JobsSeen' /\ LimitsRead'
  BY OthersKeep DEF Connect, handlers, slots
<1> QED
  BY <1>1, <1>2 DEF IInv

\* A session that replaces another fails no call.
LEMMA ReplaceKeeps ==
  ASSUME IInv, NEW p \in Peers, Replace(p)
  PROVE  IInv'
<1>1. toWorker' \in [Peers -> Seq(Packets)] /\ toPeer' \in [Peers -> Seq(Answers)]
  BY EmptySeq DEF IInv, TypeOK, Replace
<1>2. TypeOK'
  BY <1>1, NewSessionTyped DEF IInv, TypeOK, Replace, requester, handlers, slots
<1>3. CountersExact' /\ Bounded' /\ JobsSeen' /\ LimitsRead'
  BY OthersKeep DEF Replace, handlers, slots
<1> QED
  BY <1>2, <1>3 DEF IInv

\* A session ends: its frames are lost, handlers go on.
LEMMA DisconnectKeeps ==
  ASSUME IInv, NEW p \in Peers, Disconnect(p)
  PROVE  IInv'
<1>1. toWorker' \in [Peers -> Seq(Packets)] /\ toPeer' \in [Peers -> Seq(Answers)]
  BY EmptySeq DEF IInv, TypeOK, Disconnect
<1>2. link' \in [Peers -> 0..sessions] /\ sessions' = sessions
  BY ServingAssumption DEF IInv, TypeOK, Disconnect
<1>3. call' \in [Attempts -> Calls]
  BY DEF IInv, TypeOK, Disconnect, Calls
<1>4. TypeOK'
  BY <1>1, <1>2, <1>3 DEF IInv, TypeOK, Disconnect, handlers, slots
<1>5. CountersExact' /\ Bounded' /\ JobsSeen' /\ LimitsRead'
  BY OthersKeep DEF Disconnect, handlers, slots
<1> QED
  BY <1>4, <1>5 DEF IInv

-----------------------------------------------------------------------------
(* The steps of the worker *)

\* The worker reads: a handler is spawned that has let nothing in yet, or an event is set.
LEMMA WorkerReadsKeeps ==
  ASSUME IInv, NEW p \in Peers, WorkerReads(p)
  PROVE  IInv'
<1> DEFINE Jobs == [attempt: Attempts, session: 0..sessions]
<1>1. toWorker[p] \in Seq(Packets) /\ toWorker[p] # <<>> /\ link[p] \in 0..sessions /\ ready \in Seq(Jobs)
  BY DEF IInv, TypeOK, WorkerReads
<1>2. Head(toWorker[p]) \in Packets /\ Tail(toWorker[p]) \in Seq(Packets)
  BY <1>1, HeadTailProperties
<1>3. toWorker' \in [Peers -> Seq(Packets)]
  BY <1>2 DEF IInv, TypeOK, WorkerReads
<1>4. ready' \in Seq(Jobs)
  <2>1. [attempt |-> Head(toWorker[p]).attempt, session |-> link[p]] \in Jobs
    BY <1>1, <1>2 DEF Packets
  <2>2. Append(ready, [attempt |-> Head(toWorker[p]).attempt, session |-> link[p]]) \in Seq(Jobs)
    BY <1>1, <2>1
  <2> QED
    BY <1>1, <2>2 DEF WorkerReads
<1>5. flagged' \subseteq cancels
  BY DEF IInv, TypeOK, WorkerReads
<1>6. TypeOK'
  BY <1>3, <1>4, <1>5 DEF IInv, TypeOK, WorkerReads, requester
<1>7. CountersExact' /\ Bounded' /\ JobsSeen' /\ LimitsRead'
  BY OthersKeep DEF WorkerReads
<1> QED
  BY <1>6, <1>7 DEF IInv

\* The owner sets a limit, which is then one that had been set.
LEMMA SetPolicyKeeps ==
  ASSUME IInv, SetPolicy
  PROVE  IInv'
<1>1. TypeOK'
  BY DEF IInv, TypeOK, SetPolicy, requester, wire, handlers, slots
<1>2. CountersExact' /\ Bounded' /\ JobsSeen' /\ LimitsRead'
  BY OthersKeep DEF SetPolicy, handlers, slots
<1> QED
  BY <1>1, <1>2 DEF IInv

\* What is left of the type invariant when a handler has moved.
LEMMA HandlerTyped ==
  ASSUME TypeOK, HandlerStep,
         toPeer' \in [Peers -> Seq(Answers)],
         ready' \in Seq([attempt: Attempts, session: 0..sessions]),
         seen' \subseteq Attempts,
         job' \in [Attempts -> Stages],
         replyOn' \in [Attempts -> 0..sessions],
         limitRead' \in [Attempts -> Nat],
         queued' \in [Peers -> Nat],
         running' \in Nat,
         cancels' \subseteq Attempts, flagged' \subseteq cancels'
  PROVE  TypeOK'
BY DEF TypeOK, HandlerStep, requester, Stages

\* TakeSlot, for a handler that holds no slot: it goes to "executing" or is over.
LEMMA TakeSlotMoves ==
  ASSUME TypeOK, CountersExact, NEW a \in Attempts, NEW session, NEW limit,
         job[a] \in {"none", "probing"},
         NEW others, others = queued[Owner[a]] - Place(job[a]),
         TakeSlot(a, session, limit, others)
  PROVE  \/ /\ Moves(a, "executing") /\ running < limit
            /\ UNCHANGED <<flagged, toPeer>>
         \/ /\ Moves(a, "over")
            /\ UNCHANGED flagged /\ cancels' = cancels
            /\ Reply(a, session, "error")
<1>1. CASE /\ running < limit
           /\ running' = running + 1
           /\ cancels' = cancels \cup {a}
           /\ job' = [job EXCEPT ![a] = "executing"]
           /\ queued' = [queued EXCEPT ![Owner[a]] = others + 1]
           /\ UNCHANGED <<flagged, toPeer>>
  BY <1>1, TakeMoves
<1>2. CASE End(a, session, "error", others) /\ UNCHANGED slots
  <2>1. Moves(a, "over")
    BY <1>2, EndMoves
  <2>2. UNCHANGED flagged /\ cancels' = cancels /\ Reply(a, session, "error")
    BY <1>2 DEF End, slots
  <2> QED
    BY <2>1, <2>2
<1> QED
  BY <1>1, <1>2 DEF TakeSlot

\* A cancel event that is set is one that is registered, after a move as before.
LEMMA FlaggedTyped ==
  ASSUME TypeOK, CountersExact, NEW a \in Attempts, NEW to,
         Moves(a, to), job[a] # "executing", UNCHANGED flagged
  PROVE  flagged' \subseteq cancels'
BY NotExecuting DEF TypeOK, Moves

\* A handler that is let in was not, and counts in its peer's queue.
LEMMA LetInKeeps ==
  ASSUME IInv, HandlerStep, ready # <<>>, ready' = Tail(ready),
         NEW a \in Attempts, NEW session \in 0..sessions, LetIn(a, session)
  PROVE  IInv'
<1>1. /\ TypeOK /\ CountersExact
      /\ a \notin seen /\ queued[Owner[a]] < MaxQueued
      /\ job[a] = "none"
  BY DEF IInv, LetIn, Admits, JobsSeen
<1>2. /\ policy \in Policies /\ policy.limit \in Nat
      /\ queued[Owner[a]] \in Nat
      /\ queued[Owner[a]] = queued[Owner[a]] - Place(job[a])
      /\ running \in Nat
  <2>1. policy \in Policies /\ queued[Owner[a]] \in Nat /\ running \in Nat
    BY <1>1, ServingAssumption DEF TypeOK
  <2>2. policy.limit \in Nat
    BY <2>1, ServingAssumption DEF Policy
  <2>3. Place(job[a]) = 0
    BY <1>1 DEF Place
  <2> QED
    BY <2>1, <2>2, <2>3
<1>3. /\ seen' = seen \cup {a}
      /\ replyOn' \in [Attempts -> 0..sessions]
      /\ limitRead' \in [Attempts -> Nat]
      /\ limitRead'[a] = policy.limit
      /\ \A b \in Attempts \ {a} : limitRead'[b] = limitRead[b]
  BY <1>1, <1>2 DEF LetIn, TypeOK
<1>4. ready' \in Seq([attempt: Attempts, session: 0..sessions])
  <2> DEFINE Now == [attempt: Attempts, session: 0..sessions]
  <2>1. ready \in Seq(Now) /\ ready # <<>>
    BY <1>1 DEF TypeOK
  <2> HIDE DEF Now
  <2>2. Tail(ready) \in Seq(Now)
    BY <2>1, HeadTailProperties
  <2> QED
    BY <2>2 DEF Now
<1>5. \E to \in Stages \ {"none"} :
        /\ Moves(a, to)
        /\ to = "executing" => running < policy.limit
        /\ toPeer' \in [Peers -> Seq(Answers)]
        /\ flagged' \subseteq cancels'
  <2>1. CASE End(a, session, "error", queued[Owner[a]]) /\ UNCHANGED slots
    <3>1. Moves(a, "over")
      BY <1>1, <1>2, <2>1, EndMoves
    <3>2. toPeer' \in [Peers -> Seq(Answers)]
      BY <1>1, <2>1, ReplyTyped DEF End, Replies
    <3>3. flagged' \subseteq cancels'
      BY <1>1, <2>1 DEF TypeOK, slots
    <3> QED
      BY <3>1, <3>2, <3>3 DEF Stages
  <2>2. CASE /\ job' = [job EXCEPT ![a] = "probing"]
             /\ queued' = [queued EXCEPT ![Owner[a]] = @ + 1]
             /\ UNCHANGED <<slots, toPeer>>
    <3>1. Moves(a, "probing")
      <4>1. Slot(job[a]) = 0 /\ Slot("probing") = 0 /\ Keys("probing", a) = {}
        BY <1>1 DEF Slot, Keys
      <4>2. Place(job[a]) = 0 /\ Place("probing") = 1
        BY <1>1 DEF Place
      <4>3. running' = running - Slot(job[a]) + Slot("probing")
        BY <1>2, <2>2, <4>1 DEF slots
      <4>4. cancels' = (cancels \ {a}) \cup Keys("probing", a)
        BY <1>1, <2>2, <4>1, NotExecuting DEF slots
      <4>5. queued[Owner[a]] + 1 = queued[Owner[a]] - Place(job[a]) + Place("probing")
        BY <1>2, <4>2
      <4> QED
        BY <2>2, <4>3, <4>4, <4>5 DEF Moves
    <3>2. toPeer' \in [Peers -> Seq(Answers)] /\ flagged' \subseteq cancels'
      BY <1>1, <2>2 DEF TypeOK, slots
    <3> QED
      BY <3>1, <3>2 DEF Stages
  <2>3. CASE TakeSlot(a, session, policy.limit, queued[Owner[a]])
    <3>1. CASE Moves(a, "executing") /\ running < policy.limit /\ UNCHANGED <<flagged, toPeer>>
      <4>1. toPeer' \in [Peers -> Seq(Answers)]
        BY <1>1, <3>1 DEF TypeOK
      <4>2. flagged' \subseteq cancels'
        BY <1>1, <3>1, FlaggedTyped
      <4> QED
        BY <3>1, <4>1, <4>2 DEF Stages
    <3>2. CASE Moves(a, "over") /\ UNCHANGED flagged /\ cancels' = cancels /\ Reply(a, session, "error")
      <4>1. toPeer' \in [Peers -> Seq(Answers)]
        BY <1>1, <3>2, ReplyTyped DEF Replies
      <4>2. flagged' \subseteq cancels'
        BY <1>1, <3>2 DEF TypeOK
      <4> QED
        BY <3>2, <4>1, <4>2 DEF Stages
    <3>3. job[a] \in {"none", "probing"}
      BY <1>1
    <3>4. \/ Moves(a, "executing") /\ running < policy.limit /\ UNCHANGED <<flagged, toPeer>>
          \/ Moves(a, "over") /\ UNCHANGED flagged /\ cancels' = cancels /\ Reply(a, session, "error")
      <4>1. queued[Owner[a]] = queued[Owner[a]] - Place(job[a])
        BY <1>2
      <4> QED
        BY ONLY <1>1, <2>3, <3>3, <4>1, a \in Attempts, TakeSlotMoves
    <3> QED
      BY <3>1, <3>2, <3>4
  <2> QED
    BY <2>1, <2>2, <2>3 DEF LetIn
<1>6. PICK to \in Stages \ {"none"} :
        /\ Moves(a, to)
        /\ to = "executing" => running < policy.limit
        /\ toPeer' \in [Peers -> Seq(Answers)]
        /\ flagged' \subseteq cancels'
  BY <1>5
<1>7. /\ CountersExact' /\ Bounded' /\ JobsSeen' /\ LimitsRead'
      /\ running' \in Nat
      /\ cancels' \subseteq Attempts
      /\ queued' \in [Peers -> Nat]
      /\ job' \in [Attempts -> Stages]
  BY <1>1, <1>2, <1>3, <1>6, HandlerKeeps
<1>8. seen' \subseteq Attempts
  BY <1>1, <1>3 DEF TypeOK
<1>9. TypeOK'
  BY <1>1, <1>3, <1>4, <1>6, <1>7, <1>8, HandlerTyped
<1> QED
  BY <1>7, <1>9 DEF IInv

\* A handler starts: it refuses, probes, or takes a slot at once.
LEMMA StartKeeps ==
  ASSUME IInv, Start
  PROVE  IInv'
<1> DEFINE Jobs == [attempt: Attempts, session: 0..sessions]
           h == Head(ready)
<1>1. TypeOK /\ ready \in Seq(Jobs) /\ ready # <<>>
  BY DEF IInv, TypeOK, Start
<1>2. h \in Jobs /\ Tail(ready) \in Seq(Jobs)
  <2> HIDE DEF Jobs
  <2> QED
    BY <1>1, HeadTailProperties
<1>3. h.attempt \in Attempts /\ h.session \in 0..sessions
  BY <1>2
<1>4. CASE LetIn(h.attempt, h.session)
  BY <1>1, <1>3, <1>4, LetInKeeps DEF Start
<1>5. CASE TurnAway(h.attempt, h.session)
  <2>1. toPeer' \in [Peers -> Seq(Answers)]
    BY <1>1, <1>3, <1>5, ReplyTyped DEF TurnAway, Replies
  <2>2. TypeOK'
    BY <1>1, <1>2, <1>5, <2>1 DEF TypeOK, Start, TurnAway, HandlerStep, requester, slots
  <2>3. CountersExact' /\ Bounded' /\ JobsSeen' /\ LimitsRead'
    BY <1>5, OthersKeep DEF TurnAway, slots
  <2> QED
    BY <2>2, <2>3 DEF IInv
<1> QED
  BY <1>4, <1>5 DEF Start

\* After the probe: it refuses or takes a slot, under the limit read before.
LEMMA ProbedKeeps ==
  ASSUME IInv, NEW a \in Attempts, Probed(a)
  PROVE  IInv'
<1> DEFINE others == queued[Owner[a]] - 1
<1>1. /\ TypeOK /\ CountersExact /\ HandlerStep
      /\ job[a] = "probing" /\ a \in seen
      /\ UNCHANGED <<ready, seen, replyOn, limitRead>>
  BY DEF IInv, Probed, JobsSeen
<1>2. PICK q \in Policies : limitRead[a] = q.limit
  BY <1>1 DEF IInv, LimitsRead
<1>3. Place(job[a]) = 1 /\ others = queued[Owner[a]] - Place(job[a]) /\ job[a] \in {"none", "probing"}
  BY <1>1 DEF Place
<1>4. \E to \in {"executing", "over"} :
        /\ Moves(a, to)
        /\ to = "executing" => running < q.limit
        /\ toPeer' \in [Peers -> Seq(Answers)]
        /\ flagged' \subseteq cancels'
  <2>1. CASE End(a, replyOn[a], "error", others) /\ UNCHANGED slots
    <3>1. Moves(a, "over")
      BY <1>1, <1>3, <2>1, EndMoves
    <3>2. toPeer' \in [Peers -> Seq(Answers)]
      BY <1>1, <2>1, ReplyTyped DEF End, Replies
    <3>3. flagged' \subseteq cancels'
      BY <1>1, <2>1 DEF TypeOK, slots
    <3> QED
      BY <3>1, <3>2, <3>3
  <2>2. CASE TakeSlot(a, replyOn[a], limitRead[a], others)
    <3>1. CASE Moves(a, "executing") /\ running < limitRead[a] /\ UNCHANGED <<flagged, toPeer>>
      <4>1. toPeer' \in [Peers -> Seq(Answers)]
        BY <1>1, <3>1 DEF TypeOK
      <4>2. flagged' \subseteq cancels'
        BY <1>1, <3>1, FlaggedTyped
      <4> QED
        BY <1>2, <3>1, <4>1, <4>2
    <3>2. CASE Moves(a, "over") /\ UNCHANGED flagged /\ cancels' = cancels /\ Reply(a, replyOn[a], "error")
      <4>1. toPeer' \in [Peers -> Seq(Answers)]
        BY <1>1, <3>2, ReplyTyped DEF Replies
      <4>2. flagged' \subseteq cancels'
        BY <1>1, <3>2 DEF TypeOK
      <4> QED
        BY <3>2, <4>1, <4>2
    <3> HIDE DEF others
    <3>3. \/ Moves(a, "executing") /\ running < limitRead[a] /\ UNCHANGED <<flagged, toPeer>>
          \/ Moves(a, "over") /\ UNCHANGED flagged /\ cancels' = cancels /\ Reply(a, replyOn[a], "error")
      BY ONLY <1>1, <1>3, <2>2, a \in Attempts, TakeSlotMoves
    <3> QED
      BY <3>1, <3>2, <3>3
  <2> QED
    BY <2>1, <2>2 DEF Probed
<1>5. PICK to \in {"executing", "over"} :
        /\ Moves(a, to)
        /\ to = "executing" => running < q.limit
        /\ toPeer' \in [Peers -> Seq(Answers)]
        /\ flagged' \subseteq cancels'
  BY <1>4
<1>6. to \in Stages \ {"none"} /\ to # "probing"
  BY DEF Stages
<1>7. /\ CountersExact' /\ Bounded' /\ JobsSeen' /\ LimitsRead'
      /\ running' \in Nat
      /\ cancels' \subseteq Attempts
      /\ queued' \in [Peers -> Nat]
      /\ job' \in [Attempts -> Stages]
  BY <1>1, <1>3, <1>5, <1>6, HandlerKeeps
<1>8. TypeOK'
  BY <1>1, <1>5, <1>7, HandlerTyped DEF TypeOK
<1> QED
  BY <1>7, <1>8 DEF IInv

\* The finally blocks give back what the handler took.
LEMMA FinishKeeps ==
  ASSUME IInv, NEW a \in Attempts, Finish(a)
  PROVE  IInv'
<1>1. /\ TypeOK /\ CountersExact /\ HandlerStep
      /\ job[a] = "executing" /\ a \in seen
      /\ UNCHANGED <<ready, seen, replyOn, limitRead>>
  BY DEF IInv, Finish, JobsSeen
<1>2. PICK kind \in Replies : End(a, replyOn[a], kind, queued[Owner[a]] - 1)
  BY DEF Finish
<1>3. Moves(a, "over")
  <2>1. Slot(job[a]) = 1 /\ Slot("over") = 0 /\ Keys("over", a) = {}
    BY <1>1 DEF Slot, Keys
  <2>2. Place(job[a]) = 1 /\ Place("over") = 0
    BY <1>1 DEF Place
  <2>3. running \in Nat /\ queued[Owner[a]] \in Nat
    BY <1>1, ServingAssumption DEF TypeOK
  <2>4. running' = running - Slot(job[a]) + Slot("over")
    BY <2>1, <2>3 DEF Finish
  <2>5. cancels' = (cancels \ {a}) \cup Keys("over", a)
    BY <2>1 DEF Finish
  <2>6. queued[Owner[a]] - 1 = queued[Owner[a]] - Place(job[a]) + Place("over")
    BY <2>2, <2>3
  <2> QED
    BY <1>2, <2>4, <2>5, <2>6 DEF End, Moves
<1>4. toPeer' \in [Peers -> Seq(Answers)]
  BY <1>1, <1>2, ReplyTyped DEF End
<1>5. flagged' \subseteq cancels'
  BY <1>1 DEF TypeOK, Finish
<1>6. "over" \in Stages \ {"none"} /\ Place("over") = 0
  BY DEF Stages, Place
<1>7. /\ CountersExact' /\ Bounded' /\ JobsSeen' /\ LimitsRead'
      /\ running' \in Nat
      /\ cancels' \subseteq Attempts
      /\ queued' \in [Peers -> Nat]
      /\ job' \in [Attempts -> Stages]
  BY <1>1, <1>3, <1>6, HandlerKeeps
<1>8. TypeOK'
  BY <1>1, <1>4, <1>5, <1>7, HandlerTyped DEF TypeOK
<1> QED
  BY <1>7, <1>8 DEF IInv

\* Nobody is at work: the counters that say so are exact, and every bound holds.
LEMMA NobodyAtWork ==
  ASSUME NEW jobs, jobs = [a \in Attempts |-> "none"]
  PROVE  \A S \in SUBSET Attempts, stages \in SUBSET (Stages \ {"none"}) :
           Those(jobs, S, stages) = {} /\ Cardinality(Those(jobs, S, stages)) = 0
<1>1. \A S \in SUBSET Attempts, stages \in SUBSET (Stages \ {"none"}) : Those(jobs, S, stages) = {}
  BY DEF Those
<1> QED
  BY <1>1, FS_EmptySet

\* Values of the handlers' variables before anything has arrived.
LEMMA ExactAtRest ==
  ASSUME NEW jobs, jobs = [a \in Attempts |-> "none"],
         NEW places, places = [p \in Peers |-> 0]
  PROVE  Exact(jobs, 0, {}, places)
<1>1. Those(jobs, Attempts, {"executing"}) = {} /\ Cardinality(Those(jobs, Attempts, {"executing"})) = 0
  BY NobodyAtWork DEF Stages
<1>2. ASSUME NEW p \in Peers
      PROVE  places[p] = Cardinality(Those(jobs, AttemptsOf(p), {"probing", "executing"}))
  <2>1. AttemptsOf(p) \in SUBSET Attempts /\ {"probing", "executing"} \in SUBSET (Stages \ {"none"})
    BY DEF AttemptsOf, Stages
  <2>2. Cardinality(Those(jobs, AttemptsOf(p), {"probing", "executing"})) = 0
    BY <2>1, NobodyAtWork
  <2> QED
    BY <2>2
<1> QED
  BY <1>1, <1>2 DEF Exact

\* A process that starts again counts from nothing.
LEMMA RestartKeeps ==
  ASSUME IInv, Restart
  PROVE  IInv'
<1>1. /\ TypeOK /\ Bounded
      /\ 0 \in 0..sessions /\ sessions' = sessions
  <2>1. TypeOK /\ Bounded /\ sessions' = sessions
    BY DEF IInv, Restart
  <2>2. sessions \in 0..MaxSessions /\ MaxSessions \in Nat
    BY <2>1, ServingAssumption DEF TypeOK
  <2>3. 0 \in 0..sessions
    BY <2>2
  <2> QED
    BY <2>1, <2>3
<1>2. TypeOK'
  <2>1. toWorker' \in [Peers -> Seq(Packets)] /\ toPeer' \in [Peers -> Seq(Answers)]
    BY EmptySeq DEF Restart
  <2>2. link' \in [Peers -> 0..sessions] /\ replyOn' \in [Attempts -> 0..sessions]
    BY <1>1 DEF Restart
  <2>3. call' \in [Attempts -> Calls]
    BY <1>1 DEF TypeOK, Restart, Calls
  <2>4. ready' \in Seq([attempt: Attempts, session: 0..sessions])
    BY EmptySeq DEF Restart
  <2> QED
    BY <1>1, <2>1, <2>2, <2>3, <2>4 DEF TypeOK, Restart
<1>3. CountersExact'
  <2>1. Exact(job', running', cancels', queued')
    BY ExactAtRest DEF Restart
  <2> QED
    BY <2>1, CountersAreExactNext
<1>4. Bounded'
  <2>1. PICK q \in Policies : running <= q.limit
    BY <1>1 DEF Bounded
  <2>2. q.limit \in Nat /\ MaxQueued \in Nat
    BY ServingAssumption DEF Policy
  <2>3. running' <= q.limit
    BY <2>2 DEF Restart
  <2>4. \A p \in Peers : queued'[p] <= MaxQueued
    BY <2>2 DEF Restart
  <2> QED
    BY <2>3, <2>4 DEF Bounded
<1>5. JobsSeen' /\ LimitsRead'
  BY DEF JobsSeen, LimitsRead, Restart
<1> QED
  BY <1>2, <1>3, <1>4, <1>5 DEF IInv

\* A worker starts with nothing let in.
LEMMA InitHolds ==
  ASSUME Init
  PROVE  IInv
<1>1. TypeOK
  <2>1. toWorker \in [Peers -> Seq(Packets)] /\ toPeer \in [Peers -> Seq(Answers)]
    BY EmptySeq DEF Init
  <2>2. ready \in Seq([attempt: Attempts, session: 0..sessions])
    BY EmptySeq DEF Init
  <2> QED
    BY <2>1, <2>2, ServingAssumption DEF Init, TypeOK, Calls
<1>2. CountersExact
  <2>1. Exact(job, running, cancels, queued)
    BY ExactAtRest DEF Init
  <2> QED
    BY <2>1, CountersAreExact
<1>3. Bounded
  <2>1. policy \in Policies /\ policy.limit \in Nat /\ MaxQueued \in Nat
    BY ServingAssumption DEF Init, Policy
  <2>2. running <= policy.limit /\ \A p \in Peers : queued[p] <= MaxQueued
    BY <2>1 DEF Init
  <2> QED
    BY <2>1, <2>2 DEF Bounded
<1>4. JobsSeen /\ LimitsRead
  BY DEF JobsSeen, LimitsRead, Init
<1> QED
  BY <1>1, <1>2, <1>3, <1>4 DEF IInv

-----------------------------------------------------------------------------
(* Theorems *)

\* The invariant is inductive, one lemma per action.
THEOREM CountersInductive == Spec => []IInv
<1>1. Init => IInv
  BY InitHolds
<1>2. IInv /\ [Next]_vars => IInv'
  <2> SUFFICES ASSUME IInv, [Next]_vars
               PROVE  IInv'
    OBVIOUS
  <2>1. ASSUME NEW a \in Attempts, Send(a)
        PROVE  IInv'
    BY <2>1, SendKeeps
  <2>2. ASSUME NEW a \in Attempts, NEW why \in GivenUp, GiveUp(a, why)
        PROVE  IInv'
    BY <2>2, GiveUpKeeps
  <2>3. ASSUME NEW p \in Peers, PeerReads(p)
        PROVE  IInv'
    BY <2>3, PeerReadsKeeps
  <2>4. ASSUME NEW p \in Peers, WorkerReads(p)
        PROVE  IInv'
    BY <2>4, WorkerReadsKeeps
  <2>5. ASSUME NEW p \in Peers, Connect(p)
        PROVE  IInv'
    BY <2>5, ConnectKeeps
  <2>6. ASSUME NEW p \in Peers, Disconnect(p)
        PROVE  IInv'
    BY <2>6, DisconnectKeeps
  <2>7. ASSUME NEW p \in Peers, Replace(p)
        PROVE  IInv'
    BY <2>7, ReplaceKeeps
  <2>8. CASE Start
    BY <2>8, StartKeeps
  <2>9. ASSUME NEW a \in Attempts, Probed(a)
        PROVE  IInv'
    BY <2>9, ProbedKeeps
  <2>10. ASSUME NEW a \in Attempts, Finish(a)
         PROVE  IInv'
    BY <2>10, FinishKeeps
  <2>11. CASE SetPolicy
    BY <2>11, SetPolicyKeeps
  <2>12. CASE Restart
    BY <2>12, RestartKeeps
  <2>13. CASE UNCHANGED vars
    <3>1. CountersExact' /\ Bounded' /\ JobsSeen' /\ LimitsRead'
      BY <2>13, OthersKeep DEF vars, handlers, slots
    <3>2. TypeOK'
      BY <2>13 DEF IInv, TypeOK, vars, requester, wire, handlers, slots
    <3> QED
      BY <3>1, <3>2 DEF IInv
  <2> QED
    BY <2>1, <2>2, <2>3, <2>4, <2>5, <2>6, <2>7, <2>8, <2>9, <2>10, <2>11, <2>12, <2>13
    DEF Next, Handler
<1> QED
  BY <1>1, <1>2, PTL DEF Spec

\* The worker's counts agree with its handlers at every moment, whatever the
\* number of peers and attempts: no refusal, failure, cancel, restart or lost
\* session leaks a slot, a place in a peer's queue or a cancel event.
THEOREM CountersAlwaysExact == Spec => []CountersExact
<1>1. IInv => CountersExact
  BY DEF IInv
<1> QED
  BY <1>1, CountersInductive, PTL

\* Generations never outnumber the largest limit the owner allows and no peer
\* has more tasks in hand than its queue admits, although the policy is read
\* before the idle probe and the slot is tested after it.
THEOREM AlwaysBounded == Spec => []Bounded
<1>1. IInv => Bounded
  BY DEF IInv
<1> QED
  BY <1>1, CountersInductive, PTL

\* Every variable keeps its type; the counters never go below zero.
THEOREM TypeCorrect == Spec => []TypeOK
<1>1. IInv => TypeOK
  BY DEF IInv
<1> QED
  BY <1>1, CountersInductive, PTL

\* TakeSlot moves its handler to "executing" or ends it, and touches no other.
LEMMA TakeSlotJobs ==
  ASSUME NEW a, NEW session, NEW limit, NEW others, TakeSlot(a, session, limit, others)
  PROVE  \E to \in {"executing", "over"} : job' = [job EXCEPT ![a] = to]
BY DEF TakeSlot, End

\* An attempt that was let in is not let in again while the worker is up, however
\* often and on however many sessions its packet arrives.
THEOREM NeverLetInTwice == Spec => LetInOnce
<1> DEFINE Once == \A a \in Attempts : job[a] # "none" /\ seen' # {} =>
                     \/ job'[a] = job[a]
                     \/ job'[a] = "over"
                     \/ job[a] = "probing" /\ job'[a] = "executing"
<1>1. IInv /\ [Next]_vars => [Once]_job
  <2> SUFFICES ASSUME IInv, [Next]_vars, job' # job
               PROVE  Once
    BY Zenon
  <2>1. job \in [Attempts -> Stages] /\ JobsSeen
    BY DEF IInv, TypeOK, Stages
  <2>2. CASE Restart
    BY <2>2 DEF Restart
  <2>3. CASE Start
    <3>1. PICK b, session : LetIn(b, session)
      BY <2>3 DEF Start, TurnAway
    <3>2. b \notin seen
      BY <3>1 DEF LetIn, Admits
    <3>3. \E to \in {"probing", "executing", "over"} : job' = [job EXCEPT ![b] = to]
      BY <3>1, TakeSlotJobs DEF LetIn, End
    <3>4. \A a \in Attempts : job[a] # "none" => a # b
      BY <2>1, <3>2 DEF JobsSeen
    <3>5. \A a \in Attempts : a # b => job'[a] = job[a]
      BY <2>1, <3>3
    <3> QED
      BY <3>4, <3>5
  <2>4. ASSUME NEW b \in Attempts, Probed(b)
        PROVE  Once
    <3>1. job[b] = "probing"
      BY <2>4 DEF Probed
    <3>2. \E to \in {"executing", "over"} : job' = [job EXCEPT ![b] = to]
      BY <2>4, TakeSlotJobs DEF Probed, End
    <3> QED
      BY <2>1, <3>1, <3>2
  <2>5. ASSUME NEW b \in Attempts, Finish(b)
        PROVE  Once
    <3>1. job' = [job EXCEPT ![b] = "over"]
      BY <2>5 DEF Finish, End
    <3> QED
      BY <2>1, <3>1
  <2>6. Restart \/ Start \/ \E b \in Attempts : Probed(b) \/ Finish(b)
    BY DEF Next, Handler, Send, GiveUp, PeerReads, WorkerReads, Connect, Disconnect, Replace,
           SetPolicy, vars, handlers
  <2> QED
    BY <2>2, <2>3, <2>4, <2>5, <2>6
<1> QED
  BY <1>1, CountersInductive, PTL DEF Spec, LetInOnce

-----------------------------------------------------------------------------
(* Nothing a waiting call depends on is dropped *)

Packet(a) == Frame("task", a)
Spawned(a, session) == [attempt |-> a, session |-> session]

UnderWay(a) ==
  \/ In(Packet(a), toWorker[Owner[a]])
  \/ In(Spawned(a, sentOn[a]), ready)
  \/ job[a] \in {"probing", "executing"} /\ replyOn[a] = sentOn[a]
  \/ \E kind \in Replies : In(Frame(kind, a), toPeer[Owner[a]])

\* A call that could only time out because the worker is slow.
Awaits(a) == call[a] = "waiting" /\ sentOn[a] = link[Owner[a]]

\* That a reply is under way is an invariant of each attempt.
LEMMA UnderWayOfAll ==
  /\ ReplyUnderWay <=> \A a \in Attempts : Awaits(a) => UnderWay(a)
  /\ ReplyUnderWay' <=> \A a \in Attempts : Awaits(a)' => UnderWay(a)'
BY DEF ReplyUnderWay, Awaits, UnderWay, Packet, Spawned

\* What is in a queue stays when something is added, and what is added is in it.
LEMMA InAppend ==
  ASSUME NEW S, NEW s \in Seq(S), NEW e \in S, NEW f
  PROVE  In(f, s) \/ f = e => In(f, Append(s, e))
<1>1. Append(s, e)[Len(s) + 1] = e /\ Len(s) + 1 \in DOMAIN Append(s, e)
  OBVIOUS
<1>2. \A i \in DOMAIN s : i \in DOMAIN Append(s, e) /\ Append(s, e)[i] = s[i]
  OBVIOUS
<1> QED
  BY <1>1, <1>2 DEF In

\* What is in a queue is its head or in the rest.
LEMMA InTail ==
  ASSUME NEW S, NEW s \in Seq(S), s # <<>>, NEW f, In(f, s)
  PROVE  f = Head(s) \/ In(f, Tail(s))
<1>1. PICK i \in DOMAIN s : s[i] = f
  BY DEF In
<1>2. CASE i = 1
  BY <1>1, <1>2
<1>3. CASE i # 1
  <2>1. i - 1 \in DOMAIN Tail(s) /\ Tail(s)[i - 1] = s[i]
    BY <1>3
  <2> QED
    BY <1>1, <2>1 DEF In
<1> QED
  BY <1>2, <1>3

\* A packet sent on the session is under way itself.
LEMMA SendUnderWay ==
  ASSUME TypeOK, NEW b \in Attempts, Send(b), NEW a \in Attempts, Awaits(a) => UnderWay(a)
  PROVE  Awaits(a)' => UnderWay(a)'
<1>1. /\ toWorker[Owner[b]] \in Seq(Packets) /\ Owner[b] \in Peers /\ Owner[a] \in Peers
      /\ Packet(b) \in Packets
  BY ServingAssumption DEF TypeOK, Packet, Frame, Packets
<1>2. toWorker' = [toWorker EXCEPT ![Owner[b]] = Append(toWorker[Owner[b]], Packet(b))]
  BY DEF Send, Packet
<1>3. In(Packet(a), toWorker[Owner[a]]) \/ a = b => In(Packet(a), toWorker'[Owner[a]])
  <2>1. CASE Owner[a] = Owner[b]
    BY <1>1, <1>2, <2>1, InAppend DEF TypeOK
  <2>2. CASE Owner[a] # Owner[b]
    BY <1>1, <1>2, <2>2 DEF TypeOK
  <2> QED
    BY <2>1, <2>2
<1>4. CASE a = b
  BY <1>3, <1>4 DEF UnderWay
<1>5. CASE a # b
  <2>1. /\ call'[a] = call[a] /\ sentOn'[a] = sentOn[a] /\ link' = link /\ toPeer' = toPeer
        /\ ready' = ready /\ job' = job /\ replyOn' = replyOn
    BY <1>5 DEF Send, TypeOK, handlers
  <2> QED
    BY <1>3, <2>1 DEF Awaits, UnderWay
<1> QED
  BY <1>4, <1>5

\* An attempt given up awaits nothing.
LEMMA GiveUpUnderWay ==
  ASSUME TypeOK, NEW b \in Attempts, NEW why \in GivenUp, GiveUp(b, why),
         NEW a \in Attempts, Awaits(a) => UnderWay(a)
  PROVE  Awaits(a)' => UnderWay(a)'
<1>1. /\ toWorker[Owner[b]] \in Seq(Packets) /\ Owner[b] \in Peers /\ Owner[a] \in Peers
      /\ Frame("cancel", b) \in Packets
  BY ServingAssumption DEF TypeOK, Frame, Packets
<1>2. In(Packet(a), toWorker[Owner[a]]) => In(Packet(a), toWorker'[Owner[a]])
  <2>1. \/ toWorker' = toWorker
        \/ toWorker' = [toWorker EXCEPT ![Owner[b]] = Append(toWorker[Owner[b]], Frame("cancel", b))]
    BY <1>1 DEF GiveUp, TypeOK
  <2>2. \/ toWorker'[Owner[a]] = toWorker[Owner[a]]
        \/ toWorker'[Owner[a]] = Append(toWorker[Owner[a]], Frame("cancel", b)) /\ Owner[a] = Owner[b]
    BY <1>1, <2>1 DEF TypeOK
  <2>3. Owner[a] = Owner[b] /\ In(Packet(a), toWorker[Owner[a]])
          => In(Packet(a), Append(toWorker[Owner[a]], Frame("cancel", b)))
    BY <1>1, InAppend
  <2> QED
    BY <2>2, <2>3
<1>3. call'[a] = "waiting" => call[a] = "waiting"
  BY DEF GiveUp, TypeOK, GivenUp
<1>4. /\ sentOn' = sentOn /\ link' = link /\ toPeer' = toPeer
      /\ ready' = ready /\ job' = job /\ replyOn' = replyOn
  BY DEF GiveUp, handlers
<1> QED
  BY <1>2, <1>3, <1>4 DEF Awaits, UnderWay

\* The reply that leaves the queue ends the wait of its attempt.
LEMMA PeerReadsUnderWay ==
  ASSUME TypeOK, NEW p \in Peers, PeerReads(p), NEW a \in Attempts, Awaits(a) => UnderWay(a)
  PROVE  Awaits(a)' => UnderWay(a)'
<1> DEFINE f == Head(toPeer[p])
<1>1. toPeer[p] \in Seq(Answers) /\ toPeer[p] # <<>> /\ f \in Answers /\ Owner[a] \in Peers
  BY ServingAssumption, HeadTailProperties DEF TypeOK, PeerReads
<1>2. f.attempt \in Attempts /\ f.kind \in Replies /\ f.kind # "waiting"
  BY <1>1 DEF Answers, Replies
<1>3. /\ toPeer' = [toPeer EXCEPT ![p] = Tail(toPeer[p])]
      /\ call' = [call EXCEPT ![f.attempt] = IF call[f.attempt] = "waiting" THEN f.kind ELSE call[f.attempt]]
  BY DEF PeerReads
<1> HIDE DEF f
<1>4. call'[a] = "waiting" => call[a] = "waiting" /\ f.attempt # a
  BY <1>2, <1>3 DEF TypeOK
<1>5. ASSUME NEW kind \in Replies, f.attempt # a, In(Frame(kind, a), toPeer[Owner[a]])
      PROVE  In(Frame(kind, a), toPeer'[Owner[a]])
  <2>1. CASE Owner[a] = p
    <3>1. Frame(kind, a) # f
      BY <1>5 DEF Frame
    <3>2. In(Frame(kind, a), Tail(toPeer[p]))
      BY <1>1, <1>5, <2>1, <3>1, InTail DEF f
    <3> QED
      BY <1>3, <2>1, <3>2 DEF TypeOK
  <2>2. CASE Owner[a] # p
    BY <1>1, <1>3, <1>5, <2>2 DEF TypeOK
  <2> QED
    BY <2>1, <2>2
<1>6. /\ sentOn' = sentOn /\ link' = link /\ toWorker' = toWorker
      /\ ready' = ready /\ job' = job /\ replyOn' = replyOn
  BY DEF PeerReads, handlers
<1> QED
  BY <1>4, <1>5, <1>6 DEF Awaits, UnderWay

\* No call was sent on a session that is new.
LEMMA NewSessionUnderWay ==
  ASSUME TypeOK, NEW p \in Peers, Connect(p) \/ Replace(p), NEW a \in Attempts, Awaits(a) => UnderWay(a)
  PROVE  Awaits(a)' => UnderWay(a)'
<1>1. /\ sessions \in Nat /\ sentOn[a] \in 0..sessions /\ Owner[a] \in Peers
      /\ call' = call /\ sentOn' = sentOn /\ link' = [link EXCEPT ![p] = sessions + 1]
      /\ ready' = ready /\ job' = job /\ replyOn' = replyOn
  BY ServingAssumption DEF TypeOK, Connect, Replace, NewSession, requester, handlers
<1>2. CASE Owner[a] = p
  <2>1. link'[Owner[a]] = sessions + 1 /\ sentOn[a] # sessions + 1
    BY <1>1, <1>2 DEF TypeOK
  <2> QED
    BY <1>1, <2>1 DEF Awaits
<1>3. CASE Owner[a] # p
  <2>1. link'[Owner[a]] = link[Owner[a]]
    BY <1>1, <1>3 DEF TypeOK
  <2>2. toWorker'[Owner[a]] = toWorker[Owner[a]] /\ toPeer'[Owner[a]] = toPeer[Owner[a]]
    BY <1>1, <1>3 DEF TypeOK, Connect, Replace
  <2> QED
    BY <1>1, <2>1, <2>2 DEF Awaits, UnderWay
<1> QED
  BY <1>2, <1>3

\* With a session its calls end.
LEMMA DisconnectUnderWay ==
  ASSUME TypeOK, NEW p \in Peers, Disconnect(p), NEW a \in Attempts, Awaits(a) => UnderWay(a)
  PROVE  Awaits(a)' => UnderWay(a)'
<1>1. /\ Owner[a] \in Peers /\ sentOn' = sentOn
      /\ ready' = ready /\ job' = job /\ replyOn' = replyOn
  BY ServingAssumption DEF Disconnect, handlers
<1>2. call'[a] = "waiting" => call[a] = "waiting" /\ Owner[a] # p
  BY DEF Disconnect
<1>3. CASE Owner[a] # p
  <2>1. /\ link'[Owner[a]] = link[Owner[a]]
        /\ toWorker'[Owner[a]] = toWorker[Owner[a]] /\ toPeer'[Owner[a]] = toPeer[Owner[a]]
    BY <1>1, <1>3 DEF TypeOK, Disconnect
  <2> QED
    BY <1>1, <1>2, <2>1 DEF Awaits, UnderWay
<1> QED
  BY <1>2, <1>3 DEF Awaits

\* A packet that leaves the queue is spawned on the session it came in on.
LEMMA WorkerReadsUnderWay ==
  ASSUME TypeOK, NEW p \in Peers, WorkerReads(p), NEW a \in Attempts, Awaits(a) => UnderWay(a)
  PROVE  Awaits(a)' => UnderWay(a)'
<1> DEFINE f == Head(toWorker[p])
           Jobs == [attempt: Attempts, session: 0..sessions]
<1>1. /\ toWorker[p] \in Seq(Packets) /\ toWorker[p] # <<>> /\ f \in Packets /\ Owner[a] \in Peers
      /\ ready \in Seq(Jobs) /\ link[p] \in 0..sessions
  BY ServingAssumption, HeadTailProperties DEF TypeOK, WorkerReads
<1>2. /\ toWorker' = [toWorker EXCEPT ![p] = Tail(toWorker[p])]
      /\ \/ f.kind = "task" /\ ready' = Append(ready, Spawned(f.attempt, link[p]))
         \/ f.kind = "cancel" /\ ready' = ready
  BY DEF WorkerReads, Spawned
<1>3. Spawned(f.attempt, link[p]) \in Jobs
  BY <1>1 DEF Spawned, Packets
<1>4. call' = call /\ sentOn' = sentOn /\ link' = link /\ toPeer' = toPeer /\ job' = job /\ replyOn' = replyOn
  BY DEF WorkerReads, requester
<1> HIDE DEF f, Jobs
<1>5. In(Spawned(a, sentOn[a]), ready) => In(Spawned(a, sentOn[a]), ready')
  BY <1>1, <1>2, <1>3, InAppend
<1>6. ASSUME In(Packet(a), toWorker[Owner[a]]), sentOn[a] = link[Owner[a]]
      PROVE  In(Packet(a), toWorker'[Owner[a]]) \/ In(Spawned(a, sentOn[a]), ready')
  <2>1. CASE Owner[a] # p
    BY <1>1, <1>2, <1>6, <2>1 DEF TypeOK
  <2>2. CASE Owner[a] = p /\ Packet(a) # f
    <3>1. In(Packet(a), Tail(toWorker[p]))
      BY <1>1, <1>6, <2>2, InTail DEF f
    <3> QED
      BY <1>2, <2>2, <3>1 DEF TypeOK
  <2>3. CASE Owner[a] = p /\ Packet(a) = f
    <3>1. f.kind = "task" /\ f.attempt = a
      BY <2>3 DEF Packet, Frame
    <3>2. ready' = Append(ready, Spawned(a, sentOn[a]))
      BY <1>2, <1>6, <2>3, <3>1
    <3> QED
      BY <1>1, <1>3, <1>6, <2>3, <3>1, <3>2, InAppend
  <2> QED
    BY <2>1, <2>2, <2>3
<1> QED
  BY <1>4, <1>5, <1>6 DEF Awaits, UnderWay

\* A reply goes out on the session it belongs to, and nothing is lost by it.
LEMMA ReplyGoesOut ==
  ASSUME TypeOK, NEW b \in Attempts, NEW session, NEW kind \in Replies, Reply(b, session, kind),
         NEW a \in Attempts
  PROVE  /\ \A k \in Replies : In(Frame(k, a), toPeer[Owner[a]]) => In(Frame(k, a), toPeer'[Owner[a]])
         /\ a = b /\ link[Owner[a]] = session => In(Frame(kind, a), toPeer'[Owner[a]])
<1> DEFINE q == toPeer[Owner[b]]
<1>1. q \in Seq(Answers) /\ Owner[b] \in Peers /\ Owner[a] \in Peers /\ Frame(kind, b) \in Answers
  BY ServingAssumption DEF TypeOK, Frame, Answers
<1>2. toPeer' = [toPeer EXCEPT ![Owner[b]] = IF link[Owner[b]] = session THEN Append(q, Frame(kind, b)) ELSE q]
  BY DEF Reply
<1>3. CASE Owner[a] # Owner[b]
  BY <1>1, <1>2, <1>3 DEF TypeOK
<1>4. CASE Owner[a] = Owner[b]
  <2>1. toPeer'[Owner[a]] = IF link[Owner[b]] = session THEN Append(q, Frame(kind, b)) ELSE q
    BY <1>1, <1>2, <1>4 DEF TypeOK
  <2>2. \A k \in Replies : In(Frame(k, a), q) => In(Frame(k, a), Append(q, Frame(kind, b)))
    BY <1>1, InAppend
  <2>3. In(Frame(kind, b), Append(q, Frame(kind, b)))
    BY <1>1, InAppend
  <2> QED
    BY <1>4, <2>1, <2>2, <2>3
<1> QED
  BY <1>3, <1>4

\* The handler of b on some session moves on or ends with a reply.
HandlerMoves(b, session) ==
  \/ job' = [job EXCEPT ![b] = "executing"] /\ toPeer' = toPeer
  \/ job' = [job EXCEPT ![b] = "probing"] /\ toPeer' = toPeer
  \/ \E kind \in Replies : job' = [job EXCEPT ![b] = "over"] /\ Reply(b, session, kind)

\* Taking a slot, or being refused one, is a move of a handler.
LEMMA SlotMoves ==
  ASSUME NEW b, NEW session, NEW limit, NEW others, TakeSlot(b, session, limit, others)
  PROVE  HandlerMoves(b, session)
BY DEF TakeSlot, End, HandlerMoves, Replies

\* A handler that moves takes no frame away, and leaves its reply or goes on.
LEMMA HandlerMovesUnderWay ==
  ASSUME TypeOK, NEW b \in Attempts, NEW session, HandlerMoves(b, session), NEW a \in Attempts
  PROVE  /\ \A k \in Replies : In(Frame(k, a), toPeer[Owner[a]]) => In(Frame(k, a), toPeer'[Owner[a]])
         /\ a # b => job'[a] = job[a]
         /\ a = b /\ link[Owner[a]] = session =>
              \/ job'[a] \in {"probing", "executing"}
              \/ \E k \in Replies : In(Frame(k, a), toPeer'[Owner[a]])
<1>1. CASE /\ toPeer' = toPeer
           /\ job' = [job EXCEPT ![b] = "executing"] \/ job' = [job EXCEPT ![b] = "probing"]
  BY <1>1 DEF TypeOK
<1>2. ASSUME NEW kind \in Replies, job' = [job EXCEPT ![b] = "over"], Reply(b, session, kind)
      PROVE  /\ \A k \in Replies : In(Frame(k, a), toPeer[Owner[a]]) => In(Frame(k, a), toPeer'[Owner[a]])
             /\ a # b => job'[a] = job[a]
             /\ a = b /\ link[Owner[a]] = session => \E k \in Replies : In(Frame(k, a), toPeer'[Owner[a]])
  BY <1>2, ReplyGoesOut DEF TypeOK
<1> QED
  BY <1>1, <1>2 DEF HandlerMoves

\* A packet that is dropped is a duplicate, whose first handler answers.
LEMMA StartUnderWay ==
  ASSUME IInv, Start, NEW a \in Attempts, Awaits(a) => UnderWay(a)
  PROVE  Awaits(a)' => UnderWay(a)'
<1> DEFINE h == Head(ready)
           b == h.attempt
<1>1. /\ ready \in Seq([attempt: Attempts, session: 0..sessions]) /\ ready # <<>> /\ ready' = Tail(ready)
      /\ h \in [attempt: Attempts, session: 0..sessions]
  BY HeadTailProperties DEF IInv, TypeOK, Start
<1>2. /\ b \in Attempts /\ h = Spawned(b, h.session)
  BY <1>1 DEF Spawned
<1>3. call' = call /\ sentOn' = sentOn /\ link' = link /\ toWorker' = toWorker /\ TypeOK
  BY DEF Start, HandlerStep, requester, IInv
<1>4. TurnAway(b, h.session) \/ LetIn(b, h.session)
  BY DEF Start
<1> HIDE DEF h, b
<1>5. In(Spawned(a, sentOn[a]), ready) => In(Spawned(a, sentOn[a]), ready') \/ (b = a /\ h.session = sentOn[a])
  <2>1. Spawned(a, sentOn[a]) = h => b = a /\ h.session = sentOn[a]
    BY DEF b, Spawned
  <2> QED
    BY <1>1, <2>1, InTail DEF h
<1>6. CASE TurnAway(b, h.session)
  <2>1. job' = job /\ replyOn' = replyOn /\ Reply(b, h.session, "error")
    BY <1>6 DEF TurnAway
  <2>2. /\ \A k \in Replies : In(Frame(k, a), toPeer[Owner[a]]) => In(Frame(k, a), toPeer'[Owner[a]])
        /\ a = b /\ link[Owner[a]] = h.session => In(Frame("error", a), toPeer'[Owner[a]])
    BY <1>2, <1>3, <2>1, ReplyGoesOut DEF Replies
  <2> QED
    BY <1>3, <1>5, <2>1, <2>2 DEF Awaits, UnderWay, Replies
<1>7. CASE LetIn(b, h.session)
  <2>1. HandlerMoves(b, h.session) /\ replyOn' = [replyOn EXCEPT ![b] = h.session] /\ b \notin seen
    BY <1>7, SlotMoves DEF LetIn, Admits, End, HandlerMoves, Replies
  <2>2. job[b] = "none"
    BY <1>2, <2>1 DEF IInv, JobsSeen
  <2>3. /\ \A k \in Replies : In(Frame(k, a), toPeer[Owner[a]]) => In(Frame(k, a), toPeer'[Owner[a]])
        /\ a # b => job'[a] = job[a] /\ replyOn'[a] = replyOn[a]
        /\ a = b /\ link[Owner[a]] = h.session =>
             \/ job'[a] \in {"probing", "executing"}
             \/ \E k \in Replies : In(Frame(k, a), toPeer'[Owner[a]])
    BY <1>2, <1>3, <2>1, HandlerMovesUnderWay DEF TypeOK
  <2>4. a = b => replyOn'[a] = h.session
    BY <1>2, <1>3, <2>1 DEF TypeOK
  <2> QED
    BY <1>3, <1>5, <2>2, <2>3, <2>4 DEF Awaits, UnderWay
<1> QED
  BY <1>4, <1>6, <1>7

\* A handler after its probe or generation replies, or goes on.
LEMMA HandlerUnderWay ==
  ASSUME TypeOK, NEW b \in Attempts, Probed(b) \/ Finish(b), NEW a \in Attempts, Awaits(a) => UnderWay(a)
  PROVE  Awaits(a)' => UnderWay(a)'
<1>1. /\ call' = call /\ sentOn' = sentOn /\ link' = link /\ toWorker' = toWorker
      /\ ready' = ready /\ replyOn' = replyOn
  BY DEF Probed, Finish, HandlerStep, requester
<1>2. HandlerMoves(b, replyOn[b])
  BY SlotMoves DEF Probed, Finish, End, HandlerMoves, Replies
<1>3. /\ \A k \in Replies : In(Frame(k, a), toPeer[Owner[a]]) => In(Frame(k, a), toPeer'[Owner[a]])
      /\ a # b => job'[a] = job[a]
      /\ a = b /\ link[Owner[a]] = replyOn[b] =>
           \/ job'[a] \in {"probing", "executing"}
           \/ \E k \in Replies : In(Frame(k, a), toPeer'[Owner[a]])
  BY <1>2, HandlerMovesUnderWay
<1> QED
  BY <1>1, <1>3 DEF Awaits, UnderWay

\* While the session a packet went out on is the peer's session, the packet, its
\* handler or its reply is under way: a call never times out because something
\* was dropped, for any peers, policies, restarts and number of sends.
THEOREM ReplyAlwaysUnderWay == Spec => []ReplyUnderWay
<1>1. Init => ReplyUnderWay
  BY DEF Init, ReplyUnderWay
<1>2. IInv /\ ReplyUnderWay /\ [Next]_vars => ReplyUnderWay'
  <2> SUFFICES ASSUME IInv, ReplyUnderWay, [Next]_vars, NEW a \in Attempts
               PROVE  Awaits(a)' => UnderWay(a)'
    BY UnderWayOfAll
  <2>1. TypeOK /\ (Awaits(a) => UnderWay(a))
    BY UnderWayOfAll DEF IInv
  <2>2. CASE SetPolicy \/ UNCHANGED vars
    BY <2>1, <2>2 DEF SetPolicy, vars, requester, wire, handlers, Awaits, UnderWay
  <2>3. CASE Restart
    BY <2>3 DEF Restart, Awaits
  <2> QED
    BY <2>1, <2>2, <2>3, SendUnderWay, GiveUpUnderWay, PeerReadsUnderWay, NewSessionUnderWay,
       DisconnectUnderWay, WorkerReadsUnderWay, StartUnderWay, HandlerUnderWay DEF Next, Handler
<1> QED
  BY <1>1, <1>2, CountersInductive, PTL DEF Spec

=============================================================================
