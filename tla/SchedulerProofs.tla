--------------------------- MODULE SchedulerProofs ---------------------------
(* Machine-checked theorems about Scheduler, for every plan, set of workers  *)
(* and value of k_min, k_max and max_concurrency: its types, the numbers of  *)
(* attempts, the order of the plan, and that it implements PlanRun.          *)
EXTENDS Scheduler, FiniteSetTheorems, SequenceTheorems, TLAPS

-----------------------------------------------------------------------------
(* Sequences *)

\* A function with the domain of a sequence and values in S is a sequence.
LEMMA SameDomainSeq ==
  ASSUME NEW S, NEW T, NEW s \in Seq(S), NEW f,
         f = [i \in DOMAIN s |-> f[i]],
         \A i \in DOMAIN s : f[i] \in T
  PROVE  f \in Seq(T) /\ Len(f) = Len(s)
<1>1. DOMAIN s = 1..Len(s) /\ Len(s) \in Nat
  OBVIOUS
<1>2. f \in [1..Len(s) -> T]
  BY <1>1
<1>3. f \in Seq(T)
  BY <1>1, <1>2
<1>4. DOMAIN f = 1..Len(s)
  BY <1>2
<1> QED
  BY <1>1, <1>3, <1>4

\* Families of sets over a growing universe.
LEMMA WidenSets ==
  ASSUME NEW T, NEW S, NEW U, S \subseteq U, NEW f \in [T -> SUBSET S]
  PROVE  f \in [T -> SUBSET U]
OBVIOUS

\* Adding a member of the universe to one set of a family.
LEMMA AddToSet ==
  ASSUME NEW T, NEW S, NEW f \in [T -> SUBSET S], NEW t \in T, NEW i \in S
  PROVE  [f EXCEPT ![t] = @ \cup {i}] \in [T -> SUBSET S]
<1>1. f[t] \cup {i} \in SUBSET S
  OBVIOUS
<1> QED
  BY <1>1

-----------------------------------------------------------------------------
(* Types *)

\* What launching or not launching leaves behind, typed.
LaunchTyped ==
  /\ attempts' \in Seq(Attempt)
  /\ Len(attempts') >= Len(attempts)
  /\ number' \in [Tasks -> Nat]
  /\ used' \in [Tasks -> SUBSET (Nodes \X Families)]
  /\ inflight' \in [Tasks -> SUBSET (DOMAIN attempts')]
  /\ load' \in [Nodes -> Int]

\* launch() appends an attempt of the right type and enters it in run_task's
\* locals and in the load.
LEMMA LaunchKeepsTypes ==
  ASSUME TypeOK, NEW t \in Tasks, NEW offer \in Offers, NEW why \in Reasons,
         NEW atts \in Seq(Attempt), Len(atts) = Len(attempts),
         NEW left \in SUBSET Indices, NEW ld \in [Nodes -> Int],
         Launch(t, offer, why, atts, left, ld)
  PROVE  LaunchTyped
<1>1. offer \in Nodes \X Families
  BY SchedulerAssumption
<1>2. NewAttempt(t, number[t], offer, why) \in Attempt
  BY <1>1 DEF NewAttempt, Attempt, TypeOK, Stages, Statuses
<1>3. /\ attempts' = Append(atts, NewAttempt(t, number[t], offer, why))
      /\ attempts' \in Seq(Attempt)
      /\ Len(attempts') = Len(attempts) + 1
  BY <1>2 DEF Launch, TypeOK
<1>4. DOMAIN attempts' = 1..(Len(attempts) + 1) /\ Indices = 1..Len(attempts) /\ Len(attempts) \in Nat
  BY <1>3 DEF Indices, TypeOK
<1>5. inflight' \in [Tasks -> SUBSET (DOMAIN attempts')]
  <2>1. left \cup {Len(atts) + 1} \subseteq 1..(Len(attempts) + 1)
    <3>1. \A x \in left : x \in 1..Len(attempts)
      BY <1>4
    <3>2. \A x \in left : x \in 1..(Len(attempts) + 1)
      BY <1>4, <3>1
    <3>3. Len(atts) + 1 \in 1..(Len(attempts) + 1)
      BY <1>4
    <3> QED
      BY <3>2, <3>3
  <2>2. \A u \in Tasks : inflight[u] \subseteq DOMAIN attempts'
    BY <1>4 DEF TypeOK
  <2>3. inflight' = [inflight EXCEPT ![t] = left \cup {Len(atts) + 1}] /\ inflight \in [Tasks -> SUBSET Indices]
    BY DEF Launch, TypeOK
  <2> QED
    BY <1>4, <2>1, <2>2, <2>3
<1>6. load' \in [Nodes -> Int]
  BY <1>1 DEF Launch
<1>7. used' \in [Tasks -> SUBSET (Nodes \X Families)]
  BY <1>1, AddToSet DEF Launch, TypeOK
<1> QED
  BY <1>3, <1>4, <1>5, <1>6, <1>7 DEF Launch, LaunchTyped, TypeOK

\* A launch that finds no candidate leaves values of the same types.
LEMMA NoLaunchKeepsTypes ==
  ASSUME TypeOK, NEW t \in Tasks, NEW atts \in Seq(Attempt), Len(atts) = Len(attempts),
         NEW left \in SUBSET Indices, NEW ld \in [Nodes -> Int],
         NoLaunch(t, atts, left, ld)
  PROVE  LaunchTyped
<1>1. DOMAIN atts = Indices
  BY DEF Indices, TypeOK
<1> QED
  BY <1>1 DEF NoLaunch, LaunchTyped, TypeOK

\* Hence so does launch(), whatever _select returned.
LEMMA TryLaunchKeepsTypes ==
  ASSUME TypeOK, NEW t \in Tasks, NEW why \in Reasons, NEW free \in BOOLEAN,
         NEW atts \in Seq(Attempt), Len(atts) = Len(attempts),
         NEW left \in SUBSET Indices, NEW ld \in [Nodes -> Int],
         TryLaunch(t, why, free, atts, left, ld)
  PROVE  LaunchTyped
<1>1. CASE NoLaunch(t, atts, left, ld)
  BY <1>1, NoLaunchKeepsTypes
<1>2. ASSUME NEW o \in Candidates(t, free, ld), Launch(t, o, why, atts, left, ld)
      PROVE  LaunchTyped
  <2>1. o \in Offers
    BY DEF Candidates
  <2> QED
    BY <1>2, <2>1, LaunchKeepsTypes
<1> QED
  BY <1>1, <1>2 DEF TryLaunch

\* One more attempt at most: what referred to attempts still does.
LEMMA IndicesGrow ==
  ASSUME TypeOK, attempts' \in Seq(Attempt), Len(attempts') >= Len(attempts)
  PROVE  Indices \subseteq DOMAIN attempts'
BY DEF TypeOK, Indices

\* The popped attempt's node is a node, so its load can be given back.
LEMMA LoadOfPopped ==
  ASSUME TypeOK, NEW i \in Indices
  PROVE  /\ [load EXCEPT ![attempts[i].node] = @ - 1] \in [Nodes -> Int]
         /\ attempts[i] \in Attempt
<1>1. attempts[i] \in Attempt
  BY DEF TypeOK, Indices
<1>2. attempts[i].node \in Nodes
  BY <1>1 DEF Attempt
<1> QED
  BY <1>1, <1>2 DEF TypeOK

\* The rest of run_task's locals, when one attempt is popped from the done set.
LEMMA PoppingKeepsTypes ==
  ASSUME TypeOK, NEW t \in Tasks, NEW i \in batch, Popping(t, i), LaunchTyped,
         accepted' = [accepted EXCEPT ![t] = @ \cup {i}] \/ accepted' = accepted,
         rejected' = [rejected EXCEPT ![t] = @ \cup {i}] \/ rejected' = rejected
  PROVE  TypeOK'
<1>1. Indices \subseteq DOMAIN attempts'
  BY IndicesGrow DEF LaunchTyped
<1>2. i \in Indices
  BY DEF TypeOK
<1>3. accepted' \in [Tasks -> SUBSET (DOMAIN attempts')]
  <2>1. accepted \in [Tasks -> SUBSET Indices]
    BY DEF TypeOK
  <2>2. accepted' \in [Tasks -> SUBSET Indices]
    BY <1>2, <2>1, AddToSet
  <2> QED
    BY <1>1, <2>2, WidenSets
<1>4. rejected' \in [Tasks -> SUBSET (DOMAIN attempts')]
  <2>1. rejected \in [Tasks -> SUBSET Indices]
    BY DEF TypeOK
  <2>2. rejected' \in [Tasks -> SUBSET Indices]
    BY <1>2, <2>1, AddToSet
  <2> QED
    BY <1>1, <2>2, WidenSets
<1>5. replicas' \in [Tasks -> SUBSET (DOMAIN attempts' \cup {LocalReplica})]
  BY <1>1 DEF TypeOK, Popping
<1>6. batch' \subseteq DOMAIN attempts'
  BY <1>1 DEF TypeOK, Popping
<1> QED
  BY <1>3, <1>4, <1>5, <1>6 DEF TypeOK, Popping, LaunchTyped, Indices

\* Rewriting stages, answers and verdicts in place keeps the indices.
LEMMA RewritingKeepsTypes ==
  ASSUME TypeOK, attempts' \in Seq(Attempt), Len(attempts') = Len(attempts)
  PROVE  DOMAIN attempts' = Indices
BY DEF TypeOK, Indices

\* The end of a round cancels and degrades attempts and gives their load back.
LEMMA CloseRoundKeepsTypes ==
  ASSUME TypeOK, NEW t \in Tasks, CloseRound(t)
  PROVE  /\ attempts' \in Seq(Attempt) /\ Len(attempts') = Len(attempts)
         /\ load' \in [Nodes -> Int]
         /\ inflight' \in [Tasks -> SUBSET Indices]
<1> DEFINE closed == [i \in DOMAIN attempts |->
             IF i \in inflight[t]
             THEN [attempts[i] EXCEPT !.status = "cancelled_slow",
                                      !.stage = CASE @ = "queued" -> "cancelled"
                                                  [] @ = "sent"   -> "unwinding"
                                                  [] OTHER -> @]
             ELSE IF i \in rejected[t] /\ Degraded(t)
             THEN [attempts[i] EXCEPT !.status = "degraded"]
             ELSE attempts[i]]
<1>1. \A i \in DOMAIN attempts : attempts[i] \in Attempt
  BY DEF TypeOK
<1>2. \A i \in DOMAIN attempts : closed[i] \in Attempt
  BY <1>1 DEF Attempt, Stages, Statuses
<1>3. attempts' = closed
  BY DEF CloseRound
<1>4. attempts' \in Seq(Attempt) /\ Len(attempts') = Len(attempts)
  <2> HIDE DEF closed
  <2>1. attempts \in Seq(Attempt)
    BY DEF TypeOK
  <2>2. closed = [i \in DOMAIN attempts |-> closed[i]]
    BY DEF closed
  <2> QED
    BY <1>2, <1>3, <2>1, <2>2, SameDomainSeq
<1>5. \A n \in Nodes : Cardinality({i \in inflight[t] : attempts[i].node = n}) \in Nat
  <2> SUFFICES ASSUME NEW n \in Nodes
               PROVE  Cardinality({i \in inflight[t] : attempts[i].node = n}) \in Nat
    OBVIOUS
  <2>1. IsFiniteSet(1..Len(attempts))
    BY FS_Interval DEF TypeOK
  <2>2. {i \in inflight[t] : attempts[i].node = n} \subseteq 1..Len(attempts)
    BY DEF TypeOK, Indices
  <2> QED
    BY <2>1, <2>2, FS_Subset, FS_CardinalityType
<1>6. load' \in [Nodes -> Int]
  <2>1. load \in [Nodes -> Int]
    BY DEF TypeOK
  <2>2. load' = [n \in Nodes |->
                   load[n] - Cardinality({i \in inflight[t] : attempts[i].node = n})]
    BY DEF CloseRound
  <2>3. \A n \in Nodes :
          load[n] - Cardinality({i \in inflight[t] : attempts[i].node = n}) \in Int
    BY <1>5, <2>1
  <2> QED
    BY <2>2, <2>3
<1>7. inflight' \in [Tasks -> SUBSET Indices]
  BY DEF CloseRound, TypeOK
<1> QED
  BY <1>4, <1>6, <1>7

\* A step of a dispatch rewrites one attempt, or those of one node.
LEMMA DispatchKeepsTypes ==
  ASSUME TypeOK, DispatchStep, linked' \subseteq Nodes,
         attempts' \in Seq(Attempt), Len(attempts') = Len(attempts)
  PROVE  TypeOK'
<1>1. DOMAIN attempts' = Indices
  BY RewritingKeepsTypes
<1> QED
  BY <1>1 DEF TypeOK, DispatchStep, segment, locals, Indices

\* Types of one attempt rewritten in place.
LEMMA RewriteOne ==
  ASSUME TypeOK, NEW i \in DOMAIN attempts, NEW a \in Attempt
  PROVE  /\ [attempts EXCEPT ![i] = a] \in Seq(Attempt)
         /\ Len([attempts EXCEPT ![i] = a]) = Len(attempts)
<1>1. attempts \in Seq(Attempt)
  BY DEF TypeOK
<1> QED
  BY <1>1

\* A verdict on one attempt keeps the types.
LEMMA VerdictKeepsTypes ==
  ASSUME TypeOK, NEW i \in Indices, NEW s \in Statuses
  PROVE  /\ [attempts EXCEPT ![i].status = s] \in Seq(Attempt)
         /\ Len([attempts EXCEPT ![i].status = s]) = Len(attempts)
<1>1. attempts[i] \in Attempt
  BY DEF TypeOK, Indices
<1>2. [attempts[i] EXCEPT !.status = s] \in Attempt
  BY <1>1 DEF Attempt
<1>3. [attempts EXCEPT ![i].status = s] = [attempts EXCEPT ![i] = [attempts[i] EXCEPT !.status = s]]
  BY DEF Indices
<1> QED
  BY <1>2, <1>3, RewriteOne DEF Indices

\* Every variable of the scheduler holds a value of its kind in every reachable
\* state, and run_task's sets refer to attempts that exist.
THEOREM TypeCorrect == Spec => []TypeOK
<1>1. Init => TypeOK
  BY SchedulerAssumption DEF Init, TypeOK, Phases, Indices
<1>2. TypeOK /\ [Next]_vars => TypeOK'
  <2> SUFFICES ASSUME TypeOK, [Next]_vars PROVE TypeOK'
    OBVIOUS
  <2>1. CASE Levels
    <3>1. phase' \in [Tasks -> Phases]
      BY <2>1 DEF Levels, CancelActive, TypeOK, Phases
    <3>2. results' \subseteq Tasks
      BY <2>1 DEF Levels, Finished, TypeOK
    <3>3. request' \in {"running", "done", "failed", "stopped"}
      BY <2>1 DEF Levels
    <3> QED
      BY <2>1, <3>1, <3>2, <3>3 DEF Levels, TypeOK, segment, locals, Indices
  <2>2. CASE Stop
    <3>1. phase' \in [Tasks -> Phases]
      BY <2>2 DEF Stop, CancelActive, TypeOK, Phases
    <3> QED
      BY <2>2, <3>1 DEF Stop, TypeOK, segment, locals, Indices
  <2>3. ASSUME NEW t \in Tasks, Begin(t) PROVE TypeOK'
    BY <2>3, SchedulerAssumption DEF Begin, Enter, TypeOK, Phases, Indices
  <2>4. ASSUME NEW t \in Tasks, LaunchInitial(t) PROVE TypeOK'
    <3>1. LaunchTyped
      BY <2>4, TryLaunchKeepsTypes, inflight[t] \in SUBSET Indices
         DEF LaunchInitial, TypeOK, Reasons
    <3>2. Indices \subseteq DOMAIN attempts'
      BY <3>1, IndicesGrow DEF LaunchTyped
    <3>3. /\ accepted' \in [Tasks -> SUBSET (DOMAIN attempts')]
          /\ rejected' \in [Tasks -> SUBSET (DOMAIN attempts')]
          /\ replicas' \in [Tasks -> SUBSET (DOMAIN attempts' \cup {LocalReplica})]
          /\ batch' \subseteq DOMAIN attempts'
      BY <2>4, <3>2 DEF LaunchInitial, TypeOK
    <3>4. todo' \in Nat
      BY <2>4 DEF LaunchInitial, TypeOK
    <3> QED
      BY <2>4, <3>1, <3>3, <3>4 DEF LaunchInitial, LaunchTyped, TypeOK, Indices
  <2>5. ASSUME NEW t \in Tasks, Collect(t) PROVE TypeOK'
    BY <2>5 DEF Collect, TypeOK, locals, Indices
  <2>6. ASSUME NEW t \in Tasks, Park(t) PROVE TypeOK'
    BY <2>6 DEF Park, TypeOK, locals, Indices
  <2>7. ASSUME NEW t \in Tasks, Hedge(t) PROVE TypeOK'
    <3>1. PICK o \in Candidates(t, TRUE, load) :
            Launch(t, o, "hedge", attempts, inflight[t], load)
      BY <2>7 DEF Hedge
    <3>2. LaunchTyped
      BY <3>1, LaunchKeepsTypes, inflight[t] \in SUBSET Indices
         DEF Candidates, TypeOK, Reasons
    <3>3. Indices \subseteq DOMAIN attempts'
      BY <3>2, IndicesGrow DEF LaunchTyped
    <3>4. /\ accepted' \in [Tasks -> SUBSET (DOMAIN attempts')]
          /\ rejected' \in [Tasks -> SUBSET (DOMAIN attempts')]
          /\ replicas' \in [Tasks -> SUBSET (DOMAIN attempts' \cup {LocalReplica})]
          /\ batch' \subseteq DOMAIN attempts'
      BY <2>7, <3>3 DEF Hedge, TypeOK, segment
    <3> QED
      BY <2>7, <3>2, <3>4 DEF Hedge, LaunchTyped, TypeOK, Indices, segment
  <2>8. ASSUME NEW t \in Tasks, NEW i \in batch, Accept(t, i) PROVE TypeOK'
    <3>1. i \in Indices /\ attempts[i] \in Attempt
      BY DEF TypeOK, Indices
    <3> DEFINE atts == [attempts EXCEPT ![i].status = "accepted"]
               freed == [load EXCEPT ![attempts[i].node] = @ - 1]
    <3>2. atts \in Seq(Attempt) /\ Len(atts) = Len(attempts)
      BY <3>1, VerdictKeepsTypes DEF Statuses
    <3>3. freed \in [Nodes -> Int] /\ inflight[t] \ {i} \in SUBSET Indices
      BY <3>1, LoadOfPopped DEF TypeOK
    <3>4. LaunchTyped
      BY <2>8, <3>2, <3>3, NoLaunchKeepsTypes DEF Accept
    <3> QED
      BY <2>8, <3>4, PoppingKeepsTypes DEF Accept
  <2>9. ASSUME NEW t \in Tasks, NEW i \in batch, Reject(t, i) PROVE TypeOK'
    <3>1. i \in Indices /\ attempts[i] \in Attempt
      BY DEF TypeOK, Indices
    <3> DEFINE atts == [attempts EXCEPT ![i].status = "rejected"]
               freed == [load EXCEPT ![attempts[i].node] = @ - 1]
    <3>2. atts \in Seq(Attempt) /\ Len(atts) = Len(attempts)
      BY <3>1, VerdictKeepsTypes DEF Statuses
    <3>3. freed \in [Nodes -> Int] /\ inflight[t] \ {i} \in SUBSET Indices
      BY <3>1, LoadOfPopped DEF TypeOK
    <3>4. \/ TryLaunch(t, "retry", FALSE, atts, inflight[t] \ {i}, freed)
          \/ NoLaunch(t, atts, inflight[t] \ {i}, freed)
      BY <2>9 DEF Reject, RetryIfShort
    <3>5. LaunchTyped
      BY <3>2, <3>3, <3>4, NoLaunchKeepsTypes, TryLaunchKeepsTypes DEF Reasons
    <3> QED
      BY <2>9, <3>5, PoppingKeepsTypes DEF Reject
  <2>10. ASSUME NEW t \in Tasks, NEW i \in batch, DropFailed(t, i) PROVE TypeOK'
    <3>1. i \in Indices
      BY DEF TypeOK
    <3> DEFINE freed == [load EXCEPT ![attempts[i].node] = @ - 1]
    <3>2. attempts \in Seq(Attempt)
      BY DEF TypeOK
    <3>3. freed \in [Nodes -> Int] /\ inflight[t] \ {i} \in SUBSET Indices
      BY <3>1, LoadOfPopped DEF TypeOK
    <3>4. \/ TryLaunch(t, "retry", HasLocal, attempts, inflight[t] \ {i}, freed)
          \/ NoLaunch(t, attempts, inflight[t] \ {i}, freed)
      BY <2>10 DEF DropFailed, RetryIfShort
    <3>5. LaunchTyped
      BY <3>2, <3>3, <3>4, NoLaunchKeepsTypes, TryLaunchKeepsTypes, SchedulerAssumption
         DEF Reasons
    <3> QED
      BY <2>10, <3>5, PoppingKeepsTypes DEF DropFailed
  <2>11. ASSUME NEW t \in Tasks, Returning(t), linked' = linked, request' = request,
                results' = results,
                replicas' \in [Tasks -> SUBSET (Indices \cup {LocalReplica})],
                phase' \in [Tasks -> Phases],
                \/ \E where \in Phases : GoOn(t, where)
                \/ \E S \in SUBSET (Nodes \X Families) : Enter(t, 1, Len(attempts) + 1, Len(attempts), S)
         PROVE  TypeOK'
    <3>1. /\ attempts' \in Seq(Attempt) /\ Len(attempts') = Len(attempts)
          /\ load' \in [Nodes -> Int]
          /\ inflight' \in [Tasks -> SUBSET Indices]
      BY <2>11, CloseRoundKeepsTypes DEF Returning
    <3>2. DOMAIN attempts' = Indices
      BY <3>1, RewritingKeepsTypes
    <3>3. CASE \E where \in Phases : GoOn(t, where)
      BY <2>11, <3>1, <3>2, <3>3 DEF GoOn, TypeOK, Indices
    <3>4. CASE \E S \in SUBSET (Nodes \X Families) : Enter(t, 1, Len(attempts) + 1, Len(attempts), S)
      <4>1. Len(attempts) \in Nat
        BY DEF TypeOK
      <4> QED
        BY <2>11, <3>1, <3>2, <3>4, <4>1 DEF Enter, TypeOK, Indices
    <3> QED
      BY <2>11, <3>3, <3>4
  <2>12. ASSUME NEW t \in Tasks, ReturnFirst(t) PROVE TypeOK'
    <3>1. \E where \in Phases : GoOn(t, where) /\ phase' \in [Tasks -> Phases]
      <4> DEFINE next == CASE accepted[t] # {} -> "resolving"
                           [] Degraded(t)      -> "redo"
                           [] OTHER            -> "rescue"
      <4>1. next \in {"resolving", "redo", "rescue"}
        OBVIOUS
      <4>2. GoOn(t, next)
        BY <2>12 DEF ReturnFirst
      <4> HIDE DEF next
      <4>3. next \in Phases
        BY <4>1 DEF Phases
      <4> QED
        BY <4>2, <4>3 DEF GoOn, TypeOK
    <3>2. replicas' \in [Tasks -> SUBSET (Indices \cup {LocalReplica})]
      BY <2>12 DEF ReturnFirst, TypeOK
    <3> QED
      BY <2>11, <2>12, <3>1, <3>2 DEF ReturnFirst
  <2>13. ASSUME NEW t \in Tasks, ReturnSplit(t) PROVE TypeOK'
    <3>1. {ReportedPair(i) : i \in accepted[t]} \in SUBSET (Nodes \X Families)
      <4>1. \A i \in accepted[t] : attempts[i] \in Attempt
        BY DEF TypeOK, Indices
      <4> QED
        BY <4>1 DEF ReportedPair, Attempt
    <3> QED
      BY <2>11, <2>13, <3>1 DEF ReturnSplit, TypeOK, Phases
  <2>14. ASSUME NEW t \in Tasks, ReturnTie(t) PROVE TypeOK'
    <3>1. phase' \in [Tasks -> Phases]
      BY <2>14 DEF ReturnTie, GoOn, TypeOK, Phases
    <3>2. replicas' \in [Tasks -> SUBSET (Indices \cup {LocalReplica})]
      BY <2>14 DEF ReturnTie, TypeOK
    <3> QED
      BY <2>11, <2>14, <3>1, <3>2 DEF ReturnTie, Phases
  <2>15. ASSUME NEW t \in Tasks, Rescue(t) \/ Redo(t) \/ Resolve(t) PROVE TypeOK'
    BY <2>15 DEF Rescue, Redo, Resolve, ExecutorStep, TypeOK, Phases, segment, locals, Indices
  <2>16. ASSUME NEW i \in DOMAIN attempts, Dispatch(i) \/ Reply(i) PROVE TypeOK'
    <3>1. attempts[i] \in Attempt
      BY DEF TypeOK
    <3>2. \E a \in Attempt : attempts' = [attempts EXCEPT ![i] = a]
      BY <2>16, <3>1 DEF Dispatch, Send, Expire, Unwind, Reply, Attempt, Stages, Statuses, Answers
    <3>3. attempts' \in Seq(Attempt) /\ Len(attempts') = Len(attempts)
      BY <3>2, RewriteOne
    <3>4. DispatchStep /\ linked' \subseteq Nodes
      BY <2>16 DEF Dispatch, Send, Expire, Unwind, Reply, TypeOK
    <3> QED
      BY <3>3, <3>4, DispatchKeepsTypes
  <2>17. ASSUME NEW n \in Nodes, Disconnect(n) PROVE TypeOK'
    <3>1. \A i \in DOMAIN attempts : attempts[i] \in Attempt
      BY DEF TypeOK
    <3>2. \A i \in DOMAIN attempts : attempts'[i] \in Attempt
      BY <2>17, <3>1 DEF Disconnect, Attempt, Stages, Statuses
    <3>3. attempts' \in Seq(Attempt) /\ Len(attempts') = Len(attempts)
      <4>1. attempts' = [j \in DOMAIN attempts |-> attempts'[j]]
        BY <2>17 DEF Disconnect
      <4>2. attempts \in Seq(Attempt)
        BY DEF TypeOK
      <4> HIDE DEF Disconnect
      <4> QED
        BY <3>2, <4>1, <4>2, SameDomainSeq
    <3> QED
      BY <2>17, <3>3, DispatchKeepsTypes DEF Disconnect, TypeOK
  <2>18. ASSUME NEW n \in Nodes, Reconnect(n) PROVE TypeOK'
    BY <2>18, DispatchKeepsTypes DEF Reconnect, TypeOK
  <2>19. CASE UNCHANGED vars
    BY <2>19 DEF vars, TypeOK, segment, locals, Indices
  <2> QED
    BY <2>1, <2>2, <2>3, <2>4, <2>5, <2>6, <2>7, <2>8, <2>9, <2>10, <2>12, <2>13,
       <2>14, <2>15, <2>16, <2>17, <2>18, <2>19
       DEF Next, TaskStep, Segment, Indices
<1> QED
  BY <1>1, <1>2, PTL DEF Spec

-----------------------------------------------------------------------------
(* Attempt ids *)

\* atts is attempts with stages, answers or verdicts rewritten: the same ids.
SameIds(atts) ==
  /\ Len(atts) = Len(attempts)
  /\ \A i \in Indices : /\ atts[i].task = attempts[i].task
                        /\ atts[i].number = attempts[i].number

\* A step that launched one attempt of t, and what it leaves alone.
Launched(t) ==
  /\ Len(attempts') = Len(attempts) + 1
  /\ \A i \in Indices : /\ attempts'[i].task = attempts[i].task
                        /\ attempts'[i].number = attempts[i].number
  /\ attempts'[Len(attempts) + 1].task = t
  /\ attempts'[Len(attempts) + 1].number = number[t]
  /\ number' = [number EXCEPT ![t] = @ + 1]

\* A step that launched nothing and did not start a round either.
NothingLaunched == SameIds(attempts') /\ number' = number

\* launch() gives the new attempt the task's next number, and counts it.
LEMMA LaunchAddsId ==
  ASSUME TypeOK, NEW t \in Tasks, NEW offer, NEW why, NEW atts \in Seq(Attempt),
         SameIds(atts), NEW left, NEW ld, Launch(t, offer, why, atts, left, ld)
  PROVE  Launched(t)
<1> DEFINE a == NewAttempt(t, number[t], offer, why)
<1>1. a.task = t /\ a.number = number[t]
  BY DEF NewAttempt
<1>2. attempts' = Append(atts, a) /\ number' = [number EXCEPT ![t] = @ + 1]
  BY DEF Launch
<1> HIDE DEF a
<1>3. Len(atts) = Len(attempts) /\ Len(attempts) \in Nat /\ Indices = 1..Len(attempts)
  BY DEF SameIds, TypeOK, Indices
<1>4. /\ Len(attempts') = Len(attempts) + 1
      /\ attempts'[Len(attempts) + 1] = a
      /\ \A i \in Indices : attempts'[i] = atts[i]
  BY <1>2, <1>3
<1> QED
  BY <1>1, <1>2, <1>4 DEF Launched, SameIds

\* A launch either happens or leaves the ids alone.
LEMMA TryLaunchAddsId ==
  ASSUME TypeOK, NEW t \in Tasks, NEW why, NEW free, NEW atts \in Seq(Attempt),
         SameIds(atts), NEW left, NEW ld, TryLaunch(t, why, free, atts, left, ld)
  PROVE  Launched(t) \/ NothingLaunched
<1>1. CASE NoLaunch(t, atts, left, ld)
  BY <1>1 DEF NoLaunch, NothingLaunched
<1>2. CASE \E o \in Candidates(t, free, ld) : Launch(t, o, why, atts, left, ld)
  BY <1>2, LaunchAddsId
<1> QED
  BY <1>1, <1>2 DEF TryLaunch

\* A verdict leaves the ids alone.
LEMMA VerdictKeepsIds ==
  ASSUME TypeOK, NEW i \in Indices, NEW s \in Statuses
  PROVE  SameIds([attempts EXCEPT ![i].status = s])
<1>1. \A j \in Indices : attempts[j] \in Attempt
  BY DEF TypeOK, Indices
<1>2. \A j \in Indices :
        /\ [attempts EXCEPT ![i].status = s][j].task = attempts[j].task
        /\ [attempts EXCEPT ![i].status = s][j].number = attempts[j].number
  BY <1>1 DEF Attempt, Indices
<1> QED
  BY <1>2, VerdictKeepsTypes DEF SameIds

\* So does the end of a round.
LEMMA CloseRoundKeepsIds ==
  ASSUME TypeOK, NEW t \in Tasks, CloseRound(t)
  PROVE  SameIds(attempts')
<1>1. \A i \in Indices : attempts[i] \in Attempt
  BY DEF TypeOK, Indices
<1>2. \A i \in Indices : /\ attempts'[i].task = attempts[i].task
                         /\ attempts'[i].number = attempts[i].number
  BY <1>1 DEF CloseRound, Indices, Attempt
<1> QED
  BY <1>2, CloseRoundKeepsTypes DEF SameIds

\* Every step launches one attempt of a task that is in a round, or starts a
\* round of a task, or leaves numbers and ids alone; and only Levels, Stop and
\* the ends of rounds change what TurnInRound and NoEarlyAttempt speak of.
LEMMA StepKinds ==
  ASSUME TypeOK, TurnInRound, Next
  PROVE  \/ \E t \in Tasks : /\ Launched(t) /\ InRound(t) /\ phase' = phase
                             /\ turn' = turn \/ turn' = t
         \/ \E t \in Tasks : Begin(t) \/ ReturnSplit(t)
         \/ /\ NothingLaunched
            /\ \A t \in Tasks : phase'[t] \in {"waiting", "spawned"}
                                  => phase[t] \in {"waiting", "spawned"}
            /\ turn' = NoTask \/ (turn' \in Tasks /\ InRound(turn') /\ phase' = phase)
<1> DEFINE Adds(t) == /\ Launched(t) /\ InRound(t) /\ phase' = phase
                      /\ turn' = turn \/ turn' = t
           Quiet == /\ NothingLaunched
                    /\ \A t \in Tasks : phase'[t] \in {"waiting", "spawned"}
                                          => phase[t] \in {"waiting", "spawned"}
                    /\ \/ turn' = NoTask
                       \/ turn' \in Tasks /\ InRound(turn') /\ phase' = phase
<1>1. SameIds(attempts)
  BY DEF SameIds
<1>2. ASSUME NEW t \in Tasks, turn = t PROVE InRound(t)
  BY <1>2, SchedulerAssumption DEF TurnInRound
<1>3. CASE Levels \/ Stop
  <2>1. turn' = NoTask /\ NothingLaunched
    BY <1>1, <1>3 DEF Levels, Stop, segment, locals, NothingLaunched
  <2>2. \A t \in Tasks : phase'[t] \in {"waiting", "spawned"}
                           => phase[t] \in {"waiting", "spawned"}
    BY <1>3 DEF Levels, Stop, CancelActive, Active
  <2> QED
    BY <2>1, <2>2
<1>4. ASSUME NEW t \in Tasks, LaunchInitial(t) PROVE Adds(t) \/ Quiet
  <2>1. turn = t /\ turn' = turn /\ phase' = phase /\ InRound(t)
    BY <1>2, <1>4 DEF LaunchInitial
  <2>2. attempts \in Seq(Attempt)
    BY DEF TypeOK
  <2>3. Launched(t) \/ NothingLaunched
    BY <1>1, <1>4, <2>2, TryLaunchAddsId DEF LaunchInitial
  <2> QED
    BY <2>1, <2>3
<1>5. ASSUME NEW t \in Tasks, Collect(t) \/ Park(t) PROVE Quiet
  BY <1>1, <1>2, <1>5 DEF Collect, Park, locals, NothingLaunched
<1>6. ASSUME NEW t \in Tasks, Hedge(t) PROVE Adds(t)
  <2>1. attempts \in Seq(Attempt)
    BY DEF TypeOK
  <2>2. Launched(t)
    BY <1>1, <1>6, <2>1, LaunchAddsId DEF Hedge
  <2> QED
    BY <1>6, <2>2 DEF Hedge, segment
<1>7. ASSUME NEW t \in Tasks, NEW i \in batch, Accept(t, i) \/ Reject(t, i) \/ DropFailed(t, i)
      PROVE  Adds(t) \/ Quiet
  <2>1. turn = t /\ turn' = turn /\ phase' = phase /\ InRound(t)
    BY <1>2, <1>7 DEF Accept, Reject, DropFailed, Popping
  <2>2. i \in Indices
    BY DEF TypeOK
  <2> DEFINE freed == [load EXCEPT ![attempts[i].node] = @ - 1]
             left == inflight[t] \ {i}
  <2>3. \E atts \in Seq(Attempt), free \in BOOLEAN :
          /\ SameIds(atts)
          /\ TryLaunch(t, "retry", free, atts, left, freed) \/ NoLaunch(t, atts, left, freed)
    <3>1. CASE Accept(t, i)
      <4>1. NoLaunch(t, [attempts EXCEPT ![i].status = "accepted"], left, freed)
        BY <3>1 DEF Accept
      <4> QED
        BY <2>2, <4>1, VerdictKeepsIds, VerdictKeepsTypes DEF Statuses
    <3>2. CASE Reject(t, i)
      <4> DEFINE atts == [attempts EXCEPT ![i].status = "rejected"]
      <4>1. TryLaunch(t, "retry", FALSE, atts, left, freed) \/ NoLaunch(t, atts, left, freed)
        BY <3>2 DEF Reject, RetryIfShort
      <4> QED
        BY <2>2, <4>1, VerdictKeepsIds, VerdictKeepsTypes DEF Statuses
    <3>3. CASE DropFailed(t, i)
      <4>1. \/ TryLaunch(t, "retry", HasLocal, attempts, left, freed)
            \/ NoLaunch(t, attempts, left, freed)
        BY <3>3 DEF DropFailed, RetryIfShort
      <4>2. attempts \in Seq(Attempt)
        BY DEF TypeOK
      <4> QED
        BY <1>1, <4>1, <4>2, SchedulerAssumption
    <3> QED
      BY <1>7, <3>1, <3>2, <3>3
  <2>4. Launched(t) \/ NothingLaunched
    BY <2>3, TryLaunchAddsId DEF NoLaunch, NothingLaunched
  <2> QED
    BY <2>1, <2>4
<1>8. ASSUME NEW t \in Tasks, ReturnFirst(t) \/ ReturnTie(t) PROVE Quiet
  <2>1. turn' = NoTask /\ number' = number
    BY <1>8 DEF ReturnFirst, ReturnTie, GoOn
  <2>2. CloseRound(t) /\ phase[t] \in {"running", "tie"}
    BY <1>8 DEF ReturnFirst, ReturnTie, Returning
  <2>3. SameIds(attempts')
    BY <2>2, CloseRoundKeepsIds
  <2>4. \A u \in Tasks : phase'[u] \in {"waiting", "spawned"}
                           => phase[u] \in {"waiting", "spawned"}
    BY <1>8 DEF ReturnFirst, ReturnTie, GoOn, TypeOK
  <2> QED
    BY <2>1, <2>3, <2>4 DEF NothingLaunched
<1>9. ASSUME NEW t \in Tasks, Rescue(t) \/ Redo(t) \/ Resolve(t) PROVE Quiet
  <2>1. turn' = NoTask /\ NothingLaunched
    BY <1>1, <1>9 DEF Rescue, Redo, Resolve, ExecutorStep, segment, locals, NothingLaunched
  <2>2. \A u \in Tasks : phase'[u] \in {"waiting", "spawned"}
                           => phase[u] \in {"waiting", "spawned"}
    BY <1>9 DEF Rescue, Redo, Resolve, TypeOK
  <2> QED
    BY <2>1, <2>2
<1>10. ASSUME NEW i \in DOMAIN attempts, Dispatch(i) \/ Reply(i) PROVE Quiet
  <2>1. turn' = NoTask /\ number' = number /\ phase' = phase
    BY <1>10 DEF Dispatch, Send, Expire, Unwind, Reply, DispatchStep, segment, locals
  <2>2. \A j \in Indices : attempts[j] \in Attempt
    BY DEF TypeOK, Indices
  <2>3. \E a \in Attempt : /\ attempts' = [attempts EXCEPT ![i] = a]
                           /\ a.task = attempts[i].task /\ a.number = attempts[i].number
    <3> DEFINE Rewritten(a) == /\ a \in Attempt /\ attempts' = [attempts EXCEPT ![i] = a]
                               /\ a.task = attempts[i].task /\ a.number = attempts[i].number
    <3>1. attempts[i] \in Attempt
      BY <2>2 DEF Indices
    <3>2. CASE Send(i)
      <4> DEFINE a == IF attempts[i].node \in linked
                      THEN [attempts[i] EXCEPT !.stage = "sent"]
                      ELSE [attempts[i] EXCEPT !.stage = "returned", !.status = "failed"]
      <4>1. Rewritten(a)
        BY <3>1, <3>2 DEF Send, Attempt, Stages, Statuses
      <4> QED
        BY <4>1
    <3>3. CASE Expire(i)
      <4> DEFINE a == [attempts[i] EXCEPT !.stage = "returned", !.status = "failed"]
      <4>1. Rewritten(a)
        BY <3>1, <3>3 DEF Expire, Attempt, Stages, Statuses
      <4> QED
        BY <4>1
    <3>4. CASE Unwind(i)
      <4> DEFINE a == [attempts[i] EXCEPT !.stage = "cancelled"]
      <4>1. Rewritten(a)
        BY <3>1, <3>4 DEF Unwind, Attempt, Stages, Statuses
      <4> QED
        BY <4>1
    <3>5. CASE Reply(i)
      <4>1. PICK answer \in Answers, told \in Families \union {attempts[i].told} :
              attempts' = [attempts EXCEPT
                ![i].stage = "returned",
                ![i].answer = answer,
                ![i].told = told,
                ![i].status = IF Verified(answer) THEN @ ELSE "failed"]
        BY <3>5 DEF Reply
      <4> DEFINE a == [attempts[i] EXCEPT !.stage = "returned", !.answer = answer, !.told = told,
                          !.status = IF Verified(answer) THEN @ ELSE "failed"]
      <4>2. Rewritten(a)
        BY <3>1, <4>1 DEF Attempt, Stages, Statuses, Answers
      <4> QED
        BY <4>2
    <3> QED
      BY <1>10, <3>2, <3>3, <3>4, <3>5 DEF Dispatch
  <2>4. Len(attempts') = Len(attempts)
    BY <2>3, RewriteOne
  <2>5. \A j \in Indices : /\ attempts'[j].task = attempts[j].task
                           /\ attempts'[j].number = attempts[j].number
    BY <2>3 DEF Indices
  <2> QED
    BY <2>1, <2>4, <2>5 DEF NothingLaunched, SameIds
<1>11. ASSUME NEW n \in Nodes, Reconnect(n) PROVE Quiet
  BY <1>1, <1>11 DEF Reconnect, DispatchStep, segment, locals, NothingLaunched
<1>12. ASSUME NEW n \in Nodes, Disconnect(n) PROVE Quiet
  <2>1. turn' = NoTask /\ number' = number /\ phase' = phase
    BY <1>12 DEF Disconnect, DispatchStep, segment, locals
  <2>2. attempts \in Seq(Attempt) /\ \A j \in DOMAIN attempts : attempts[j] \in Attempt
    BY DEF TypeOK
  <2>3. attempts' = [j \in DOMAIN attempts |-> attempts'[j]]
    BY <1>12 DEF Disconnect
  <2>4. \A j \in DOMAIN attempts : /\ attempts'[j] \in Attempt
                                   /\ attempts'[j].task = attempts[j].task
                                   /\ attempts'[j].number = attempts[j].number
    BY <1>12, <2>2 DEF Disconnect, Attempt, Stages, Statuses
  <2>5. Len(attempts') = Len(attempts)
    BY <2>2, <2>3, <2>4, SameDomainSeq
  <2> QED
    BY <2>1, <2>4, <2>5 DEF NothingLaunched, SameIds, Indices
<1> QED
  BY <1>3, <1>4, <1>5, <1>6, <1>7, <1>8, <1>9, <1>10, <1>11, <1>12
     DEF Next, TaskStep, Segment

\* The next number of every task is past those it used: what UniqueAttemptIds
\* needs to be preserved by a launch.
THEOREM IdsInductive == Spec => []IdInv
<1>1. Init => IdInv
  BY DEF Init, IdInv, TurnInRound, NoEarlyAttempt, NumbersBehind, UniqueAttemptIds, Indices
<1>2. TypeOK /\ TypeOK' /\ IdInv /\ [Next]_vars => IdInv'
  <2> SUFFICES ASSUME TypeOK, TypeOK', IdInv, [Next]_vars PROVE IdInv'
    OBVIOUS
  <2> USE DEF Indices
  <2>1. /\ Len(attempts) \in Nat /\ DOMAIN attempts = 1..Len(attempts)
        /\ Len(attempts') \in Nat /\ DOMAIN attempts' = 1..Len(attempts')
        /\ \A i \in DOMAIN attempts : attempts[i].task \in Tasks /\ attempts[i].number \in Nat
        /\ number \in [Tasks -> Nat] /\ phase \in [Tasks -> Phases]
    <3>1. \A i \in DOMAIN attempts : attempts[i] \in Attempt
      BY DEF TypeOK
    <3>2. \A i \in DOMAIN attempts : attempts[i].task \in Tasks /\ attempts[i].number \in Nat
      BY <3>1 DEF Attempt
    <3> QED
      BY <3>2 DEF TypeOK
  <2>2. ASSUME NEW t \in Tasks, Launched(t), InRound(t), phase' = phase,
               turn' = turn \/ turn' = t
        PROVE  IdInv'
    <3>1. Len(attempts') = Len(attempts) + 1 /\ number' = [number EXCEPT ![t] = @ + 1]
      BY <2>2 DEF Launched
    <3>2. \A i \in DOMAIN attempts : /\ attempts'[i].task = attempts[i].task
                                     /\ attempts'[i].number = attempts[i].number
      BY <2>2 DEF Launched
    <3>3. /\ attempts'[Len(attempts) + 1].task = t
          /\ attempts'[Len(attempts) + 1].number = number[t]
      BY <2>2 DEF Launched
    <3>4. \A i \in DOMAIN attempts' : i \in DOMAIN attempts \/ i = Len(attempts) + 1
      BY <2>1, <3>1
    <3>5. TurnInRound'
      BY <2>2 DEF IdInv, TurnInRound, InRound
    <3>6. NoEarlyAttempt'
      BY <2>2, <3>2, <3>3, <3>4 DEF IdInv, NoEarlyAttempt, InRound
    <3>7. NumbersBehind'
      <4>1. \A i \in DOMAIN attempts' : attempts'[i].number < number'[attempts'[i].task]
        BY <2>1, <3>1, <3>2, <3>3, <3>4 DEF IdInv, NumbersBehind
      <4>2. \A u \in Tasks : number'[u] <= Len(attempts')
        BY <2>1, <3>1 DEF IdInv, NumbersBehind
      <4> QED
        BY <4>1, <4>2 DEF NumbersBehind
    <3>8. UniqueAttemptIds'
      <4> SUFFICES ASSUME NEW i \in DOMAIN attempts', NEW j \in DOMAIN attempts',
                          attempts'[i].task = attempts'[j].task,
                          attempts'[i].number = attempts'[j].number
                   PROVE  i = j
        BY DEF UniqueAttemptIds
      <4>1. CASE i \in DOMAIN attempts /\ j \in DOMAIN attempts
        BY <3>2, <4>1 DEF IdInv, UniqueAttemptIds
      <4>2. \A k \in DOMAIN attempts : attempts[k].task = t => attempts[k].number # number[t]
        BY <2>1 DEF IdInv, NumbersBehind
      <4> QED
        BY <3>2, <3>3, <3>4, <4>1, <4>2
    <3> QED
      BY <3>5, <3>6, <3>7, <3>8 DEF IdInv
  <2>3. ASSUME NEW t \in Tasks, Begin(t) PROVE IdInv'
    <3>1. /\ attempts' = attempts /\ turn' = t /\ phase[t] = "spawned"
          /\ phase' = [phase EXCEPT ![t] = "running"]
          /\ number' = [number EXCEPT ![t] = 0]
      BY <2>3 DEF Begin, Enter
    <3>2. \A i \in DOMAIN attempts : attempts[i].task # t
      BY <3>1 DEF IdInv, NoEarlyAttempt
    <3>3. TurnInRound' /\ NoEarlyAttempt'
      BY <2>1, <3>1 DEF IdInv, TurnInRound, NoEarlyAttempt, InRound
    <3>4. NumbersBehind'
      BY <2>1, <3>1, <3>2 DEF IdInv, NumbersBehind
    <3> QED
      BY <3>1, <3>3, <3>4 DEF IdInv, UniqueAttemptIds
  <2>4. ASSUME NEW t \in Tasks, ReturnSplit(t) PROVE IdInv'
    <3>1. /\ turn' = t /\ phase' = [phase EXCEPT ![t] = "tie"]
          /\ number' = [number EXCEPT ![t] = Len(attempts)] /\ CloseRound(t)
          /\ phase[t] = "running"
      BY <2>4 DEF ReturnSplit, Returning, Enter
    <3>2. Len(attempts') = Len(attempts)
      BY <3>1, CloseRoundKeepsIds DEF SameIds
    <3>3. \A i \in DOMAIN attempts : /\ attempts'[i].task = attempts[i].task
                                     /\ attempts'[i].number = attempts[i].number
      BY <3>1, CloseRoundKeepsIds DEF SameIds
    <3>4. TurnInRound' /\ NoEarlyAttempt'
      BY <2>1, <3>1, <3>2, <3>3 DEF IdInv, TurnInRound, NoEarlyAttempt, InRound
    <3>5. NumbersBehind'
      <4>1. \A i \in DOMAIN attempts' : attempts'[i].number < number'[attempts'[i].task]
        <5> SUFFICES ASSUME NEW i \in DOMAIN attempts
                     PROVE  attempts[i].number < number'[attempts[i].task]
          BY <2>1, <3>2, <3>3
        <5>1. /\ attempts[i].task \in Tasks /\ attempts[i].number \in Nat
              /\ attempts[i].number < number[attempts[i].task]
              /\ number[attempts[i].task] <= Len(attempts)
              /\ number[attempts[i].task] \in Nat
          BY <2>1 DEF IdInv, NumbersBehind
        <5> QED
          BY <2>1, <3>1, <5>1
      <4>2. \A u \in Tasks : number'[u] <= Len(attempts')
        BY <2>1, <3>1, <3>2 DEF IdInv, NumbersBehind
      <4> QED
        BY <4>1, <4>2 DEF NumbersBehind
    <3>6. UniqueAttemptIds'
      BY <2>1, <3>2, <3>3 DEF IdInv, UniqueAttemptIds
    <3> QED
      BY <3>4, <3>5, <3>6 DEF IdInv
  <2>5. ASSUME NothingLaunched,
               \A t \in Tasks : phase'[t] \in {"waiting", "spawned"}
                                  => phase[t] \in {"waiting", "spawned"},
               turn' = NoTask \/ (turn' \in Tasks /\ InRound(turn') /\ phase' = phase)
        PROVE  IdInv'
    <3>1. Len(attempts') = Len(attempts) /\ number' = number
      BY <2>5 DEF NothingLaunched, SameIds
    <3>2. \A i \in DOMAIN attempts : /\ attempts'[i].task = attempts[i].task
                                     /\ attempts'[i].number = attempts[i].number
      BY <2>5 DEF NothingLaunched, SameIds
    <3>3. TurnInRound'
      BY <2>5 DEF TurnInRound, InRound
    <3>4. NoEarlyAttempt'
      BY <2>1, <2>5, <3>1, <3>2 DEF IdInv, NoEarlyAttempt
    <3>5. NumbersBehind'
      BY <2>1, <3>1, <3>2 DEF IdInv, NumbersBehind
    <3>6. UniqueAttemptIds'
      BY <2>1, <3>1, <3>2 DEF IdInv, UniqueAttemptIds
    <3> QED
      BY <3>3, <3>4, <3>5, <3>6 DEF IdInv
  <2>6. CASE UNCHANGED vars
    BY <2>6 DEF vars, segment, locals, IdInv, TurnInRound, NoEarlyAttempt,
                NumbersBehind, UniqueAttemptIds, InRound
  <2>7. CASE Next
    BY <2>2, <2>3, <2>4, <2>5, <2>7, StepKinds DEF IdInv
  <2> QED
    BY <2>6, <2>7
<1> QED
  BY <1>1, <1>2, TypeCorrect, PTL DEF Spec

\* Every attempt of a request has an id of its own, however hedges, retries and
\* tie-breaks of its tasks interleave.
THEOREM AttemptIdsUnique == Spec => []UniqueAttemptIds
<1>1. IdInv => UniqueAttemptIds
  BY DEF IdInv
<1> QED
  BY <1>1, IdsInductive, PTL

-----------------------------------------------------------------------------
(* The inductive invariant *)

\* run_levels collects what is done.
ResultsDone == results \subseteq {t \in Tasks : phase[t] = "done"}

\* A run_one exists only for a task whose predecessors have been collected.
StartedAfter == \A t \in Tasks : phase[t] # "waiting" => Deps[t] \subseteq results

\* When the caller has its outcome no run_one is left.
OverIsOver == request # "running" => \A t \in Tasks : phase[t] \notin Active

PlanInv == ResultsDone /\ StartedAfter /\ OverIsOver

\* What a step of one run_one may do: go on, or end.
Advances(t, w) ==
  /\ phase[t] \in Active /\ w \in Active \cup {"done", "failed"}
  /\ phase' = [phase EXCEPT ![t] = w]
  /\ request' = request /\ results' = results

\* Every step is one of run_levels, of the user, of one run_one, or invisible.
LEMMA PlanSteps ==
  ASSUME TypeOK, [Next]_vars
  PROVE  \/ Levels \/ Stop
         \/ \E t \in Tasks, w \in Phases : Advances(t, w)
         \/ phase' = phase /\ request' = request /\ results' = results
<1> USE DEF Phases, Active, Advances
<1>1. ASSUME NEW t \in Tasks, Begin(t)
      PROVE  Advances(t, "running")
  BY <1>1 DEF Begin
<1>2. ASSUME NEW t \in Tasks, ReturnFirst(t)
      PROVE  \E w \in Phases : Advances(t, w)
  <2> DEFINE w == CASE accepted[t] # {} -> "resolving"
                    [] Degraded(t)      -> "redo"
                    [] OTHER            -> "rescue"
  <2>1. w \in {"resolving", "redo", "rescue"}
    OBVIOUS
  <2>2. phase' = [phase EXCEPT ![t] = w] /\ phase[t] = "running" /\ request' = request /\ results' = results
    BY <1>2 DEF ReturnFirst, GoOn
  <2> HIDE DEF w
  <2> QED
    BY <2>1, <2>2
<1>3. ASSUME NEW t \in Tasks, ReturnSplit(t)
      PROVE  Advances(t, "tie")
  BY <1>3 DEF ReturnSplit
<1>4. ASSUME NEW t \in Tasks, ReturnTie(t)
      PROVE  Advances(t, "resolving")
  BY <1>4 DEF ReturnTie, GoOn
<1>5. ASSUME NEW t \in Tasks, Rescue(t) \/ Redo(t) \/ Resolve(t)
      PROVE  \E w \in Phases : Advances(t, w)
  BY <1>5 DEF Rescue, Redo, Resolve, ExecutorStep
<1>6. ASSUME NEW t \in Tasks, LaunchInitial(t) \/ Park(t) \/ Collect(t) \/ Hedge(t)
      PROVE  phase' = phase /\ request' = request /\ results' = results
  BY <1>6 DEF LaunchInitial, Park, Collect, Hedge
<1>7. ASSUME NEW t \in Tasks, NEW i \in batch, Accept(t, i) \/ Reject(t, i) \/ DropFailed(t, i)
      PROVE  phase' = phase /\ request' = request /\ results' = results
  BY <1>7 DEF Accept, Reject, DropFailed, Popping
<1>8. ASSUME NEW i \in DOMAIN attempts, Dispatch(i) \/ Reply(i)
      PROVE  phase' = phase /\ request' = request /\ results' = results
  BY <1>8 DEF Dispatch, Send, Expire, Unwind, Reply, DispatchStep
<1>9. ASSUME NEW n \in Nodes, Disconnect(n) \/ Reconnect(n)
      PROVE  phase' = phase /\ request' = request /\ results' = results
  BY <1>9 DEF Disconnect, Reconnect, DispatchStep
<1>10. CASE UNCHANGED vars
  BY <1>10 DEF vars
<1> QED
  BY <1>1, <1>2, <1>3, <1>4, <1>5, <1>6, <1>7, <1>8, <1>9, <1>10
     DEF Next, TaskStep, Segment

\* When none of the finished tasks failed, what run_levels has collected is
\* exactly what is done.
LEMMA CollectedIsDone ==
  ASSUME TypeOK, ResultsDone, \A t \in Finished : phase[t] # "failed"
  PROVE  results \cup Finished = {t \in Tasks : phase[t] = "done"}
BY DEF TypeOK, ResultsDone, Finished

\* run_levels either gives up, or collects and starts what has become ready.
LEMMA LevelsKeeps ==
  ASSUME TypeOK, PlanInv, Levels
  PROVE  PlanInv'
<1>1. CASE \E t \in Finished : phase[t] = "failed"
  BY <1>1 DEF Levels, CancelActive, PlanInv, ResultsDone, StartedAfter, OverIsOver, Active, TypeOK
<1>2. CASE \A t \in Finished : phase[t] # "failed"
  <2> DEFINE done  == results \cup Finished
             ready == {t \in Tasks : phase[t] = "waiting" /\ Deps[t] \subseteq done}
             idle  == ready = {} /\ \A t \in Tasks : phase[t] \notin Active
  <2>1. done = {t \in Tasks : phase[t] = "done"} /\ results \subseteq done
    BY <1>2, CollectedIsDone DEF PlanInv
  <2>2. /\ results' = done
        /\ phase' = [t \in Tasks |-> IF t \in ready THEN "spawned" ELSE phase[t]]
        /\ request' = CASE ~idle -> "running" [] idle /\ done = Tasks -> "done" [] OTHER -> "failed"
    BY <1>2 DEF Levels
  <2>3. request' # "running" => idle
    BY <2>2
  <2>4. ResultsDone'
    BY <2>1, <2>2 DEF ResultsDone
  <2>5. StartedAfter'
    BY <2>1, <2>2 DEF PlanInv, StartedAfter
  <2>6. OverIsOver'
    BY <2>2, <2>3 DEF OverIsOver
  <2> QED
    BY <2>4, <2>5, <2>6 DEF PlanInv
<1> QED
  BY <1>1, <1>2

\* What the caller is told, what is collected and where each run_one stands
\* agree: the invariant behind the refinement.
THEOREM PlanInductive == Spec => []PlanInv
<1>1. Init => PlanInv
  BY DEF Init, PlanInv, ResultsDone, StartedAfter, OverIsOver
<1>2. TypeOK /\ PlanInv /\ [Next]_vars => PlanInv'
  <2> SUFFICES ASSUME TypeOK, PlanInv, [Next]_vars
               PROVE  PlanInv'
    OBVIOUS
  <2>1. CASE Levels
    BY <2>1, LevelsKeeps
  <2>2. CASE Stop
    BY <2>2 DEF Stop, CancelActive, PlanInv, ResultsDone, StartedAfter, OverIsOver, Active, TypeOK
  <2>3. ASSUME NEW t \in Tasks, NEW w \in Phases, Advances(t, w)
        PROVE  PlanInv'
    BY <2>3 DEF Advances, PlanInv, ResultsDone, StartedAfter, OverIsOver, Active, TypeOK
  <2>4. CASE phase' = phase /\ request' = request /\ results' = results
    BY <2>4 DEF PlanInv, ResultsDone, StartedAfter, OverIsOver
  <2> QED
    BY <2>1, <2>2, <2>3, <2>4, PlanSteps
<1> QED
  BY <1>1, <1>2, TypeCorrect, PTL DEF Spec

\* A packet is made only when every task whose outcome it carries has been
\* resolved and collected, for every plan, whatever fails or is stopped.
THEOREM DependenciesAlwaysFirst == Spec => []DependenciesFirst
<1>1. TypeOK /\ IdInv /\ PlanInv => DependenciesFirst
  <2> SUFFICES ASSUME TypeOK, IdInv, PlanInv,
                      NEW i \in Indices, NEW d \in Deps[attempts[i].task]
               PROVE  phase[d] = "done" /\ d \in results
    BY DEF DependenciesFirst
  <2>1. attempts[i].task \in Tasks /\ phase[attempts[i].task] # "waiting"
    <3>1. attempts[i] \in Attempt
      BY DEF TypeOK, Indices
    <3> QED
      BY <3>1 DEF Attempt, IdInv, NoEarlyAttempt
  <2>2. d \in results
    BY <2>1 DEF PlanInv, StartedAfter
  <2> QED
    BY <2>2 DEF PlanInv, ResultsDone
<1> QED
  BY <1>1, TypeCorrect, IdsInductive, PlanInductive, PTL

-----------------------------------------------------------------------------
(* Refinement *)

\* The state of a task in PlanRun.
LEMMA PlanStateOf ==
  ASSUME NEW t \in Tasks, phase[t] \in Phases
  PROVE  /\ PlanState[t] = "pending" <=> phase[t] = "waiting"
         /\ PlanState[t] = "running" <=> phase[t] \in Active
         /\ PlanState[t] = "done" <=> phase[t] = "done"
         /\ PlanState[t] = "failed" <=> phase[t] = "failed"
         /\ PlanState[t] \in {"pending", "running", "done", "failed", "abandoned"}
BY DEF PlanState, Phases, Active

\* What only moves on within its phases is not seen.
LEMMA SamePlanState ==
  ASSUME TypeOK, phase' = phase
  PROVE  PlanState' = PlanState
BY DEF PlanState

\* Giving up ends what runs, and only that.
LEMMA CancelAbandons ==
  ASSUME TypeOK, phase' = CancelActive
  PROVE  PlanState' = [t \in Tasks |-> IF PlanState[t] = "running" THEN "abandoned"
                                                                  ELSE PlanState[t]]
<1>1. ASSUME NEW t \in Tasks
      PROVE  PlanState'[t] = IF PlanState[t] = "running" THEN "abandoned" ELSE PlanState[t]
  <2>1. phase[t] \in Phases
    BY DEF TypeOK
  <2>2. phase'[t] = IF phase[t] \in Active THEN "cancelled" ELSE phase[t]
    BY DEF CancelActive
  <2> QED
    BY <2>1, <2>2 DEF PlanState, Phases, Active
<1>2. PlanState' = [t \in Tasks |-> PlanState'[t]]
  BY DEF PlanState
<1> QED
  BY <1>1, <1>2

\* A step of one run_one is a stutter, or ends its task.
LEMMA AdvanceMaps ==
  ASSUME TypeOK, PlanInv, NEW t \in Tasks, NEW w \in Phases, Advances(t, w)
  PROVE  [Plan!Next]_(Plan!vars)
<1>1. request = "running" /\ request' = request
  BY DEF Advances, PlanInv, OverIsOver
<1>2. ASSUME NEW u \in Tasks
      PROVE  /\ phase[u] \in Phases
             /\ phase'[u] = IF u = t THEN w ELSE phase[u]
  BY DEF Advances, TypeOK
<1>3. PlanState' = [u \in Tasks |-> PlanState'[u]] /\ PlanState = [u \in Tasks |-> PlanState[u]]
  BY DEF PlanState
<1>4. CASE w \in Active
  <2>1. ASSUME NEW u \in Tasks
        PROVE  PlanState'[u] = PlanState[u]
    BY <1>2, <1>4 DEF PlanState, Advances, Phases, Active
  <2> QED
    BY <1>1, <1>3, <2>1 DEF Plan!vars
<1>5. CASE w \in {"done", "failed"}
  <2>1. PlanState[t] = "running"
    BY <1>2, PlanStateOf DEF Advances
  <2>2. ASSUME NEW u \in Tasks
        PROVE  PlanState'[u] = IF u = t THEN w ELSE PlanState[u]
    BY <1>2, <1>5 DEF PlanState, Phases, Active
  <2>3. PlanState' = [PlanState EXCEPT ![t] = w]
    BY <1>3, <2>2
  <2>4. Plan!Finish(t, w)
    BY <1>1, <2>1, <2>3 DEF Plan!Finish
  <2> QED
    BY <1>1, <1>5, <2>4 DEF Plan!Next
<1> QED
  BY <1>4, <1>5 DEF Advances

\* run_levels starts what is ready, succeeds, fails, or only collects.
LEMMA LevelsMaps ==
  ASSUME TypeOK, PlanInv, Levels
  PROVE  [Plan!Next]_(Plan!vars)
<1>1. request = "running"
  BY DEF Levels
<1>2. \A t \in Tasks : phase[t] \in Phases
  BY DEF TypeOK
<1>3. CASE \E t \in Finished : phase[t] = "failed"
  <2>1. request' = "failed" /\ phase' = CancelActive
    BY <1>3 DEF Levels
  <2>2. Plan!In("failed") # {}
    BY <1>2, <1>3, PlanStateOf DEF Finished, Plan!In
  <2>3. Plan!Fail
    BY <2>1, <2>2, CancelAbandons DEF Plan!Fail, Plan!Abandon
  <2> QED
    BY <1>1, <2>3 DEF Plan!Next
<1>4. CASE \A t \in Finished : phase[t] # "failed"
  <2> DEFINE done  == results \cup Finished
             ready == {t \in Tasks : phase[t] = "waiting" /\ Deps[t] \subseteq done}
             idle  == ready = {} /\ \A t \in Tasks : phase[t] \notin Active
  <2>1. done = {t \in Tasks : phase[t] = "done"}
    BY <1>4, CollectedIsDone DEF PlanInv
  <2>2. /\ phase' = [t \in Tasks |-> IF t \in ready THEN "spawned" ELSE phase[t]]
        /\ request' = CASE ~idle -> "running" [] idle /\ done = Tasks -> "done" [] OTHER -> "failed"
    BY <1>4 DEF Levels
  <2>3. done = Plan!In("done")
    BY <1>2, <2>1, PlanStateOf DEF Plan!In
  <2>4. \A t \in Tasks : t \in ready <=> Plan!Ready(t)
    BY <1>2, <2>3, PlanStateOf DEF Plan!Ready
  <2>5. ready = {} => PlanState' = PlanState
    <3>1. ready = {} => phase' = phase
      BY <2>2 DEF TypeOK
    <3> QED
      BY <3>1, SamePlanState
  <2>6. CASE ready # {}
    <3>1. ASSUME NEW t \in Tasks
          PROVE  PlanState'[t] = IF t \in ready THEN "running" ELSE PlanState[t]
      BY <2>2 DEF PlanState, Active
    <3>2. PlanState' = [t \in Tasks |-> IF t \in ready THEN "running" ELSE PlanState[t]]
      <4>1. PlanState' = [t \in Tasks |-> PlanState'[t]]
        BY DEF PlanState
      <4> QED
        BY <3>1, <4>1
    <3>3. request' = request
      BY <1>1, <2>2, <2>6
    <3>4. ready \in SUBSET Tasks /\ \A t \in ready : Plan!Ready(t)
      BY <2>4
    <3> HIDE DEF ready
    <3>5. Plan!Start(ready)
      BY <2>6, <3>2, <3>3, <3>4 DEF Plan!Start
    <3> QED
      BY <1>1, <3>4, <3>5 DEF Plan!Next
  <2>7. CASE ready = {} /\ ~idle
    BY <1>1, <2>2, <2>5, <2>7 DEF Plan!vars
  <2>8. CASE idle /\ done = Tasks
    <3>1. request' = "done"
      BY <2>2, <2>8
    <3>2. Plan!Succeed
      BY <2>3, <2>5, <2>8, <3>1 DEF Plan!Succeed
    <3> QED
      BY <1>1, <3>2 DEF Plan!Next
  <2>9. CASE idle /\ done # Tasks
    <3>1. request' = "failed"
      BY <2>2, <2>9
    <3>2. \A t \in Tasks : PlanState[t] # "running" /\ ~Plan!Ready(t)
      BY <1>2, <2>4, <2>9, PlanStateOf
    <3>3. PlanState' = [t \in Tasks |-> IF PlanState[t] = "running" THEN "abandoned"
                                                                    ELSE PlanState[t]]
      <4>1. PlanState = [t \in Tasks |-> PlanState[t]]
        BY DEF PlanState
      <4> QED
        BY <2>5, <2>9, <3>2, <4>1
    <3>4. Plan!Fail
      BY <3>1, <3>2, <3>3 DEF Plan!Fail, Plan!Abandon, Plan!In
    <3> QED
      BY <1>1, <3>4 DEF Plan!Next
  <2> QED
    BY <2>6, <2>7, <2>8, <2>9
<1> QED
  BY <1>3, <1>4

\* Whatever hedging, retrying, tie-breaking, rescuing and stopping go on inside
\* a task, for every plan the caller sees a run of PlanRun: tasks start on
\* finished predecessors, finish once, and nothing happens after the outcome.
THEOREM SchedulerImplementsPlan == Spec => ImplementsPlan
<1>1. Init => Plan!Init
  <2> SUFFICES ASSUME Init
               PROVE  Plan!Init
    OBVIOUS
  <2>1. \A t \in Tasks : phase[t] = "waiting"
    BY DEF Init
  <2>2. PlanState = [t \in Tasks |-> "pending"]
    <3>1. \A t \in Tasks : PlanState[t] = "pending"
      BY <2>1, PlanStateOf DEF Phases
    <3>2. PlanState = [t \in Tasks |-> PlanState[t]]
      BY DEF PlanState
    <3> QED
      BY <3>1, <3>2
  <2> QED
    BY <2>2 DEF Init, Plan!Init
<1>2. TypeOK /\ PlanInv /\ [Next]_vars => [Plan!Next]_(Plan!vars)
  <2> SUFFICES ASSUME TypeOK, PlanInv, [Next]_vars
               PROVE  [Plan!Next]_(Plan!vars)
    OBVIOUS
  <2>1. CASE Levels
    BY <2>1, LevelsMaps
  <2>2. CASE Stop
    <3>1. request = "running" /\ Plan!Abandon("stopped")
      BY <2>2, CancelAbandons DEF Stop, Plan!Abandon
    <3> QED
      BY <3>1 DEF Plan!Next
  <2>3. ASSUME NEW t \in Tasks, NEW w \in Phases, Advances(t, w)
        PROVE  [Plan!Next]_(Plan!vars)
    BY <2>3, AdvanceMaps
  <2>4. CASE phase' = phase /\ request' = request /\ results' = results
    BY <2>4, SamePlanState DEF Plan!vars
  <2> QED
    BY <2>1, <2>2, <2>3, <2>4, PlanSteps
<1> QED
  BY <1>1, <1>2, TypeCorrect, PlanInductive, PTL DEF Spec, ImplementsPlan, Plan!Spec

=============================================================================
