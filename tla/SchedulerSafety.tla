--------------------------- MODULE SchedulerSafety ---------------------------
(* Machine-checked: the ceiling on attempts, distinct pairs, final verdicts, *)
(* exact load and sound replicas, for every plan, set of workers and bound.  *)
EXTENDS SchedulerProofs

-----------------------------------------------------------------------------
(* What run_task's locals say about the attempts *)

\* The locals of a task hold attempts of that task.
Owned ==
  \A t \in Tasks : \A i \in inflight[t] \cup accepted[t] \cup rejected[t] : attempts[i].task = t

\* What waits for a slot or an answer is in flight, without a verdict so far.
OutIsInflight ==
  \A i \in Indices : attempts[i].stage \in {"queued", "sent"} =>
    /\ i \in inflight[attempts[i].task]
    /\ attempts[i].status = "dispatched" /\ attempts[i].answer = "none"

\* What is in flight is still out or has come back, with a replica or without.
InflightStates ==
  \A t \in Tasks : \A i \in inflight[t] :
    /\ attempts[i].stage \in {"queued", "sent", "returned"}
    /\ attempts[i].stage = "returned" =>
         \/ attempts[i].status = "dispatched" /\ attempts[i].answer \in {"good", "bad"}
         \/ attempts[i].status = "failed" /\ attempts[i].answer \notin {"good", "bad"}

\* accepted and rejected agree with the verdicts.
Judged ==
  \A t \in Tasks :
    /\ \A i \in accepted[t] : attempts[i].status = "accepted" /\ attempts[i].answer = "good"
    /\ InRound(t) => \A i \in rejected[t] : attempts[i].status = "rejected" /\ attempts[i].answer = "bad"

\* Only a round, or a stop in the middle of one, leaves attempts in flight.
NothingLeft ==
  \A t \in Tasks : phase[t] \notin {"running", "tie", "cancelled"} => inflight[t] = {}

\* While a coroutine works through its done set, that set is what has come back.
BatchReturned ==
  turn # NoTask => /\ batch \subseteq inflight[turn]
                   /\ \A i \in inflight[turn] : i \in batch <=> attempts[i].stage = "returned"

\* A round wants something.
Needed == \A t \in Tasks : InRound(t) => need[t] >= 1

RoundInv ==
  Owned /\ OutIsInflight /\ InflightStates /\ Judged /\ NothingLeft /\ BatchReturned /\ Needed

-----------------------------------------------------------------------------
(* The ceiling *)

FirstRound == {"initial", "hedge", "retry"}
First(t) == AttemptsOf(t, FirstRound)
Tie(t) == AttemptsOf(t, {"tie_break"})

\* The first round counts its attempts, the second makes one at most, and as
\* long as it has made none there is nothing in flight that could be retried.
CeilingInv ==
  \A t \in Tasks :
    /\ phase[t] = "running" =>
         number[t] <= KMax /\ ceiling[t] = KMax /\ Cardinality(First(t)) = number[t]
    /\ phase[t] \in {"waiting", "spawned", "running"} => Tie(t) = {}
    /\ phase[t] = "tie" =>
         \/ /\ Tie(t) = {} /\ turn = t /\ batch = {} /\ inflight[t] = {}
            /\ ceiling[t] <= number[t] + 1
         \/ Cardinality(Tie(t)) = 1 /\ number[t] >= ceiling[t]

-----------------------------------------------------------------------------
(* Distinct pairs *)

\* The first round remembers every pair it asked; the second avoids those that
\* the replicas report whose tie it is to break.
PairInv ==
  \A t \in Tasks :
    /\ \A i \in replicas[t] \ {LocalReplica} : attempts[i].stage \notin {"queued", "sent"}
    /\ phase[t] = "running" => \A i \in First(t) : Pair(i) \in used[t]
    /\ phase[t] = "tie" =>
         /\ \A i \in replicas[t] : i \in First(t) /\ ReportedPair(i) \in used[t]
         /\ \A i \in inflight[t] \cup accepted[t] \cup rejected[t] : attempts[i].reason = "tie_break"
         /\ \A i \in Tie(t), j \in replicas[t] : Pair(i) # ReportedPair(j)

-----------------------------------------------------------------------------
(* Sound replicas *)

NoGood(t) == \A i \in Indices : attempts[i].task = t => attempts[i].answer # "good"

\* A good answer is accepted or about to be; what a task hands on is sound.
SoundInv ==
  \A t \in Tasks :
    /\ phase[t] = "running" => \A i \in Indices :
         attempts[i].task = t /\ attempts[i].answer = "good" => i \in inflight[t] \cup accepted[t]
    /\ phase[t] = "tie" =>
         /\ replicas[t] # {} /\ LocalReplica \notin replicas[t]
         /\ \A i \in replicas[t] : attempts[i].answer = "good"
    /\ phase[t] = "redo" =>
         /\ replicas[t] # {} /\ LocalReplica \notin replicas[t]
         /\ \A i \in replicas[t] : attempts[i].answer = "bad"
         /\ NoGood(t)

-----------------------------------------------------------------------------
(* Kinds of steps *)

\* The types, as the lemmas below use them.
LEMMA Typed ==
  ASSUME TypeOK
  PROVE  /\ Len(attempts) \in Nat /\ Indices = 1..Len(attempts) /\ LocalReplica \notin Indices
         /\ \A i \in Indices :
              /\ attempts[i] \in Attempt
              /\ attempts[i].task \in Tasks /\ attempts[i].number \in Nat
              /\ attempts[i].node \in Nodes /\ attempts[i].reason \in Reasons
         /\ \A t \in Tasks : /\ inflight[t] \subseteq Indices /\ accepted[t] \subseteq Indices
                             /\ rejected[t] \subseteq Indices
                             /\ number[t] \in Nat /\ ceiling[t] \in Nat /\ phase[t] \in Phases
<1>1. Len(attempts) \in Nat /\ Indices = 1..Len(attempts)
  BY DEF TypeOK, Indices
<1>2. \A i \in Indices : attempts[i] \in Attempt
  BY DEF TypeOK, Indices
<1>3. \A i \in Indices : /\ attempts[i].task \in Tasks /\ attempts[i].number \in Nat
                         /\ attempts[i].node \in Nodes /\ attempts[i].reason \in Reasons
  BY <1>2 DEF Attempt
<1>4. LocalReplica \notin Indices
  BY <1>1 DEF LocalReplica
<1> QED
  BY <1>1, <1>2, <1>3, <1>4 DEF TypeOK

\* What never changes about an attempt, the family reported once it is back.
Same(a, b) ==
  /\ b.task = a.task /\ b.number = a.number /\ b.reason = a.reason
  /\ b.node = a.node /\ b.family = a.family
  /\ a.stage \notin {"queued", "sent"} => b.stage \notin {"queued", "sent"} /\ b.told = a.told

\* Nothing about attempts, rounds or load moves; tasks and the loop do.
PhaseMoves(t) ==
  \/ /\ replicas'[t] = replicas[t]
     /\ \/ phase'[t] \in {phase[t], "cancelled"}
        \/ phase[t] = "waiting" /\ phase'[t] = "spawned"
        \/ phase[t] = "rescue" /\ phase'[t] = "failed"
        \/ phase[t] = "redo" /\ phase'[t] = "resolving"
        \/ phase[t] = "resolving" /\ phase'[t] = "done"
  \/ /\ replicas'[t] = {LocalReplica} /\ HasLocal
     /\ phase[t] \in {"rescue", "redo"} /\ phase'[t] = "resolving"

Quiet ==
  /\ UNCHANGED <<attempts, locals, load>>
  /\ \A t \in Tasks : PhaseMoves(t)
  /\ \/ turn' = turn /\ batch' = batch
     \/ turn' = NoTask /\ inflight[turn] # {}
     \/ \E t \in Tasks : /\ turn = NoTask /\ turn' = t
                         /\ batch' = {i \in inflight[t] : attempts[i].stage = "returned"}

\* What the tasks and the loop do besides launching, judging and closing.
LEMMA QuietSteps ==
  ASSUME TypeOK, IdInv,
         \/ Levels \/ Stop \/ \E n \in Nodes : Reconnect(n)
         \/ \E t \in Tasks : Collect(t) \/ Park(t) \/ Rescue(t) \/ Redo(t) \/ Resolve(t)
         \/ UNCHANGED vars
  PROVE  Quiet
<1> USE DEF Quiet
<1>1. CASE Levels
  <2>1. \A t \in Tasks : phase'[t] = phase[t] \/ phase'[t] = "cancelled" \/ (phase[t] = "waiting" /\ phase'[t] = "spawned")
    BY <1>1 DEF Levels, CancelActive
  <2>2. UNCHANGED <<segment, attempts, locals, replicas, load>>
    BY <1>1 DEF Levels
  <2> QED
    BY <2>1, <2>2 DEF segment, PhaseMoves
<1>2. CASE Stop
  <2>1. \A t \in Tasks : phase'[t] = phase[t] \/ phase'[t] = "cancelled"
    BY <1>2 DEF Stop, CancelActive
  <2>2. UNCHANGED <<segment, attempts, locals, replicas, load>>
    BY <1>2 DEF Stop
  <2> QED
    BY <2>1, <2>2 DEF segment, PhaseMoves
<1>3. ASSUME NEW n \in Nodes, Reconnect(n)
      PROVE  Quiet
  BY <1>3 DEF Reconnect, DispatchStep, segment, PhaseMoves
<1>4. ASSUME NEW t \in Tasks, Collect(t)
      PROVE  Quiet
  BY <1>4 DEF Collect, PhaseMoves
<1>5. ASSUME NEW t \in Tasks, Park(t)
      PROVE  Quiet
  BY <1>5 DEF Park, AtLoopHead, LoopEnds, PhaseMoves
<1>6. ASSUME NEW t \in Tasks, Rescue(t) \/ Redo(t) \/ Resolve(t)
      PROVE  Quiet
  <2>1. phase \in [Tasks -> Phases] /\ DOMAIN replicas = Tasks
    BY DEF TypeOK
  <2>2. UNCHANGED <<attempts, locals, load>> /\ turn' = turn /\ batch' = batch
    BY <1>6 DEF Rescue, Redo, Resolve, ExecutorStep, segment
  <2>3. \A u \in Tasks : PhaseMoves(u)
    <3>1. CASE Rescue(t)
      BY <2>1, <3>1 DEF Rescue, PhaseMoves
    <3>2. CASE Redo(t)
      BY <2>1, <3>2 DEF Redo, PhaseMoves
    <3>3. CASE Resolve(t)
      BY <2>1, <3>3 DEF Resolve, PhaseMoves
    <3> QED
      BY <1>6, <3>1, <3>2, <3>3
  <2> QED
    BY <2>2, <2>3
<1>7. CASE UNCHANGED vars
  BY <1>7 DEF vars, segment, PhaseMoves
<1> QED
  BY <1>1, <1>2, <1>3, <1>4, <1>5, <1>6, <1>7

\* Dispatches move on the wire.
Wired(a, b) ==
  /\ Same(a, b)
  /\ \/ b = a
     \/ a.stage = "queued" /\ b.stage = "sent" /\ b.status = a.status /\ b.answer = a.answer
     \/ /\ a.stage \in {"queued", "sent"} /\ b.stage = "returned"
        /\ b.status = "failed" /\ b.answer \in {a.answer, "forged"}
     \/ /\ a.stage = "sent" /\ b.stage = "returned"
        /\ b.status = a.status /\ b.answer \in {"good", "bad"}
     \/ a.stage = "unwinding" /\ b.stage = "cancelled" /\ b.status = a.status /\ b.answer = a.answer

Wire ==
  /\ turn = NoTask
  /\ UNCHANGED <<phase, segment, locals, replicas, load>>
  /\ Len(attempts') = Len(attempts)
  /\ \A i \in Indices : Wired(attempts[i], attempts'[i])

\* What the dispatches and the network do.
LEMMA WireSteps ==
  ASSUME TypeOK,
         \/ \E i \in DOMAIN attempts : Dispatch(i) \/ Reply(i)
         \/ \E n \in Nodes : Disconnect(n)
  PROVE  Wire
<1>1. /\ attempts \in Seq(Attempt) /\ Indices = DOMAIN attempts
      /\ \A i \in Indices : attempts[i] \in Attempt
  BY DEF TypeOK, Indices
<1>2. turn = NoTask /\ UNCHANGED <<phase, segment, locals, replicas, load>>
  BY DEF Dispatch, Send, Expire, Unwind, Reply, Disconnect, DispatchStep
<1>3. ASSUME NEW i \in DOMAIN attempts, NEW b \in Attempt, Wired(attempts[i], b),
             attempts' = [attempts EXCEPT ![i] = b]
      PROVE  Wire
  <2>1. Len(attempts') = Len(attempts)
    BY <1>1, <1>3, RewriteOne
  <2>2. \A j \in Indices : Wired(attempts[j], attempts'[j])
    BY <1>1, <1>3 DEF Wired, Same
  <2> QED
    BY <1>2, <2>1, <2>2 DEF Wire
<1>4. ASSUME NEW i \in DOMAIN attempts, Send(i)
      PROVE  Wire
  <2> DEFINE b == IF attempts[i].node \in linked
                  THEN [attempts[i] EXCEPT !.stage = "sent"]
                  ELSE [attempts[i] EXCEPT !.stage = "returned", !.status = "failed"]
  <2>1. attempts' = [attempts EXCEPT ![i] = b] /\ attempts[i].stage = "queued"
    BY <1>4 DEF Send
  <2>2. b \in Attempt /\ Wired(attempts[i], b)
    BY <1>1, <2>1 DEF Wired, Same, Attempt, Stages, Statuses
  <2> HIDE DEF b
  <2> QED
    BY <1>3, <2>1, <2>2
<1>5. ASSUME NEW i \in DOMAIN attempts, Expire(i)
      PROVE  Wire
  <2> DEFINE b == [attempts[i] EXCEPT !.stage = "returned", !.status = "failed"]
  <2>1. attempts' = [attempts EXCEPT ![i] = b] /\ attempts[i].stage = "sent"
    BY <1>5 DEF Expire
  <2>2. b \in Attempt /\ Wired(attempts[i], b)
    BY <1>1, <2>1 DEF Wired, Same, Attempt, Stages, Statuses
  <2> HIDE DEF b
  <2> QED
    BY <1>3, <2>1, <2>2
<1>6. ASSUME NEW i \in DOMAIN attempts, Unwind(i)
      PROVE  Wire
  <2> DEFINE b == [attempts[i] EXCEPT !.stage = "cancelled"]
  <2>1. attempts' = [attempts EXCEPT ![i] = b] /\ attempts[i].stage = "unwinding"
    BY <1>6 DEF Unwind
  <2>2. b \in Attempt /\ Wired(attempts[i], b)
    BY <1>1, <2>1 DEF Wired, Same, Attempt, Stages, Statuses
  <2> HIDE DEF b
  <2> QED
    BY <1>3, <2>1, <2>2
<1>7. ASSUME NEW i \in DOMAIN attempts, Reply(i)
      PROVE  Wire
  <2>1. PICK answer \in Answers, told \in Families \union {attempts[i].told} :
          attempts' = [attempts EXCEPT
            ![i].stage = "returned",
            ![i].answer = answer,
            ![i].told = told,
            ![i].status = IF Verified(answer) THEN @ ELSE "failed"]
    BY <1>7 DEF Reply
  <2> DEFINE b == [attempts[i] EXCEPT !.stage = "returned", !.answer = answer, !.told = told,
                      !.status = IF Verified(answer) THEN @ ELSE "failed"]
  <2>2. attempts' = [attempts EXCEPT ![i] = b] /\ attempts[i].stage = "sent"
    BY <1>1, <1>7, <2>1 DEF Reply
  <2>3. b \in Attempt /\ Wired(attempts[i], b)
    BY <1>1, <2>2 DEF Wired, Same, Attempt, Stages, Statuses, Answers, Verified
  <2> HIDE DEF b
  <2> QED
    BY <1>3, <2>2, <2>3
<1>8. ASSUME NEW n \in Nodes, Disconnect(n)
      PROVE  Wire
  <2>1. \A i \in Indices : attempts'[i] \in Attempt /\ Wired(attempts[i], attempts'[i])
    <3> SUFFICES ASSUME NEW i \in Indices
                 PROVE  attempts'[i] \in Attempt /\ Wired(attempts[i], attempts'[i])
      OBVIOUS
    <3> DEFINE a == attempts[i]
               b == [a EXCEPT !.stage = "returned", !.status = "failed"]
    <3>1. attempts'[i] = (IF a.stage = "sent" /\ a.node = n THEN b ELSE a) /\ a \in Attempt
      BY <1>1, <1>8 DEF Disconnect
    <3>2. /\ b \in Attempt /\ Same(a, b)
          /\ b.stage = "returned" /\ b.status = "failed" /\ b.answer = a.answer
      BY <3>1 DEF Attempt, Stages, Statuses, Same
    <3> HIDE DEF b
    <3> QED
      BY <3>1, <3>2 DEF Wired, Same
  <2>2. attempts' = [i \in DOMAIN attempts |-> attempts'[i]]
    BY <1>8 DEF Disconnect
  <2>3. Len(attempts') = Len(attempts)
    BY <1>1, <2>1, <2>2, SameDomainSeq
  <2> QED
    BY <1>2, <2>1, <2>3 DEF Wire
<1> QED
  BY <1>4, <1>5, <1>6, <1>7, <1>8 DEF Dispatch

\* The verdict on an attempt that has come back.
JudgedTo(a, b) ==
  /\ Same(a, b) /\ b.stage = a.stage /\ b.answer = a.answer
  /\ \/ a.status = "failed" /\ b.status = "failed"
     \/ a.status = "dispatched" /\ a.answer = "good" /\ b.status = "accepted"
     \/ a.status = "dispatched" /\ a.answer = "bad" /\ b.status = "rejected"

Judge(gone, atts) ==
  \A i \in Indices : IF i \in gone THEN JudgedTo(attempts[i], atts[i]) ELSE atts[i] = attempts[i]

Freed(gone) ==
  [n \in Nodes |-> IF \E i \in gone : attempts[i].node = n THEN load[n] - 1 ELSE load[n]]

AddsNone(t, gone) ==
  /\ Len(attempts') = Len(attempts)
  /\ inflight' = [inflight EXCEPT ![t] = inflight[t] \ gone]
  /\ load' = Freed(gone) /\ number' = number /\ used' = used

Adds(t, gone, o, why) ==
  /\ o \in Offers /\ o \notin used[t] /\ number[t] < ceiling[t]
  /\ \/ why = (IF phase[t] = "tie" THEN "tie_break" ELSE "initial") /\ turn = t
     \/ why \in {"hedge", "retry"} /\ (turn = NoTask \/ gone # {})
  /\ Len(attempts') = Len(attempts) + 1
  /\ attempts'[Len(attempts) + 1] = NewAttempt(t, number[t], o, why)
  /\ inflight' = [inflight EXCEPT ![t] = (inflight[t] \ gone) \cup {Len(attempts) + 1}]
  /\ load' = [Freed(gone) EXCEPT ![o[1]] = @ + 1]
  /\ number' = [number EXCEPT ![t] = @ + 1]
  /\ used' = [used EXCEPT ![t] = @ \cup {o}]

\* run_task works: it takes at most one attempt out of flight and puts at most
\* one into it.
Work(t, gone) ==
  /\ InRound(t)
  /\ gone = {} \/ \E i \in Indices : gone = {i}
  /\ gone \subseteq inflight[t] /\ gone \subseteq batch
  /\ gone # {} => turn = t
  /\ UNCHANGED <<phase, turn, need, ceiling, replicas>>
  /\ batch' = batch \ gone
  /\ Judge(gone, attempts')
  /\ accepted' = [accepted EXCEPT ![t] = @ \cup {i \in gone : attempts'[i].status = "accepted"}]
  /\ rejected' = [rejected EXCEPT ![t] = @ \cup {i \in gone : attempts'[i].status = "rejected"}]
  /\ AddsNone(t, gone) \/ \E o \in Offers, why \in Reasons : Adds(t, gone, o, why)

\* launch() after the verdicts, seen from the state before them.
LEMMA WorkEnds ==
  ASSUME TypeOK, NEW t \in Tasks, NEW gone \in SUBSET Indices, NEW why \in Reasons, NEW free,
         NEW atts \in Seq(Attempt), Len(atts) = Len(attempts), Judge(gone, atts),
         \/ why = (IF phase[t] = "tie" THEN "tie_break" ELSE "initial") /\ turn = t
         \/ why \in {"hedge", "retry"} /\ (turn = NoTask \/ gone # {}),
         \/ TryLaunch(t, why, free, atts, inflight[t] \ gone, Freed(gone))
         \/ NoLaunch(t, atts, inflight[t] \ gone, Freed(gone))
  PROVE  /\ Judge(gone, attempts')
         /\ AddsNone(t, gone) \/ \E o \in Offers : Adds(t, gone, o, why)
<1>1. Len(attempts) \in Nat /\ Indices = 1..Len(attempts)
  BY Typed
<1>2. CASE NoLaunch(t, atts, inflight[t] \ gone, Freed(gone))
  BY <1>2 DEF NoLaunch, AddsNone
<1>3. ASSUME NEW o \in Candidates(t, free, Freed(gone)),
             Launch(t, o, why, atts, inflight[t] \ gone, Freed(gone))
      PROVE  Judge(gone, attempts') /\ o \in Offers /\ Adds(t, gone, o, why)
  <2> DEFINE a == NewAttempt(t, number[t], o, why)
  <2>1. o \in Offers /\ o \notin used[t] /\ number[t] < ceiling[t]
    BY DEF Candidates
  <2>2. attempts' = Append(atts, a)
    BY <1>3 DEF Launch
  <2> HIDE DEF a
  <2>3. /\ Len(attempts') = Len(attempts) + 1
        /\ attempts'[Len(attempts) + 1] = a
        /\ \A i \in Indices : attempts'[i] = atts[i]
    BY <1>1, <2>2
  <2>4. Judge(gone, attempts')
    BY <2>3 DEF Judge
  <2> QED
    BY <1>3, <2>1, <2>3, <2>4 DEF Launch, Adds, a
<1> QED
  BY <1>2, <1>3 DEF TryLaunch

\* Giving up nothing frees nothing.
LEMMA FreedNone ==
  ASSUME TypeOK
  PROVE  Freed({}) = load
BY DEF TypeOK, Freed

\* Giving up one attempt frees one place on its node.
LEMMA FreedOne ==
  ASSUME TypeOK, NEW i \in Indices
  PROVE  Freed({i}) = [load EXCEPT ![attempts[i].node] = @ - 1]
<1>1. attempts[i].node \in Nodes /\ load \in [Nodes -> Int]
  BY Typed DEF TypeOK
<1>2. \A n \in Nodes : Freed({i})[n] = [load EXCEPT ![attempts[i].node] = @ - 1][n]
  BY <1>1 DEF Freed
<1> QED
  BY <1>1, <1>2 DEF Freed

\* A verdict on one attempt.
LEMMA JudgeOne ==
  ASSUME TypeOK, NEW i \in Indices, NEW s \in Statuses, attempts[i].status = "dispatched",
         \/ attempts[i].answer = "good" /\ s = "accepted"
         \/ attempts[i].answer = "bad" /\ s = "rejected"
  PROVE  LET atts == [attempts EXCEPT ![i].status = s] IN
         /\ atts \in Seq(Attempt) /\ Len(atts) = Len(attempts)
         /\ Judge({i}, atts) /\ atts[i].status = s
<1> DEFINE atts == [attempts EXCEPT ![i].status = s]
           b == [attempts[i] EXCEPT !.status = s]
<1>1. atts \in Seq(Attempt) /\ Len(atts) = Len(attempts)
  BY VerdictKeepsTypes
<1>2. attempts[i] \in Attempt /\ i \in DOMAIN attempts
  BY DEF TypeOK, Indices
<1>3. atts[i] = b /\ \A j \in Indices : j # i => atts[j] = attempts[j]
  BY <1>2 DEF Indices
<1>4. JudgedTo(attempts[i], b) /\ b.status = s
  BY <1>2 DEF JudgedTo, Same, Attempt
<1> HIDE DEF b
<1>5. Judge({i}, atts) /\ atts[i].status = s
  BY <1>3, <1>4 DEF Judge
<1> QED
  BY <1>1, <1>5

\* Adding nothing changes nothing.
LEMMA NoneAdded ==
  ASSUME NEW f, NEW S, f \in [Tasks -> SUBSET S], NEW t \in Tasks
  PROVE  f = [f EXCEPT ![t] = @ \cup {}]
<1>1. f[t] \cup {} = f[t]
  OBVIOUS
<1>2. [f EXCEPT ![t] = f[t]] = f
  OBVIOUS
<1> QED
  BY <1>1, <1>2

\* Launching, hedging and judging are work of one round.
LEMMA WorkSteps ==
  ASSUME TypeOK, IdInv, RoundInv, NEW t \in Tasks,
         \/ LaunchInitial(t) \/ Hedge(t)
         \/ \E i \in batch : Accept(t, i) \/ Reject(t, i) \/ DropFailed(t, i)
  PROVE  \E gone \in SUBSET Indices : Work(t, gone)
<1>1. /\ attempts \in Seq(Attempt) /\ Freed({}) = load
      /\ accepted = [accepted EXCEPT ![t] = @ \cup {}]
      /\ rejected = [rejected EXCEPT ![t] = @ \cup {}]
      /\ inflight[t] \ {} = inflight[t] /\ batch \ {} = batch
  BY FreedNone, NoneAdded DEF TypeOK
<1>2. Judge({}, attempts)
  BY DEF Judge
<1>3. turn = t => InRound(t)
  BY SchedulerAssumption DEF IdInv, TurnInRound
<1> DEFINE none(s) == {j \in {} : attempts'[j].status = s}
<1>0. none("accepted") = {} /\ none("rejected") = {}
  OBVIOUS
<1>4. ASSUME LaunchInitial(t) \/ Hedge(t)
      PROVE  Work(t, {})
  <2>1. CASE LaunchInitial(t)
    <3> DEFINE why == IF phase[t] = "tie" THEN "tie_break" ELSE "initial"
               free == phase[t] = "tie"
    <3>1. TryLaunch(t, why, free, attempts, inflight[t] \ {}, Freed({})) /\ why \in Reasons /\ turn = t
      BY <1>1, <2>1 DEF LaunchInitial, Reasons
    <3>2. /\ Judge({}, attempts')
          /\ AddsNone(t, {}) \/ \E o \in Offers : Adds(t, {}, o, why)
      BY <1>1, <1>2, <3>1, WorkEnds
    <3> QED
      BY <1>1, <1>3, <1>0, <2>1, <3>1, <3>2 DEF LaunchInitial, Work
  <2>2. CASE Hedge(t)
    <3>1. TryLaunch(t, "hedge", TRUE, attempts, inflight[t] \ {}, Freed({}))
      BY <1>1, <2>2 DEF Hedge, TryLaunch
    <3>2. /\ Judge({}, attempts')
          /\ AddsNone(t, {}) \/ \E o \in Offers : Adds(t, {}, o, "hedge")
      BY <1>1, <1>2, <2>2, <3>1, WorkEnds DEF Hedge, Reasons
    <3> QED
      BY <1>1, <1>0, <2>2, <3>2 DEF Hedge, Work, Reasons, segment
  <2> QED
    BY <1>4, <2>1, <2>2
<1>5. ASSUME NEW i \in batch, Popping(t, i)
      PROVE  /\ i \in Indices /\ {i} \subseteq inflight[t] /\ InRound(t) /\ turn = t
             /\ UNCHANGED <<phase, turn, need, ceiling, replicas>> /\ batch' = batch \ {i}
             /\ Freed({i}) = [load EXCEPT ![attempts[i].node] = @ - 1]
  <2>1. turn = t /\ i \in Indices /\ InRound(t)
    BY <1>3, <1>5 DEF Popping, TypeOK
  <2>2. i \in inflight[t]
    BY <2>1, SchedulerAssumption DEF RoundInv, BatchReturned
  <2> QED
    BY <1>5, <2>1, <2>2, FreedOne DEF Popping
<1>6. ASSUME NEW i \in batch, Accept(t, i)
      PROVE  Work(t, {i})
  <2> DEFINE atts == [attempts EXCEPT ![i].status = "accepted"]
  <2>1. Popping(t, i) /\ attempts[i].status = "dispatched" /\ attempts[i].answer = "good"
    BY <1>6 DEF Accept
  <2>2. atts \in Seq(Attempt) /\ Len(atts) = Len(attempts) /\ Judge({i}, atts) /\ atts[i].status = "accepted"
    BY <1>5, <2>1, JudgeOne DEF Statuses
  <2>3. NoLaunch(t, atts, inflight[t] \ {i}, Freed({i}))
    BY <1>5, <1>6, <2>1 DEF Accept
  <2>4. attempts' = atts
    BY <2>3 DEF NoLaunch
  <2> HIDE DEF atts
  <2>5. Judge({i}, attempts') /\ AddsNone(t, {i})
    BY <2>2, <2>3, <2>4 DEF NoLaunch, AddsNone
  <2>6. {j \in {i} : attempts'[j].status = "accepted"} = {i} /\ {j \in {i} : attempts'[j].status = "rejected"} = {}
    BY <2>2, <2>4
  <2>7. accepted' = [accepted EXCEPT ![t] = @ \cup {i}] /\ rejected' = [rejected EXCEPT ![t] = @ \cup {}]
    BY <1>1, <1>6 DEF Accept
  <2> QED
    BY <1>5, <2>1, <2>5, <2>6, <2>7 DEF Work
<1>7. ASSUME NEW i \in batch, Reject(t, i)
      PROVE  Work(t, {i})
  <2> DEFINE atts == [attempts EXCEPT ![i].status = "rejected"]
  <2>1. Popping(t, i) /\ attempts[i].status = "dispatched" /\ attempts[i].answer = "bad"
    BY <1>7 DEF Reject
  <2>2. atts \in Seq(Attempt) /\ Len(atts) = Len(attempts) /\ Judge({i}, atts) /\ atts[i].status = "rejected"
    BY <1>5, <2>1, JudgeOne DEF Statuses
  <2>3. \/ TryLaunch(t, "retry", FALSE, atts, inflight[t] \ {i}, Freed({i}))
        \/ NoLaunch(t, atts, inflight[t] \ {i}, Freed({i}))
    BY <1>5, <1>7, <2>1 DEF Reject, RetryIfShort
  <2> HIDE DEF atts
  <2>4. /\ Judge({i}, attempts')
        /\ AddsNone(t, {i}) \/ \E o \in Offers : Adds(t, {i}, o, "retry")
    BY <1>5, <2>1, <2>2, <2>3, WorkEnds DEF Reasons
  <2>5. attempts'[i].status = "rejected"
    BY <1>5, <2>1, <2>4 DEF Judge, JudgedTo
  <2>6. {j \in {i} : attempts'[j].status = "accepted"} = {} /\ {j \in {i} : attempts'[j].status = "rejected"} = {i}
    BY <2>5
  <2>7. accepted' = [accepted EXCEPT ![t] = @ \cup {}] /\ rejected' = [rejected EXCEPT ![t] = @ \cup {i}]
    BY <1>1, <1>7 DEF Reject
  <2> QED
    BY <1>5, <2>1, <2>4, <2>6, <2>7 DEF Work, Reasons
<1>8. ASSUME NEW i \in batch, DropFailed(t, i)
      PROVE  Work(t, {i})
  <2>1. Popping(t, i) /\ attempts[i].status = "failed"
    BY <1>8 DEF DropFailed
  <2>2. Judge({i}, attempts)
    BY <2>1 DEF Judge, JudgedTo, Same
  <2>3. \/ TryLaunch(t, "retry", HasLocal, attempts, inflight[t] \ {i}, Freed({i}))
        \/ NoLaunch(t, attempts, inflight[t] \ {i}, Freed({i}))
    BY <1>5, <1>8, <2>1 DEF DropFailed, RetryIfShort
  <2>4. /\ Judge({i}, attempts')
        /\ AddsNone(t, {i}) \/ \E o \in Offers : Adds(t, {i}, o, "retry")
    BY <1>1, <1>5, <2>1, <2>2, <2>3, WorkEnds DEF Reasons
  <2>5. attempts'[i].status = "failed"
    BY <1>5, <2>1, <2>4 DEF Judge, JudgedTo
  <2>6. {j \in {i} : attempts'[j].status = "accepted"} = {} /\ {j \in {i} : attempts'[j].status = "rejected"} = {}
    BY <2>5
  <2>7. accepted' = [accepted EXCEPT ![t] = @ \cup {}] /\ rejected' = [rejected EXCEPT ![t] = @ \cup {}]
    BY <1>1, <1>8 DEF DropFailed
  <2> QED
    BY <1>5, <2>1, <2>4, <2>6, <2>7 DEF Work, Reasons
<1>9. ASSUME NEW i \in batch, Accept(t, i) \/ Reject(t, i) \/ DropFailed(t, i)
      PROVE  i \in Indices /\ Work(t, {i})
  BY <1>5, <1>6, <1>7, <1>8, <1>9 DEF Accept, Reject, DropFailed
<1> QED
  BY <1>4, <1>9

\* run_task's last statements: what is in flight is given up, what was rejected
\* is degraded when there is nothing better.
ClosedTo(t, i) ==
  /\ Same(attempts[i], attempts'[i]) /\ attempts'[i].answer = attempts[i].answer
  /\ IF i \in inflight[t]
     THEN attempts'[i].status = "cancelled_slow" /\ attempts'[i].stage \in {"cancelled", "unwinding"}
     ELSE IF i \in rejected[t] /\ accepted[t] = {}
     THEN attempts'[i].status = "degraded" /\ attempts'[i].stage = attempts[i].stage
     ELSE attempts'[i] = attempts[i]

KeepsLocals == UNCHANGED <<need, ceiling, number, used, accepted, rejected>>

EndsFirst(t) ==
  /\ phase[t] = "running" /\ KeepsLocals /\ turn' = NoTask
  /\ replicas' = [replicas EXCEPT ![t] = IF accepted[t] = {} THEN rejected[t] ELSE accepted[t]]
  /\ phase' = [phase EXCEPT ![t] = IF accepted[t] # {} THEN "resolving"
                                   ELSE IF rejected[t] # {} THEN "redo" ELSE "rescue"]

EndsTie(t) ==
  /\ phase[t] = "tie" /\ KeepsLocals /\ turn' = NoTask
  /\ replicas' = [replicas EXCEPT ![t] = @ \cup accepted[t]]
  /\ phase' = [phase EXCEPT ![t] = "resolving"]

Splits(t) ==
  /\ phase[t] = "running" /\ accepted[t] # {}
  /\ replicas' = [replicas EXCEPT ![t] = accepted[t]]
  /\ phase' = [phase EXCEPT ![t] = "tie"]
  /\ Enter(t, 1, Len(attempts) + 1, Len(attempts), {ReportedPair(i) : i \in accepted[t]})

Close(t) ==
  /\ turn = t /\ batch = {} /\ InRound(t)
  /\ accepted[t] # {} \/ inflight[t] = {}
  /\ Len(attempts') = Len(attempts)
  /\ \A i \in Indices : ClosedTo(t, i)
  /\ inflight' = [inflight EXCEPT ![t] = {}]
  /\ load' = [n \in Nodes |-> load[n] - Cardinality({i \in inflight[t] : attempts[i].node = n})]
  /\ batch' = {}
  /\ EndsFirst(t) \/ EndsTie(t) \/ Splits(t)

\* The ways a round returns all close it.
LEMMA CloseSteps ==
  ASSUME TypeOK, IdInv, RoundInv, NEW t \in Tasks, ReturnFirst(t) \/ ReturnSplit(t) \/ ReturnTie(t)
  PROVE  Close(t)
<1>1. Returning(t) /\ CloseRound(t) /\ turn = t /\ batch = {}
  BY DEF ReturnFirst, ReturnSplit, ReturnTie, Returning, AtLoopHead
<1>2. InRound(t)
  BY DEF ReturnFirst, ReturnSplit, ReturnTie, InRound
<1>3. accepted[t] # {} \/ inflight[t] = {}
  <2>1. need[t] >= 1
    BY <1>2 DEF RoundInv, Needed
  <2>2. need[t] \in Nat
    BY DEF TypeOK
  <2>3. Cardinality({}) = 0
    BY FS_EmptySet
  <2> QED
    BY <1>1, <2>1, <2>2, <2>3 DEF Returning, LoopEnds
<1>4. Len(attempts') = Len(attempts)
  BY <1>1, CloseRoundKeepsTypes
<1>5. ASSUME NEW i \in Indices
      PROVE  ClosedTo(t, i)
  <2> DEFINE a == attempts[i]
             given == CASE a.stage = "queued" -> "cancelled"
                        [] a.stage = "sent"   -> "unwinding"
                        [] OTHER -> a.stage
             slow == [a EXCEPT !.status = "cancelled_slow", !.stage = given]
             poor == [a EXCEPT !.status = "degraded"]
  <2>1. a \in Attempt
    BY DEF TypeOK, Indices
  <2>2. attempts'[i] = IF i \in inflight[t] THEN slow
                       ELSE IF i \in rejected[t] /\ Degraded(t) THEN poor ELSE a
    BY <1>1 DEF CloseRound, Indices
  <2>3. i \in inflight[t] => given \in {"cancelled", "unwinding"}
    BY <1>1, SchedulerAssumption DEF RoundInv, InflightStates, BatchReturned
  <2>4. /\ Same(a, slow) /\ slow.answer = a.answer /\ slow.status = "cancelled_slow" /\ slow.stage = given
        /\ Same(a, poor) /\ poor.answer = a.answer /\ poor.status = "degraded" /\ poor.stage = a.stage
        /\ Same(a, a)
    BY <2>1 DEF Same, Attempt
  <2>5. i \in rejected[t] => (Degraded(t) <=> accepted[t] = {})
    BY DEF Degraded
  <2> HIDE DEF slow, poor, given
  <2> QED
    BY <2>2, <2>3, <2>4, <2>5 DEF ClosedTo
<1>6. batch' = {}
  BY <1>1 DEF ReturnFirst, ReturnSplit, ReturnTie, GoOn, Enter
<1>7. EndsFirst(t) \/ EndsTie(t) \/ Splits(t)
  <2>1. CASE ReturnFirst(t)
    <3>1. Degraded(t) <=> accepted[t] = {} /\ rejected[t] # {}
      BY DEF Degraded
    <3>2. (IF Degraded(t) THEN rejected[t] ELSE accepted[t])
            = (IF accepted[t] = {} THEN rejected[t] ELSE accepted[t])
      BY <3>1
    <3>3. (CASE accepted[t] # {} -> "resolving" [] Degraded(t) -> "redo" [] OTHER -> "rescue")
            = (IF accepted[t] # {} THEN "resolving" ELSE IF rejected[t] # {} THEN "redo" ELSE "rescue")
      BY <3>1
    <3> QED
      BY <2>1, <3>2, <3>3 DEF ReturnFirst, GoOn, EndsFirst, KeepsLocals
  <2>2. CASE ReturnSplit(t)
    <3>1. accepted[t] # {}
      <4>1. Cardinality(accepted[t]) = 2
        BY <2>2 DEF ReturnSplit
      <4>2. accepted[t] = {} => Cardinality(accepted[t]) = 0
        BY FS_EmptySet
      <4> QED
        BY <4>1, <4>2
    <3> QED
      BY <2>2, <3>1 DEF ReturnSplit, Splits
  <2>3. CASE ReturnTie(t)
    BY <2>3 DEF ReturnTie, GoOn, EndsTie, KeepsLocals
  <2> QED
    BY <2>1, <2>2, <2>3
<1> QED
  BY <1>1, <1>2, <1>3, <1>4, <1>5, <1>6, <1>7 DEF Close, CloseRound

\* Every step is of one kind.
LEMMA Kinds ==
  ASSUME TypeOK, IdInv, RoundInv, [Next]_vars
  PROVE  \/ Quiet \/ Wire
         \/ \E t \in Tasks : \/ Begin(t) \/ Close(t)
                             \/ \E gone \in SUBSET Indices : Work(t, gone)
<1> USE DEF Indices
<1>1. ASSUME NEW t \in Tasks, TaskStep(t) \/ Hedge(t)
      PROVE  \/ Quiet \/ Begin(t) \/ Close(t)
             \/ \E gone \in SUBSET Indices : Work(t, gone)
  BY <1>1, QuietSteps, WorkSteps, CloseSteps DEF TaskStep, Segment
<1> QED
  BY <1>1, QuietSteps, WireSteps DEF Next

-----------------------------------------------------------------------------
(* Rounds *)

\* A quiet step changes neither attempts nor the rounds' sets.
LEMMA QuietKeepsRound ==
  ASSUME TypeOK, RoundInv, Quiet
  PROVE  RoundInv'
<1>1. UNCHANGED <<attempts, need, inflight, accepted, rejected>> /\ Indices' = Indices
  BY DEF Quiet, locals, Indices
<1>2. ASSUME NEW t \in Tasks
      PROVE  /\ InRound(t)' => InRound(t)
             /\ phase'[t] \notin {"running", "tie", "cancelled"} => phase[t] \notin {"running", "tie", "cancelled"}
  BY DEF Quiet, PhaseMoves, InRound
<1>3. Owned' /\ OutIsInflight' /\ InflightStates'
  BY <1>1 DEF RoundInv, Owned, OutIsInflight, InflightStates
<1>4. Judged' /\ NothingLeft' /\ Needed'
  BY <1>1, <1>2 DEF RoundInv, Judged, NothingLeft, Needed
<1>5. BatchReturned'
  BY <1>1 DEF RoundInv, BatchReturned, Quiet
<1> QED
  BY <1>3, <1>4, <1>5 DEF RoundInv

\* A round begins with nothing in flight.
LEMMA BeginKeepsRound ==
  ASSUME TypeOK, RoundInv, NEW t \in Tasks, Begin(t)
  PROVE  RoundInv'
<1>1. /\ attempts' = attempts /\ Indices' = Indices
      /\ phase' = [phase EXCEPT ![t] = "running"] /\ phase[t] = "spawned"
      /\ need' = [need EXCEPT ![t] = KMin] /\ turn' = t /\ batch' = {}
      /\ inflight' = [inflight EXCEPT ![t] = {}]
      /\ accepted' = [accepted EXCEPT ![t] = {}] /\ rejected' = [rejected EXCEPT ![t] = {}]
  BY DEF Begin, Enter, Indices
<1>2. \A u \in Tasks : /\ inflight'[u] = inflight[u]
                       /\ accepted'[u] = IF u = t THEN {} ELSE accepted[u]
                       /\ rejected'[u] = IF u = t THEN {} ELSE rejected[u]
                       /\ phase'[u] = IF u = t THEN "running" ELSE phase[u]
                       /\ need'[u] = IF u = t THEN KMin ELSE need[u]
  BY <1>1 DEF TypeOK, RoundInv, NothingLeft
<1>3. inflight'[t] = {}
  BY <1>1 DEF TypeOK
<1>4. Owned' /\ InflightStates'
  BY <1>1, <1>2 DEF RoundInv, Owned, InflightStates
<1>5. OutIsInflight'
  BY <1>1, <1>2, Typed DEF RoundInv, OutIsInflight
<1>6. Judged' /\ NothingLeft' /\ Needed'
  BY <1>1, <1>2, SchedulerAssumption DEF RoundInv, Judged, NothingLeft, Needed, InRound
<1>7. BatchReturned'
  BY <1>1, <1>3 DEF BatchReturned
<1> QED
  BY <1>4, <1>5, <1>6, <1>7 DEF RoundInv

\* The types after a step, as far as the lemmas below use them.
LEMMA TypedNext ==
  ASSUME TypeOK'
  PROVE  /\ Len(attempts') \in Nat /\ Indices' = 1..Len(attempts') /\ LocalReplica \notin Indices'
         /\ \A t \in Tasks : /\ inflight'[t] \subseteq Indices' /\ accepted'[t] \subseteq Indices'
                             /\ rejected'[t] \subseteq Indices'
<1>1. Len(attempts') \in Nat /\ Indices' = 1..Len(attempts')
  BY DEF TypeOK, Indices
<1>2. LocalReplica \notin Indices'
  BY <1>1 DEF LocalReplica
<1> QED
  BY <1>1, <1>2 DEF TypeOK

\* A dispatch writes only to attempts that are out.
LEMMA WireKeepsRound ==
  ASSUME TypeOK, TypeOK', RoundInv, Wire
  PROVE  RoundInv'
<1>1. /\ UNCHANGED <<phase, turn, need, inflight, accepted, rejected>> /\ turn = NoTask
      /\ Indices' = Indices
  BY Typed, TypedNext DEF Wire, segment, locals
<1>2. \A i \in Indices : Wired(attempts[i], attempts'[i]) /\ attempts[i].task \in Tasks
  BY Typed DEF Wire
<1>3. \A t \in Tasks : /\ inflight[t] \subseteq Indices /\ accepted[t] \subseteq Indices
                       /\ rejected[t] \subseteq Indices
  BY Typed
<1>4. Owned'
  <2>1. \A i \in Indices : attempts'[i].task = attempts[i].task
    BY <1>2 DEF Wired, Same
  <2> QED
    BY <1>1, <1>3, <2>1 DEF RoundInv, Owned
<1>5. OutIsInflight'
  <2> SUFFICES ASSUME NEW i \in Indices, attempts'[i].stage \in {"queued", "sent"}
               PROVE  /\ i \in inflight[attempts'[i].task]
                      /\ attempts'[i].status = "dispatched" /\ attempts'[i].answer = "none"
    BY <1>1 DEF OutIsInflight
  <2>1. /\ attempts[i].stage \in {"queued", "sent"} /\ attempts'[i].task = attempts[i].task
        /\ attempts'[i].status = attempts[i].status /\ attempts'[i].answer = attempts[i].answer
    BY <1>2 DEF Wired, Same
  <2> QED
    BY <2>1 DEF RoundInv, OutIsInflight
<1>6. InflightStates'
  <2> SUFFICES ASSUME NEW t \in Tasks, NEW i \in inflight[t]
               PROVE  /\ attempts'[i].stage \in {"queued", "sent", "returned"}
                      /\ attempts'[i].stage = "returned" =>
                           \/ attempts'[i].status = "dispatched" /\ attempts'[i].answer \in {"good", "bad"}
                           \/ attempts'[i].status = "failed" /\ attempts'[i].answer \notin {"good", "bad"}
    BY <1>1 DEF InflightStates
  <2>1. i \in Indices /\ Wired(attempts[i], attempts'[i])
    BY <1>2, <1>3
  <2>2. attempts[i].stage \in {"queued", "sent"} => attempts[i].status = "dispatched" /\ attempts[i].answer = "none"
    BY <2>1 DEF RoundInv, OutIsInflight
  <2>3. /\ attempts[i].stage \in {"queued", "sent", "returned"}
        /\ attempts[i].stage = "returned" =>
             \/ attempts[i].status = "dispatched" /\ attempts[i].answer \in {"good", "bad"}
             \/ attempts[i].status = "failed" /\ attempts[i].answer \notin {"good", "bad"}
    BY DEF RoundInv, InflightStates
  <2> QED
    BY <2>1, <2>2, <2>3 DEF Wired
<1>7. Judged'
  <2>1. ASSUME NEW i \in Indices, attempts[i].status \in {"accepted", "rejected"}
        PROVE  attempts'[i].status = attempts[i].status /\ attempts'[i].answer = attempts[i].answer
    <3>1. attempts[i].stage \notin {"queued", "sent"}
      BY <2>1 DEF RoundInv, OutIsInflight
    <3> QED
      BY <1>2, <3>1 DEF Wired
  <2> QED
    BY <1>1, <1>3, <2>1 DEF RoundInv, Judged, InRound
<1>8. NothingLeft' /\ BatchReturned' /\ Needed'
  BY <1>1 DEF RoundInv, NothingLeft, BatchReturned, Needed, InRound
<1> QED
  BY <1>4, <1>5, <1>6, <1>7, <1>8 DEF RoundInv

\* What Work does to each attempt, and to the locals of each task.
WorkOnAttempts(t, gone) ==
  /\ Indices \subseteq Indices'
  /\ \A i \in Indices : /\ Same(attempts[i], attempts'[i])
                        /\ attempts'[i].stage = attempts[i].stage
                        /\ attempts'[i].answer = attempts[i].answer
                        /\ i \notin gone => attempts'[i] = attempts[i]
                        /\ i \in gone => JudgedTo(attempts[i], attempts'[i])
  /\ \A i \in Indices' \ Indices :
       /\ i = Len(attempts) + 1 /\ i \in inflight'[t]
       /\ attempts'[i].task = t /\ attempts'[i].stage = "queued"
       /\ attempts'[i].status = "dispatched" /\ attempts'[i].answer = "none"

WorkOnLocals(t, gone) ==
  \A u \in Tasks :
    /\ inflight'[u] \cap Indices = IF u = t THEN inflight[u] \ gone ELSE inflight[u]
    /\ \A i \in inflight'[u] : i \in Indices \/ u = t
    /\ accepted'[u] = IF u = t THEN accepted[u] \cup {i \in gone : attempts'[i].status = "accepted"}
                      ELSE accepted[u]
    /\ rejected'[u] = IF u = t THEN rejected[u] \cup {i \in gone : attempts'[i].status = "rejected"}
                      ELSE rejected[u]

\* What work does to each attempt and to each set of the round.
LEMMA WorkPoints ==
  ASSUME TypeOK, TypeOK', RoundInv, NEW t \in Tasks, NEW gone \in SUBSET Indices, Work(t, gone)
  PROVE  WorkOnAttempts(t, gone) /\ WorkOnLocals(t, gone)
<1> DEFINE new == Len(attempts) + 1
<1>1. /\ Len(attempts) \in Nat /\ Indices = 1..Len(attempts)
      /\ Len(attempts') \in Nat /\ Indices' = 1..Len(attempts')
      /\ \A u \in Tasks : inflight[u] \subseteq Indices
      /\ inflight \in [Tasks -> SUBSET Indices]
      /\ accepted \in [Tasks -> SUBSET Indices] /\ rejected \in [Tasks -> SUBSET Indices]
  BY Typed, TypedNext DEF TypeOK
<1>2. \A i \in Indices : /\ i \notin gone => attempts'[i] = attempts[i]
                         /\ i \in gone => JudgedTo(attempts[i], attempts'[i])
  BY DEF Work, Judge
<1>3. \A i \in Indices : /\ Same(attempts[i], attempts'[i])
                         /\ attempts'[i].stage = attempts[i].stage
                         /\ attempts'[i].answer = attempts[i].answer
  BY <1>2 DEF JudgedTo, Same
<1>4. \/ /\ Len(attempts') = Len(attempts)
         /\ inflight' = [inflight EXCEPT ![t] = inflight[t] \ gone]
      \/ /\ Len(attempts') = new
         /\ inflight' = [inflight EXCEPT ![t] = (inflight[t] \ gone) \cup {new}]
         /\ attempts'[new].task = t /\ attempts'[new].stage = "queued"
         /\ attempts'[new].status = "dispatched" /\ attempts'[new].answer = "none"
  <2>1. CASE AddsNone(t, gone)
    BY <2>1 DEF AddsNone
  <2>2. ASSUME NEW o \in Offers, NEW why \in Reasons, Adds(t, gone, o, why)
        PROVE  /\ Len(attempts') = new
               /\ inflight' = [inflight EXCEPT ![t] = (inflight[t] \ gone) \cup {new}]
               /\ attempts'[new].task = t /\ attempts'[new].stage = "queued"
               /\ attempts'[new].status = "dispatched" /\ attempts'[new].answer = "none"
    BY <2>2 DEF Adds, NewAttempt
  <2> QED
    BY <2>1, <2>2 DEF Work
<1>5. \A i \in Indices' \ Indices : Len(attempts') = new /\ i = new
  BY <1>1, <1>4
<1>6. new \notin Indices
  BY <1>1
<1> HIDE DEF new
<1>7. Indices \subseteq Indices'
  BY <1>1, <1>4 DEF new
<1>8. \A i \in Indices' \ Indices :
        /\ i = new /\ i \in inflight'[t]
        /\ attempts'[i].task = t /\ attempts'[i].stage = "queued"
        /\ attempts'[i].status = "dispatched" /\ attempts'[i].answer = "none"
  <2>1. Len(attempts') = Len(attempts) => Indices' = Indices
    BY <1>1
  <2> QED
    BY <1>1, <1>4, <1>5, <2>1
<1>9. \A u \in Tasks :
        /\ inflight'[u] \cap Indices = IF u = t THEN inflight[u] \ gone ELSE inflight[u]
        /\ \A i \in inflight'[u] : i \in Indices \/ u = t
  BY <1>1, <1>4, <1>6
<1>10. \A u \in Tasks :
         /\ accepted'[u] = IF u = t THEN accepted[u] \cup {i \in gone : attempts'[i].status = "accepted"}
                           ELSE accepted[u]
         /\ rejected'[u] = IF u = t THEN rejected[u] \cup {i \in gone : attempts'[i].status = "rejected"}
                           ELSE rejected[u]
  BY <1>1 DEF Work
<1> QED
  BY <1>2, <1>3, <1>7, <1>8, <1>9, <1>10 DEF new, WorkOnAttempts, WorkOnLocals

\* Work moves an attempt from one set of its round to another, and its verdict along.
LEMMA WorkKeepsRound ==
  ASSUME TypeOK, TypeOK', IdInv, RoundInv, NEW t \in Tasks, NEW gone \in SUBSET Indices, Work(t, gone)
  PROVE  RoundInv'
<1>1. /\ phase' = phase /\ turn' = turn /\ need' = need /\ batch' = batch \ gone
      /\ gone \subseteq inflight[t] /\ InRound(t) /\ (gone # {} => turn = t)
  BY DEF Work
<1>2. /\ Indices \subseteq Indices'
      /\ \A i \in Indices : /\ Same(attempts[i], attempts'[i])
                            /\ attempts'[i].stage = attempts[i].stage
                            /\ attempts'[i].answer = attempts[i].answer
                            /\ i \notin gone => attempts'[i] = attempts[i]
                            /\ i \in gone => JudgedTo(attempts[i], attempts'[i])
      /\ \A i \in Indices' \ Indices :
           /\ i \in inflight'[t]
           /\ attempts'[i].task = t /\ attempts'[i].stage = "queued"
           /\ attempts'[i].status = "dispatched" /\ attempts'[i].answer = "none"
  BY WorkPoints DEF WorkOnAttempts
<1>3. \A u \in Tasks :
        /\ inflight'[u] \cap Indices = IF u = t THEN inflight[u] \ gone ELSE inflight[u]
        /\ \A i \in inflight'[u] : i \in Indices \/ u = t
        /\ accepted'[u] = IF u = t THEN accepted[u] \cup {i \in gone : attempts'[i].status = "accepted"}
                          ELSE accepted[u]
        /\ rejected'[u] = IF u = t THEN rejected[u] \cup {i \in gone : attempts'[i].status = "rejected"}
                          ELSE rejected[u]
  BY WorkPoints DEF WorkOnLocals
<1>4. \A u \in Tasks : /\ inflight[u] \subseteq Indices /\ accepted[u] \subseteq Indices
                       /\ rejected[u] \subseteq Indices /\ inflight'[u] \subseteq Indices'
  BY Typed, TypedNext
<1>5. \A i \in gone : attempts[i].task = t /\ attempts[i].stage = "returned"
  BY <1>1, SchedulerAssumption DEF RoundInv, Owned, BatchReturned, Work
<1>6. Owned'
  <2> SUFFICES ASSUME NEW u \in Tasks, NEW i \in inflight'[u] \cup accepted'[u] \cup rejected'[u]
               PROVE  attempts'[i].task = u
    BY DEF Owned
  <2>1. CASE i \in Indices
    <3>1. i \in inflight[u] \cup accepted[u] \cup rejected[u] \/ (u = t /\ i \in gone)
      BY <1>3, <2>1
    <3>2. attempts[i].task = u
      BY <1>5, <3>1 DEF RoundInv, Owned
    <3> QED
      BY <1>2, <2>1, <3>2 DEF Same
  <2>2. CASE i \notin Indices
    <3>1. i \in inflight'[u]
      BY <1>3, <1>4, <2>2
    <3> QED
      BY <1>2, <1>3, <1>4, <2>2, <3>1
  <2> QED
    BY <2>1, <2>2
<1>7. OutIsInflight'
  <2> SUFFICES ASSUME NEW i \in Indices', attempts'[i].stage \in {"queued", "sent"}
               PROVE  /\ i \in inflight'[attempts'[i].task]
                      /\ attempts'[i].status = "dispatched" /\ attempts'[i].answer = "none"
    BY DEF OutIsInflight
  <2>1. CASE i \in Indices
    <3>1. i \notin gone /\ attempts'[i] = attempts[i]
      BY <1>2, <1>5, <2>1
    <3>2. /\ i \in inflight[attempts[i].task] /\ attempts[i].task \in Tasks
          /\ attempts[i].status = "dispatched" /\ attempts[i].answer = "none"
      BY <2>1, <3>1, Typed DEF RoundInv, OutIsInflight
    <3> QED
      BY <1>3, <2>1, <3>1, <3>2
  <2>2. CASE i \notin Indices
    BY <1>2, <2>2
  <2> QED
    BY <2>1, <2>2
<1>8. InflightStates'
  <2> SUFFICES ASSUME NEW u \in Tasks, NEW i \in inflight'[u]
               PROVE  /\ attempts'[i].stage \in {"queued", "sent", "returned"}
                      /\ attempts'[i].stage = "returned" =>
                           \/ attempts'[i].status = "dispatched" /\ attempts'[i].answer \in {"good", "bad"}
                           \/ attempts'[i].status = "failed" /\ attempts'[i].answer \notin {"good", "bad"}
    BY DEF InflightStates
  <2>1. CASE i \in Indices
    <3>1. i \in inflight[u] /\ (u = t => i \notin gone)
      BY <1>3, <2>1
    <3>2. i \notin gone
      BY <1>5, <3>1 DEF RoundInv, Owned
    <3> QED
      BY <1>2, <2>1, <3>1, <3>2 DEF RoundInv, InflightStates
  <2>2. CASE i \notin Indices
    BY <1>2, <1>4, <2>2
  <2> QED
    BY <2>1, <2>2
<1>9. Judged'
  <2>1. ASSUME NEW i \in Indices, attempts[i].status \in {"accepted", "rejected"}
        PROVE  attempts'[i] = attempts[i]
    <3>1. i \notin gone
      BY <1>2, <2>1 DEF JudgedTo
    <3> QED
      BY <1>2, <3>1
  <2>2. ASSUME NEW i \in gone
        PROVE  /\ attempts'[i].status = "accepted" => attempts'[i].answer = "good"
               /\ attempts'[i].status = "rejected" => attempts'[i].answer = "bad"
    BY <1>2, <2>2 DEF JudgedTo
  <2>3. ASSUME NEW u \in Tasks, NEW i \in accepted'[u]
        PROVE  attempts'[i].status = "accepted" /\ attempts'[i].answer = "good"
    <3>1. CASE i \in accepted[u]
      BY <1>4, <2>1, <3>1 DEF RoundInv, Judged
    <3>2. CASE i \notin accepted[u]
      BY <1>3, <2>2, <2>3, <3>2
    <3> QED
      BY <3>1, <3>2
  <2>4. ASSUME NEW u \in Tasks, InRound(u)', NEW i \in rejected'[u]
        PROVE  attempts'[i].status = "rejected" /\ attempts'[i].answer = "bad"
    <3>1. InRound(u)
      BY <1>1, <2>4 DEF InRound
    <3>2. CASE i \in rejected[u]
      BY <1>4, <2>1, <3>1, <3>2 DEF RoundInv, Judged
    <3>3. CASE i \notin rejected[u]
      BY <1>3, <2>2, <2>4, <3>3
    <3> QED
      BY <3>2, <3>3
  <2> QED
    BY <2>3, <2>4 DEF Judged
<1>10. NothingLeft'
  <2> SUFFICES ASSUME NEW u \in Tasks, phase[u] \notin {"running", "tie", "cancelled"}
               PROVE  inflight'[u] = {}
    BY <1>1 DEF NothingLeft
  <2>1. u # t /\ inflight[u] = {}
    BY <1>1 DEF RoundInv, NothingLeft, InRound
  <2> QED
    BY <1>3, <2>1
<1>11. BatchReturned'
  <2> SUFFICES ASSUME turn # NoTask
               PROVE  /\ batch' \subseteq inflight'[turn]
                      /\ \A i \in inflight'[turn] : i \in batch' <=> attempts'[i].stage = "returned"
    BY <1>1 DEF BatchReturned
  <2>1. /\ turn \in Tasks /\ batch \subseteq inflight[turn] /\ batch \subseteq Indices
        /\ \A i \in inflight[turn] : i \in batch <=> attempts[i].stage = "returned"
    BY <1>4 DEF RoundInv, BatchReturned, TypeOK
  <2>2. inflight'[turn] \cap Indices = inflight[turn] \ gone
    <3>1. CASE turn = t
      BY <1>3, <3>1
    <3>2. CASE turn # t
      BY <1>1, <1>3, <2>1, <3>2
    <3> QED
      BY <3>1, <3>2
  <2>3. batch' \subseteq inflight'[turn]
    BY <1>1, <2>1, <2>2
  <2>4. ASSUME NEW i \in inflight'[turn]
        PROVE  i \in batch' <=> attempts'[i].stage = "returned"
    <3>1. CASE i \in Indices
      BY <1>1, <1>2, <2>1, <2>2, <3>1
    <3>2. CASE i \notin Indices
      <4>1. i \in Indices' \ Indices
        BY <1>4, <2>1, <3>2
      <4> QED
        BY <1>1, <1>2, <2>1, <4>1
    <3> QED
      BY <3>1, <3>2
  <2> QED
    BY <2>3, <2>4
<1>12. Needed'
  BY <1>1 DEF RoundInv, Needed, InRound
<1> QED
  BY <1>6, <1>7, <1>8, <1>9, <1>10, <1>11, <1>12 DEF RoundInv

\* What Close leaves of the other tasks and of t.
LEMMA ClosePoints ==
  ASSUME TypeOK, TypeOK', RoundInv, NEW t \in Tasks, Close(t)
  PROVE  /\ Indices' = Indices
         /\ \A i \in Indices : ClosedTo(t, i)
         /\ \A i \in Indices : attempts[i].task # t => attempts'[i] = attempts[i]
         /\ \A u \in Tasks : \A i \in accepted[u] : attempts'[i] = attempts[i]
         /\ \A u \in Tasks :
              /\ inflight'[u] = IF u = t THEN {} ELSE inflight[u]
              /\ accepted'[u] = accepted[u] \/ (u = t /\ accepted'[u] = {} /\ Splits(t))
              /\ rejected'[u] = rejected[u] \/ (u = t /\ rejected'[u] = {} /\ Splits(t))
              /\ u # t => /\ phase'[u] = phase[u] /\ replicas'[u] = replicas[u]
                          /\ number'[u] = number[u] /\ ceiling'[u] = ceiling[u]
                          /\ used'[u] = used[u] /\ need'[u] = need[u]
<1>1. /\ Indices' = Indices
      /\ \A u \in Tasks : /\ inflight[u] \subseteq Indices /\ accepted[u] \subseteq Indices
                          /\ rejected[u] \subseteq Indices
  BY Typed, TypedNext DEF Close
<1>2. \A i \in Indices : ClosedTo(t, i)
  BY DEF Close
<1>3. ASSUME NEW i \in Indices, attempts[i].task # t
      PROVE  attempts'[i] = attempts[i]
  BY <1>2, <1>3 DEF RoundInv, Owned, ClosedTo
<1>4. ASSUME NEW u \in Tasks, NEW i \in accepted[u]
      PROVE  attempts'[i] = attempts[i]
  <2>1. i \in Indices /\ attempts[i].task = u /\ attempts[i].status = "accepted"
    BY <1>1, <1>4 DEF RoundInv, Owned, Judged
  <2>2. i \notin inflight[t]
    BY <2>1 DEF RoundInv, InflightStates, OutIsInflight
  <2>3. ~(i \in rejected[t] /\ accepted[t] = {})
    BY <1>4, <2>1 DEF RoundInv, Owned
  <2> QED
    BY <1>2, <2>1, <2>2, <2>3 DEF ClosedTo
<1>5. \A u \in Tasks : inflight'[u] = IF u = t THEN {} ELSE inflight[u]
  BY DEF Close, TypeOK
<1>6. ASSUME NEW u \in Tasks
      PROVE  /\ accepted'[u] = accepted[u] \/ (u = t /\ accepted'[u] = {} /\ Splits(t))
             /\ rejected'[u] = rejected[u] \/ (u = t /\ rejected'[u] = {} /\ Splits(t))
             /\ u # t => /\ phase'[u] = phase[u] /\ replicas'[u] = replicas[u]
                         /\ number'[u] = number[u] /\ ceiling'[u] = ceiling[u]
                         /\ used'[u] = used[u] /\ need'[u] = need[u]
  <2>1. CASE EndsFirst(t) \/ EndsTie(t)
    BY <2>1 DEF EndsFirst, EndsTie, KeepsLocals, TypeOK
  <2>2. CASE Splits(t)
    BY <2>2 DEF Splits, Enter, TypeOK
  <2> QED
    BY <2>1, <2>2 DEF Close
<1> QED
  BY <1>1, <1>2, <1>3, <1>4, <1>5, <1>6

\* A round that closes gives up what it has in flight.
LEMMA CloseKeepsRound ==
  ASSUME TypeOK, TypeOK', RoundInv, NEW t \in Tasks, Close(t)
  PROVE  RoundInv'
<1>1. /\ Indices' = Indices
      /\ \A i \in Indices : ClosedTo(t, i)
      /\ \A i \in Indices : attempts[i].task # t => attempts'[i] = attempts[i]
      /\ \A u \in Tasks : \A i \in accepted[u] : attempts'[i] = attempts[i]
  BY ClosePoints
<1>2. \A u \in Tasks :
        /\ inflight'[u] = IF u = t THEN {} ELSE inflight[u]
        /\ accepted'[u] = accepted[u] \/ (u = t /\ accepted'[u] = {} /\ Splits(t))
        /\ rejected'[u] = rejected[u] \/ (u = t /\ rejected'[u] = {} /\ Splits(t))
        /\ u # t => phase'[u] = phase[u] /\ need'[u] = need[u]
  BY ClosePoints
<1>3. \A u \in Tasks : /\ inflight[u] \subseteq Indices /\ accepted[u] \subseteq Indices
                       /\ rejected[u] \subseteq Indices
  BY Typed
<1>4. \A i \in Indices : attempts'[i].task = attempts[i].task /\ attempts[i].task \in Tasks
  BY <1>1, Typed DEF ClosedTo, Same
<1>5. phase'[t] \notin {"running", "tie"} \/ (Splits(t) /\ rejected'[t] = {} /\ need'[t] = 1)
  <2>1. CASE EndsFirst(t) \/ EndsTie(t)
    BY <2>1 DEF EndsFirst, EndsTie, TypeOK
  <2>2. CASE Splits(t)
    BY <2>2 DEF Splits, Enter, TypeOK
  <2> QED
    BY <2>1, <2>2 DEF Close
<1>6. turn' = NoTask \/ (turn' = t /\ batch' = {})
  BY DEF Close, EndsFirst, EndsTie, Splits, Enter
<1>7. Owned'
  BY <1>2, <1>3, <1>4 DEF RoundInv, Owned
<1>8. OutIsInflight'
  <2> SUFFICES ASSUME NEW i \in Indices, attempts'[i].stage \in {"queued", "sent"}
               PROVE  /\ i \in inflight'[attempts'[i].task]
                      /\ attempts'[i].status = "dispatched" /\ attempts'[i].answer = "none"
    BY <1>1 DEF OutIsInflight
  <2>1. i \notin inflight[t] /\ attempts[i].stage \in {"queued", "sent"}
    BY <1>1 DEF ClosedTo
  <2>2. /\ i \in inflight[attempts[i].task]
        /\ attempts[i].status = "dispatched" /\ attempts[i].answer = "none"
    BY <2>1 DEF RoundInv, OutIsInflight
  <2>3. attempts[i].task # t
    BY <2>1, <2>2
  <2> QED
    BY <1>1, <1>2, <1>4, <2>2, <2>3
<1>9. InflightStates'
  <2> SUFFICES ASSUME NEW u \in Tasks, NEW i \in inflight[u], u # t
               PROVE  /\ attempts'[i].stage \in {"queued", "sent", "returned"}
                      /\ attempts'[i].stage = "returned" =>
                           \/ attempts'[i].status = "dispatched" /\ attempts'[i].answer \in {"good", "bad"}
                           \/ attempts'[i].status = "failed" /\ attempts'[i].answer \notin {"good", "bad"}
    BY <1>2 DEF InflightStates
  <2>1. attempts'[i] = attempts[i]
    BY <1>1, <1>3 DEF RoundInv, Owned
  <2> QED
    BY <2>1 DEF RoundInv, InflightStates
<1>10. Judged'
  <2>1. ASSUME NEW u \in Tasks, NEW i \in accepted'[u]
        PROVE  attempts'[i].status = "accepted" /\ attempts'[i].answer = "good"
    <3>1. i \in accepted[u]
      BY <1>2, <2>1
    <3> QED
      BY <1>1, <3>1 DEF RoundInv, Judged
  <2>2. ASSUME NEW u \in Tasks, InRound(u)', NEW i \in rejected'[u]
        PROVE  attempts'[i].status = "rejected" /\ attempts'[i].answer = "bad"
    <3>1. u # t
      BY <1>5, <2>2 DEF InRound
    <3>2. InRound(u) /\ i \in rejected[u] /\ i \in Indices
      BY <1>2, <1>3, <2>2, <3>1 DEF InRound
    <3>3. attempts'[i] = attempts[i]
      BY <1>1, <3>1, <3>2 DEF RoundInv, Owned
    <3> QED
      BY <3>2, <3>3 DEF RoundInv, Judged
  <2> QED
    BY <2>1, <2>2 DEF Judged
<1>11. NothingLeft'
  BY <1>2 DEF RoundInv, NothingLeft
<1>12. BatchReturned'
  BY <1>2, <1>6 DEF BatchReturned
<1>13. Needed'
  <2> SUFFICES ASSUME NEW u \in Tasks, InRound(u)'
               PROVE  need'[u] >= 1
    BY DEF Needed
  <2>1. CASE u = t
    BY <1>5, <2>1 DEF InRound
  <2>2. CASE u # t
    BY <1>2, <2>2 DEF RoundInv, Needed, InRound
  <2> QED
    BY <2>1, <2>2
<1> QED
  BY <1>7, <1>8, <1>9, <1>10, <1>11, <1>12, <1>13 DEF RoundInv

\* No round has begun.
LEMMA RoundStarts == Init => RoundInv
BY SchedulerAssumption DEF Init, RoundInv, Owned, OutIsInflight, InflightStates, Judged, NothingLeft,
   BatchReturned, Needed, InRound, Indices

\* The locals of run_task and the states of the attempts agree.
THEOREM RoundInductive == Spec => []RoundInv
<1>1. TypeOK /\ TypeOK' /\ IdInv /\ RoundInv /\ [Next]_vars => RoundInv'
  BY Kinds, QuietKeepsRound, BeginKeepsRound, WireKeepsRound, WorkKeepsRound, CloseKeepsRound
<1> QED
  BY <1>1, RoundStarts, TypeCorrect, IdsInductive, PTL DEF Spec

\* A verdict is final although two coroutines write it: the dispatch writes only
\* while the attempt is out, run_task judges only what has come back, and gives
\* up only what has not.
THEOREM VerdictsAreFinal == Spec => VerdictIsFinal
<1> DEFINE Final == \A i \in Indices :
                      attempts[i].status # "dispatched" =>
                        \/ attempts'[i].status = attempts[i].status
                        \/ attempts[i].status = "rejected" /\ attempts'[i].status = "degraded"
<1>1. TypeOK /\ TypeOK' /\ IdInv /\ RoundInv /\ [Next]_vars => Final
  <2> SUFFICES ASSUME TypeOK, TypeOK', IdInv, RoundInv, [Next]_vars,
                      NEW i \in Indices, attempts[i].status # "dispatched"
               PROVE  \/ attempts'[i].status = attempts[i].status
                      \/ attempts[i].status = "rejected" /\ attempts'[i].status = "degraded"
    OBVIOUS
  <2>1. CASE Quiet \/ \E t \in Tasks : Begin(t)
    BY <2>1 DEF Quiet, Begin
  <2>2. CASE Wire
    <3>1. attempts[i].stage \notin {"queued", "sent"} /\ Wired(attempts[i], attempts'[i])
      BY <2>2 DEF RoundInv, OutIsInflight, Wire
    <3> QED
      BY <3>1 DEF Wired
  <2>3. ASSUME NEW t \in Tasks, NEW gone \in SUBSET Indices, Work(t, gone)
        PROVE  attempts'[i].status = attempts[i].status
    <3>1. IF i \in gone THEN JudgedTo(attempts[i], attempts'[i]) ELSE attempts'[i] = attempts[i]
      BY <2>3 DEF Work, Judge
    <3> QED
      BY <3>1 DEF JudgedTo
  <2>4. ASSUME NEW t \in Tasks, Close(t)
        PROVE  \/ attempts'[i].status = attempts[i].status
               \/ attempts[i].status = "rejected" /\ attempts'[i].status = "degraded"
    <3>1. ClosedTo(t, i) /\ InRound(t)
      BY <2>4 DEF Close
    <3>2. i \notin inflight[t]
      BY <2>4, SchedulerAssumption DEF RoundInv, BatchReturned, InflightStates, OutIsInflight, Close
    <3>3. i \in rejected[t] => attempts[i].status = "rejected"
      BY <3>1 DEF RoundInv, Judged
    <3> QED
      BY <3>1, <3>2, <3>3 DEF ClosedTo
  <2> QED
    BY <2>1, <2>2, <2>3, <2>4, Kinds
<1> HIDE DEF Final
<1>2. [Final]_attempts <=> [\A i \in Indices :
                              attempts[i].status # "dispatched" =>
                                \/ attempts'[i].status = attempts[i].status
                                \/ attempts[i].status = "rejected" /\ attempts'[i].status = "degraded"]_attempts
  BY DEF Final
<1> QED
  BY <1>1, <1>2, RoundInductive, TypeCorrect, IdsInductive, PTL DEF Spec, VerdictIsFinal

-----------------------------------------------------------------------------
(* Load *)

\* The attempts in flight on a node.
Flying(n) == {i \in UNION {inflight[t] : t \in Tasks} : attempts[i].node = n}

\* What flies on a node, member by member.
LEMMA FlyingMember ==
  ASSUME NEW n
  PROVE  /\ \A i : i \in Flying(n) <=> (\E t \in Tasks : i \in inflight[t]) /\ attempts[i].node = n
         /\ \A i : i \in Flying(n)' <=> (\E t \in Tasks : i \in inflight'[t]) /\ attempts'[i].node = n
BY DEF Flying

\* Finitely many attempts fly on a node.
LEMMA FlyingFinite ==
  ASSUME TypeOK, NEW n
  PROVE  /\ IsFiniteSet(Flying(n)) /\ Cardinality(Flying(n)) \in Nat
         /\ Flying(n) \subseteq Indices
<1>1. Flying(n) \subseteq Indices /\ IsFiniteSet(Indices)
  BY Typed, FS_Interval DEF Flying
<1> QED
  BY <1>1, FS_Subset, FS_CardinalityType

\* The same attempts in flight, with the same nodes.
LEMMA FlyingSame ==
  ASSUME TypeOK, LoadExact, load' = load, inflight' = inflight,
         \A i \in Indices : attempts'[i].node = attempts[i].node
  PROVE  LoadExact'
<1>1. ASSUME NEW n \in Nodes
      PROVE  Flying(n)' = Flying(n)
  <2>1. \A t \in Tasks : inflight[t] \subseteq Indices
    BY Typed
  <2> QED
    BY <2>1 DEF Flying
<1> QED
  BY <1>1 DEF LoadExact, Flying

\* Taking an attempt out of flight gives its node one back.
LEMMA FlyingLess ==
  ASSUME TypeOK, RoundInv, LoadExact, NEW n \in Nodes, NEW t \in Tasks, NEW gone \in SUBSET Indices,
         gone = {} \/ \E i \in Indices : gone = {i}, gone \subseteq inflight[t]
  PROVE  /\ IsFiniteSet(Flying(n) \ gone)
         /\ Freed(gone)[n] = Cardinality(Flying(n) \ gone)
<1>1. load[n] = Cardinality(Flying(n)) /\ IsFiniteSet(Flying(n))
  BY FlyingFinite DEF LoadExact, Flying
<1>2. CASE \A i \in gone : attempts[i].node # n
  <2>1. Flying(n) \ gone = Flying(n)
    BY <1>2 DEF Flying
  <2>2. Freed(gone)[n] = load[n]
    BY <1>2 DEF Freed
  <2> QED
    BY <1>1, <2>1, <2>2
<1>3. ASSUME NEW i \in gone, attempts[i].node = n
      PROVE  /\ IsFiniteSet(Flying(n) \ gone)
             /\ Freed(gone)[n] = Cardinality(Flying(n) \ gone)
  <2>1. gone = {i} /\ i \in Flying(n)
    BY <1>3 DEF Flying
  <2>2. Freed(gone)[n] = load[n] - 1
    BY <1>3 DEF Freed
  <2> QED
    BY <1>1, <2>1, <2>2, FS_RemoveElement
<1> QED
  BY <1>2, <1>3

\* Work adds to a node's load what it launches there and frees what has come back.
LEMMA WorkKeepsLoad ==
  ASSUME TypeOK, TypeOK', RoundInv, LoadExact, NEW t \in Tasks, NEW gone \in SUBSET Indices, Work(t, gone)
  PROVE  LoadExact'
<1> SUFFICES ASSUME NEW n \in Nodes
             PROVE  load'[n] = Cardinality(Flying(n)')
  BY DEF LoadExact, Flying
<1> DEFINE S == Flying(n) \ gone
<1>1. IsFiniteSet(S) /\ Freed(gone)[n] = Cardinality(S)
  BY FlyingLess DEF Work
<1>2. /\ \A i \in Indices : attempts'[i].node = attempts[i].node
      /\ \A u \in Tasks : inflight[u] \subseteq Indices
      /\ \A u \in Tasks : u # t => \A i \in gone : i \notin inflight[u]
  <2>1. \A i \in gone : attempts[i].task = t
    BY DEF Work, RoundInv, Owned
  <2>2. \A u \in Tasks : \A i \in inflight[u] : attempts[i].task = u
    BY DEF RoundInv, Owned
  <2>3. \A i \in Indices : Same(attempts[i], attempts'[i])
    BY WorkPoints DEF WorkOnAttempts
  <2> QED
    BY <2>1, <2>2, <2>3, Typed DEF Same
<1>3. CASE AddsNone(t, gone)
  <2>1. \A u \in Tasks : inflight'[u] = IF u = t THEN inflight[u] \ gone ELSE inflight[u]
    BY <1>3 DEF AddsNone, TypeOK
  <2>2. \A i : i \in Flying(n)' <=> i \in S
    <3>1. \A i : (\E u \in Tasks : i \in inflight'[u]) <=> (\E u \in Tasks : i \in inflight[u]) /\ i \notin gone
      BY <1>2, <2>1
    <3>2. \A i : (\E u \in Tasks : i \in inflight[u]) => attempts'[i].node = attempts[i].node
      BY <1>2
    <3> QED
      BY <3>1, <3>2, FlyingMember
  <2>3. Flying(n)' = S
    BY <2>2
  <2> QED
    BY <1>1, <1>3, <2>3 DEF AddsNone
<1>4. ASSUME NEW o \in Offers, NEW why \in Reasons, Adds(t, gone, o, why)
      PROVE  load'[n] = Cardinality(Flying(n)')
  <2> DEFINE new == Len(attempts) + 1
  <2>1. \A u \in Tasks : inflight'[u] = IF u = t THEN (inflight[u] \ gone) \cup {new} ELSE inflight[u]
    BY <1>4 DEF Adds, TypeOK
  <2>2. attempts'[new].node = o[1] /\ o[1] \in Nodes
    BY <1>4, SchedulerAssumption DEF Adds, NewAttempt
  <2>3. new \notin Indices /\ S \subseteq Indices
    BY Typed, FlyingFinite
  <2> HIDE DEF new
  <2>4. Flying(n)' = S \cup (IF o[1] = n THEN {new} ELSE {})
    <3>1. \A i : (\E u \in Tasks : i \in inflight'[u]) <=>
                   \/ (\E u \in Tasks : i \in inflight[u]) /\ i \notin gone
                   \/ i = new
      BY <1>2, <2>1, <2>3
    <3>2. \A i : (\E u \in Tasks : i \in inflight[u]) => attempts'[i].node = attempts[i].node /\ i # new
      BY <1>2, <2>3
    <3>3. \A i : i \in Flying(n)' <=> i \in S \/ (i = new /\ o[1] = n)
      BY <2>2, <3>1, <3>2, FlyingMember
    <3> HIDE DEF S
    <3> QED
      BY <3>3
  <2>5. load'[n] = Freed(gone)[n] + (IF o[1] = n THEN 1 ELSE 0)
    <3>1. Freed(gone)[n] \in Int
      BY <1>1, FS_CardinalityType
    <3> QED
      BY <1>4, <2>2, <3>1 DEF Adds, Freed
  <2>6. CASE o[1] = n
    <3>1. Cardinality(S \cup {new}) = Cardinality(S) + 1
      BY <1>1, <2>3, FS_AddElement
    <3> QED
      BY <1>1, <2>4, <2>5, <2>6, <3>1
  <2>7. CASE o[1] # n
    <3>1. Flying(n)' = S
      BY <2>4, <2>7
    <3>2. load'[n] = Freed(gone)[n]
      BY <1>1, <2>5, <2>7, FS_CardinalityType
    <3> QED
      BY <1>1, <3>1, <3>2
  <2> QED
    BY <2>6, <2>7
<1> QED
  BY <1>3, <1>4 DEF Work

\* A round that closes frees a place for each attempt it gives up.
LEMMA CloseKeepsLoad ==
  ASSUME TypeOK, TypeOK', RoundInv, LoadExact, NEW t \in Tasks, Close(t)
  PROVE  LoadExact'
<1> SUFFICES ASSUME NEW n \in Nodes
             PROVE  load'[n] = Cardinality(Flying(n)')
  BY DEF LoadExact, Flying
<1> DEFINE T == {i \in inflight[t] : attempts[i].node = n}
<1>1. load[n] = Cardinality(Flying(n)) /\ IsFiniteSet(Flying(n))
  BY FlyingFinite DEF LoadExact, Flying
<1>2. load'[n] = load[n] - Cardinality(T)
  BY DEF Close
<1>3. /\ \A i \in Indices : attempts'[i].node = attempts[i].node
      /\ \A u \in Tasks : inflight'[u] = IF u = t THEN {} ELSE inflight[u]
      /\ \A u \in Tasks : inflight[u] \subseteq Indices
  BY ClosePoints, Typed DEF ClosedTo, Same
<1>4. \A u \in Tasks : u # t => inflight[u] \cap inflight[t] = {}
  BY DEF RoundInv, Owned
<1>5. Flying(n)' = Flying(n) \ T
  BY <1>3, <1>4 DEF Flying
<1>6. T \subseteq Flying(n)
  BY DEF Flying
<1> HIDE DEF T
<1>7. Cardinality(Flying(n) \ T) = Cardinality(Flying(n)) - Cardinality(T)
  <2>1. Flying(n) \cap T = T
    BY <1>6
  <2> QED
    BY <1>1, <2>1, FS_Difference
<1> QED
  BY <1>1, <1>2, <1>5, <1>7

\* The load _select ranks by and the free-slot test reads is at every moment
\* the number of attempts in flight on the node, through launches, verdicts,
\* cancellations as slow, stops and lost sessions.
THEOREM LoadAlwaysExact == Spec => []LoadExact
<1>1. Init => LoadExact
  <2> SUFFICES ASSUME Init, NEW n \in Nodes
               PROVE  load[n] = Cardinality(Flying(n))
    BY DEF LoadExact, Flying
  <2>1. Flying(n) = {} /\ load[n] = 0
    BY DEF Init, Flying
  <2> QED
    BY <2>1, FS_EmptySet
<1>2. TypeOK /\ TypeOK' /\ IdInv /\ RoundInv /\ LoadExact /\ [Next]_vars => LoadExact'
  <2> SUFFICES ASSUME TypeOK, TypeOK', IdInv, RoundInv, LoadExact, [Next]_vars
               PROVE  LoadExact'
    OBVIOUS
  <2>1. CASE Quiet
    BY <2>1, FlyingSame DEF Quiet, locals
  <2>2. CASE Wire
    BY <2>2, FlyingSame DEF Wire, locals, Wired, Same
  <2>3. ASSUME NEW t \in Tasks, Begin(t)
        PROVE  LoadExact'
    <3>1. inflight' = inflight
      BY <2>3 DEF Begin, TypeOK, RoundInv, NothingLeft
    <3> QED
      BY <2>3, <3>1, FlyingSame DEF Begin
  <2> QED
    BY <2>1, <2>2, <2>3, Kinds, WorkKeepsLoad, CloseKeepsLoad
<1> QED
  BY <1>1, <1>2, RoundInductive, TypeCorrect, IdsInductive, PTL DEF Spec

-----------------------------------------------------------------------------
(* The ceiling *)

CeilingOf(t) ==
  /\ Cardinality(First(t)) <= KMax /\ Cardinality(Tie(t)) <= 1
  /\ phase[t] = "running" =>
       number[t] <= KMax /\ ceiling[t] = KMax /\ Cardinality(First(t)) = number[t]
  /\ phase[t] \in {"waiting", "spawned", "running"} => Tie(t) = {}
  /\ phase[t] = "tie" =>
       \/ /\ Tie(t) = {} /\ turn = t /\ batch = {} /\ inflight[t] = {}
          /\ ceiling[t] <= number[t] + 1
       \/ Cardinality(Tie(t)) = 1 /\ number[t] >= ceiling[t]

\* The ceiling is an invariant of each task.
LEMMA CeilingOfAll ==
  /\ CeilingInv /\ WithinCeiling <=> \A t \in Tasks : CeilingOf(t)
  /\ (CeilingInv /\ WithinCeiling)' <=> \A t \in Tasks : CeilingOf(t)'
BY DEF CeilingInv, WithinCeiling, CeilingOf, First, FirstRound, Tie

\* A round of a task has finitely many attempts.
LEMMA AttemptsOfFinite ==
  ASSUME TypeOK, NEW t, NEW R
  PROVE  /\ IsFiniteSet(AttemptsOf(t, R)) /\ Cardinality(AttemptsOf(t, R)) \in Nat
         /\ AttemptsOf(t, R) \subseteq Indices
<1>1. AttemptsOf(t, R) \subseteq Indices /\ IsFiniteSet(Indices)
  BY Typed, FS_Interval DEF AttemptsOf
<1> QED
  BY <1>1, FS_Subset, FS_CardinalityType

\* A step that launches nothing leaves each task its attempts.
LEMMA AttemptsOfSame ==
  ASSUME Indices' = Indices, \A i \in Indices : Same(attempts[i], attempts'[i]), NEW t, NEW R
  PROVE  AttemptsOf(t, R)' = AttemptsOf(t, R)
BY DEF AttemptsOf, Same

\* A launch gives one to its task.
LEMMA AttemptsOfMore ==
  ASSUME TypeOK, TypeOK', RoundInv, NEW t \in Tasks, NEW gone \in SUBSET Indices, Work(t, gone),
         NEW o \in Offers, NEW why \in Reasons, Adds(t, gone, o, why), NEW u, NEW R
  PROVE  /\ AttemptsOf(u, R)' = AttemptsOf(u, R) \cup (IF u = t /\ why \in R THEN {Len(attempts) + 1} ELSE {})
         /\ Len(attempts) + 1 \notin AttemptsOf(u, R)
         /\ Indices' = Indices \cup {Len(attempts) + 1}
<1> DEFINE new == Len(attempts) + 1
<1>1. new \notin Indices /\ Indices' = Indices \cup {new}
  <2>1. Len(attempts) \in Nat /\ Indices = 1..Len(attempts) /\ Indices' = 1..Len(attempts')
    BY Typed, TypedNext
  <2> QED
    BY <2>1 DEF Adds
<1>2. attempts'[new].task = t /\ attempts'[new].reason = why
  BY DEF Adds, NewAttempt
<1>3. \A i \in Indices : Same(attempts[i], attempts'[i])
  BY WorkPoints DEF WorkOnAttempts
<1> HIDE DEF new
<1>4. \A i : i \in AttemptsOf(u, R)' <=> i \in AttemptsOf(u, R) \/ (i = new /\ u = t /\ why \in R)
  BY <1>1, <1>2, <1>3 DEF AttemptsOf, Same
<1>5. AttemptsOf(u, R)' = AttemptsOf(u, R) \cup (IF u = t /\ why \in R THEN {new} ELSE {})
  BY <1>4
<1>6. new \notin AttemptsOf(u, R)
  BY <1>1 DEF AttemptsOf
<1> QED
  BY <1>1, <1>5, <1>6 DEF new

\* A task whose attempts, numbers and place in the round are as they were.
LEMMA CeilingSame ==
  ASSUME NEW t \in Tasks, CeilingOf(t), First(t)' = First(t), Tie(t)' = Tie(t),
         \/ phase'[t] \notin {"waiting", "spawned", "running", "tie"}
         \/ /\ phase'[t] = phase[t] \/ (phase[t] = "waiting" /\ phase'[t] = "spawned")
            /\ number'[t] = number[t] /\ ceiling'[t] = ceiling[t]
            /\ \/ phase[t] # "tie" \/ turn # t \/ batch # {} \/ inflight[t] # {}
               \/ turn' = t /\ batch' = {} /\ inflight'[t] = {}
  PROVE  CeilingOf(t)'
BY DEF CeilingOf

\* A quiet step launches nothing.
LEMMA QuietKeepsCeiling ==
  ASSUME TypeOK, Quiet, NEW t \in Tasks, CeilingOf(t)
  PROVE  CeilingOf(t)'
<1>1. UNCHANGED <<attempts, number, ceiling, inflight>> /\ Indices' = Indices
  BY DEF Quiet, locals, Indices
<1>2. First(t)' = First(t) /\ Tie(t)' = Tie(t)
  BY <1>1 DEF First, Tie, AttemptsOf, FirstRound
<1>3. \/ phase'[t] \notin {"waiting", "spawned", "running", "tie"}
      \/ phase'[t] = phase[t] \/ (phase[t] = "waiting" /\ phase'[t] = "spawned")
  BY DEF Quiet, PhaseMoves
<1>4. turn = t /\ batch = {} /\ inflight[t] = {} => turn' = t /\ batch' = {} /\ inflight'[t] = {}
  BY <1>1, SchedulerAssumption DEF Quiet
<1> QED
  BY <1>1, <1>2, <1>3, <1>4, CeilingSame

\* Nor does one of a dispatch.
LEMMA WireKeepsCeiling ==
  ASSUME TypeOK, TypeOK', Wire, NEW t \in Tasks, CeilingOf(t)
  PROVE  CeilingOf(t)'
<1>1. UNCHANGED <<phase, number, ceiling>> /\ turn # t
  BY SchedulerAssumption DEF Wire, locals
<1>2. Indices' = Indices /\ \A i \in Indices : Same(attempts[i], attempts'[i])
  BY Typed, TypedNext DEF Wire, Wired
<1>3. First(t)' = First(t) /\ Tie(t)' = Tie(t)
  BY <1>2, AttemptsOfSame DEF First, Tie, FirstRound
<1> QED
  BY <1>1, <1>3, CeilingSame

\* A round that begins counts from no attempt of its own.
LEMMA BeginKeepsCeiling ==
  ASSUME TypeOK, IdInv, NEW u \in Tasks, Begin(u), NEW t \in Tasks, CeilingOf(t)
  PROVE  CeilingOf(t)'
<1>1. attempts' = attempts /\ Indices' = Indices /\ turn # t
  BY SchedulerAssumption DEF Begin, Indices
<1>2. First(t)' = First(t) /\ Tie(t)' = Tie(t)
  BY <1>1 DEF First, Tie, AttemptsOf, FirstRound
<1>3. CASE t # u
  <2>1. phase'[t] = phase[t] /\ number'[t] = number[t] /\ ceiling'[t] = ceiling[t]
    BY <1>3 DEF Begin, Enter, TypeOK
  <2> QED
    BY <1>1, <1>2, <2>1, CeilingSame
<1>4. CASE t = u
  <2>1. phase[t] = "spawned" /\ phase'[t] = "running" /\ number'[t] = 0 /\ ceiling'[t] = KMax
    BY <1>4 DEF Begin, Enter, TypeOK
  <2>2. First(t) = {} /\ Tie(t) = {}
    BY <2>1 DEF IdInv, NoEarlyAttempt, First, Tie, AttemptsOf
  <2>3. Cardinality(First(t)') = 0 /\ Cardinality(Tie(t)') = 0 /\ Tie(t)' = {}
    BY <1>2, <2>2, FS_EmptySet
  <2> QED
    BY <2>1, <2>3, SchedulerAssumption DEF CeilingOf
<1> QED
  BY <1>3, <1>4

\* A round launches one attempt at a time, and below its ceiling only.
LEMMA WorkKeepsCeiling ==
  ASSUME TypeOK, TypeOK', RoundInv, NEW u \in Tasks, NEW gone \in SUBSET Indices, Work(u, gone),
         NEW t \in Tasks, CeilingOf(t)
  PROVE  CeilingOf(t)'
<1>1. /\ phase' = phase /\ turn' = turn /\ batch' = batch \ gone /\ ceiling' = ceiling
      /\ gone \subseteq batch /\ gone \subseteq inflight[u]
  BY DEF Work
<1>2. CASE AddsNone(u, gone)
  <2>1. number' = number /\ Indices' = Indices
    BY <1>2, Typed, TypedNext DEF AddsNone
  <2>2. \A i \in Indices : Same(attempts[i], attempts'[i])
    BY WorkPoints DEF WorkOnAttempts
  <2>3. First(t)' = First(t) /\ Tie(t)' = Tie(t)
    BY <2>1, <2>2, AttemptsOfSame DEF First, Tie, FirstRound
  <2>4. inflight'[t] = IF t = u THEN inflight[t] \ gone ELSE inflight[t]
    BY <1>2 DEF AddsNone, TypeOK
  <2>5. turn = t /\ batch = {} /\ inflight[t] = {} => turn' = t /\ batch' = {} /\ inflight'[t] = {}
    BY <1>1, <2>4
  <2> QED
    BY <1>1, <2>1, <2>3, <2>5, CeilingSame
<1>3. ASSUME NEW o \in Offers, NEW why \in Reasons, Adds(u, gone, o, why)
      PROVE  CeilingOf(t)'
  <2> DEFINE new == Len(attempts) + 1
             F == IF t = u /\ why \in FirstRound THEN {new} ELSE {}
             E == IF t = u /\ why \in {"tie_break"} THEN {new} ELSE {}
  <2>1. /\ First(t)' = First(t) \cup F /\ new \notin First(t)
        /\ Tie(t)' = Tie(t) \cup E /\ new \notin Tie(t)
    BY <1>3, AttemptsOfMore DEF First, Tie, FirstRound
  <2>2. CASE t # u
    <3>1. First(t)' = First(t) /\ Tie(t)' = Tie(t)
      BY <2>1, <2>2
    <3>2. number'[t] = number[t] /\ inflight'[t] = inflight[t]
      BY <1>3, <2>2 DEF Adds, TypeOK
    <3>3. turn = t /\ batch = {} /\ inflight[t] = {} => turn' = t /\ batch' = {} /\ inflight'[t] = {}
      BY <1>1, <3>2
    <3> QED
      BY <1>1, <3>1, <3>2, <3>3, CeilingSame
  <2>3. CASE t = u
    <3>1. /\ IsFiniteSet(First(t)) /\ Cardinality(First(t)) \in Nat
          /\ IsFiniteSet(Tie(t)) /\ Cardinality(Tie(t)) \in Nat
      BY AttemptsOfFinite DEF First, Tie
    <3>2. number'[t] = number[t] + 1 /\ number[t] < ceiling[t] /\ number[t] \in Nat /\ ceiling[t] \in Nat
      BY <1>3, <2>3, Typed DEF Adds, TypeOK
    <3>3. phase[t] \in {"running", "tie"}
      BY <2>3 DEF Work, InRound
    <3>4. CASE phase[t] = "running"
      <4>1. why \in FirstRound
        BY <1>3, <2>3, <3>4 DEF Adds, FirstRound
      <4>2. First(t)' = First(t) \cup {new} /\ Tie(t)' = Tie(t)
        BY <2>1, <2>3, <4>1 DEF FirstRound
      <4>3. Cardinality(First(t)') = Cardinality(First(t)) + 1
        BY <2>1, <3>1, <4>2, FS_AddElement
      <4> QED
        BY <1>1, <3>1, <3>2, <3>4, <4>2, <4>3, SchedulerAssumption DEF CeilingOf
    <3>5. CASE phase[t] = "tie"
      <4>1. /\ Tie(t) = {} /\ turn = t /\ batch = {} /\ ceiling[t] <= number[t] + 1
        BY <3>2, <3>5 DEF CeilingOf
      <4>2. why = "tie_break"
        BY <1>1, <1>3, <2>3, <3>5, <4>1, SchedulerAssumption DEF Adds
      <4>3. First(t)' = First(t) /\ Tie(t)' = {new}
        BY <2>1, <2>3, <4>1, <4>2 DEF FirstRound
      <4>4. Cardinality(Tie(t)') = 1
        BY <4>3, FS_Singleton
      <4> QED
        BY <1>1, <3>2, <3>5, <4>1, <4>3, <4>4 DEF CeilingOf
    <3> QED
      BY <3>3, <3>4, <3>5
  <2> QED
    BY <2>2, <2>3
<1> QED
  BY <1>2, <1>3 DEF Work

\* A round that closes launches nothing more.
LEMMA CloseKeepsCeiling ==
  ASSUME TypeOK, TypeOK', RoundInv, NEW u \in Tasks, Close(u), NEW t \in Tasks, CeilingOf(t)
  PROVE  CeilingOf(t)'
<1>1. First(t)' = First(t) /\ Tie(t)' = Tie(t)
  <2>1. Indices' = Indices /\ \A i \in Indices : Same(attempts[i], attempts'[i])
    BY ClosePoints DEF ClosedTo
  <2> QED
    BY <2>1, AttemptsOfSame DEF First, Tie, FirstRound
<1>2. CASE t # u
  <2>1. phase'[t] = phase[t] /\ number'[t] = number[t] /\ ceiling'[t] = ceiling[t] /\ turn # t
    BY <1>2, ClosePoints DEF Close
  <2> QED
    BY <1>1, <2>1, CeilingSame
<1>3. CASE t = u /\ (EndsFirst(t) \/ EndsTie(t))
  <2>1. phase'[t] \notin {"waiting", "spawned", "running", "tie"}
    BY <1>3 DEF EndsFirst, EndsTie, TypeOK
  <2> QED
    BY <1>1, <2>1, CeilingSame
<1>4. CASE t = u /\ Splits(t)
  <2>1. /\ phase[t] = "running" /\ phase'[t] = "tie" /\ turn' = t /\ batch' = {}
        /\ number'[t] = Len(attempts) /\ ceiling'[t] = Len(attempts) + 1 /\ Len(attempts) \in Nat
    BY <1>4 DEF Splits, Enter, TypeOK
  <2>2. inflight'[t] = {}
    BY <1>4, ClosePoints
  <2> QED
    BY <1>1, <2>1, <2>2 DEF CeilingOf
<1> QED
  BY <1>2, <1>3, <1>4 DEF Close

\* The first round counts what it launches, and the second launches at most once.
THEOREM CeilingInductive == Spec => [](CeilingInv /\ WithinCeiling)
<1>1. Init => \A t \in Tasks : CeilingOf(t)
  <2> SUFFICES ASSUME Init, NEW t \in Tasks
               PROVE  CeilingOf(t)
    OBVIOUS
  <2>1. First(t) = {} /\ Tie(t) = {} /\ phase[t] = "waiting"
    BY DEF Init, First, Tie, AttemptsOf, Indices
  <2>2. Cardinality(First(t)) = 0 /\ Cardinality(Tie(t)) = 0
    BY <2>1, FS_EmptySet
  <2> QED
    BY <2>1, <2>2, SchedulerAssumption DEF CeilingOf
<1>2. TypeOK /\ TypeOK' /\ IdInv /\ RoundInv /\ (\A t \in Tasks : CeilingOf(t)) /\ [Next]_vars
        => \A t \in Tasks : CeilingOf(t)'
  BY Kinds, QuietKeepsCeiling, WireKeepsCeiling, BeginKeepsCeiling, WorkKeepsCeiling, CloseKeepsCeiling
<1>3. TypeOK /\ TypeOK' /\ IdInv /\ RoundInv /\ CeilingInv /\ WithinCeiling /\ [Next]_vars
        => (CeilingInv /\ WithinCeiling)'
  BY <1>2, CeilingOfAll
<1>4. Init => CeilingInv /\ WithinCeiling
  BY <1>1, CeilingOfAll
<1> QED
  BY <1>3, <1>4, RoundInductive, TypeCorrect, IdsInductive, PTL DEF Spec

\* Hedges, retries and initial replicas of a task together never exceed k_max,
\* and at most one attempt breaks a tie, whatever fails and however many of them
\* are dropped, rejected or cancelled.
THEOREM AlwaysWithinCeiling == Spec => []WithinCeiling
BY CeilingInductive, PTL

-----------------------------------------------------------------------------
(* Distinct pairs *)

PairsOf(t) ==
  /\ \A i, j \in First(t) : Pair(i) = Pair(j) => i = j
  /\ \A i, j \in replicas[t] \ {LocalReplica} :
        i # j /\ attempts[i].reason = "tie_break" => Pair(i) # ReportedPair(j)
  /\ \A i \in replicas[t] \ {LocalReplica} : attempts[i].stage \notin {"queued", "sent"}
  /\ phase[t] = "running" => \A i \in First(t) : Pair(i) \in used[t]
  /\ phase[t] = "tie" =>
       /\ \A i \in replicas[t] : i \in First(t) /\ ReportedPair(i) \in used[t]
       /\ \A i \in inflight[t] \cup accepted[t] \cup rejected[t] : attempts[i].reason = "tie_break"
       /\ \A i \in Tie(t), j \in replicas[t] : Pair(i) # ReportedPair(j)

\* Distinct pairs are an invariant of each task.
LEMMA PairsOfAll ==
  /\ PairInv /\ DistinctPairs <=> \A t \in Tasks : PairsOf(t)
  /\ (PairInv /\ DistinctPairs)' <=> \A t \in Tasks : PairsOf(t)'
<1>1. PairInv /\ DistinctPairs <=> \A t \in Tasks : PairsOf(t)
  BY DEF PairInv, DistinctPairs, PairsOf, First, FirstRound
<1>2. (PairInv /\ DistinctPairs)' <=> \A t \in Tasks : PairsOf(t)'
  BY DEF PairInv, DistinctPairs, PairsOf, First, FirstRound
<1> QED
  BY <1>1, <1>2

\* An attempt keeps the pair it was asked of, and the one it reported.
LEMMA PairSame ==
  ASSUME NEW i \in Indices, Same(attempts[i], attempts'[i])
  PROVE  /\ Pair(i)' = Pair(i)
         /\ attempts[i].stage \notin {"queued", "sent"} =>
              ReportedPair(i)' = ReportedPair(i) /\ attempts'[i].stage \notin {"queued", "sent"}
BY DEF Pair, ReportedPair, Same

\* Replicas are attempts, or the requester's own answer.
LEMMA ReplicasTyped ==
  ASSUME TypeOK, NEW t \in Tasks
  PROVE  replicas[t] \ {LocalReplica} \subseteq Indices
BY DEF TypeOK

\* This device's answer is no attempt.
LEMMA NotLocal == TypeOK => LocalReplica \notin Indices
BY Typed DEF LocalReplica

\* A task of which only locals move, and its round goes on or is over.
LEMMA PairsSame ==
  ASSUME TypeOK, NEW t \in Tasks, PairsOf(t), First(t)' = First(t), Tie(t)' = Tie(t),
         \A i \in Indices : Same(attempts[i], attempts'[i]),
         replicas'[t] = replicas[t] \/ (replicas'[t] = {LocalReplica} /\ phase'[t] \notin {"running", "tie"}),
         \/ phase'[t] \notin {"running", "tie"}
         \/ /\ phase'[t] = phase[t] /\ used'[t] = used[t]
            /\ inflight'[t] \cup accepted'[t] \cup rejected'[t]
                 \subseteq inflight[t] \cup accepted[t] \cup rejected[t]
  PROVE  PairsOf(t)'
<1>1. First(t) \subseteq Indices /\ Tie(t) \subseteq Indices /\ replicas[t] \ {LocalReplica} \subseteq Indices
  BY ReplicasTyped DEF First, Tie, AttemptsOf
<1>2. \A i \in Indices : Pair(i)' = Pair(i) /\ attempts'[i].task = attempts[i].task
                         /\ attempts'[i].reason = attempts[i].reason
  BY PairSame DEF Same
<1>3. inflight[t] \cup accepted[t] \cup rejected[t] \subseteq Indices
  BY Typed
<1>4. \A i, j \in First(t)' : Pair(i)' = Pair(j)' => i = j
  BY <1>1, <1>2 DEF PairsOf
<1>5. \A i \in replicas[t] \ {LocalReplica} :
         ReportedPair(i)' = ReportedPair(i) /\ attempts'[i].stage \notin {"queued", "sent"}
  BY <1>1, PairSame DEF PairsOf
<1>5a. /\ \A i, j \in replicas'[t] \ {LocalReplica} :
            i # j /\ attempts'[i].reason = "tie_break" => Pair(i)' # ReportedPair(j)'
       /\ \A i \in replicas'[t] \ {LocalReplica} : attempts'[i].stage \notin {"queued", "sent"}
  <2>1. replicas'[t] \ {LocalReplica} \subseteq replicas[t] \ {LocalReplica}
    OBVIOUS
  <2> QED
    BY <1>1, <1>2, <1>5, <2>1 DEF PairsOf
<1>6. phase'[t] = "running" => \A i \in First(t)' : Pair(i)' \in used'[t]
  BY <1>1, <1>2 DEF PairsOf
<1>7. ASSUME phase'[t] = "tie"
      PROVE  /\ \A i \in replicas'[t] : i \in First(t)' /\ ReportedPair(i)' \in used'[t]
             /\ \A i \in inflight'[t] \cup accepted'[t] \cup rejected'[t] : attempts'[i].reason = "tie_break"
             /\ \A i \in Tie(t)', j \in replicas'[t] : Pair(i)' # ReportedPair(j)'
  <2>1. /\ phase[t] = "tie" /\ used'[t] = used[t] /\ replicas'[t] = replicas[t]
        /\ \A i \in replicas[t] : i # LocalReplica /\ i \in Indices
    BY <1>1, <1>7, NotLocal DEF PairsOf
  <2>2. \A i \in replicas'[t] : i \in First(t)' /\ ReportedPair(i)' \in used'[t]
    BY <1>5, <2>1 DEF PairsOf
  <2>3. \A i \in inflight'[t] \cup accepted'[t] \cup rejected'[t] : attempts'[i].reason = "tie_break"
    BY <1>2, <1>3, <1>7, <2>1 DEF PairsOf
  <2>4. \A i \in Tie(t)', j \in replicas'[t] : Pair(i)' # ReportedPair(j)'
    BY <1>1, <1>2, <1>5, <2>1 DEF PairsOf
  <2> QED
    BY <2>2, <2>3, <2>4
<1> QED
  BY <1>4, <1>5a, <1>6, <1>7 DEF PairsOf

\* A quiet step uses no pair.
LEMMA QuietKeepsPairs ==
  ASSUME TypeOK, Quiet, NEW t \in Tasks, PairsOf(t)
  PROVE  PairsOf(t)'
<1>1. UNCHANGED <<attempts, used, inflight, accepted, rejected>> /\ Indices' = Indices
  BY DEF Quiet, locals, Indices
<1>2. First(t)' = First(t) /\ Tie(t)' = Tie(t)
  BY <1>1 DEF First, Tie, AttemptsOf, FirstRound
<1>3. \A i \in Indices : Same(attempts[i], attempts'[i])
  BY <1>1 DEF Same
<1>4. /\ replicas'[t] = replicas[t] \/ (replicas'[t] = {LocalReplica} /\ phase'[t] \notin {"running", "tie"})
      /\ phase'[t] \notin {"running", "tie"} \/ phase'[t] = phase[t]
  BY DEF Quiet, PhaseMoves
<1> QED
  BY <1>1, <1>2, <1>3, <1>4, PairsSame

\* Nor does one of a dispatch.
LEMMA WireKeepsPairs ==
  ASSUME TypeOK, TypeOK', Wire, NEW t \in Tasks, PairsOf(t)
  PROVE  PairsOf(t)'
<1>1. UNCHANGED <<phase, replicas, used, inflight, accepted, rejected>>
  BY DEF Wire, locals
<1>2. Indices' = Indices /\ \A i \in Indices : Same(attempts[i], attempts'[i])
  BY Typed, TypedNext DEF Wire, Wired
<1>3. First(t)' = First(t) /\ Tie(t)' = Tie(t)
  BY <1>2, AttemptsOfSame DEF First, Tie, FirstRound
<1> QED
  BY <1>1, <1>2, <1>3, PairsSame

\* A second round begins with the pairs of its replicas used.
LEMMA BeginKeepsPairs ==
  ASSUME TypeOK, IdInv, NEW u \in Tasks, Begin(u), NEW t \in Tasks, PairsOf(t)
  PROVE  PairsOf(t)'
<1>1. attempts' = attempts /\ Indices' = Indices /\ replicas' = replicas
  BY DEF Begin, Indices
<1>2. First(t)' = First(t) /\ Tie(t)' = Tie(t)
  BY <1>1 DEF First, Tie, AttemptsOf, FirstRound
<1>3. CASE t # u
  <2>1. /\ phase'[t] = phase[t] /\ used'[t] = used[t] /\ inflight'[t] = inflight[t]
        /\ accepted'[t] = accepted[t] /\ rejected'[t] = rejected[t]
    BY <1>3 DEF Begin, Enter, TypeOK
  <2>2. \A i \in Indices : Same(attempts[i], attempts'[i])
    BY <1>1 DEF Same
  <2> QED
    BY <1>1, <1>2, <2>1, <2>2, PairsSame
<1>4. CASE t = u
  <2>1. phase[t] = "spawned" /\ phase'[t] = "running"
    BY <1>4 DEF Begin, TypeOK
  <2>2. First(t) = {}
    BY <2>1 DEF IdInv, NoEarlyAttempt, First, AttemptsOf
  <2>3. \A i : Pair(i)' = Pair(i) /\ ReportedPair(i)' = ReportedPair(i)
    BY <1>1 DEF Pair, ReportedPair
  <2> QED
    BY <1>1, <1>2, <2>1, <2>2, <2>3 DEF PairsOf
<1> QED
  BY <1>3, <1>4

\* What a round launches takes a pair that is not used, and uses it.
LEMMA WorkKeepsPairs ==
  ASSUME TypeOK, TypeOK', RoundInv, NEW u \in Tasks, NEW gone \in SUBSET Indices, Work(u, gone),
         NEW t \in Tasks, CeilingOf(t), PairsOf(t)
  PROVE  PairsOf(t)'
<1>1. /\ phase' = phase /\ replicas' = replicas /\ gone \subseteq batch /\ gone \subseteq inflight[u]
  BY DEF Work
<1>2. /\ \A i \in Indices : Same(attempts[i], attempts'[i])
      /\ Indices \subseteq Indices'
  BY WorkPoints DEF WorkOnAttempts
<1>3. accepted'[t] \cup rejected'[t] \subseteq inflight[t] \cup accepted[t] \cup rejected[t]
  <2>1. /\ accepted'[t] = IF t = u THEN accepted[t] \cup {i \in gone : attempts'[i].status = "accepted"}
                          ELSE accepted[t]
        /\ rejected'[t] = IF t = u THEN rejected[t] \cup {i \in gone : attempts'[i].status = "rejected"}
                          ELSE rejected[t]
    BY WorkPoints DEF WorkOnLocals
  <2> QED
    BY <1>1, <2>1
<1>4. CASE AddsNone(u, gone)
  <2>1. used' = used /\ Indices' = Indices /\ inflight'[t] \subseteq inflight[t]
    BY <1>4, Typed, TypedNext DEF AddsNone, TypeOK
  <2>2. First(t)' = First(t) /\ Tie(t)' = Tie(t)
    BY <1>2, <2>1, AttemptsOfSame DEF First, Tie, FirstRound
  <2> QED
    BY <1>1, <1>2, <1>3, <2>1, <2>2, PairsSame
<1>5. ASSUME NEW o \in Offers, NEW why \in Reasons, Adds(u, gone, o, why)
      PROVE  PairsOf(t)'
  <2>0. PICK new : new = Len(attempts) + 1
    OBVIOUS
  <2> DEFINE F == IF t = u /\ why \in FirstRound THEN {new} ELSE {}
         E == IF t = u /\ why \in {"tie_break"} THEN {new} ELSE {}
  <2>1. /\ First(t)' = First(t) \cup F /\ new \notin First(t)
        /\ Tie(t)' = Tie(t) \cup E /\ new \notin Tie(t)
    BY <1>5, <2>0, AttemptsOfMore DEF First, Tie, FirstRound
  <2>2. CASE t # u
    <3>1. First(t)' = First(t) /\ Tie(t)' = Tie(t)
      BY <2>1, <2>2
    <3>2. used'[t] = used[t] /\ inflight'[t] = inflight[t]
      BY <1>5, <2>2 DEF Adds, TypeOK
    <3> QED
      BY <1>1, <1>2, <1>3, <3>1, <3>2, PairsSame
  <2>3. CASE t = u
    <3>1. /\ o \notin used[t] /\ used'[t] = used[t] \cup {o} /\ number[t] < ceiling[t]
          /\ inflight'[t] = (inflight[t] \ gone) \cup {new}
      BY <1>5, <2>0, <2>3 DEF Adds, TypeOK
    <3>2. Pair(new)' = o /\ attempts'[new].reason = why
      <4>1. attempts'[new] = NewAttempt(u, number[u], o, why)
        BY <1>5, <2>0 DEF Adds
      <4>2. o = <<o[1], o[2]>>
        BY SchedulerAssumption
      <4> QED
        BY <4>1, <4>2 DEF Pair, NewAttempt
    <3>3. /\ First(t) \subseteq Indices /\ Tie(t) \subseteq Indices /\ replicas[t] \ {LocalReplica} \subseteq Indices
          /\ inflight[t] \cup accepted[t] \cup rejected[t] \subseteq Indices
      BY ReplicasTyped, Typed DEF First, Tie, AttemptsOf
    <3>4. \A i \in Indices : Pair(i)' = Pair(i) /\ attempts'[i].task = attempts[i].task
                             /\ attempts'[i].reason = attempts[i].reason
      BY <1>2, PairSame DEF Same
    <3>5a. \A i \in replicas[t] \ {LocalReplica} :
             ReportedPair(i)' = ReportedPair(i) /\ attempts'[i].stage \notin {"queued", "sent"}
      BY <1>2, <3>3, PairSame DEF PairsOf
    <3>5. /\ \A i, j \in replicas'[t] \ {LocalReplica} :
                i # j /\ attempts'[i].reason = "tie_break" => Pair(i)' # ReportedPair(j)'
          /\ \A i \in replicas'[t] \ {LocalReplica} : attempts'[i].stage \notin {"queued", "sent"}
      BY <1>1, <3>3, <3>4, <3>5a DEF PairsOf
    <3>6. phase[t] \in {"running", "tie"}
      BY <2>3 DEF Work, InRound
    <3>7. CASE phase[t] = "running"
      <4>1. First(t)' = First(t) \cup {new}
        <5>1. why \in FirstRound
          BY <1>5, <2>3, <3>7 DEF Adds, FirstRound
        <5> QED
          BY <2>1, <2>3, <5>1
      <4>2. \A i \in First(t) : Pair(i)' = Pair(i) /\ Pair(i) \in used[t]
        BY <3>3, <3>4, <3>7 DEF PairsOf
      <4>3. \A i, j \in First(t)' : Pair(i)' = Pair(j)' => i = j
        BY <3>1, <3>2, <4>1, <4>2 DEF PairsOf
      <4>4. \A i \in First(t)' : Pair(i)' \in used'[t]
        BY <3>1, <3>2, <4>1, <4>2
      <4> QED
        BY <1>1, <3>5, <3>7, <4>3, <4>4 DEF PairsOf
    <3>8. CASE phase[t] = "tie"
      <4>1. Tie(t) = {} /\ turn = t /\ batch = {} /\ inflight[t] = {}
        BY <3>1, <3>8, Typed DEF CeilingOf
      <4>2. gone = {} /\ why = "tie_break"
        BY <1>1, <1>5, <2>3, <3>8, <4>1, SchedulerAssumption DEF Adds
      <4>3. First(t)' = First(t) /\ Tie(t)' = {new}
        BY <2>1, <2>3, <4>1, <4>2 DEF FirstRound
      <4>4. \A i \in replicas[t] : i \in First(t) /\ i \in Indices /\ ReportedPair(i)' \in used[t]
        BY <3>3, <3>5a, <3>8, NotLocal DEF PairsOf
      <4>5. accepted'[t] \cup rejected'[t] \subseteq accepted[t] \cup rejected[t] /\ inflight'[t] = {new}
        BY <1>3, <3>1, <4>1
      <4>6. \A i \in inflight'[t] \cup accepted'[t] \cup rejected'[t] : attempts'[i].reason = "tie_break"
        BY <3>2, <3>3, <3>4, <3>8, <4>2, <4>5 DEF PairsOf
      <4>7. \A i, j \in First(t)' : Pair(i)' = Pair(j)' => i = j
        BY <3>3, <3>4, <4>3 DEF PairsOf
      <4>8. /\ \A i \in replicas'[t] : i \in First(t)' /\ ReportedPair(i)' \in used'[t]
            /\ \A i \in Tie(t)', j \in replicas'[t] : Pair(i)' # ReportedPair(j)'
        BY <1>1, <3>1, <3>2, <4>3, <4>4
      <4> QED
        BY <1>1, <3>5, <3>8, <4>6, <4>7, <4>8 DEF PairsOf
    <3> QED
      BY <3>6, <3>7, <3>8
  <2> QED
    BY <2>2, <2>3
<1> QED
  BY <1>4, <1>5 DEF Work

\* A set of one element at most.
LEMMA AtMostOne ==
  ASSUME NEW S, IsFiniteSet(S), Cardinality(S) <= 1, NEW i \in S, NEW j \in S
  PROVE  i = j
<1> SUFFICES ASSUME i # j
             PROVE  FALSE
  OBVIOUS
<1>1. IsFiniteSet({i}) /\ Cardinality({i}) = 1
  BY FS_Singleton
<1>2. Cardinality({i} \cup {j}) = 2 /\ IsFiniteSet({i} \cup {j})
  BY <1>1, FS_AddElement
<1>3. Cardinality({i} \cup {j}) <= Cardinality(S)
  BY FS_Subset
<1> QED
  BY <1>2, <1>3, FS_CardinalityType

\* The replicas of a first round are of that round; the one that a tie-break adds
\* was asked of a pair that none of the others reports.
LEMMA CloseKeepsPairs ==
  ASSUME TypeOK, TypeOK', RoundInv, NEW u \in Tasks, Close(u), NEW t \in Tasks, CeilingOf(t), PairsOf(t)
  PROVE  PairsOf(t)'
<1>1. Indices' = Indices /\ \A i \in Indices : Same(attempts[i], attempts'[i])
  BY ClosePoints DEF ClosedTo
<1>2. First(t)' = First(t) /\ Tie(t)' = Tie(t)
  BY <1>1, AttemptsOfSame DEF First, Tie, FirstRound
<1>3. \A i \in Indices : Pair(i)' = Pair(i) /\ attempts'[i].task = attempts[i].task
                         /\ attempts'[i].reason = attempts[i].reason
  BY <1>1, PairSame DEF Same
<1>4. /\ First(t) \subseteq Indices /\ Tie(t) \subseteq Indices /\ replicas[t] \ {LocalReplica} \subseteq Indices
      /\ accepted[t] \subseteq Indices /\ rejected[t] \subseteq Indices /\ LocalReplica \notin Indices
  BY ReplicasTyped, Typed DEF First, Tie, AttemptsOf
<1>5. CASE t # u
  <2>1. /\ phase'[t] = phase[t] /\ replicas'[t] = replicas[t] /\ used'[t] = used[t]
        /\ inflight'[t] = inflight[t] /\ accepted'[t] = accepted[t] /\ rejected'[t] = rejected[t]
    BY <1>5, ClosePoints
  <2> QED
    BY <1>1, <1>2, <2>1, PairsSame
<1>6. phase[t] = "running" => accepted[t] \cup rejected[t] \subseteq First(t)
  <2> SUFFICES ASSUME phase[t] = "running", NEW i \in accepted[t] \cup rejected[t]
               PROVE  i \in First(t)
    OBVIOUS
  <2>1. i \in Indices /\ attempts[i].task = t /\ attempts[i].reason \in Reasons
    BY <1>4, Typed DEF RoundInv, Owned
  <2>2. attempts[i].reason # "tie_break"
    BY <2>1 DEF CeilingOf, Tie, AttemptsOf
  <2> QED
    BY <2>1, <2>2 DEF First, AttemptsOf, FirstRound, Reasons
<1>7. \A i, j \in First(t)' : Pair(i)' = Pair(j)' => i = j
  BY <1>2, <1>3, <1>4 DEF PairsOf
<1>8. ASSUME t = u
      PROVE  \A i \in accepted[t] \cup rejected[t] \cup (replicas[t] \ {LocalReplica}) :
               /\ attempts'[i].stage \notin {"queued", "sent"}
               /\ ReportedPair(i)' = ReportedPair(i)
  <2>1. \A i \in replicas[t] \ {LocalReplica} : attempts[i].stage \notin {"queued", "sent"}
    BY DEF PairsOf
  <2>2. ASSUME NEW i \in accepted[t] \cup rejected[t] PROVE attempts[i].stage \notin {"queued", "sent"}
    <3>1. InRound(t)
      BY <1>8 DEF Close
    <3>2. attempts[i].status # "dispatched"
      BY <2>2, <3>1 DEF RoundInv, Judged
    <3> QED
      BY <1>4, <2>2, <3>2 DEF RoundInv, OutIsInflight
  <2> QED
    BY <1>1, <1>4, <2>1, <2>2, PairSame
<1>9. ASSUME replicas'[t] \subseteq First(t)
      PROVE  \A i \in replicas'[t] : attempts'[i].reason # "tie_break"
  BY <1>3, <1>4, <1>9 DEF First, AttemptsOf, FirstRound
<1>10. CASE t = u /\ EndsFirst(t)
  <2>1. /\ phase'[t] \notin {"running", "tie"} /\ replicas'[t] \subseteq First(t)
        /\ replicas'[t] \subseteq accepted[t] \cup rejected[t]
    BY <1>6, <1>10 DEF EndsFirst, TypeOK
  <2>2. \A i \in replicas'[t] : attempts'[i].stage \notin {"queued", "sent"}
    BY <1>8, <1>10, <2>1
  <2> QED
    BY <1>7, <1>9, <2>1, <2>2 DEF PairsOf
<1>11. CASE t = u /\ EndsTie(t)
  <2>1. phase'[t] = "resolving" /\ replicas'[t] = replicas[t] \cup accepted[t] /\ phase[t] = "tie"
    BY <1>11 DEF EndsTie, TypeOK
  <2>2. accepted[t] \subseteq Tie(t)
    BY <1>4, <2>1 DEF PairsOf, RoundInv, Owned, Tie, AttemptsOf
  <2>3. \A i, j \in accepted[t] : i = j
    BY <2>2, AttemptsOfFinite, AtMostOne DEF CeilingOf, Tie
  <2>4. \A i \in replicas[t] : i \in Indices /\ i # LocalReplica /\ attempts'[i].reason # "tie_break"
    BY <1>3, <1>4, <2>1 DEF PairsOf, First, AttemptsOf, FirstRound
  <2>5. \A i \in accepted[t], j \in replicas[t] : Pair(i)' # ReportedPair(j)'
    BY <1>3, <1>4, <1>8, <1>11, <2>1, <2>2, <2>4 DEF PairsOf
  <2>6. \A i, j \in replicas'[t] \ {LocalReplica} :
           i # j /\ attempts'[i].reason = "tie_break" => Pair(i)' # ReportedPair(j)'
    BY <2>1, <2>3, <2>4, <2>5
  <2>7. \A i \in replicas'[t] \ {LocalReplica} : attempts'[i].stage \notin {"queued", "sent"}
    BY <1>8, <1>11, <2>1
  <2> QED
    BY <1>7, <2>1, <2>6, <2>7 DEF PairsOf
<1>12. CASE t = u /\ Splits(t)
  <2>1. /\ phase[t] = "running" /\ phase'[t] = "tie" /\ replicas'[t] = accepted[t]
        /\ used'[t] = {ReportedPair(i) : i \in accepted[t]} /\ accepted'[t] = {} /\ rejected'[t] = {}
    BY <1>12 DEF Splits, Enter, TypeOK
  <2>2. inflight'[t] = {} /\ replicas'[t] \subseteq First(t) /\ Tie(t)' = {}
    BY <1>2, <1>6, <1>12, <2>1, ClosePoints DEF CeilingOf
  <2>3. \A i \in replicas'[t] : i \in First(t)' /\ ReportedPair(i)' \in used'[t]
    BY <1>2, <1>8, <1>12, <2>1, <2>2
  <2>4. \A i \in replicas'[t] : attempts'[i].stage \notin {"queued", "sent"}
    BY <1>8, <1>12, <2>1
  <2> QED
    BY <1>7, <1>9, <2>1, <2>2, <2>3, <2>4 DEF PairsOf
<1> QED
  BY <1>5, <1>10, <1>11, <1>12 DEF Close

\* Every launch of a round excludes the pairs the round has asked, and the second
\* one starts with those that the replicas it is compared with report.
THEOREM PairsInductive == Spec => [](PairInv /\ DistinctPairs)
<1>1. Init => PairInv /\ DistinctPairs
  <2> SUFFICES ASSUME Init, NEW t \in Tasks
               PROVE  PairsOf(t)
    BY PairsOfAll
  <2>1. First(t) = {} /\ replicas[t] = {} /\ phase[t] = "waiting"
    BY DEF Init, First, AttemptsOf, Indices
  <2> QED
    BY <2>1 DEF PairsOf
<1>2. TypeOK /\ TypeOK' /\ IdInv /\ RoundInv /\ CeilingInv /\ WithinCeiling /\ PairInv /\ DistinctPairs
        /\ [Next]_vars => (PairInv /\ DistinctPairs)'
  BY Kinds, CeilingOfAll, PairsOfAll, QuietKeepsPairs, WireKeepsPairs, BeginKeepsPairs, WorkKeepsPairs,
     CloseKeepsPairs
<1> QED
  BY <1>1, <1>2, RoundInductive, CeilingInductive, TypeCorrect, IdsInductive, PTL DEF Spec

\* DistinctPairs: a first round never asks a <<node, family>> pair twice, and a
\* tie-break is asked of a pair that none of the replicas it is compared with
\* reports, whatever families the workers report.
THEOREM AlwaysDistinctPairs == Spec => []DistinctPairs
BY PairsInductive, PTL

-----------------------------------------------------------------------------
(* Sound replicas *)

SoundOf(t) ==
  /\ phase[t] = "running" => \A i \in Indices :
       attempts[i].task = t /\ attempts[i].answer = "good" => i \in inflight[t] \cup accepted[t]
  /\ phase[t] = "tie" =>
       /\ replicas[t] # {} /\ LocalReplica \notin replicas[t]
       /\ \A i \in replicas[t] : attempts[i].answer = "good"
  /\ phase[t] = "redo" =>
       /\ replicas[t] # {} /\ LocalReplica \notin replicas[t]
       /\ \A i \in replicas[t] : attempts[i].answer = "bad"
       /\ NoGood(t)
  /\ phase[t] \in {"resolving", "done"} =>
       \/ replicas[t] = {LocalReplica} /\ HasLocal
       \/ /\ replicas[t] # {} /\ LocalReplica \notin replicas[t]
          /\ \/ \A i \in replicas[t] : attempts[i].answer = "good"
             \/ (\A i \in replicas[t] : attempts[i].answer = "bad") /\ NoGood(t)

\* Soundness of replicas is an invariant of each task.
LEMMA SoundOfAll ==
  /\ SoundInv /\ SoundReplicas <=> \A t \in Tasks : SoundOf(t)
  /\ (SoundInv /\ SoundReplicas)' <=> \A t \in Tasks : SoundOf(t)'
BY DEF SoundInv, SoundReplicas, SoundOf, NoGood

\* What is in replicas besides this device's answer is an attempt.
LEMMA RemoteReplicas ==
  ASSUME TypeOK, NEW t \in Tasks, LocalReplica \notin replicas[t]
  PROVE  replicas[t] \subseteq Indices
BY DEF TypeOK

\* After the first round, what a task knows of its replicas stays true as long as
\* verified answers stay and no good one arrives after its rounds.
LEMMA SoundSame ==
  ASSUME TypeOK, NEW t \in Tasks, SoundOf(t), phase[t] # "running",
         phase'[t] = phase[t], replicas'[t] = replicas[t],
         \A i \in Indices : attempts[i].answer \in {"good", "bad"} => attempts'[i].answer = attempts[i].answer,
         phase[t] \in {"redo", "resolving", "done"} /\ NoGood(t) => NoGood(t)'
  PROVE  SoundOf(t)'
<1>1. ASSUME NEW a \in {"good", "bad"}, LocalReplica \notin replicas[t], \A i \in replicas[t] : attempts[i].answer = a
      PROVE  \A i \in replicas'[t] : attempts'[i].answer = a
  BY <1>1, RemoteReplicas
<1>2. phase'[t] = "tie" =>
        /\ replicas'[t] # {} /\ LocalReplica \notin replicas'[t]
        /\ \A i \in replicas'[t] : attempts'[i].answer = "good"
  BY <1>1 DEF SoundOf
<1>3. phase'[t] = "redo" =>
        /\ replicas'[t] # {} /\ LocalReplica \notin replicas'[t]
        /\ \A i \in replicas'[t] : attempts'[i].answer = "bad"
        /\ NoGood(t)'
  BY <1>1 DEF SoundOf
<1>4. phase'[t] \in {"resolving", "done"} =>
        \/ replicas'[t] = {LocalReplica} /\ HasLocal
        \/ /\ replicas'[t] # {} /\ LocalReplica \notin replicas'[t]
           /\ \/ \A i \in replicas'[t] : attempts'[i].answer = "good"
              \/ (\A i \in replicas'[t] : attempts'[i].answer = "bad") /\ NoGood(t)'
  BY <1>1 DEF SoundOf
<1> QED
  BY <1>2, <1>3, <1>4 DEF SoundOf

\* A quiet step judges nothing and adds the requester's own answer only.
LEMMA QuietKeepsSound ==
  ASSUME Quiet, NEW t \in Tasks, SoundOf(t)
  PROVE  SoundOf(t)'
<1>1. UNCHANGED <<attempts, inflight, accepted>> /\ Indices' = Indices /\ NoGood(t)' = NoGood(t)
  BY DEF Quiet, locals, Indices, NoGood
<1>2. CASE replicas'[t] = {LocalReplica} /\ HasLocal /\ phase'[t] = "resolving"
  BY <1>2 DEF SoundOf
<1>3. CASE replicas'[t] = replicas[t] /\ phase'[t] = phase[t]
  BY <1>1, <1>3 DEF SoundOf
<1>4. CASE phase'[t] \in {"cancelled", "spawned", "failed"}
  BY <1>4 DEF SoundOf
<1>5. CASE /\ replicas'[t] = replicas[t]
           /\ \/ phase[t] = "redo" /\ phase'[t] = "resolving"
              \/ phase[t] = "resolving" /\ phase'[t] = "done"
  BY <1>1, <1>5 DEF SoundOf
<1> QED
  BY <1>2, <1>3, <1>4, <1>5 DEF Quiet, PhaseMoves

\* With its rounds over, nothing of a task is out.
LEMMA NothingOut ==
  ASSUME TypeOK, RoundInv, NEW t \in Tasks, phase[t] \in {"redo", "resolving", "done"},
         NEW i \in Indices, attempts[i].task = t
  PROVE  attempts[i].stage \notin {"queued", "sent"}
BY DEF RoundInv, NothingLeft, OutIsInflight

\* An answer that arrives is of an attempt still in flight.
LEMMA WireKeepsSound ==
  ASSUME TypeOK, TypeOK', RoundInv, Wire, NEW t \in Tasks, SoundOf(t)
  PROVE  SoundOf(t)'
<1>1. /\ UNCHANGED <<phase, replicas, inflight, accepted>> /\ Indices' = Indices
      /\ \A i \in Indices : Wired(attempts[i], attempts'[i])
  BY Typed, TypedNext DEF Wire, locals
<1>2. \A i \in Indices : attempts[i].stage \in {"queued", "sent"} =>
        attempts[i].answer = "none" /\ i \in inflight[attempts[i].task]
  BY DEF RoundInv, OutIsInflight
<1>3. \A i \in Indices : /\ attempts'[i].task = attempts[i].task
                         /\ attempts[i].stage \notin {"queued", "sent"} => attempts'[i].answer = attempts[i].answer
  BY <1>1 DEF Wired, Same
<1>4. CASE phase[t] = "running"
  <2>1. ASSUME NEW i \in Indices, attempts'[i].task = t, attempts'[i].answer = "good"
        PROVE  i \in inflight[t] \cup accepted[t]
    BY <1>2, <1>3, <1>4, <2>1 DEF SoundOf
  <2> QED
    BY <1>1, <1>4, <2>1 DEF SoundOf
<1>5. CASE phase[t] # "running"
  <2>1. \A i \in Indices : attempts[i].answer \in {"good", "bad"} => attempts'[i].answer = attempts[i].answer
    BY <1>2, <1>3
  <2>2. phase[t] \in {"redo", "resolving", "done"} /\ NoGood(t) => NoGood(t)'
    BY <1>1, <1>3, NothingOut DEF NoGood
  <2> QED
    BY <1>1, <1>5, <2>1, <2>2, SoundSame
<1> QED
  BY <1>4, <1>5

\* A round that begins has judged nothing.
LEMMA BeginKeepsSound ==
  ASSUME TypeOK, IdInv, NEW u \in Tasks, Begin(u), NEW t \in Tasks, SoundOf(t)
  PROVE  SoundOf(t)'
<1>1. attempts' = attempts /\ Indices' = Indices /\ replicas' = replicas /\ NoGood(t)' = NoGood(t)
  BY DEF Begin, Indices, NoGood
<1>2. CASE t # u
  <2>1. phase'[t] = phase[t] /\ inflight'[t] = inflight[t] /\ accepted'[t] = accepted[t]
    BY <1>2 DEF Begin, Enter, TypeOK
  <2> QED
    BY <1>1, <2>1 DEF SoundOf
<1>3. CASE t = u
  <2>1. phase[t] = "spawned" /\ phase'[t] = "running"
    BY <1>3 DEF Begin, TypeOK
  <2>2. \A i \in Indices : attempts[i].task # t
    BY <2>1 DEF IdInv, NoEarlyAttempt
  <2> QED
    BY <1>1, <2>1, <2>2 DEF SoundOf
<1> QED
  BY <1>2, <1>3

\* A round accepts what is good, and degrades only when nothing better can come.
LEMMA WorkKeepsSound ==
  ASSUME TypeOK, TypeOK', RoundInv, NEW u \in Tasks, NEW gone \in SUBSET Indices, Work(u, gone),
         NEW t \in Tasks, SoundOf(t)
  PROVE  SoundOf(t)'
<1>1. /\ phase' = phase /\ replicas' = replicas /\ InRound(u) /\ gone \subseteq inflight[u]
      /\ gone # {} => turn = u
  BY DEF Work
<1>2. /\ \A i \in Indices : /\ attempts'[i].task = attempts[i].task /\ attempts'[i].answer = attempts[i].answer
                            /\ i \in gone => JudgedTo(attempts[i], attempts'[i])
      /\ \A i \in Indices' \ Indices : attempts'[i].task = u /\ attempts'[i].answer = "none"
  BY WorkPoints DEF WorkOnAttempts, Same
<1>3. CASE phase[t] = "running"
  <2>1. ASSUME NEW i \in Indices', attempts'[i].task = t, attempts'[i].answer = "good"
        PROVE  i \in inflight'[t] \cup accepted'[t]
    <3>1. i \in Indices /\ i \in inflight[t] \cup accepted[t] /\ attempts[i].answer = "good"
      BY <1>2, <1>3, <2>1 DEF SoundOf
    <3>2. /\ inflight'[t] \cap Indices = IF t = u THEN inflight[t] \ gone ELSE inflight[t]
          /\ accepted'[t] = IF t = u THEN accepted[t] \cup {j \in gone : attempts'[j].status = "accepted"}
                            ELSE accepted[t]
      BY WorkPoints DEF WorkOnLocals
    <3>3. i \in gone => attempts'[i].status = "accepted"
      <4> SUFFICES ASSUME i \in gone
                   PROVE  attempts'[i].status = "accepted"
        OBVIOUS
      <4>1. attempts[i].stage = "returned"
        BY <1>1, SchedulerAssumption DEF RoundInv, BatchReturned, Work
      <4>2. attempts[i].status = "dispatched"
        BY <1>1, <3>1, <4>1 DEF RoundInv, InflightStates
      <4> QED
        BY <1>2, <3>1, <4>2 DEF JudgedTo
    <3> QED
      BY <3>1, <3>2, <3>3
  <2> QED
    BY <1>1, <1>3, <2>1 DEF SoundOf
<1>4. CASE phase[t] # "running"
  <2>1. phase[t] \in {"redo", "resolving", "done"} /\ NoGood(t) => NoGood(t)'
    BY <1>1, <1>2 DEF NoGood, InRound
  <2> QED
    BY <1>1, <1>2, <1>4, <2>1, SoundSame
<1> QED
  BY <1>3, <1>4

\* A round returns what it accepted, or what it degraded for want of a good answer.
LEMMA CloseKeepsSound ==
  ASSUME TypeOK, TypeOK', RoundInv, NEW u \in Tasks, Close(u), NEW t \in Tasks, SoundOf(t)
  PROVE  SoundOf(t)'
<1>1. /\ Indices' = Indices
      /\ \A i \in Indices : attempts'[i].task = attempts[i].task /\ attempts'[i].answer = attempts[i].answer
  BY ClosePoints DEF ClosedTo, Same
<1>2. NoGood(t) => NoGood(t)'
  BY <1>1 DEF NoGood
<1>3. accepted[t] \subseteq Indices /\ rejected[t] \subseteq Indices /\ LocalReplica \notin Indices
  BY Typed
<1>4. /\ \A i \in accepted[t] : attempts'[i].answer = "good"
      /\ InRound(t) => \A i \in rejected[t] : attempts'[i].answer = "bad"
  BY <1>1, <1>3 DEF RoundInv, Judged
<1>5. CASE t # u
  <2>1. phase'[t] = phase[t] /\ replicas'[t] = replicas[t] /\ inflight'[t] = inflight[t] /\ accepted'[t] = accepted[t]
    BY <1>5, ClosePoints
  <2>2. CASE phase[t] = "running"
    BY <1>1, <2>1, <2>2 DEF SoundOf
  <2>3. CASE phase[t] # "running"
    BY <1>1, <1>2, <2>1, <2>3, SoundSame
  <2> QED
    BY <2>2, <2>3
<1>6. CASE t = u /\ EndsFirst(t)
  <2>1. /\ phase[t] = "running"
        /\ replicas'[t] = IF accepted[t] = {} THEN rejected[t] ELSE accepted[t]
        /\ phase'[t] = IF accepted[t] # {} THEN "resolving" ELSE IF rejected[t] # {} THEN "redo" ELSE "rescue"
    BY <1>6 DEF EndsFirst, TypeOK
  <2>2. CASE accepted[t] # {}
    BY <1>3, <1>4, <2>1, <2>2 DEF SoundOf
  <2>3. CASE accepted[t] = {}
    <3>1. NoGood(t)
      BY <1>6, <2>1, <2>3 DEF SoundOf, NoGood, Close
    <3> QED
      BY <1>2, <1>3, <1>4, <2>1, <2>3, <3>1 DEF SoundOf, InRound
  <2> QED
    BY <2>2, <2>3
<1>7. CASE t = u /\ EndsTie(t)
  <2>1. phase[t] = "tie" /\ phase'[t] = "resolving" /\ replicas'[t] = replicas[t] \cup accepted[t]
    BY <1>7 DEF EndsTie, TypeOK
  <2>2. replicas[t] # {} /\ LocalReplica \notin replicas[t] /\ \A i \in replicas[t] : attempts'[i].answer = "good"
    BY <1>1, <2>1, RemoteReplicas DEF SoundOf
  <2> QED
    BY <1>3, <1>4, <2>1, <2>2 DEF SoundOf
<1>8. CASE t = u /\ Splits(t)
  <2>1. phase'[t] = "tie" /\ replicas'[t] = accepted[t] /\ accepted[t] # {}
    BY <1>8 DEF Splits, TypeOK
  <2> QED
    BY <1>3, <1>4, <2>1 DEF SoundOf
<1> QED
  BY <1>5, <1>6, <1>7, <1>8 DEF Close

\* In the first round a good answer is in flight or accepted; a degraded task
\* has neither, and nothing of it can arrive any more.
THEOREM SoundInductive == Spec => [](SoundInv /\ SoundReplicas)
<1>1. Init => SoundInv /\ SoundReplicas
  <2>1. Init => \A t \in Tasks : SoundOf(t)
    BY DEF Init, SoundOf
  <2> QED
    BY <2>1, SoundOfAll
<1>2. TypeOK /\ TypeOK' /\ IdInv /\ RoundInv /\ SoundInv /\ SoundReplicas /\ [Next]_vars
        => (SoundInv /\ SoundReplicas)'
  BY Kinds, SoundOfAll, QuietKeepsSound, WireKeepsSound, BeginKeepsSound, WorkKeepsSound, CloseKeepsSound
<1> QED
  BY <1>1, <1>2, RoundInductive, TypeCorrect, IdsInductive, PTL DEF Spec

\* What a task resolves from is never empty; it is all good, or this device's
\* answer, or degraded answers of a task none of whose replies was good.
THEOREM AlwaysSoundReplicas == Spec => []SoundReplicas
BY SoundInductive, PTL

=============================================================================
