------------------------------ MODULE Scheduler ------------------------------
(***************************************************************************)
(* One distributed request of the SwarmblyAI desktop app: the micro-task   *)
(* scheduler (engine/scheduler.py), the run_one / run_levels coroutines    *)
(* that drive it (engine/orchestrator.py) and the part of the P2P node     *)
(* that carries an attempt (p2p/node.py dispatch_async).                   *)
(*                                                                         *)
(* All of it runs on one asyncio loop, so a coroutine is interleaved with  *)
(* the others only where it awaits.  `turn' is the task whose run_one is   *)
(* between two awaits; while it is not NoTask nothing else moves.  The     *)
(* steps of such a segment are separate actions only to keep each readable.*)
(*                                                                         *)
(* Time is abstracted: a hedge timer may fire whenever the code waits with *)
(* one, a dispatch may time out whenever it is on the wire.  The ranking   *)
(* of _select is abstracted to "any candidate".                            *)
(***************************************************************************)
EXTENDS Integers, Sequences, FiniteSets

CONSTANTS
  Tasks,            \* the plan's tasks
  Deps,             \* Deps[t]: the tasks whose output t consumes
  Nodes,            \* worker nodes
  Families,         \* model families that workers advertise or report
  Offers,           \* the <<node, family>> pairs the workers advertise
  Capacity,         \* Capacity[n]: max_concurrent the worker advertises
  MaxConcurrency,   \* max_concurrency of the request
  KMin, KMax,       \* replicas wanted, ceiling on attempts, per task
  HasLocal,         \* the requester has its own model
  TieBreak,         \* an enumerated plan with tie_break on
  NoTask            \* no coroutine is between two awaits

ASSUME SchedulerAssumption ==
  /\ IsFiniteSet(Tasks)
  /\ NoTask \notin Tasks
  /\ Deps \in [Tasks -> SUBSET Tasks]
  /\ Offers \subseteq Nodes \X Families
  /\ Capacity \in [Nodes -> Nat \ {0}]
  /\ MaxConcurrency \in Nat \ {0}
  /\ KMin \in Nat \ {0}
  /\ KMax \in Nat /\ KMax >= KMin
  /\ HasLocal \in BOOLEAN
  /\ TieBreak \in BOOLEAN

VARIABLES
  request,    \* what the caller of run_levels has seen
  results,    \* run_levels' results: tasks whose outcome it has collected
  phase,      \* where run_one of each task stands
  turn,       \* the task whose coroutine holds the event loop, or NoTask
  todo,       \* initial launches left in the current segment
  batch,      \* rest of the done set that segment is working through
  attempts,   \* self.attempts: every attempt of the request, in launch order
  need,       \* run_task's k_min for its current round
  ceiling,    \* run_task's k_max (already shifted by start_number)
  number,     \* run_task's next attempt number
  used,       \* run_task's used_pairs
  inflight,   \* run_task's inflight (indices into attempts)
  accepted,   \* run_task's accepted
  rejected,   \* run_task's rejected
  replicas,   \* run_one's replicas; LocalReplica stands for this device's
  load,       \* self._load: attempts in flight per node
  linked      \* nodes with a live session

locals == <<need, ceiling, number, used, inflight, accepted, rejected>>
segment == <<turn, todo, batch>>
vars == <<request, results, phase, segment, attempts, locals, replicas, load,
          linked>>

-----------------------------------------------------------------------------
(* Values *)

Phases == {"waiting", "spawned", "running", "tie", "rescue", "redo",
           "resolving", "done", "failed", "cancelled"}

\* run_one exists as an asyncio task that has not finished.
Active == {"spawned", "running", "tie", "rescue", "redo", "resolving"}

Reasons == {"initial", "hedge", "retry", "tie_break"}
Answers == {"good", "bad", "forged"}
Stages == {"queued", "sent", "returned", "unwinding", "cancelled"}
Statuses == {"dispatched", "accepted", "rejected", "degraded", "failed",
             "cancelled_slow"}

\* stage is where the _dispatch_one coroutine stands, status is Attempt.status,
\* answer the kind of result that came back: one that passes the content check,
\* one that does not, or one that does not verify.  family is the family asked
\* for, one the worker advertises (state.py:68); told the family of the Replica,
\* which is the one the reply reports and otherwise the one asked for.
Attempt == [task: Tasks, number: Nat, node: Nodes, family: Families,
            told: Families, reason: Reasons, stage: Stages, status: Statuses,
            answer: Answers \cup {"none"}]

NewAttempt(t, n, offer, why) ==
  [task |-> t, number |-> n, node |-> offer[1], family |-> offer[2],
   told |-> offer[2], reason |-> why, stage |-> "queued", status |-> "dispatched",
   answer |-> "none"]

LocalReplica == 0

Pair(i) == <<attempts[i].node, attempts[i].family>>
ReportedPair(i) == <<attempts[i].node, attempts[i].told>>

InRound(t) == phase[t] \in {"running", "tie"}

\* verify_result: a reply that is not a signed, well-formed result for this
\* attempt never becomes a replica.
Verified(answer) == answer \in {"good", "bad"}

-----------------------------------------------------------------------------
(* Launching an attempt *)

\* Mutant: the ceiling is off by one.
CandidatesPastCeiling(t, free, ld) ==
  {o \in Offers : /\ number[t] <= ceiling[t]
                  /\ o[1] \in linked
                  /\ o \notin used[t]
                  /\ free => ld[o[1]] < Capacity[o[1]]}

\* What _select may return for t, given the load: a pair not yet used for t on
\* a connected worker, and with free only one that has a free slot.
Candidates(t, free, ld) ==
  {o \in Offers : /\ number[t] < ceiling[t]
                  /\ o[1] \in linked
                  /\ o \notin used[t]
                  /\ free => ld[o[1]] < Capacity[o[1]]}

\* Mutant: inflight is keyed by the attempt's number, not by the attempt.
LaunchByNumber(t, offer, why, atts, left, ld) ==
  /\ attempts' = Append(atts, NewAttempt(t, number[t], offer, why))
  /\ inflight' = [inflight EXCEPT ![t] = left \cup {number[t]}]
  /\ load' = [ld EXCEPT ![offer[1]] = @ + 1]
  /\ number' = [number EXCEPT ![t] = @ + 1]
  /\ used' = [used EXCEPT ![t] = @ \cup {offer}]

\* launch(): the new attempt joins atts, the ones still in flight are left.
Launch(t, offer, why, atts, left, ld) ==
  /\ attempts' = Append(atts, NewAttempt(t, number[t], offer, why))
  /\ inflight' = [inflight EXCEPT ![t] = left \cup {Len(atts) + 1}]
  /\ load' = [ld EXCEPT ![offer[1]] = @ + 1]
  /\ number' = [number EXCEPT ![t] = @ + 1]
  /\ used' = [used EXCEPT ![t] = @ \cup {offer}]

NoLaunch(t, atts, left, ld) ==
  /\ attempts' = atts
  /\ inflight' = [inflight EXCEPT ![t] = left]
  /\ load' = ld
  /\ UNCHANGED <<number, used>>

\* A free-only launch may also find every candidate in its busy back-off, which
\* all requests of the process share.
TryLaunch(t, why, free, atts, left, ld) ==
  \/ \E o \in Candidates(t, free, ld) : Launch(t, o, why, atts, left, ld)
  \/ /\ free \/ Candidates(t, free, ld) = {}
     /\ NoLaunch(t, atts, left, ld)

-----------------------------------------------------------------------------
Init ==
  /\ request = "running"
  /\ results = {}
  /\ phase = [t \in Tasks |-> "waiting"]
  /\ turn = NoTask /\ todo = 0 /\ batch = {}
  /\ attempts = <<>>
  /\ need = [t \in Tasks |-> 0]
  /\ ceiling = [t \in Tasks |-> 0]
  /\ number = [t \in Tasks |-> 0]
  /\ used = [t \in Tasks |-> {}]
  /\ inflight = [t \in Tasks |-> {}]
  /\ accepted = [t \in Tasks |-> {}]
  /\ rejected = [t \in Tasks |-> {}]
  /\ replicas = [t \in Tasks |-> {}]
  /\ load = [n \in Nodes |-> 0]
  /\ linked = Nodes

-----------------------------------------------------------------------------
(* run_levels *)

Finished == {t \in Tasks : phase[t] \in {"done", "failed"}} \ results

\* Mutant: a failure or a stop leaves the other tasks running.
CancelNone == phase

CancelActive == [t \in Tasks |-> IF phase[t] \in Active THEN "cancelled" ELSE phase[t]]

\* Mutant: tasks start without waiting for what they consume.
LevelsUnordered ==
  /\ request = "running" /\ turn = NoTask
  /\ \A t \in Tasks : phase[t] = "waiting"
  /\ phase' = [t \in Tasks |-> "spawned"]
  /\ UNCHANGED <<request, results, segment, attempts, locals, replicas, load, linked>>

\* run_levels wakes with every run_one that has finished.  A failure is raised
\* again, which cancels the ones still running; otherwise the tasks whose
\* consumed predecessors are all in results are started, and with nothing left
\* to run the request is over.
Levels ==
  /\ request = "running" /\ turn = NoTask
  /\ Finished # {} \/ \A t \in Tasks : phase[t] = "waiting"
  /\ IF \E t \in Finished : phase[t] = "failed"
     THEN /\ request' = "failed"
          /\ phase' = CancelActive
          /\ UNCHANGED results
     ELSE LET done  == results \cup Finished
              ready == {t \in Tasks : phase[t] = "waiting" /\ Deps[t] \subseteq done}
              idle  == ready = {} /\ \A t \in Tasks : phase[t] \notin Active
          IN /\ results' = done
             /\ phase' = [t \in Tasks |-> IF t \in ready THEN "spawned" ELSE phase[t]]
             /\ request' = CASE ~idle -> "running"
                             [] idle /\ done = Tasks -> "done"
                             [] OTHER -> "failed"      \* unsatisfiable dependencies
  /\ UNCHANGED <<segment, attempts, locals, replicas, load, linked>>

\* The user stops the request, or its global deadline passes: the future of
\* run_levels is cancelled, which cancels the run_one tasks.  run_task has no
\* handler for it: the dispatch coroutines it started go on by themselves.
Stop ==
  /\ request = "running" /\ turn = NoTask
  /\ request' = "stopped"
  /\ phase' = CancelActive
  /\ UNCHANGED <<results, segment, attempts, locals, replicas, load, linked>>

-----------------------------------------------------------------------------
(* run_task: a round of attempts for one task *)

\* The locals of a call of run_task.
Enter(t, k, top, first, excluded) ==
  /\ need' = [need EXCEPT ![t] = k]
  /\ ceiling' = [ceiling EXCEPT ![t] = top]
  /\ number' = [number EXCEPT ![t] = first]
  /\ used' = [used EXCEPT ![t] = excluded]
  /\ accepted' = [accepted EXCEPT ![t] = {}]
  /\ rejected' = [rejected EXCEPT ![t] = {}]
  /\ turn' = t /\ todo' = k /\ batch' = {}

Begin(t) ==
  /\ turn = NoTask /\ phase[t] = "spawned"
  /\ phase' = [phase EXCEPT ![t] = "running"]
  /\ Enter(t, KMin, KMax, 0, {})
  /\ inflight' = [inflight EXCEPT ![t] = {}]
  /\ UNCHANGED <<request, results, attempts, replicas, load, linked>>

\* One of the k_min launches; the first that fails ends them.
LaunchInitial(t) ==
  /\ turn = t /\ todo > 0
  /\ LET tie == phase[t] = "tie"
     IN TryLaunch(t, IF tie THEN "tie_break" ELSE "initial", tie,
                  attempts, inflight[t], load)
  /\ todo' = IF Len(attempts') > Len(attempts) THEN todo - 1 ELSE 0
  /\ UNCHANGED <<request, results, phase, turn, batch, need, ceiling, accepted,
                 rejected, replicas, linked>>

\* asyncio.wait returns: the done set is every attempt that has returned by now.
Collect(t) ==
  /\ turn = NoTask /\ InRound(t)
  /\ batch' = {i \in inflight[t] : attempts[i].stage = "returned"}
  /\ batch' # {}
  /\ turn' = t
  /\ UNCHANGED <<request, results, phase, todo, attempts, locals, replicas,
                 load, linked>>

\* The wait runs into the hedge timer with nothing done.
Hedge(t) ==
  /\ turn = NoTask /\ InRound(t)
  /\ number[t] < ceiling[t]
  /\ \A i \in inflight[t] : attempts[i].stage # "returned"
  /\ \E o \in Candidates(t, TRUE, load) :
        Launch(t, o, "hedge", attempts, inflight[t], load)
  /\ UNCHANGED <<request, results, phase, segment, need, ceiling, accepted,
                 rejected, replicas, linked>>

\* One attempt of the done set has been popped: retry if too few are left.
RetryIfShort(t, i, atts, free) ==
  LET left  == inflight[t] \ {i}
      freed == [load EXCEPT ![attempts[i].node] = @ - 1]
  IN IF Cardinality(accepted[t]) + Cardinality(left) < need[t]
     THEN TryLaunch(t, "retry", free, atts, left, freed)
     ELSE NoLaunch(t, atts, left, freed)

Popping(t, i) ==
  /\ turn = t /\ i \in batch
  /\ batch' = batch \ {i}
  /\ UNCHANGED <<request, results, phase, turn, todo, need, ceiling, replicas,
                 linked>>

\* A replica that passes the content check.
Accept(t, i) ==
  /\ Popping(t, i)
  /\ attempts[i].status = "dispatched" /\ attempts[i].answer = "good"
  /\ accepted' = [accepted EXCEPT ![t] = @ \cup {i}]
  /\ NoLaunch(t, [attempts EXCEPT ![i].status = "accepted"], inflight[t] \ {i},
              [load EXCEPT ![attempts[i].node] = @ - 1])
  /\ UNCHANGED rejected

\* A verified replica the content check turns down; its retry may queue.
Reject(t, i) ==
  /\ Popping(t, i)
  /\ attempts[i].status = "dispatched" /\ attempts[i].answer = "bad"
  /\ rejected' = [rejected EXCEPT ![t] = @ \cup {i}]
  /\ RetryIfShort(t, i, [attempts EXCEPT ![i].status = "rejected"], FALSE)
  /\ UNCHANGED accepted

\* The dispatch returned no replica; with a model of its own the requester
\* retries only on a free worker.
DropFailed(t, i) ==
  /\ Popping(t, i)
  /\ attempts[i].status = "failed"
  /\ RetryIfShort(t, i, attempts, HasLocal)
  /\ UNCHANGED <<accepted, rejected>>

AtLoopHead(t) == turn = t /\ todo = 0 /\ batch = {}

\* Mutant: the loop waits although nothing is in flight any more.
LoopEndsOnlyOnSuccess(t) == Cardinality(accepted[t]) >= need[t]

LoopEnds(t) == inflight[t] = {} \/ Cardinality(accepted[t]) >= need[t]

\* The while condition holds: wait again.
Park(t) ==
  /\ AtLoopHead(t) /\ ~LoopEnds(t)
  /\ turn' = NoTask
  /\ UNCHANGED <<request, results, phase, todo, batch, attempts, locals,
                 replicas, load, linked>>

-----------------------------------------------------------------------------
(* run_task returns, and run_one goes on to its next await *)

Degraded(t) == accepted[t] = {} /\ rejected[t] # {}

\* Mutant: the load of the attempts cancelled as slow is never given back.
CloseRoundKeepingLoad(t) ==
  /\ attempts' = [i \in DOMAIN attempts |->
       IF i \in inflight[t] THEN [attempts[i] EXCEPT !.status = "cancelled_slow"]
                            ELSE attempts[i]]
  /\ inflight' = [inflight EXCEPT ![t] = {}]
  /\ UNCHANGED load

\* What is still in flight is cancelled as slow; with nothing accepted the
\* rejected replicas are returned as degraded.
CloseRound(t) ==
  /\ attempts' = [i \in DOMAIN attempts |->
       IF i \in inflight[t]
       THEN [attempts[i] EXCEPT !.status = "cancelled_slow",
                                !.stage = CASE @ = "queued" -> "cancelled"
                                            [] @ = "sent"   -> "unwinding"
                                            [] OTHER -> @]
       ELSE IF i \in rejected[t] /\ Degraded(t)
       THEN [attempts[i] EXCEPT !.status = "degraded"]
       ELSE attempts[i]]
  /\ load' = [n \in Nodes |->
       load[n] - Cardinality({i \in inflight[t] : attempts[i].node = n})]
  /\ inflight' = [inflight EXCEPT ![t] = {}]

Returning(t) == AtLoopHead(t) /\ LoopEnds(t) /\ CloseRound(t)

GoOn(t, where) ==
  /\ phase' = [phase EXCEPT ![t] = where]
  /\ turn' = NoTask
  /\ UNCHANGED <<todo, batch, need, ceiling, number, used, accepted, rejected>>

\* First round: accepted replicas, degraded ones, or TaskFailed.
ReturnFirst(t) ==
  /\ Returning(t) /\ phase[t] = "running"
  /\ replicas' = [replicas EXCEPT ![t] = IF Degraded(t) THEN rejected[t] ELSE accepted[t]]
  /\ GoOn(t, CASE accepted[t] # {} -> "resolving"
               [] Degraded(t)      -> "redo"
               [] OTHER            -> "rescue")
  /\ UNCHANGED <<request, results, linked>>

\* Mutant: the second round numbers its attempt from 0 again.
ReturnSplitRenumbered(t) ==
  /\ TieBreak
  /\ Returning(t) /\ phase[t] = "running"
  /\ Cardinality(accepted[t]) = 2
  /\ replicas' = [replicas EXCEPT ![t] = accepted[t]]
  /\ phase' = [phase EXCEPT ![t] = "tie"]
  /\ Enter(t, 1, 1, 0, {ReportedPair(i) : i \in accepted[t]})
  /\ UNCHANGED <<request, results, linked>>

\* Mutant: the second round may choose the pair of a replica it compares.
ReturnSplitNotExcluding(t) ==
  /\ TieBreak
  /\ Returning(t) /\ phase[t] = "running"
  /\ Cardinality(accepted[t]) = 2
  /\ replicas' = [replicas EXCEPT ![t] = accepted[t]]
  /\ phase' = [phase EXCEPT ![t] = "tie"]
  /\ Enter(t, 1, Len(attempts) + 1, Len(attempts), {})
  /\ UNCHANGED <<request, results, linked>>

\* Two replicas that disagree on some item: a second round of one attempt,
\* numbered after all attempts so far, on a pair other than those the two report.
ReturnSplit(t) ==
  /\ TieBreak
  /\ Returning(t) /\ phase[t] = "running"
  /\ Cardinality(accepted[t]) = 2
  /\ replicas' = [replicas EXCEPT ![t] = accepted[t]]
  /\ phase' = [phase EXCEPT ![t] = "tie"]
  /\ Enter(t, 1, Len(attempts) + 1, Len(attempts), {ReportedPair(i) : i \in accepted[t]})
  /\ UNCHANGED <<request, results, linked>>

\* Mutant: a degraded extra replica joins the vote as well.
ReturnTieDegraded(t) ==
  /\ Returning(t) /\ phase[t] = "tie"
  /\ replicas' = [replicas EXCEPT ![t] = @ \cup accepted[t] \cup rejected[t]]
  /\ GoOn(t, "resolving")
  /\ UNCHANGED <<request, results, linked>>

\* Second round: an accepted replica joins the two, anything else is dropped.
ReturnTie(t) ==
  /\ Returning(t) /\ phase[t] = "tie"
  /\ replicas' = [replicas EXCEPT ![t] = @ \cup accepted[t]]
  /\ GoOn(t, "resolving")
  /\ UNCHANGED <<request, results, linked>>

-----------------------------------------------------------------------------
(* run_one, outside run_task: work in the executor *)

ExecutorStep(t) ==
  /\ turn = NoTask
  /\ UNCHANGED <<request, results, segment, attempts, locals, load, linked>>

\* Every remote attempt failed: this device's model answers, or the task fails.
Rescue(t) ==
  /\ ExecutorStep(t) /\ phase[t] = "rescue"
  /\ \/ /\ HasLocal
        /\ replicas' = [replicas EXCEPT ![t] = {LocalReplica}]
        /\ phase' = [phase EXCEPT ![t] = "resolving"]
     \/ /\ phase' = [phase EXCEPT ![t] = "failed"]
        /\ UNCHANGED replicas

\* Every remote replica is degraded: this device's model replaces them if its
\* answer passes the check.
Redo(t) ==
  /\ ExecutorStep(t) /\ phase[t] = "redo"
  /\ phase' = [phase EXCEPT ![t] = "resolving"]
  /\ \/ HasLocal /\ replicas' = [replicas EXCEPT ![t] = {LocalReplica}]
     \/ UNCHANGED replicas

Resolve(t) ==
  /\ ExecutorStep(t) /\ phase[t] = "resolving"
  /\ phase' = [phase EXCEPT ![t] = "done"]
  /\ UNCHANGED replicas

-----------------------------------------------------------------------------
(* _dispatch_one and the wire *)

DispatchStep ==
  /\ turn = NoTask
  /\ UNCHANGED <<request, results, phase, segment, locals, replicas, load>>

\* Attempts that hold a slot of node n, and of the whole request.
Holding == {i \in DOMAIN attempts : attempts[i].stage \in {"sent", "unwinding"}}
HoldingOf(n) == {i \in Holding : attempts[i].node = n}

\* With its node's slot and the request's, the attempt is written to the
\* session; without a session the dispatch fails at once.
Send(i) ==
  /\ DispatchStep /\ i \in DOMAIN attempts
  /\ attempts[i].stage = "queued"
  /\ Cardinality(Holding) < MaxConcurrency
  /\ Cardinality(HoldingOf(attempts[i].node)) < Capacity[attempts[i].node]
  /\ attempts' = [attempts EXCEPT ![i] =
       IF @.node \in linked
       THEN [@ EXCEPT !.stage = "sent"]
       ELSE [@ EXCEPT !.stage = "returned", !.status = "failed"]]
  /\ UNCHANGED linked

\* A result arrives and settles the dispatch.  The worker reports the family of
\* the model it ran, which need not be one that it advertises (worker.py:231).
Reply(i) ==
  /\ DispatchStep /\ i \in DOMAIN attempts
  /\ attempts[i].stage = "sent"
  /\ \E answer \in Answers :
       \E told \in IF Verified(answer) THEN Families ELSE {attempts[i].told} :
         attempts' = [attempts EXCEPT
           ![i].stage = "returned",
           ![i].answer = answer,
           ![i].told = told,
           ![i].status = IF Verified(answer) THEN @ ELSE "failed"]
  /\ UNCHANGED linked

\* Mutant: the deadline is kept by run_task's wait, not by the dispatch itself.
ExpireWhileAwaited(i) ==
  /\ DispatchStep /\ i \in DOMAIN attempts
  /\ attempts[i].stage = "sent"
  /\ \E t \in Tasks : InRound(t) /\ i \in inflight[t]
  /\ attempts' = [attempts EXCEPT ![i].stage = "returned", ![i].status = "failed"]
  /\ UNCHANGED linked

\* The worker answers with an error, or timeout_s passes.
Expire(i) ==
  /\ DispatchStep /\ i \in DOMAIN attempts
  /\ attempts[i].stage = "sent"
  /\ attempts' = [attempts EXCEPT ![i].stage = "returned", ![i].status = "failed"]
  /\ UNCHANGED linked

\* Mutant: the handler takes a cancellation for a transport failure.
UnwindAsFailure(i) ==
  /\ DispatchStep /\ i \in DOMAIN attempts
  /\ attempts[i].stage = "unwinding"
  /\ attempts' = [attempts EXCEPT ![i].stage = "cancelled", ![i].status = "failed"]
  /\ UNCHANGED linked

\* A cancelled dispatch runs its handler: "cancel" goes out, the slot is free.
Unwind(i) ==
  /\ DispatchStep /\ i \in DOMAIN attempts
  /\ attempts[i].stage = "unwinding"
  /\ attempts' = [attempts EXCEPT ![i].stage = "cancelled"]
  /\ UNCHANGED linked

\* A session ends: every dispatch waiting on it fails.
Disconnect(n) ==
  /\ DispatchStep /\ n \in linked
  /\ linked' = linked \ {n}
  /\ attempts' = [i \in DOMAIN attempts |->
       IF attempts[i].stage = "sent" /\ attempts[i].node = n
       THEN [attempts[i] EXCEPT !.stage = "returned", !.status = "failed"]
       ELSE attempts[i]]

Reconnect(n) ==
  /\ DispatchStep /\ n \notin linked
  /\ linked' = linked \cup {n}
  /\ UNCHANGED attempts

-----------------------------------------------------------------------------
MaxAttempts == Cardinality(Tasks) * (KMax + 1)

Segment(t) ==
  \/ LaunchInitial(t) \/ Park(t)
  \/ \E i \in batch : Accept(t, i) \/ Reject(t, i) \/ DropFailed(t, i)
  \/ ReturnFirst(t) \/ ReturnSplit(t) \/ ReturnTie(t)

TaskStep(t) ==
  \/ Begin(t) \/ Collect(t) \/ Segment(t)
  \/ Rescue(t) \/ Redo(t) \/ Resolve(t)

Dispatch(i) == Send(i) \/ Expire(i) \/ Unwind(i)

Next ==
  \/ Levels \/ Stop
  \/ \E t \in Tasks : TaskStep(t) \/ Hedge(t)
  \/ \E i \in DOMAIN attempts : Dispatch(i) \/ Reply(i)
  \/ \E n \in Nodes : Disconnect(n) \/ Reconnect(n)

Spec == Init /\ [][Next]_vars

\* The event loop runs what is ready, timers fire and executor jobs end.
\* Workers need not answer, hedge timers need not be short, users need not stop.
Fairness ==
  /\ WF_vars(Levels)
  /\ \A t \in Tasks : WF_vars(TaskStep(t))
  /\ \A i \in 1..MaxAttempts : WF_vars(Dispatch(i))

FairSpec == Spec /\ Fairness

-----------------------------------------------------------------------------
(* Invariants *)

Indices == DOMAIN attempts

\* Every variable holds a value of its kind, and the local copies of run_task
\* refer to attempts that exist.
TypeOK ==
  /\ request \in {"running", "done", "failed", "stopped"}
  /\ results \subseteq Tasks
  /\ phase \in [Tasks -> Phases]
  /\ turn \in Tasks \cup {NoTask}
  /\ todo \in Nat
  /\ batch \subseteq Indices
  /\ attempts \in Seq(Attempt)
  /\ need \in [Tasks -> Nat] /\ ceiling \in [Tasks -> Nat] /\ number \in [Tasks -> Nat]
  /\ used \in [Tasks -> SUBSET (Nodes \X Families)]
  /\ inflight \in [Tasks -> SUBSET Indices]
  /\ accepted \in [Tasks -> SUBSET Indices]
  /\ rejected \in [Tasks -> SUBSET Indices]
  /\ replicas \in [Tasks -> SUBSET (Indices \cup {LocalReplica})]
  /\ load \in [Nodes -> Int]
  /\ linked \subseteq Nodes

\* The attempt id on the wire is task_id:number.  The worker refuses a second
\* attempt with the same id and the node keeps its pending futures under it, so
\* hedges, retries and the tie-break's second round must never reuse a number.
UniqueAttemptIds ==
  \A i, j \in Indices :
    attempts[i].task = attempts[j].task /\ attempts[i].number = attempts[j].number
      => i = j

AttemptsOf(t, reasons) == {i \in Indices : attempts[i].task = t /\ attempts[i].reason \in reasons}

\* Hedges and retries together with the initial replicas stay within k_max,
\* and a task gets at most one tie-break attempt on top.
WithinCeiling ==
  \A t \in Tasks :
    /\ Cardinality(AttemptsOf(t, {"initial", "hedge", "retry"})) <= KMax
    /\ Cardinality(AttemptsOf(t, {"tie_break"})) <= 1

\* No <<node, family>> pair is asked twice in the first round of a task, whatever
\* is hedged and retried in it; and the replica of a tie-break was asked of a pair
\* that none of the replicas it is compared with reports.  So the three come from
\* distinct pairs when workers report what they advertise.  One that reports
\* another family may be asked the same again, and the tie-break may well be on
\* the same family, though orchestrator.py:528 has it "on another family".
DistinctPairs ==
  \A t \in Tasks :
    /\ \A i, j \in AttemptsOf(t, {"initial", "hedge", "retry"}) : Pair(i) = Pair(j) => i = j
    /\ \A i, j \in replicas[t] \ {LocalReplica} :
          i # j /\ attempts[i].reason = "tie_break" => Pair(i) # ReportedPair(j)

\* self._load counts exactly the attempts still in flight: _select and the
\* free-slot test would drift for the rest of the request otherwise.
LoadExact ==
  \A n \in Nodes :
    load[n] = Cardinality({i \in UNION {inflight[t] : t \in Tasks} : attempts[i].node = n})

\* What is resolved for a task is never empty, and either all of it passed
\* verification and the content check, or it is this device's answer, or (a
\* degraded answer) all of it is verified and none of the task's replies passed.
SoundReplicas ==
  \A t \in Tasks : phase[t] \in {"resolving", "done"} =>
    \/ replicas[t] = {LocalReplica} /\ HasLocal
    \/ /\ replicas[t] # {} /\ LocalReplica \notin replicas[t]
       /\ \/ \A i \in replicas[t] : attempts[i].answer = "good"
          \/ /\ \A i \in replicas[t] : attempts[i].answer = "bad"
             /\ \A i \in Indices : attempts[i].task = t => attempts[i].answer # "good"

\* A packet carries the outcome of the tasks it consumes, so an attempt of a
\* task exists only once all of them have been resolved.
DependenciesFirst ==
  \A i \in Indices : \A d \in Deps[attempts[i].task] : phase[d] = "done" /\ d \in results

-----------------------------------------------------------------------------
(* Why attempt ids are unique: the inductive invariant behind it *)

\* A coroutine between two awaits is inside run_task.
TurnInRound == turn # NoTask => InRound(turn)

\* No attempt is made for a task whose run_one has not begun.
NoEarlyAttempt ==
  \A i \in Indices : phase[attempts[i].task] \notin {"waiting", "spawned"}

\* `number' is past every number the task has used, and the second round, which
\* continues at Len(attempts), continues past them too.
NumbersBehind ==
  /\ \A i \in Indices : attempts[i].number < number[attempts[i].task]
  /\ \A t \in Tasks : number[t] <= Len(attempts)

IdInv == TurnInRound /\ NoEarlyAttempt /\ NumbersBehind /\ UniqueAttemptIds

-----------------------------------------------------------------------------
(* Action properties *)

\* Two coroutines write Attempt.status, the dispatch and run_task.  Once a
\* verdict is there it stays, except that a rejected replica may be degraded.
VerdictIsFinal ==
  [][\A i \in Indices :
       attempts[i].status # "dispatched" =>
         \/ attempts'[i].status = attempts[i].status
         \/ attempts[i].status = "rejected" /\ attempts'[i].status = "degraded"]_attempts

-----------------------------------------------------------------------------
(* Liveness *)

\* The request ends: nothing a worker does or fails to do leaves it running.
RequestEnds == <>(request # "running")

\* No dispatch coroutine outlives the request for ever, orphaned or not.
DispatchesEnd ==
  <>[](\A i \in Indices : attempts[i].stage \in {"returned", "cancelled"})

-----------------------------------------------------------------------------
(* What the change log says of a stop *)

\* "when the requester gives up on an attempt (its timeout, a hedge that won,
\* the user stopping) it sends a cancel message": after a stop no attempt is
\* left on the wire without its cancel.
StopCancelsAttempts ==
  request = "stopped" => \A i \in Indices : attempts[i].stage # "sent"

-----------------------------------------------------------------------------
(* Refinement *)

PlanState ==
  [t \in Tasks |-> CASE phase[t] = "waiting"   -> "pending"
                     [] phase[t] \in Active    -> "running"
                     [] phase[t] = "cancelled" -> "abandoned"
                     [] OTHER                  -> phase[t]]

Plan == INSTANCE PlanRun WITH outcome <- request, state <- PlanState

\* Whatever hedges, retries, tie-breaks, rescues and disconnections do inside
\* the tasks, the orchestrator sees a plan run in dependency order that ends
\* once, with every task done or with nothing left running.
ImplementsPlan == Plan!Spec

=============================================================================
