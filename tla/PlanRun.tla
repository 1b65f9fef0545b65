------------------------------- MODULE PlanRun -------------------------------
(***************************************************************************)
(* What run_levels (engine/scheduler.py) promises the orchestrator about a *)
(* plan, whatever the scheduler does inside a task: a task starts only on  *)
(* finished predecessors, a request is done only with every task done, it  *)
(* fails only because a task did or none can start, and once it is over no *)
(* task is running and nothing about it changes.                           *)
(***************************************************************************)
CONSTANTS Tasks, Deps

VARIABLES outcome,   \* of the request
          state      \* of each task

vars == <<outcome, state>>

In(s) == {t \in Tasks : state[t] = s}

Ready(t) == state[t] = "pending" /\ Deps[t] \subseteq In("done")

Init ==
  /\ outcome = "running"
  /\ state = [t \in Tasks |-> "pending"]

\* Some tasks whose predecessors are done start together.
Start(S) ==
  /\ S # {} /\ \A t \in S : Ready(t)
  /\ state' = [t \in Tasks |-> IF t \in S THEN "running" ELSE state[t]]
  /\ UNCHANGED outcome

Finish(t, how) ==
  /\ state[t] = "running"
  /\ state' = [state EXCEPT ![t] = how]
  /\ UNCHANGED outcome

Succeed ==
  /\ In("done") = Tasks
  /\ outcome' = "done"
  /\ UNCHANGED state

Abandon(why) ==
  /\ outcome' = why
  /\ state' = [t \in Tasks |-> IF state[t] = "running" THEN "abandoned" ELSE state[t]]

Fail ==
  /\ \/ In("failed") # {}
     \/ In("running") = {} /\ \A t \in Tasks : ~Ready(t)
  /\ Abandon("failed")

Next ==
  /\ outcome = "running"
  /\ \/ \E S \in SUBSET Tasks : Start(S)
     \/ \E t \in Tasks, how \in {"done", "failed"} : Finish(t, how)
     \/ Succeed \/ Fail \/ Abandon("stopped")

Spec == Init /\ [][Next]_vars

=============================================================================
