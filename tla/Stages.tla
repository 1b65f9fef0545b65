------------------------------- MODULE Stages -------------------------------
(***************************************************************************)
(* The stage log of one request (orchestrator.py, StageTracker): a status  *)
(* for each of the fourteen stages of the pipeline.  A log is a function,  *)
(* an operation of the tracker an operator from logs to logs, and below    *)
(* them stand the logs that the paths through Orchestrator.run produce.    *)
(* Timings and details are left out.                                       *)
(***************************************************************************)
EXTENDS Naturals

\* The number of a stage is its place in PIPELINE_STAGES.
RECEIVED == 1
PRIVACY == 2
ROUTING == 3
PLANNING == 4
PACKETS == 5
NODES == 6
DISPATCHING == 7
EXECUTION == 8
RECEPTION == 9
VERIFICATION == 10
CONSENSUS == 11
ASSEMBLY == 12
COHERENCE == 13
FINAL == 14

Names == RECEIVED .. FINAL
DistributedOnly == PLANNING .. COHERENCE

Statuses == {"pending", "running", "completed", "partial", "skipped", "failed"}
Reported == {"completed", "partial", "skipped", "failed"}

Log == [Names -> Statuses]

NewLog == [n \in Names |-> "pending"]

\* Some stages end, or start, with a status.
Set(log, names, status) == [n \in Names |-> IF n \in names THEN status ELSE log[n]]

SkipRest(log, names) ==
    [n \in Names |-> IF n \in names /\ log[n] = "pending" THEN "skipped" ELSE log[n]]

FailRunning(log) == [n \in Names |-> IF log[n] = "running" THEN "failed" ELSE log[n]]

-----------------------------------------------------------------------------
(* The paths of run() *)

\* local(): the last stages are skipped, the local model answers.
AnsweredLocally(log) == Set(SkipRest(log, DistributedOnly), {FINAL}, "skipped")

\* A follow-up that cannot be rewritten, a request whose tier or lane keeps it
\* here, and one that the router, the admission or the lack of workers keeps.
LocalLogs ==
    LET received == Set(NewLog, {RECEIVED}, "completed")
        classified == Set(received, {PRIVACY}, "completed")
    IN  {AnsweredLocally(SkipRest(received, {PRIVACY, ROUTING})),
         AnsweredLocally(Set(classified, {ROUTING}, "skipped")),
         AnsweredLocally(Set(classified, {ROUTING}, "completed"))}

PlanningLog == Set(Set(NewLog, RECEIVED .. ROUTING, "completed"), {PLANNING}, "running")

\* The stage of planning, packets or node selection that an exception meets.
PreparationLogs ==
    {Set(Set(NewLog, RECEIVED .. s - 1, "completed"), {s}, "running") : s \in PLANNING .. NODES}

DispatchLog ==
    Set(Set(NewLog, RECEIVED .. NODES, "completed"), DISPATCHING .. RECEPTION, "running")

\* After the tasks: verification is always partial, consensus may be skipped.
ResultLogs ==
    {Set(Set(Set(NewLog, RECEIVED .. RECEPTION, "completed"), {VERIFICATION}, "partial"),
         {CONSENSUS}, s) : s \in {"completed", "skipped"}}

\* The stage after the tasks that an exception meets.
AssemblyLogs(log) == {Set(log, {ASSEMBLY}, "running"),
                      Set(Set(log, {ASSEMBLY}, "completed"), {COHERENCE}, "running")}

AnsweredBySwarm(log) == Set(log, ASSEMBLY .. FINAL, "completed")

\* The handler of Cancelled.
Interrupted(log) == Set(log, {FINAL}, "failed")

\* Mutant: what had not started is left as it was.
RaisedKeepingPending(log) == Set(FailRunning(log), {FINAL}, "failed")

\* The handler of any other exception.
Raised(log) == Set(SkipRest(FailRunning(log), Names), {FINAL}, "failed")

=============================================================================
