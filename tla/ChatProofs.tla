----------------------------- MODULE ChatProofs -----------------------------
(* Machine-checked theorems about Chat, for any requests, configurations and *)
(* numbers of events.                                                        *)
EXTENDS Chat, NaturalsInduction, WellFoundedInduction, TLAPS

\* What becomes of a request.
Ends == {"done", "failed", "stopped"}

Messages == {User(r) : r \in Requests} \union {Assistant(r) : r \in Requests}

\* The states of a thread.
Threads ==
    [pc : Sending \union Running \union Finishing \union Over, routed : BOOLEAN, log : Log,
     status : Ends \union {Nothing}, host : HostClasses, toPeers : BOOLEAN,
     pool : BOOLEAN, embedder : HostClasses, passages : BOOLEAN, sources : BOOLEAN, again : BOOLEAN,
     ledger : SUBSET Kinds, left : SUBSET Exits, ending : Ending \union {Nothing}]

Fragments(x) == IF x.toPeers THEN {"fragment"} ELSE {}

\* What left, but for the answers that a server of embeddings compares.
Governed(x) == {e.kind : e \in x.left} \ {"answers"}

\* Passages left for a third party with its authorisation.
Consent(x) == \A e \in x.left : e.kind = "passages" /\ e.to = "third_party" => e.under = "passages"

\* Only the execution of a plan sets the pool to work, and it waits for it; only it
\* and the assembly have sent fragments.
OnPath(x) ==
    /\ x.pc \in {"new"} \union Sending \union (Running \ {"swarm"}) => ~x.pool
    /\ x.pc \in {"new"} \union Sending \union (Running \ {"swarm", "assemble"}) => ~x.toPeers

\* A running thread's ledger has all that left but fragments.
Recorded(x) ==
    x.pc \in {"new"} \union Sending \union Running => Governed(x) \subseteq x.ledger \union Fragments(x)

\* The stages of an assembly, and of an ending, are those of the path taken.
Staged(x) ==
    /\ x.pc = "assemble" => x.log \in ResultLogs
    /\ x.pc = "write" /\ x.status # "stopped" => x.ending.statuses \subseteq Reported

Concluded(x) ==
    /\ x.pc \in Finishing => x.status \in Ends
    /\ x.pc = "write" => x.ending \in Ending
    /\ x.pc = "write" /\ x.status = "done" => Governed(x) \subseteq x.ending.receipt.sends /\ ~x.pool

Sane(x) ==
    x \in Threads /\ OnPath(x) /\ Recorded(x) /\ Staged(x) /\ Concluded(x) /\ Consent(x)

\* The variables besides the threads.
Stored ==
    /\ setting \in Settings
    /\ process \in {"up", "closing"}
    /\ exists \in BOOLEAN
    /\ restarted \in BOOLEAN
    /\ rows \in Seq(Messages)
    /\ question \in [Requests -> Requests \union {Nothing}]
    /\ message \in [Requests -> Ends \union {"running", Nothing}]
    /\ row \in [Requests -> Ends \union {"pending", Nothing}]
    /\ active \union stopping \subseteq Requests
    /\ \A r \in Requests : message[r] # Nothing => Contains(rows, Assistant(r))

ThreadInv == req \in [Requests -> Threads] /\ \A r \in Requests : Sane(req[r])

\* Where the message, the row and the list of active requests stand for a request
\* whose thread is at pc: one of the four steps of its end after the other.
Tidy(r) ==
    LET x == req[r] IN
    /\ message[r] # Nothing => exists
    /\ x.pc # "lost"
    /\ x.pc \in {"new", "placeholder"} => message[r] = Nothing /\ row[r] = Nothing /\ r \notin active
    /\ x.pc \in {"start", "refused"} => row[r] = Nothing /\ r \notin active
    /\ x.pc = "refused" => message[r] = Nothing
    /\ x.pc \in {"start"} \union Running \union {"write"} => message[r] \in {Nothing, "running"}
    /\ x.pc \in {"close", "leave"} => message[r] \in {Nothing, x.status}
    /\ x.pc \in Running \union {"write", "close"} => row[r] = "pending"
    /\ x.pc = "leave" => row[r] = x.status
    /\ x.pc \in Running \union Finishing => r \in active
    /\ x.pc = "ended" => r \notin active /\ message[r] \in {Nothing, row[r]}

TidyInv == ~restarted /\ Open => \A r \in Requests : Tidy(r)

-----------------------------------------------------------------------------
(* Records of a thread *)

\* A thread starts sane.
LEMMA FreshSane == Sane(Fresh)
<1>1. Fresh \in Threads
  BY DEF Fresh, Threads, Over, NewLog, Log, Statuses, HostClasses
<1> QED
  BY <1>1 DEF Sane, OnPath, Recorded, Staged, Concluded, Fresh, Fragments, Finishing, Governed, Consent

\* What a thread that ends forgets, and what it leaves for the pool.
LEMMA LeftRecord ==
  ASSUME NEW s, NEW pc, NEW status
  PROVE  Left(s, pc, status) =
          [pc |-> pc, routed |-> FALSE, log |-> NewLog, status |-> status,
           host |-> IF s.pool THEN s.host ELSE "local", toPeers |-> FALSE, pool |-> s.pool,
           embedder |-> IF s.pool THEN s.embedder ELSE "local",
           passages |-> FALSE, sources |-> FALSE, again |-> FALSE, ledger |-> {}, left |-> {},
           ending |-> Nothing]
<1> DEFINE h == IF s.pool THEN s.host ELSE "local"
           e == IF s.pool THEN s.embedder ELSE "local"
           pool == s.pool
<1>1. Left(s, pc, status) =
        [Fresh EXCEPT !.pc = pc, !.status = status, !.pool = pool, !.host = h, !.embedder = e]
  <2>1. Fresh.host = "local" /\ Fresh.embedder = "local"
    BY DEF Fresh
  <2> QED
    BY <2>1 DEF Left
<1> HIDE DEF h, e, pool
<1>2. Left(s, pc, status) =
        [pc |-> pc, routed |-> FALSE, log |-> NewLog, status |-> status,
         host |-> h, toPeers |-> FALSE, pool |-> pool, embedder |-> e,
         passages |-> FALSE, sources |-> FALSE, again |-> FALSE, ledger |-> {}, left |-> {},
         ending |-> Nothing]
  BY <1>1 DEF Fresh
<1> QED
  BY <1>2 DEF h, e, pool

\* A thread that has written its answer keeps what a rescue needs.
LEMMA LeftSane ==
  ASSUME NEW s \in Threads, NEW pc \in {"close", "leave", "ended"}, NEW status \in Ends \union {Nothing},
         pc # "ended" => status \in Ends
  PROVE  /\ Sane(Left(s, pc, status))
         /\ Left(s, pc, status).pc = pc /\ Left(s, pc, status).status = status
         /\ Left(s, pc, status).left = {}
<1> DEFINE x == Left(s, pc, status)
<1>1. x = [pc |-> pc, routed |-> FALSE, log |-> NewLog, status |-> status,
           host |-> IF s.pool THEN s.host ELSE "local", toPeers |-> FALSE, pool |-> s.pool,
           embedder |-> IF s.pool THEN s.embedder ELSE "local",
           passages |-> FALSE, sources |-> FALSE, again |-> FALSE, ledger |-> {}, left |-> {},
           ending |-> Nothing]
  BY LeftRecord
<1>2. x \in Threads
  <2>1. s.pool \in BOOLEAN /\ s.host \in HostClasses /\ s.embedder \in HostClasses
    BY DEF Threads
  <2> QED
    BY <1>1, <2>1 DEF Threads, Finishing, Over, NewLog, Log, Statuses, HostClasses
<1>3. /\ x.pc = pc /\ x.status = status /\ x.left = {} /\ x.pc \in {"close", "leave", "ended"}
  BY <1>1
<1> QED
  BY <1>2, <1>3 DEF Sane, OnPath, Recorded, Staged, Concluded, Consent, Sending, Running, Finishing

\* A thread that ends with a reporting log is sane, and about to write it.
LEMMA EndedSane ==
  ASSUME NEW s \in Threads, NEW status \in Ends, NEW log \in Log \union {NoLog},
         NEW distributed \in BOOLEAN,
         status # "stopped" /\ log # NoLog => \A n \in Names : log[n] \in Reported,
         Consent(s),
         status = "done" => /\ Governed(s) \subseteq s.ledger \union Fragments(s)
                            /\ s.toPeers => distributed
                            /\ ~s.pool
  PROVE  /\ Sane(Ended(s, status, log, distributed))
         /\ Ended(s, status, log, distributed).pc = "write"
         /\ Ended(s, status, log, distributed).status = status
         /\ Ended(s, status, log, distributed).left = s.left
<1> DEFINE x == Ended(s, status, log, distributed)
           receipt == AttachReceipt(distributed, s.toPeers, s.ledger)
<1>1. x = [pc |-> "write", routed |-> FALSE, log |-> NewLog, status |-> status,
           host |-> IF s.pool THEN s.host ELSE "local", toPeers |-> FALSE, pool |-> s.pool,
           embedder |-> IF s.pool THEN s.embedder ELSE "local",
           passages |-> FALSE, sources |-> FALSE, again |-> FALSE, ledger |-> s.ledger,
           left |-> s.left, ending |-> [statuses |-> Range(log), receipt |-> receipt]]
  <2>1. x = [Left(s, "write", status) EXCEPT !.ledger = s.ledger, !.left = s.left,
                                             !.ending = [statuses |-> Range(log), receipt |-> receipt]]
    BY DEF Ended
  <2> QED
    BY <2>1, LeftRecord
<1>2. /\ s.pool \in BOOLEAN /\ s.toPeers \in BOOLEAN /\ s.host \in HostClasses /\ s.embedder \in HostClasses
      /\ s.ledger \subseteq Kinds /\ s.left \subseteq Exits
  BY DEF Threads
<1>3. /\ receipt.sends = s.ledger \union (IF distributed /\ s.toPeers THEN {"fragment"} ELSE {})
      /\ receipt \in [route : {"local", "local+public", "fragmented"}, sends : SUBSET Kinds]
  BY <1>2 DEF AttachReceipt, Receipt, Kinds
<1> HIDE DEF receipt
<1>10. /\ Range(log) \subseteq Statuses
       /\ status # "stopped" => Range(log) \subseteq Reported
  <2>1. CASE log = NoLog
    BY <2>1 DEF Range, NoLog
  <2>2. CASE log # NoLog
    BY <2>2 DEF Range, Log
  <2> QED
    BY <2>1, <2>2
<1>4. [statuses |-> Range(log), receipt |-> receipt] \in Ending
  BY <1>3, <1>10 DEF Ending
<1>5. x \in Threads
  BY <1>1, <1>2, <1>4 DEF Threads, Finishing, NewLog, Log, Statuses, HostClasses
<1>6. /\ x.pc = "write" /\ x.status = status /\ x.left = s.left /\ x.pool = s.pool
      /\ x.ending = [statuses |-> Range(log), receipt |-> receipt]
      /\ x.ending.statuses = Range(log) /\ x.ending.receipt = receipt
  BY <1>1
<1> HIDE DEF x
<1>7. OnPath(x) /\ Recorded(x)
  BY <1>6 DEF OnPath, Recorded, Sending, Running
<1>8. Staged(x) /\ Consent(x)
  BY <1>6, <1>10 DEF Staged, Consent
<1>9. Concluded(x)
  <2>1. status = "done" => Governed(s) \subseteq receipt.sends
    BY <1>2, <1>3 DEF Fragments
  <2>2. Governed(x) = Governed(s)
    BY <1>6 DEF Governed
  <2> QED
    BY <1>4, <1>6, <2>1, <2>2 DEF Concluded
<1> QED
  BY <1>5, <1>6, <1>7, <1>8, <1>9 DEF Sane, x

\* So is one that ends with an answer whose receipt has the fragments.
LEMMA AnsweredSane ==
  ASSUME NEW s \in Threads, NEW log \in Log \union {NoLog}, NEW distributed \in BOOLEAN,
         log # NoLog => \A n \in Names : log[n] \in Reported,
         Consent(s), Governed(s) \subseteq s.ledger \union Fragments(s), s.toPeers => distributed, ~s.pool
  PROVE  LET x == Ended(s, "done", log, distributed)
         IN  Sane(x) /\ x.pc = "write" /\ x.left = s.left
<1>1. PICK status : status = "done"
  OBVIOUS
<1>2. status \in Ends
  BY <1>1 DEF Ends
<1> DEFINE x == Ended(s, status, log, distributed)
<1>3. Sane(x) /\ x.pc = "write" /\ x.left = s.left
  BY <1>1, <1>2, EndedSane
<1> HIDE DEF x
<1> QED
  BY <1>1, <1>3 DEF x

-----------------------------------------------------------------------------
(* The steps of a thread *)

\* A thread that runs goes on or concludes, and the pool may end its work for any
\* thread; nothing but the threads changes.
Work(r, x) ==
    /\ Sane(x)
    /\ \/ req[r].pc \in Running /\ x.pc \in Running \union {"write"}
       \/ x.pc = req[r].pc /\ x.status = req[r].status
    /\ Becomes(r, x)
    /\ UNCHANGED <<user, stored, active, stopping, seen>>

Works(r) == \E x : Work(r, x)

\* A request that has not reached the swarm, or has got past it without.
LEMMA AwayFromPeers ==
  ASSUME NEW x, Sane(x), x.pc \in Running \ {"swarm", "assemble"}
  PROVE  x \in Threads /\ ~x.pool /\ ~x.toPeers /\ Governed(x) \subseteq x.ledger /\ Consent(x)
BY DEF Sane, OnPath, Recorded, Fragments

\* What a thread is after calls: what left was recorded, and passages had consent.
AfterCalls(s, c) ==
    /\ c \in Threads
    /\ c.pc = s.pc /\ c.status = s.status /\ c.pool = s.pool /\ c.toPeers = s.toPeers
    /\ c.log = s.log /\ c.host = s.host /\ c.ending = s.ending
    /\ \A A : Governed(s) \subseteq s.ledger \union A => Governed(c) \subseteq c.ledger \union A
    /\ Consent(s) => Consent(c)

\* What leaves in calls is of those kinds, and passages leave with consent.
LEMMA SentFacts ==
  ASSUME Stored, NEW kinds \in SUBSET {"question", "public_query", "passages"},
         NEW host \in HostClasses, NEW k \in kinds, Leaves(setting.policy, host, k)
  PROVE  LET e == Exit(k, Destination(host, k))
         IN  /\ e \in Exits /\ e.kind = k
             /\ e.kind = "passages" /\ e.to = "third_party" => e.under = "passages"
<1>1. setting.policy \in Policies
  BY SettingsAssumption DEF Stored
<1>2. k = "passages" /\ host = "third_party" => setting.policy = "passages"
  BY DEF Leaves, Allows
<1>3. Destination(host, k) \in HostClasses /\ (k = "passages" => Destination(host, k) = host)
  BY DEF Destination, HostClasses
<1>4. k \in Kinds
  BY DEF Kinds
<1> QED
  BY <1>1, <1>2, <1>3, <1>4 DEF Exit, Exits

\* A call adds to the ledger and to what left alike.
LEMMA CalledFacts ==
  ASSUME Stored, NEW s \in Threads, NEW kinds \in SUBSET {"question", "public_query", "passages"},
         NEW host \in HostClasses
  PROVE  AfterCalls(s, Called(s, kinds, host))
<1> DEFINE c == Called(s, kinds, host)
           out == {k \in kinds : Leaves(setting.policy, host, k)}
           sent == {Exit(k, Destination(host, k)) : k \in out}
<1>1. c = [s EXCEPT !.left = s.left \union sent, !.ledger = s.ledger \union out]
  BY DEF Called
<1>2. out \subseteq Kinds
  BY DEF Kinds
<1>3. sent \subseteq Exits
  BY SentFacts
<1>4. \A e \in sent : /\ e.kind \in out
                      /\ e.kind = "passages" /\ e.to = "third_party" => e.under = "passages"
  BY SentFacts
<1> HIDE DEF out, sent, c
<1>5. c \in Threads
  BY <1>1, <1>2, <1>3 DEF Threads
<1>6. /\ c.pc = s.pc /\ c.status = s.status /\ c.pool = s.pool /\ c.toPeers = s.toPeers
      /\ c.log = s.log /\ c.host = s.host /\ c.ending = s.ending
      /\ c.left = s.left \union sent /\ c.ledger = s.ledger \union out
  BY <1>1 DEF Threads
<1>7. Consent(s) => Consent(c)
  BY <1>4, <1>6 DEF Consent
<1>8. ASSUME NEW A, Governed(s) \subseteq s.ledger \union A
      PROVE  Governed(c) \subseteq c.ledger \union A
  BY <1>4, <1>6, <1>8 DEF Governed
<1>9. AfterCalls(s, c)
  BY <1>5, <1>6, <1>7, <1>8 DEF AfterCalls
<1> QED
  BY <1>9 DEF c

\* Comparing answers elsewhere adds to what left nothing that is governed.
LEMMA ComparedFacts ==
  ASSUME NEW s \in Threads
  PROVE  AfterCalls(s, AnswersEmbedded(s))
<1> DEFINE sent == IF s.embedder = "local" THEN {} ELSE {Exit("answers", s.embedder)}
           c == AnswersEmbedded(s)
<1>1. c = [s EXCEPT !.left = s.left \union sent]
  BY DEF AnswersEmbedded
<1>2. sent \subseteq Exits
  BY DEF Exit, Exits, Kinds, Threads
<1>3. \A e \in sent : e.kind = "answers"
  BY DEF Exit
<1> HIDE DEF sent, c
<1>4. c \in Threads
  BY <1>1, <1>2 DEF Threads
<1>5. /\ c.pc = s.pc /\ c.status = s.status /\ c.pool = s.pool /\ c.toPeers = s.toPeers
      /\ c.log = s.log /\ c.host = s.host /\ c.ending = s.ending
      /\ c.left = s.left \union sent /\ c.ledger = s.ledger
  BY <1>1 DEF Threads
<1>6. Governed(c) = Governed(s) /\ (Consent(s) => Consent(c))
  BY <1>3, <1>5 DEF Governed, Consent
<1>7. AfterCalls(s, c)
  BY <1>4, <1>5, <1>6 DEF AfterCalls
<1> QED
  BY <1>7 DEF c

\* Calls after calls are calls.
LEMMA CallsCompose ==
  ASSUME NEW s, NEW c, NEW d, AfterCalls(s, c), AfterCalls(c, d)
  PROVE  AfterCalls(s, d)
BY DEF AfterCalls

\* No call is one.
LEMMA NoCalls ==
  ASSUME NEW s \in Threads
  PROVE  AfterCalls(s, s)
BY DEF AfterCalls

\* A request that fails, or is stopped, from wherever it runs.
LEMMA FailWorks ==
  ASSUME ThreadInv, NEW r \in Requests, req[r].pc \in Running, NEW s \in Threads,
         Consent(s),
         NEW log \in Log \union {NoLog}, NEW status \in {"failed", "stopped"},
         status # "stopped" /\ log # NoLog => \A n \in Names : log[n] \in Reported,
         Becomes(r, Ended(s, status, log, FALSE)),
         UNCHANGED <<user, stored, active, stopping, seen>>
  PROVE  Works(r)
<1> DEFINE x == Ended(s, status, log, FALSE)
<1>1. Sane(x) /\ x.pc = "write" /\ x.left = s.left
  <2>1. status \in Ends /\ status # "done" /\ FALSE \in BOOLEAN
    BY DEF Ends
  <2> QED
    BY <2>1, EndedSane
<1> HIDE DEF x
<1>2. Becomes(r, x)
  BY DEF x
<1> QED
  BY <1>1, <1>2 DEF Works, Work

\* The handler of an exception reports every stage, whatever the log.
LEMMA RaisedReports ==
  ASSUME NEW log \in Log
  PROVE  Raised(log) \in Log /\ \A n \in Names : Raised(log)[n] \in Reported
BY DEF Raised, SkipRest, FailRunning, Set, Log, Statuses, Reported

\* Interrupting a log closes the stages that were running.
LEMMA InterruptedLog ==
  ASSUME NEW log \in Log
  PROVE  Interrupted(log) \in Log
BY DEF Interrupted, Set, Log, Statuses

\* Setting stages of a log gives a log.
LEMMA SetLog ==
  ASSUME NEW log \in Log, NEW names, NEW status \in Statuses
  PROVE  Set(log, names, status) \in Log
BY DEF Set, Log

\* The logs of the paths through run().
LEMMA PathLogs ==
  /\ NewLog \in Log /\ PlanningLog \in Log /\ DispatchLog \in Log
  /\ PreparationLogs \subseteq Log /\ ResultLogs \subseteq Log
<1>1. NewLog \in Log
  BY DEF NewLog, Log, Statuses
<1>2. \A names : \A status \in Statuses : \A log \in Log : Set(log, names, status) \in Log
  BY SetLog
<1>3. "completed" \in Statuses /\ "running" \in Statuses /\ "partial" \in Statuses /\ "skipped" \in Statuses
  BY DEF Statuses
<1> QED
  BY <1>1, <1>2, <1>3 DEF PlanningLog, DispatchLog, PreparationLogs, ResultLogs

\* The logs of the local path report on every stage.
LEMMA LocalLogsReport ==
  ASSUME NEW log \in LocalLogs
  PROVE  log \in Log /\ \A n \in Names : log[n] \in Reported
<1> DEFINE A(l) == AnsweredLocally(l)
<1>1. \A l : AnsweredLocally(l) = [n \in Names |-> IF n = FINAL THEN "skipped"
                                     ELSE IF n \in DistributedOnly /\ l[n] = "pending" THEN "skipped" ELSE l[n]]
  BY DEF AnsweredLocally, SkipRest, Set, DistributedOnly, Names, PLANNING, COHERENCE, FINAL, RECEIVED
<1> QED
  BY <1>1 DEF LocalLogs, SkipRest, Set, NewLog, Log, Statuses, Reported, DistributedOnly,
     Names, RECEIVED, PRIVACY, ROUTING, PLANNING, COHERENCE, FINAL

\* So do those of an answer of the swarm.
LEMMA SwarmReports ==
  ASSUME NEW log \in ResultLogs
  PROVE  AnsweredBySwarm(log) \in Log /\ \A n \in Names : AnsweredBySwarm(log)[n] \in Reported
BY DEF ResultLogs, AnsweredBySwarm, Set, NewLog, Log, Statuses, Reported, Names, RECEIVED, RECEPTION,
   VERIFICATION, CONSENSUS, ASSEMBLY, FINAL

\* The catch-all of a thread ends it with a failure.
LEMMA UnexpectedWorks ==
  ASSUME ThreadInv, NEW r \in Requests, req[r].pc \in Running, Unexpected(r),
         UNCHANGED <<user, stored, active, stopping, seen>>
  PROVE  Works(r)
<1>1. req[r] \in Threads /\ Consent(req[r])
  BY DEF ThreadInv, Sane
<1> QED
  BY <1>1, FailWorks DEF Unexpected, Fail

\* A thread that goes on with other fields, none of them recorded or sent.
LEMMA GoesWorks ==
  ASSUME ThreadInv, NEW r \in Requests, req[r].pc \in Running,
         NEW pc \in Running \ {"assemble"}, req[r].pc \notin {"swarm", "assemble"}, Goes(r, pc),
         UNCHANGED <<user, stored, active, stopping, seen>>
  PROVE  Works(r)
<1>1. /\ Sane(req[r]) /\ req[r] \in Threads
      /\ ~req[r].pool /\ ~req[r].toPeers /\ Governed(req[r]) \subseteq req[r].ledger
  BY AwayFromPeers DEF ThreadInv
<1> DEFINE x == [req[r] EXCEPT !.pc = pc]
<1>2. /\ x \in Threads /\ x.pc = pc /\ x.pool = FALSE /\ x.toPeers = FALSE
      /\ x.left = req[r].left /\ x.ledger = req[r].ledger
  BY <1>1 DEF Threads
<1>3. Becomes(r, x)
  BY DEF Goes
<1> HIDE DEF x
<1>4. Sane(x)
  BY <1>1, <1>2 DEF Sane, OnPath, Recorded, Staged, Concluded, Governed, Consent, Running, Finishing
<1> QED
  BY <1>2, <1>3, <1>4 DEF Works, Work

\* Calls of a thread away from the swarm, and where they lead.
LEMMA CallsWork ==
  ASSUME ThreadInv, NEW r \in Requests, req[r].pc \in Running \ {"swarm", "assemble"},
         NEW s, AfterCalls(req[r], s),
         UNCHANGED <<user, stored, active, stopping, seen>>
  PROVE  /\ s \in Threads /\ s.log = req[r].log
         /\ \A log : /\ log \in Log \union {NoLog}
                     /\ log # NoLog => \A n \in Names : log[n] \in Reported
                     /\ Fail(r, s, log)
                     => Works(r)
         /\ \A x \in Threads :
              /\ x.pc \in Running \ {"assemble"} /\ x.pool = s.pool /\ x.toPeers = s.toPeers
              /\ x.left = s.left /\ x.ledger = s.ledger
              /\ Becomes(r, x)
              => Works(r)
<1>1. /\ Sane(req[r]) /\ req[r] \in Threads
      /\ ~req[r].pool /\ ~req[r].toPeers /\ Governed(req[r]) \subseteq req[r].ledger
      /\ Consent(req[r])
  BY AwayFromPeers DEF ThreadInv
<1>2. /\ s \in Threads /\ s.pool = req[r].pool /\ s.toPeers = req[r].toPeers /\ s.log = req[r].log
      /\ \A A : Governed(req[r]) \subseteq req[r].ledger \union A => Governed(s) \subseteq s.ledger \union A
      /\ Consent(s)
  BY <1>1 DEF AfterCalls
<1>3. Governed(s) \subseteq s.ledger
  <2>1. Governed(s) \subseteq s.ledger \union {}
    BY <1>1, <1>2
  <2> QED
    BY <2>1
<1>4. ASSUME NEW log, log \in Log \union {NoLog}, log # NoLog => \A n \in Names : log[n] \in Reported,
             Fail(r, s, log)
      PROVE  Works(r)
  BY <1>2, <1>4, FailWorks DEF Fail
<1>5. ASSUME NEW x \in Threads, x.pc \in Running \ {"assemble"}, x.pool = s.pool,
             x.toPeers = s.toPeers, x.left = s.left, x.ledger = s.ledger, Becomes(r, x)
      PROVE  Works(r)
  <2>1. Sane(x)
    BY <1>1, <1>2, <1>3, <1>5 DEF Sane, OnPath, Recorded, Staged, Concluded, Governed, Consent, Running, Finishing
  <2> QED
    BY <1>2, <1>5, <2>1 DEF Works, Work
<1> QED
  BY <1>2, <1>4, <1>5

\* Reading the question is a step of work, with the lookup that decides whether
\* the request is personal.
LEMMA ReadWorks ==
  ASSUME Stored, ThreadInv, NEW r \in Requests, Read(r)
  PROVE  Works(r)
<1>1. req[r].pc = "read" /\ req[r].pc \in Running \ {"swarm", "assemble"} /\ req[r] \in Threads
  BY DEF Read, At, Running, ThreadInv
<1>2. UNCHANGED <<user, stored, active, stopping, seen>>
  BY DEF Read
<1>3. CASE Unexpected(r)
  BY <1>1, <1>2, <1>3, UnexpectedWorks
<1>4. CASE ~Unexpected(r)
  <2>1. PICK lookup \in Lookups(r) :
          \/ Becomes(r, [Embedded(req[r], lookup) EXCEPT !.pc = "resolve"])
          \/ Becomes(r, [Embedded(req[r], lookup) EXCEPT !.pc = "route"])
          \/ Fail(r, Embedded(req[r], lookup), NoLog)
    BY <1>4 DEF Read
  <2>2. PICK s : s = Embedded(req[r], lookup)
    OBVIOUS
  <2>3. AfterCalls(req[r], s)
    <3>1. setting.host \in HostClasses
      BY SettingsAssumption DEF Stored
    <3>2. lookup \in SUBSET {"question", "public_query", "passages"}
      BY DEF Lookups
    <3> QED
      BY <1>1, <2>2, <3>1, <3>2, CalledFacts DEF Embedded
  <2>4. CASE Fail(r, s, NoLog)
    BY <1>1, <1>2, <2>3, <2>4, CallsWork
  <2>5. CASE \E pc \in {"resolve", "route"} : Becomes(r, [s EXCEPT !.pc = pc])
    <3>1. PICK pc \in {"resolve", "route"} : Becomes(r, [s EXCEPT !.pc = pc])
      BY <2>5
    <3> DEFINE x == [s EXCEPT !.pc = pc]
    <3>2. /\ x \in Threads /\ x.pc \in Running \ {"assemble"} /\ x.pool = s.pool
          /\ x.toPeers = s.toPeers /\ x.left = s.left /\ x.ledger = s.ledger
      BY <2>3 DEF AfterCalls, Threads, Running
    <3>3. Becomes(r, x)
      BY <3>1
    <3> HIDE DEF x
    <3> QED
      BY <1>1, <1>2, <2>3, <3>2, <3>3, CallsWork
  <2> QED
    BY <2>1, <2>2, <2>4, <2>5
<1> QED
  BY <1>3, <1>4

\* Routing is one, to the swarm, to the local path or to a failure.
LEMMA RouteWorks ==
  ASSUME Stored, ThreadInv, NEW r \in Requests, Route(r)
  PROVE  Works(r)
<1>1. PICK calls \in SUBSET {"question"} :
        LET s == Called(req[r], calls, setting.host)
        IN  \/ Becomes(r, [s EXCEPT !.pc = "resolve", !.routed = TRUE])
            \/ Becomes(r, [s EXCEPT !.pc = "plan", !.log = PlanningLog, !.host = setting.host])
            \/ Fail(r, s, NoLog)
  BY DEF Route
<1>2. PICK s : s = Called(req[r], calls, setting.host)
  OBVIOUS
<1>3. req[r].pc \in Running \ {"swarm", "assemble"} /\ UNCHANGED <<user, stored, active, stopping, seen>>
  BY DEF Route, At, Running
<1>6. setting.host \in HostClasses
  BY SettingsAssumption DEF Stored
<1>4. AfterCalls(req[r], s)
  BY <1>2, <1>3, <1>6, CalledFacts DEF ThreadInv
<1>5. s \in Threads
  BY <1>4 DEF AfterCalls
<1>7. CASE Becomes(r, [s EXCEPT !.pc = "resolve", !.routed = TRUE])
  <2> DEFINE x == [s EXCEPT !.pc = "resolve", !.routed = TRUE]
  <2>1. /\ x \in Threads /\ x.pc \in Running \ {"assemble"} /\ x.pool = s.pool
        /\ x.toPeers = s.toPeers /\ x.left = s.left /\ x.ledger = s.ledger
    BY <1>5 DEF Threads, Running
  <2>2. Becomes(r, x)
    BY <1>7
  <2> HIDE DEF x
  <2> QED
    BY <1>2, <1>3, <1>4, <2>1, <2>2, CallsWork
<1>8. CASE Becomes(r, [s EXCEPT !.pc = "plan", !.log = PlanningLog, !.host = setting.host])
  <2> DEFINE x == [s EXCEPT !.pc = "plan", !.log = PlanningLog, !.host = setting.host]
  <2>1. /\ x \in Threads /\ x.pc \in Running \ {"assemble"} /\ x.pool = s.pool
        /\ x.toPeers = s.toPeers /\ x.left = s.left /\ x.ledger = s.ledger
    BY <1>5, <1>6, PathLogs DEF Threads, Running
  <2>2. Becomes(r, x)
    BY <1>8
  <2> HIDE DEF x
  <2> QED
    BY <1>2, <1>3, <1>4, <2>1, <2>2, CallsWork
<1>9. CASE Fail(r, s, NoLog)
  BY <1>2, <1>3, <1>4, <1>9, CallsWork
<1> QED
  BY <1>1, <1>2, <1>7, <1>8, <1>9

\* Planning is one: what leaves for it is recorded.
LEMMA PlanWorks ==
  ASSUME Stored, ThreadInv, NEW r \in Requests, Plan(r)
  PROVE  Works(r)
<1>1. PICK calls \in SUBSET {"question", "public_query"} :
        LET s == Called(req[r], calls, req[r].host)
        IN  \/ Becomes(r, [s EXCEPT !.pc = "swarm", !.log = DispatchLog, !.embedder = EmbedderHost])
            \/ \E log \in PreparationLogs : Fail(r, s, Raised(log))
  BY DEF Plan
<1>2. PICK s : s = Called(req[r], calls, req[r].host)
  OBVIOUS
<1>3. req[r].pc \in Running \ {"swarm", "assemble"} /\ UNCHANGED <<user, stored, active, stopping, seen>>
  BY DEF Plan, At, Running
<1>7. AfterCalls(req[r], s)
  <2>1. req[r] \in Threads /\ req[r].host \in HostClasses
    BY DEF ThreadInv, Threads
  <2> QED
    BY <1>2, <2>1, CalledFacts
<1>4. s \in Threads /\ EmbedderHost \in HostClasses
  <2>1. setting.host \in HostClasses
    BY SettingsAssumption DEF Stored
  <2> QED
    BY <1>7, <2>1 DEF AfterCalls, EmbedderHost, HostClasses
<1>5. CASE Becomes(r, [s EXCEPT !.pc = "swarm", !.log = DispatchLog, !.embedder = EmbedderHost])
  <2> DEFINE x == [s EXCEPT !.pc = "swarm", !.log = DispatchLog, !.embedder = EmbedderHost]
  <2>1. /\ x \in Threads /\ x.pc \in Running \ {"assemble"} /\ x.pool = s.pool
        /\ x.toPeers = s.toPeers /\ x.left = s.left /\ x.ledger = s.ledger
    BY <1>4, PathLogs DEF Threads, Running
  <2>2. Becomes(r, x)
    BY <1>5
  <2> HIDE DEF x
  <2> QED
    BY <1>3, <1>7, <2>1, <2>2, CallsWork
<1>6. CASE \E log \in PreparationLogs : Fail(r, s, Raised(log))
  <2>1. PICK log \in PreparationLogs : Fail(r, s, Raised(log))
    BY <1>6
  <2>2. Raised(log) \in Log /\ \A n \in Names : Raised(log)[n] \in Reported
    BY PathLogs, RaisedReports
  <2> QED
    BY <1>3, <1>7, <2>1, <2>2, CallsWork
<1> QED
  BY <1>1, <1>2, <1>5, <1>6

\* The swarm goes on: a fragment is sent, a rescue starts, or all tasks have answers.
LEMMA SwarmGoesOn ==
  ASSUME ThreadInv, NEW r \in Requests, SendFragment(r) \/ StartPool(r) \/ SwarmAnswers(r)
  PROVE  Works(r)
<1>1. /\ Sane(req[r]) /\ req[r] \in Threads /\ req[r].pc = "swarm"
      /\ Governed(req[r]) \subseteq req[r].ledger \union Fragments(req[r])
      /\ UNCHANGED <<user, stored, active, stopping, seen>>
  BY DEF ThreadInv, Sane, Recorded, SendFragment, StartPool, SwarmAnswers, At, Running
<1>2. CASE SendFragment(r)
  <2> DEFINE x == [req[r] EXCEPT !.toPeers = TRUE, !.left = @ \union {Exit("fragment", "peers")}]
  <2>1. Exit("fragment", "peers") \in Exits
    BY DEF Exit, Exits, Kinds
  <2>2. /\ x \in Threads /\ x.pc = "swarm" /\ x.toPeers = TRUE /\ x.ledger = req[r].ledger
        /\ x.left = req[r].left \union {Exit("fragment", "peers")}
    BY <1>1, <2>1 DEF Threads
  <2>3. Becomes(r, x)
    BY <1>2 DEF SendFragment
  <2> HIDE DEF x
  <2>4. Exit("fragment", "peers").kind = "fragment"
    BY DEF Exit
  <2>5. Consent(x) /\ Governed(x) \subseteq x.ledger \union Fragments(x)
    BY <1>1, <2>2, <2>4 DEF Sane, Consent, Governed, Fragments
  <2>6. Sane(x)
    BY <1>1, <2>2, <2>5 DEF Sane, OnPath, Recorded, Staged, Concluded, Running, Finishing, Sending
  <2> QED
    BY <1>1, <2>2, <2>3, <2>6 DEF Works, Work, Running
<1>3. CASE StartPool(r)
  <2> DEFINE x == [req[r] EXCEPT !.pool = TRUE]
  <2>1. /\ x \in Threads /\ x.pc = "swarm" /\ x.toPeers = req[r].toPeers /\ x.left = req[r].left
        /\ x.ledger = req[r].ledger
    BY <1>1 DEF Threads
  <2>2. Becomes(r, x)
    BY <1>3 DEF StartPool
  <2> HIDE DEF x
  <2>3. Sane(x)
    BY <1>1, <2>1 DEF Sane, OnPath, Recorded, Staged, Concluded, Governed, Consent, Fragments, Running, Finishing, Sending
  <2> QED
    BY <1>1, <2>1, <2>2, <2>3 DEF Works, Work, Running
<1>4. CASE SwarmAnswers(r)
  <2>1. PICK log \in ResultLogs : Becomes(r, [req[r] EXCEPT !.pc = "assemble", !.log = log])
    BY <1>4 DEF SwarmAnswers
  <2> DEFINE x == [req[r] EXCEPT !.pc = "assemble", !.log = log]
  <2>2. /\ x \in Threads /\ x.pc = "assemble" /\ x.toPeers = req[r].toPeers /\ x.left = req[r].left
        /\ x.ledger = req[r].ledger /\ x.log = log /\ x.pool = req[r].pool
    BY <1>1, PathLogs DEF Threads, Running
  <2>3. Becomes(r, x)
    BY <2>1
  <2> HIDE DEF x
  <2>4. ~x.pool
    BY <1>4, <2>2 DEF SwarmAnswers, AllDone
  <2>5. Sane(x)
    BY <1>1, <2>2, <2>4 DEF Sane, OnPath, Recorded, Staged, Concluded, Governed, Consent, Fragments, Running, Finishing, Sending
  <2> QED
    BY <1>1, <2>2, <2>3, <2>5 DEF Works, Work, Running
<1> QED
  BY <1>2, <1>3, <1>4

\* The pool ends its work, during the request or after its end.
LEMMA PoolWorks ==
  ASSUME Stored, ThreadInv, NEW r \in Requests, Rescue(r) \/ ResolveTask(r)
  PROVE  Works(r)
<1>1. /\ Sane(req[r]) /\ req[r] \in Threads /\ req[r].pool /\ req[r].host \in HostClasses
      /\ UNCHANGED <<user, stored, active, stopping, seen>>
  BY DEF ThreadInv, Threads, Rescue, ResolveTask
<1>2. PICK c : AfterCalls(req[r], c) /\ Becomes(r, [c EXCEPT !.pool = FALSE])
  <2>1. CASE Rescue(r)
    BY <1>1, <2>1, CalledFacts DEF Rescue, CalledFromPool
  <2>2. CASE ResolveTask(r)
    BY <1>1, <2>2, ComparedFacts DEF ResolveTask
  <2> QED
    BY <2>1, <2>2
<1> DEFINE x == [c EXCEPT !.pool = FALSE]
<1>3. Becomes(r, x)
  BY <1>2
<1>4. /\ c \in Threads /\ c.toPeers = req[r].toPeers /\ c.pc = req[r].pc /\ c.status = req[r].status
      /\ c.log = req[r].log /\ c.ending = req[r].ending
      /\ \A A : Governed(req[r]) \subseteq req[r].ledger \union A => Governed(c) \subseteq c.ledger \union A
      /\ Consent(c)
  BY <1>1, <1>2 DEF AfterCalls, Sane
<1>5. /\ x \in Threads /\ x.pool = FALSE /\ x.toPeers = c.toPeers /\ x.left = c.left /\ x.ledger = c.ledger
      /\ x.pc = c.pc /\ x.status = c.status /\ x.log = c.log /\ x.ending = c.ending
  BY <1>4 DEF Threads
<1> HIDE DEF x
<1>6. OnPath(x) /\ Staged(x) /\ Consent(x) /\ Governed(x) = Governed(c)
  BY <1>1, <1>4, <1>5 DEF Sane, OnPath, Staged, Consent, Governed
<1>7. Recorded(x)
  BY <1>1, <1>4, <1>5, <1>6 DEF Sane, Recorded, Fragments
<1>8. Concluded(x)
  BY <1>1, <1>4, <1>5 DEF Sane, Concluded
<1> QED
  BY <1>1, <1>3, <1>4, <1>5, <1>6, <1>7, <1>8 DEF Works, Work, Sane

\* The end of the swarm, by an exception or a stop, is one.
LEMMA SwarmEnds ==
  ASSUME ThreadInv, NEW r \in Requests, SwarmRaises(r) \/ SwarmStopped(r)
  PROVE  Works(r)
<1>1. /\ req[r] \in Threads /\ req[r].log \in Log /\ req[r].pc \in Running /\ Consent(req[r])
      /\ UNCHANGED <<user, stored, active, stopping, seen>>
  BY DEF ThreadInv, Sane, Threads, SwarmRaises, SwarmStopped, At, Running
<1>2. CASE SwarmRaises(r)
  <2>1. Raised(req[r].log) \in Log /\ \A n \in Names : Raised(req[r].log)[n] \in Reported
    BY <1>1, RaisedReports
  <2> QED
    BY <1>1, <1>2, <2>1, FailWorks DEF SwarmRaises, Fail
<1>3. CASE SwarmStopped(r)
  BY <1>1, <1>3, InterruptedLog, FailWorks DEF SwarmStopped, Stop
<1> QED
  BY <1>2, <1>3

\* An assembled answer, or an exception while it is assembled.
LEMMA AssembleWorks ==
  ASSUME Stored, ThreadInv, NEW r \in Requests, Assemble(r)
  PROVE  Works(r)
<1>1. PICK calls \in SUBSET {"question"}, start \in {req[r], AnswersEmbedded(req[r])} :
        LET s == Called(start, calls, req[r].host)
        IN  \/ Becomes(r, Ended(s, "done", AnsweredBySwarm(s.log), TRUE))
            \/ \E log \in AssemblyLogs(s.log) : Fail(r, s, Raised(log))
  BY DEF Assemble
<1>2. PICK s : s = Called(start, calls, req[r].host)
  OBVIOUS
<1>3. /\ Sane(req[r]) /\ req[r] \in Threads /\ ~req[r].pool /\ req[r].log \in ResultLogs
      /\ Governed(req[r]) \subseteq req[r].ledger \union Fragments(req[r])
      /\ Consent(req[r]) /\ req[r].host \in HostClasses
      /\ req[r].pc \in Running /\ UNCHANGED <<user, stored, active, stopping, seen>>
  BY DEF ThreadInv, Threads, Sane, OnPath, Recorded, Staged, Assemble, At, Running
<1>4. /\ s \in Threads /\ s.log = req[r].log /\ s.pool = req[r].pool /\ s.toPeers = req[r].toPeers
      /\ \A A : Governed(req[r]) \subseteq req[r].ledger \union A => Governed(s) \subseteq s.ledger \union A
      /\ Consent(s)
  <2>1. AfterCalls(req[r], start) /\ start \in Threads
    BY <1>3, ComparedFacts, NoCalls DEF AfterCalls
  <2>2. AfterCalls(start, s)
    BY <1>2, <1>3, <2>1, CalledFacts
  <2>3. AfterCalls(req[r], s)
    BY <2>1, <2>2, CallsCompose
  <2> QED
    BY <1>3, <2>3 DEF AfterCalls
<1>5. CASE Becomes(r, Ended(s, "done", AnsweredBySwarm(s.log), TRUE))
  <2> DEFINE log == AnsweredBySwarm(s.log)
             x == Ended(s, "done", log, TRUE)
  <2>1. log \in Log /\ \A n \in Names : log[n] \in Reported
    BY <1>3, <1>4, SwarmReports
  <2> HIDE DEF log
  <2>2. Governed(s) \subseteq s.ledger \union Fragments(s)
    BY <1>3, <1>4 DEF Fragments
  <2>3. TRUE \in BOOLEAN /\ log \in Log \union {NoLog} /\ ~s.pool
    BY <1>3, <1>4, <2>1
  <2>4. Sane(x) /\ x.pc = "write" /\ x.left = s.left
    BY <1>4, <2>1, <2>2, <2>3, AnsweredSane
  <2>5. Becomes(r, x)
    BY <1>5 DEF log
  <2> HIDE DEF x
  <2> QED
    BY <1>3, <1>4, <2>4, <2>5 DEF Works, Work
<1>6. CASE \E log \in AssemblyLogs(s.log) : Fail(r, s, Raised(log))
  <2>1. PICK log \in AssemblyLogs(s.log) : Fail(r, s, Raised(log))
    BY <1>6
  <2>2. s.log \in Log
    BY <1>4 DEF Threads
  <2>3. \A names : \A status \in Statuses : \A l \in Log : Set(l, names, status) \in Log
    BY SetLog
  <2>4. log \in Log
    BY <2>2, <2>3 DEF AssemblyLogs, Statuses
  <2>5. Raised(log) \in Log /\ \A n \in Names : Raised(log)[n] \in Reported
    BY <2>4, RaisedReports
  <2> QED
    BY <1>3, <1>4, <2>1, <2>5, FailWorks DEF Fail
<1> QED
  BY <1>1, <1>2, <1>5, <1>6

\* Resolving the backend is one: it fixes the host.
LEMMA ResolveWorks ==
  ASSUME Stored, ThreadInv, NEW r \in Requests, Resolve(r)
  PROVE  Works(r)
<1>1. /\ req[r] \in Threads /\ Sane(req[r]) /\ req[r].pc \in Running \ {"swarm", "assemble"}
      /\ UNCHANGED <<user, stored, active, stopping, seen>>
  BY DEF ThreadInv, Resolve, At, Running
<1>2. CASE Unexpected(r)
  BY <1>1, <1>2, UnexpectedWorks
<1>3. CASE \E p \in BOOLEAN :
             Becomes(r, [req[r] EXCEPT !.pc = "prepare", !.host = setting.host, !.passages = p])
  <2>1. PICK p \in BOOLEAN :
             Becomes(r, [req[r] EXCEPT !.pc = "prepare", !.host = setting.host, !.passages = p])
    BY <1>3
  <2> DEFINE x == [req[r] EXCEPT !.pc = "prepare", !.host = setting.host, !.passages = p]
  <2>2. setting.host \in HostClasses
    BY SettingsAssumption DEF Stored
  <2>3. /\ x \in Threads /\ x.pc = "prepare" /\ x.pool = req[r].pool
        /\ x.toPeers = req[r].toPeers /\ x.left = req[r].left /\ x.ledger = req[r].ledger
    BY <1>1, <2>2 DEF Threads, Running
  <2>4. Becomes(r, x)
    BY <2>1
  <2> HIDE DEF x
  <2>5. Sane(x)
    BY <1>1, <2>3 DEF Sane, OnPath, Recorded, Staged, Concluded, Governed, Consent, Fragments, Running, Finishing, Sending
  <2> QED
    BY <1>1, <2>3, <2>4, <2>5 DEF Works, Work, Running
<1> QED
  BY <1>2, <1>3 DEF Resolve

\* Gathering passages and sources is one: each is recorded as it leaves.
LEMMA PrepareWorks ==
  ASSUME Stored, ThreadInv, NEW r \in Requests, Prepare(r)
  PROVE  Works(r)
<1>1. PICK calls \in SUBSET {"question", "public_query"},
           lookup \in SUBSET {"question", "public_query", "passages"}, sources \in BOOLEAN :
        Becomes(r, [Embedded(Called(req[r], calls, req[r].host), lookup)
                      EXCEPT !.pc = "generate", !.sources = sources, !.passages = FALSE])
  BY DEF Prepare, Lookups
<1>2. PICK s : s = Embedded(Called(req[r], calls, req[r].host), lookup)
  OBVIOUS
<1>3. req[r].pc \in Running \ {"swarm", "assemble"} /\ UNCHANGED <<user, stored, active, stopping, seen>>
  BY DEF Prepare, At, Running
<1>4. AfterCalls(req[r], s)
  <2>1. req[r] \in Threads /\ req[r].host \in HostClasses /\ setting.host \in HostClasses
    BY SettingsAssumption DEF ThreadInv, Threads, Stored
  <2>2. PICK c : c = Called(req[r], calls, req[r].host)
    OBVIOUS
  <2>3. AfterCalls(req[r], c)
    BY <2>1, <2>2, CalledFacts
  <2>4. c \in Threads
    BY <2>3 DEF AfterCalls
  <2>5. AfterCalls(c, s)
    BY <1>2, <2>1, <2>2, <2>4, CalledFacts DEF Embedded
  <2> QED
    BY <2>3, <2>5, CallsCompose
<1> DEFINE x == [s EXCEPT !.pc = "generate", !.sources = sources, !.passages = FALSE]
<1>5. /\ x \in Threads /\ x.pc \in Running \ {"assemble"} /\ x.pool = s.pool
      /\ x.toPeers = s.toPeers /\ x.left = s.left /\ x.ledger = s.ledger
  BY <1>4 DEF AfterCalls, Threads, Running
<1>6. Becomes(r, x)
  BY <1>1, <1>2
<1> HIDE DEF x
<1> QED
  BY <1>3, <1>4, <1>5, <1>6, CallsWork

\* The call of the model is checked against the policy of the moment.
LEMMA GenerateWorks ==
  ASSUME Stored, ThreadInv, NEW r \in Requests, Generate(r)
  PROVE  Works(r)
<1>1. /\ req[r] \in Threads /\ Sane(req[r]) /\ req[r].pc \in Running \ {"swarm", "assemble"}
      /\ req[r].host \in HostClasses /\ setting.policy \in Policies
      /\ UNCHANGED <<user, stored, active, stopping, seen>>
  BY SettingsAssumption DEF Stored, ThreadInv, Threads, Generate, At, Running
<1>2. CASE Unexpected(r)
  BY <1>1, <1>2, UnexpectedWorks
<1>3. CASE ~Unexpected(r)
  <2> DEFINE kind == IF req[r].sources THEN "passages" ELSE "question"
             out == IF Destination(req[r].host, kind) = "local" THEN {} ELSE {kind}
             sent == {Exit(k, req[r].host) : k \in out}
             x == [req[r] EXCEPT !.pc = "generating", !.ledger = @ \union out, !.left = @ \union sent]
  <2>1. Permitted(r, kind) /\ Becomes(r, x)
    BY <1>3 DEF Generate
  <2>2. kind \in {"question", "passages"} /\ out \subseteq {kind}
    OBVIOUS
  <2>3. kind = "passages" /\ req[r].host = "third_party" => setting.policy = "passages"
    BY <2>1 DEF Permitted, Allows
  <2> HIDE DEF kind, out
  <2>4. sent \subseteq Exits
    BY <1>1, <2>2 DEF Exit, Exits, Kinds
  <2>5. \A e \in sent : /\ e.kind \in out
                        /\ e.kind = "passages" /\ e.to = "third_party" => e.under = "passages"
    BY <2>2, <2>3 DEF Exit
  <2> HIDE DEF sent
  <2>6. /\ x \in Threads /\ x.pc = "generating" /\ x.pool = req[r].pool
        /\ x.toPeers = req[r].toPeers /\ x.left = req[r].left \union sent
        /\ x.ledger = req[r].ledger \union out
    BY <1>1, <2>2, <2>4 DEF Threads, Running, Kinds
  <2> HIDE DEF x
  <2>7. ~req[r].pool /\ ~req[r].toPeers /\ Governed(req[r]) \subseteq req[r].ledger /\ Consent(req[r])
    BY <1>1, AwayFromPeers
  <2>8. Consent(x) /\ Governed(x) \subseteq x.ledger
    BY <2>5, <2>6, <2>7 DEF Consent, Governed
  <2>9. Sane(x)
    BY <2>6, <2>7, <2>8 DEF Sane, OnPath, Recorded, Staged, Concluded, Running, Finishing, Sending
  <2> QED
    BY <1>1, <2>1, <2>6, <2>9 DEF Works, Work, Running
<1> QED
  BY <1>2, <1>3

\* The ends of a generation are.
LEMMA GenerationWorks ==
  ASSUME ThreadInv, NEW r \in Requests,
         AnswerEmpty(r) \/ Answer(r) \/ GenerationRaises(r) \/ GenerationStopped(r)
  PROVE  Works(r)
<1>1. /\ Sane(req[r]) /\ req[r] \in Threads /\ req[r].pc = "generating"
      /\ req[r].pc \in Running \ {"swarm", "assemble"}
      /\ ~req[r].pool /\ ~req[r].toPeers /\ Governed(req[r]) \subseteq req[r].ledger
      /\ Consent(req[r]) /\ UNCHANGED <<user, stored, active, stopping, seen>>
  <2>1. Sane(req[r]) /\ req[r].pc = "generating" /\ req[r].pc \in Running \ {"swarm", "assemble"}
    BY DEF ThreadInv, AnswerEmpty, Answer, GenerationRaises, GenerationStopped, At, Running
  <2>2. UNCHANGED <<user, stored, active, stopping, seen>>
    BY DEF AnswerEmpty, Answer, GenerationRaises, GenerationStopped
  <2> QED
    BY <2>1, <2>2, AwayFromPeers
<1>2. CASE AnswerEmpty(r)
  <2> DEFINE x == [req[r] EXCEPT !.pc = "generate", !.again = TRUE]
  <2>1. /\ x \in Threads /\ x.pc = "generate" /\ x.pool = req[r].pool
        /\ x.toPeers = req[r].toPeers /\ x.left = req[r].left /\ x.ledger = req[r].ledger
    BY <1>1 DEF Threads, Running
  <2>2. Becomes(r, x)
    BY <1>2 DEF AnswerEmpty
  <2> HIDE DEF x
  <2>3. Sane(x)
    BY <1>1, <2>1 DEF Sane, OnPath, Recorded, Staged, Concluded, Governed, Consent, Fragments, Running, Finishing, Sending
  <2> QED
    BY <1>1, <2>1, <2>2, <2>3 DEF Works, Work, Running
<1>3. CASE Answer(r)
  <2>1. PICK log \in LocalLogs \union {NoLog} : Becomes(r, Ended(req[r], "done", log, FALSE))
    BY <1>3 DEF Answer
  <2> DEFINE x == Ended(req[r], "done", log, FALSE)
  <2>2. log \in Log \union {NoLog} /\ (log # NoLog => \A n \in Names : log[n] \in Reported)
    BY LocalLogsReport
  <2>3. FALSE \in BOOLEAN /\ Governed(req[r]) \subseteq req[r].ledger \union Fragments(req[r])
    BY <1>1
  <2>4. Sane(x) /\ x.pc = "write" /\ x.left = req[r].left
    BY <1>1, <2>2, <2>3, AnsweredSane
  <2>5. Becomes(r, x)
    BY <2>1
  <2> HIDE DEF x
  <2> QED
    BY <1>1, <2>4, <2>5 DEF Works, Work
<1>4. CASE GenerationRaises(r)
  BY <1>1, <1>4, UnexpectedWorks DEF GenerationRaises
<1>5. CASE GenerationStopped(r)
  BY <1>1, <1>5, FailWorks DEF GenerationStopped, Stop
<1> QED
  BY <1>2, <1>3, <1>4, <1>5

-----------------------------------------------------------------------------
(* The inductive invariant *)

\* A request at work has its placeholder, while the conversation exists.
AtWork == {"start"} \union Running \union Finishing

Placed ==
    \A r \in Requests : exists /\ req[r].pc \in AtWork => Contains(rows, Assistant(r))

IInv == Stored /\ ThreadInv /\ Placed /\ TidyInv

\* Placeholders stay where rows are only added.
LEMMA PlacedKept ==
  ASSUME Placed, NEW r \in Requests, exists' = exists,
         \A e : Contains(rows, e) => Contains(rows', e),
         \A q \in Requests \ {r} : req'[q] = req[q],
         req'[r].pc \in AtWork /\ exists => req[r].pc \in AtWork \/ Contains(rows', Assistant(r))
  PROVE  Placed'
BY DEF Placed

\* What the invariant says of a request depends on its own variables only.
LEMMA TidyAlone ==
  ASSUME NEW r \in Requests, Tidy(r), exists' = exists, message'[r] = message[r], row'[r] = row[r],
         req'[r] = req[r], r \in active' <=> r \in active
  PROVE  Tidy(r)'
BY DEF Tidy

\* A step of the thread of r that leaves the others alone.
LEMMA TidyOthers ==
  ASSUME TidyInv, NEW r \in Requests, restarted' = restarted, process' = process, exists' = exists,
         \A q \in Requests \ {r} :
            /\ message'[q] = message[q] /\ row'[q] = row[q] /\ req'[q] = req[q]
            /\ q \in active' <=> q \in active,
         ~restarted /\ Open /\ Tidy(r) => Tidy(r)'
  PROVE  TidyInv'
<1> SUFFICES ASSUME ~restarted, Open, NEW q \in Requests PROVE Tidy(q)'
  BY DEF TidyInv, Open
<1>1. Tidy(q) /\ Tidy(r)
  BY DEF TidyInv
<1>2. CASE q = r
  BY <1>1, <1>2
<1>3. CASE q # r
  BY <1>1, <1>3, TidyAlone
<1> QED
  BY <1>2, <1>3

\* A step of one thread leaves the others as they were.
LEMMA ThreadBecomes ==
  ASSUME ThreadInv, NEW r \in Requests, NEW x, Sane(x), Becomes(r, x)
  PROVE  ThreadInv' /\ req'[r] = x /\ \A q \in Requests \ {r} : req'[q] = req[q]
BY DEF ThreadInv, Becomes, Sane

\* A message stays where it is when another is added.
LEMMA AppendContains ==
  ASSUME NEW s \in Seq(Messages), NEW m \in Messages
  PROVE  /\ Append(s, m) \in Seq(Messages)
         /\ Contains(Append(s, m), m)
         /\ \A e : Contains(s, e) => Contains(Append(s, m), e)
<1>1. /\ Append(s, m) \in Seq(Messages) /\ Len(Append(s, m)) = Len(s) + 1 /\ Len(s) \in Nat
      /\ Append(s, m)[Len(s) + 1] = m /\ \A i \in 1 .. Len(s) : Append(s, m)[i] = s[i]
  OBVIOUS
<1> QED
  BY <1>1 DEF Contains

\* Every step of work keeps the invariant.
LEMMA WorksKeeps ==
  ASSUME IInv, NEW r \in Requests, Works(r)
  PROVE  IInv'
<1>1. PICK x : Work(r, x)
  BY DEF Works
<1>2. UNCHANGED <<setting, process, restarted, exists, rows, question, message, row, active, stopping>>
  BY <1>1 DEF Work, user, stored
<1>3. ThreadInv' /\ req'[r] = x /\ \A q \in Requests \ {r} : req'[q] = req[q]
  BY <1>1, ThreadBecomes DEF IInv, Work
<1>4. Stored'
  BY <1>2 DEF IInv, Stored
<1>5. Tidy(r) => Tidy(r)'
  <2>1. CASE req[r].pc \in Running /\ x.pc \in Running \union {"write"}
    BY <1>2, <1>3, <2>1 DEF Tidy, Running, Finishing
  <2>2. CASE x.pc = req[r].pc /\ x.status = req[r].status
    BY <1>2, <1>3, <2>2 DEF Tidy
  <2> QED
    BY <1>1, <2>1, <2>2 DEF Work
<1>6. TidyInv'
  BY <1>2, <1>3, <1>5, TidyOthers DEF IInv
<1>7. Placed'
  <2>1. x.pc \in AtWork => req[r].pc \in AtWork
    BY <1>1 DEF Work, AtWork
  <2> QED
    BY <1>2, <1>3, <2>1, PlacedKept DEF IInv
<1> QED
  BY <1>3, <1>4, <1>6, <1>7 DEF IInv

\* The steps of a request before and after its thread's work.
LEMMA GoesSane ==
  ASSUME NEW s, Sane(s), NEW pc,
         \/ s.pc \in {"new"} \union Sending /\ pc \in {"placeholder", "start", "read", "refused"}
         \/ s.pc = "close" /\ pc = "leave"
  PROVE  LET x == [s EXCEPT !.pc = pc]
         IN  Sane(x) /\ x.pc = pc /\ x.status = s.status /\ x.left = s.left
<1> DEFINE x == [s EXCEPT !.pc = pc]
<1>1. s \in Threads
  BY DEF Sane
<1>2. /\ x \in Threads /\ x.pc = pc /\ x.pool = s.pool /\ x.toPeers = s.toPeers /\ x.left = s.left
      /\ x.ledger = s.ledger /\ x.status = s.status
  BY <1>1 DEF Threads, Sending, Running, Finishing, Over
<1> HIDE DEF x
<1>3. Sane(x)
  BY <1>2 DEF Sane, OnPath, Recorded, Staged, Concluded, Governed, Consent, Fragments, Running, Finishing, Sending
<1> QED
  BY <1>2, <1>3 DEF x

\* The message of a new request is stored; its thread is not there yet.
LEMMA SendKeeps ==
  ASSUME IInv, NEW r \in Requests, NEW text \in Requests \union {Nothing}, Send(r, text)
  PROVE  IInv'
<1> DEFINE x == [req[r] EXCEPT !.pc = "placeholder"]
<1>1. /\ Becomes(r, x) /\ req[r].pc = "new" /\ Sane(req[r])
      /\ UNCHANGED <<setting, process, restarted, exists, message, row, active, stopping>>
  BY DEF Send, Goes, At, user, IInv, ThreadInv
<1>2. Sane(x) /\ x.pc = "placeholder"
  BY <1>1, GoesSane
<1> HIDE DEF x
<1>3. ThreadInv' /\ req'[r] = x /\ \A q \in Requests \ {r} : req'[q] = req[q]
  BY <1>1, <1>2, ThreadBecomes DEF IInv
<1>4. Stored'
  <2>1. User(r) \in Messages /\ rows' = Append(rows, User(r)) /\ question' = [question EXCEPT ![r] = text]
    BY DEF Messages, Send
  <2> QED
    BY <1>1, <2>1, AppendContains DEF IInv, Stored
<1>5. Tidy(r) => Tidy(r)'
  BY <1>1, <1>2, <1>3 DEF Tidy, Running, Finishing
<1>6. TidyInv'
  BY <1>1, <1>3, <1>5, TidyOthers DEF IInv
<1>7. Placed'
  <2>1. User(r) \in Messages /\ rows' = Append(rows, User(r)) /\ x.pc \notin AtWork
    BY <1>2 DEF Messages, Send, AtWork, Running, Finishing
  <2>2. \A e : Contains(rows, e) => Contains(rows', e)
    BY <2>1, AppendContains DEF IInv, Stored
  <2> QED
    BY <1>1, <1>3, <2>1, <2>2, PlacedKept DEF IInv
<1> QED
  BY <1>3, <1>4, <1>6, <1>7 DEF IInv

\* A retry sends the question above an older answer again.
LEMMA RetryKeeps ==
  ASSUME IInv, NEW r \in Requests, NEW old \in Requests, Retry(r, old)
  PROVE  IInv'
<1>1. PICK i \in 2 .. Len(rows) : rows[i - 1].role = "user" /\ Send(r, question[rows[i - 1].of])
  BY DEF Retry
<1>2. rows[i - 1] \in Messages
  BY DEF IInv, Stored
<1>3. rows[i - 1].of \in Requests
  <2>1. PICK q \in Requests : rows[i - 1] \in {User(q), Assistant(q)}
    BY <1>2 DEF Messages
  <2>2. User(q).of = q /\ Assistant(q).of = q
    BY DEF User, Assistant
  <2> QED
    BY <2>1, <2>2
<1>4. question[rows[i - 1].of] \in Requests \union {Nothing}
  BY <1>3 DEF IInv, Stored
<1> QED
  BY <1>1, <1>4, SendKeeps

\* The placeholder is there, and running, before the thread is.
LEMMA AddPlaceholderKeeps ==
  ASSUME IInv, NEW r \in Requests, AddPlaceholder(r)
  PROVE  IInv'
<1>1. PICK pc \in {"start", "refused"} : Goes(r, pc) /\ (pc = "start" <=> Open /\ exists)
  BY DEF AddPlaceholder
<1> DEFINE x == [req[r] EXCEPT !.pc = pc]
<1>2. /\ Becomes(r, x) /\ req[r].pc = "placeholder" /\ Sane(req[r])
      /\ UNCHANGED <<setting, process, restarted, exists, question, row, active, stopping>>
  BY <1>1 DEF AddPlaceholder, Goes, At, user, IInv, ThreadInv
<1>3. Sane(x) /\ x.pc = pc
  BY <1>2, GoesSane DEF Sending
<1> HIDE DEF x
<1>4. ThreadInv' /\ req'[r] = x /\ \A q \in Requests \ {r} : req'[q] = req[q]
  BY <1>2, <1>3, ThreadBecomes DEF IInv
<1>5. CASE Open /\ exists
  <2>1. /\ rows' = Append(rows, Assistant(r)) /\ message' = [message EXCEPT ![r] = "running"]
        /\ pc = "start" /\ Assistant(r) \in Messages
    BY <1>1, <1>5 DEF AddPlaceholder, Messages
  <2>2. /\ message'[r] = "running" /\ \A q \in Requests \ {r} : message'[q] = message[q]
        /\ message' \in [Requests -> Ends \union {"running", Nothing}]
    BY <2>1 DEF IInv, Stored
  <2>3. Stored'
    BY <1>2, <2>1, <2>2, AppendContains DEF IInv, Stored
  <2>4. Tidy(r) => Tidy(r)'
    BY <1>2, <1>3, <1>4, <1>5, <2>1, <2>2 DEF Tidy, Running, Finishing
  <2>5. /\ Contains(rows', Assistant(r))
        /\ \A e : Contains(rows, e) => Contains(rows', e)
    BY <2>1, AppendContains DEF IInv, Stored
  <2>6. Placed'
    BY <1>2, <1>4, <2>5, PlacedKept DEF IInv
  <2> QED
    BY <1>2, <1>4, <2>2, <2>3, <2>4, <2>6, TidyOthers DEF IInv
<1>6. CASE ~(Open /\ exists)
  <2>1. UNCHANGED <<rows, message>> /\ pc = "refused"
    BY <1>1, <1>6 DEF AddPlaceholder
  <2>2. Stored'
    BY <1>2, <2>1 DEF IInv, Stored
  <2>3. Tidy(r) => Tidy(r)'
    BY <1>2, <1>3, <1>4, <2>1 DEF Tidy, Running, Finishing
  <2>4. Placed'
    <3>1. x.pc \notin AtWork
      BY <1>3, <2>1 DEF AtWork, Running, Finishing
    <3> QED
      BY <1>2, <1>4, <2>1, <3>1, PlacedKept DEF IInv
  <2> QED
    BY <1>2, <1>4, <2>1, <2>2, <2>3, <2>4, TidyOthers DEF IInv
<1> QED
  BY <1>5, <1>6

\* A thread that starts has its placeholder and its row.
LEMMA StartKeeps ==
  ASSUME IInv, NEW r \in Requests, Start(r)
  PROVE  IInv'
<1>1. PICK pc \in {"read", "refused"} : Goes(r, pc) /\ (Open => pc = "read")
  BY DEF Start
<1> DEFINE x == [req[r] EXCEPT !.pc = pc]
<1>2. /\ Becomes(r, x) /\ req[r].pc = "start" /\ Sane(req[r]) /\ active' = active \union {r}
      /\ UNCHANGED <<setting, process, restarted, exists, rows, question, message, stopping>>
  BY <1>1 DEF Start, Goes, At, user, IInv, ThreadInv
<1>3. Sane(x) /\ x.pc = pc
  BY <1>2, GoesSane DEF Sending
<1> HIDE DEF x
<1>4. ThreadInv' /\ req'[r] = x /\ \A q \in Requests \ {r} : req'[q] = req[q]
  BY <1>2, <1>3, ThreadBecomes DEF IInv
<1>5. /\ row' \in [Requests -> Ends \union {"pending", Nothing}]
      /\ \A q \in Requests \ {r} : row'[q] = row[q]
      /\ Open => row'[r] = "pending"
  BY DEF Start, IInv, Stored
<1>6. Stored'
  BY <1>2, <1>5 DEF IInv, Stored
<1>7. Open /\ Tidy(r) => Tidy(r)'
  BY <1>1, <1>2, <1>3, <1>4, <1>5 DEF Tidy, Running, Finishing
<1>8. Placed'
  <2>1. req[r].pc \in AtWork
    BY <1>2 DEF AtWork
  <2> QED
    BY <1>2, <1>4, <2>1, PlacedKept DEF IInv
<1> QED
  BY <1>2, <1>4, <1>5, <1>6, <1>7, <1>8, TidyOthers DEF IInv

\* The first statement of an end: the message.
LEMMA WriteKeeps ==
  ASSUME IInv, NEW r \in Requests, Write(r)
  PROVE  IInv'
<1>1. PICK pc \in {"close", "leave"} :
        /\ Becomes(r, Left(req[r], pc, req[r].status))
        /\ Open => pc = "close"
  BY DEF Write
<1> DEFINE x == Left(req[r], pc, req[r].status)
<1>2. /\ req[r].pc = "write" /\ req[r] \in Threads /\ req[r].status \in Ends
      /\ UNCHANGED <<setting, process, restarted, exists, rows, question, row, active, stopping>>
  BY DEF Write, At, user, IInv, ThreadInv, Sane, Concluded, Finishing
<1>3. Sane(x) /\ x.pc = pc /\ x.status = req[r].status
  BY <1>1, <1>2, LeftSane
<1>4. Becomes(r, x)
  BY <1>1
<1> HIDE DEF x
<1>5. ThreadInv' /\ req'[r] = x /\ \A q \in Requests \ {r} : req'[q] = req[q]
  BY <1>3, <1>4, ThreadBecomes DEF IInv
<1>6. /\ message' \in [Requests -> Ends \union {"running", Nothing}]
      /\ \A q \in Requests \ {r} : message'[q] = message[q]
      /\ Open /\ exists => message'[r] = req[r].status
      /\ ~exists => message' = message
      /\ message'[r] = message[r] \/ (Open /\ exists)
  BY <1>2 DEF Write, IInv, Stored
<1>7. ASSUME ~restarted, Open, Tidy(r) PROVE Tidy(r)'
  BY <1>1, <1>2, <1>3, <1>5, <1>6, <1>7 DEF Tidy, Running, Finishing
<1>8. TidyInv'
  BY <1>2, <1>5, <1>6, <1>7, TidyOthers DEF IInv
<1>9. req[r].pc \in AtWork
  BY <1>2 DEF AtWork, Finishing
<1>10. Stored'
  <2>1. ASSUME NEW q \in Requests, message'[q] # Nothing PROVE Contains(rows, Assistant(q))
    BY <1>6, <1>9, <2>1 DEF IInv, Stored, Placed
  <2> QED
    BY <1>2, <1>6, <2>1 DEF IInv, Stored
<1>11. Placed'
  BY <1>2, <1>5, <1>9, PlacedKept DEF IInv
<1> QED
  BY <1>5, <1>8, <1>10, <1>11 DEF IInv

\* The second: the row.
LEMMA CloseKeeps ==
  ASSUME IInv, NEW r \in Requests, Close(r)
  PROVE  IInv'
<1> DEFINE x == [req[r] EXCEPT !.pc = "leave"]
<1>1. /\ Becomes(r, x) /\ req[r].pc = "close" /\ Sane(req[r]) /\ req[r].status \in Ends
      /\ UNCHANGED <<setting, process, restarted, exists, rows, question, message, active, stopping>>
  BY DEF Close, Goes, At, user, IInv, ThreadInv, Sane, Concluded, Finishing
<1>2. Sane(x) /\ x.pc = "leave" /\ x.status = req[r].status
  BY <1>1, GoesSane
<1> HIDE DEF x
<1>3. ThreadInv' /\ req'[r] = x /\ \A q \in Requests \ {r} : req'[q] = req[q]
  BY <1>1, <1>2, ThreadBecomes DEF IInv
<1>4. /\ row' \in [Requests -> Ends \union {"pending", Nothing}]
      /\ \A q \in Requests \ {r} : row'[q] = row[q]
      /\ Open => row'[r] = req[r].status
  BY <1>1 DEF Close, IInv, Stored
<1>5. Stored'
  BY <1>1, <1>4 DEF IInv, Stored
<1>6. Open /\ Tidy(r) => Tidy(r)'
  BY <1>1, <1>2, <1>3, <1>4 DEF Tidy, Running, Finishing
<1>7. Placed'
  <2>1. req[r].pc \in AtWork
    BY <1>1 DEF AtWork, Finishing
  <2> QED
    BY <1>1, <1>3, <2>1, PlacedKept DEF IInv
<1> QED
  BY <1>1, <1>3, <1>4, <1>5, <1>6, <1>7, TidyOthers DEF IInv

\* The last: the list of active requests.
LEMMA LeaveKeeps ==
  ASSUME IInv, NEW r \in Requests, Leave(r)
  PROVE  IInv'
<1> DEFINE x == Left(req[r], "ended", Nothing)
<1>1. /\ Becomes(r, x) /\ req[r].pc = "leave" /\ req[r] \in Threads
      /\ active' = active \ {r} /\ stopping' = stopping \ {r}
      /\ UNCHANGED <<setting, process, restarted, exists, rows, question, message, row>>
  BY DEF Leave, At, user, stored, IInv, ThreadInv
<1>2. Sane(x) /\ x.pc = "ended"
  BY <1>1, LeftSane
<1> HIDE DEF x
<1>3. ThreadInv' /\ req'[r] = x /\ \A q \in Requests \ {r} : req'[q] = req[q]
  BY <1>1, <1>2, ThreadBecomes DEF IInv
<1>4. Stored'
  BY <1>1 DEF IInv, Stored
<1>5. Tidy(r) => Tidy(r)'
  BY <1>1, <1>2, <1>3 DEF Tidy, Running, Finishing
<1>6. Placed'
  <2>1. req[r].pc \in AtWork
    BY <1>1 DEF AtWork, Finishing
  <2> QED
    BY <1>1, <1>3, <2>1, PlacedKept DEF IInv
<1> QED
  BY <1>1, <1>3, <1>4, <1>5, <1>6, TidyOthers DEF IInv

\* The page, the stop button, the configuration and the shutdown.
LEMMA OutsideKeeps ==
  ASSUME IInv,
         \/ \E r \in Requests : Interrupt(r) \/ Page(r)
         \/ \E s \in Settings : Configure(s)
         \/ Shutdown \/ UNCHANGED vars
  PROVE  IInv'
<1>1. /\ UNCHANGED <<restarted, exists, rows, question, message, row, active, req>>
      /\ setting' \in Settings /\ process' \in {process, "closing"}
      /\ stopping' \subseteq stopping \union active
  BY DEF IInv, Stored, Interrupt, Page, Track, Deliver, LoseEvent, Poll, Configure, Shutdown, vars,
     user, stored, seen
<1>2. Stored'
  BY <1>1 DEF IInv, Stored
<1>3. ThreadInv'
  BY <1>1 DEF IInv, ThreadInv
<1>4. TidyInv'
  BY <1>1 DEF IInv, TidyInv, Tidy, Open
<1>5. Placed'
  BY <1>1 DEF IInv, Placed
<1> QED
  BY <1>2, <1>3, <1>4, <1>5 DEF IInv

\* A conversation that is deleted takes its messages along.
LEMMA DeleteKeeps ==
  ASSUME IInv, DeleteConversation
  PROVE  IInv'
<1>1. /\ UNCHANGED <<setting, process, restarted, row, active, stopping, req>>
      /\ exists' = FALSE /\ rows' = <<>>
      /\ question' = [r \in Requests |-> Nothing] /\ message' = [r \in Requests |-> Nothing]
  BY DEF DeleteConversation
<1>2. Stored'
  <2>1. <<>> \in Seq(Messages) /\ \A r \in Requests : message'[r] = Nothing
    BY <1>1
  <2>2. /\ question' \in [Requests -> Requests \union {Nothing}]
        /\ message' \in [Requests -> Ends \union {"running", Nothing}]
        /\ exists' \in BOOLEAN
    BY <1>1
  <2> QED
    BY <1>1, <2>1, <2>2 DEF IInv, Stored
<1>3. ThreadInv'
  BY <1>1 DEF IInv, ThreadInv
<1>4. TidyInv'
  BY <1>1 DEF IInv, TidyInv, Tidy, Open
<1>5. Placed'
  BY <1>1 DEF Placed
<1> QED
  BY <1>2, <1>3, <1>4, <1>5 DEF IInv

\* A restart leaves the tables as they stand, which the invariant then allows.
LEMMA RestartKeeps ==
  ASSUME IInv, Restart
  PROVE  IInv'
<1>1. /\ UNCHANGED <<setting, exists, rows, question, message, row>>
      /\ restarted' = TRUE /\ process' = "up" /\ active' = {} /\ stopping' = {}
  BY DEF Restart, stored
<1>2. ASSUME NEW r \in Requests PROVE Sane(req'[r]) /\ req'[r].pc \in Over
  <2>1. PICK pc \in Over : req'[r] = [Fresh EXCEPT !.pc = pc]
    BY DEF Restart, Over
  <2> DEFINE x == [Fresh EXCEPT !.pc = pc]
  <2>2. Fresh \in Threads /\ ~Fresh.pool /\ ~Fresh.toPeers /\ Fresh.left = {}
    BY FreshSane DEF Sane, Fresh
  <2>3. x \in Threads /\ x.pc = pc /\ ~x.pool /\ ~x.toPeers /\ x.left = {}
    BY <2>2 DEF Threads
  <2> HIDE DEF x
  <2>4. Sane(x)
    BY <2>3 DEF Sane, OnPath, Recorded, Staged, Concluded, Governed, Consent, Running, Finishing, Over
  <2> QED
    BY <2>1, <2>3, <2>4 DEF x
<1>3. ThreadInv'
  BY <1>2 DEF ThreadInv, Restart, Sane
<1>4. Stored'
  BY <1>1 DEF IInv, Stored
<1>5. Placed'
  BY <1>2 DEF Placed, AtWork, Running, Finishing, Over
<1> QED
  BY <1>1, <1>3, <1>4, <1>5 DEF IInv, TidyInv

\* Nothing has been asked.
LEMMA InitHolds == Init => IInv
<1> SUFFICES ASSUME Init PROVE IInv
  OBVIOUS
<1>1. Stored
  <2>1. <<>> \in Seq(Messages)
    OBVIOUS
  <2> QED
    BY <2>1 DEF Init, Stored
<1>2. ThreadInv
  BY FreshSane DEF Init, ThreadInv, Sane
<1>3. \A r \in Requests : req[r].pc = "new"
  BY DEF Init, Fresh
<1>4. Placed
  BY <1>3 DEF Placed, AtWork, Running, Finishing
<1>5. TidyInv
  BY <1>3 DEF Init, TidyInv, Tidy, Running, Finishing
<1> QED
  BY <1>1, <1>2, <1>4, <1>5 DEF IInv

\* What a step is to the threads: work of one of them, or something that lets no
\* more leave than before.
LEMMA NextCases ==
  ASSUME IInv, [Next]_vars
  PROVE  \/ \E r \in Requests :
              \/ Works(r)
              \/ \E text \in Requests \union {Nothing} : Send(r, text)
              \/ AddPlaceholder(r) \/ Start(r) \/ Write(r) \/ Close(r) \/ Leave(r)
         \/ \E r \in Requests : \E old \in Requests : Retry(r, old)
         \/ \E r \in Requests : Interrupt(r) \/ Page(r)
         \/ \E s \in Settings : Configure(s)
         \/ DeleteConversation \/ Shutdown \/ Restart \/ UNCHANGED vars
<1>1. Stored /\ ThreadInv
  BY DEF IInv
<1> QED
  BY <1>1, ReadWorks, RouteWorks, PlanWorks, SwarmGoesOn, PoolWorks, SwarmEnds, AssembleWorks,
     ResolveWorks, PrepareWorks, GenerateWorks, GenerationWorks DEF Next, Step

\* The inductive invariant of requests: the records of threads, where messages
\* and rows stand while a thread works, and what the ledger has (chat.py).
THEOREM RequestsInductive == Spec => []IInv
<1>1. ASSUME IInv, [Next]_vars PROVE IInv'
  BY <1>1, NextCases, WorksKeeps, SendKeeps, RetryKeeps, AddPlaceholderKeeps, StartKeeps, WriteKeeps,
     CloseKeeps, LeaveKeeps, OutsideKeeps, DeleteKeeps, RestartKeeps
<1> QED
  BY <1>1, InitHolds, PTL DEF Spec

\* Types, for any requests and configurations: a message has its place in the
\* conversation, a thread that writes an answer has its ending.
THEOREM TypeCorrect == Spec => []TypeOK
<1>1. IInv => TypeOK
  <2> SUFFICES ASSUME IInv PROVE TypeOK
    OBVIOUS
  <2>1. \A i \in 1 .. Len(rows) : rows[i] \in Messages
    BY DEF IInv, Stored
  <2>2. ASSUME NEW r \in Requests
        PROVE  /\ req[r].pc \in Sending \union Running \union Finishing \union Over
               /\ At(r, "write") => req[r].ending \in Ending
               /\ req[r].pc \in Finishing => req[r].status \in Ends
    BY DEF IInv, ThreadInv, Sane, Concluded, Threads, At
  <2>3. ASSUME NEW r \in Requests
        PROVE  /\ message[r] \in Ends \union {"running", Nothing}
               /\ message[r] # Nothing => Contains(rows, Assistant(r))
               /\ row[r] \in Ends \union {"pending", Nothing}
    BY DEF IInv, Stored
  <2> QED
    BY <2>1, <2>2, <2>3 DEF TypeOK, IInv, Stored, Messages, Ends
<1> QED
  BY <1>1, RequestsInductive, PTL

\* No request is left running: what the tables and the service say of a request
\* agrees with its thread, whatever is stopped, deleted or fails (chat.py:415).
THEOREM NeverLeftRunning == Spec => []NoneLeftRunning
<1>1. IInv => NoneLeftRunning
  <2> SUFFICES ASSUME IInv, ~restarted, Open, NEW r \in Requests
               PROVE  /\ message[r] = "running" \/ r \in active => req[r].pc \notin Over
                      /\ row[r] # Nothing /\ r \notin active => message[r] \in {Nothing, row[r]}
    BY DEF NoneLeftRunning
  <2>1. Tidy(r) /\ req[r].pc \in Sending \union Running \union Finishing \union Over
    BY DEF IInv, TidyInv, ThreadInv, Threads
  <2>2. row[r] \in Ends \union {"pending", Nothing}
    BY DEF IInv, Stored
  <2> QED
    BY <2>1, <2>2, SettingsAssumption DEF Tidy, Sending, Running, Finishing, Over, Ends
<1> QED
  BY <1>1, RequestsInductive, PTL

\* The receipt of an answer has every call that the policy governs, from the thread
\* or from the pool, before or after the receipt was built; all it may lack is the
\* answers that a server of embeddings compared (chat.py:503-504).
THEOREM ReceiptAlwaysComplete == Spec => []AnswersReceiptIsComplete
<1>1. IInv => AnswersReceiptIsComplete
  BY DEF IInv, ThreadInv, Sane, Concluded, AnswersReceiptIsComplete, At, Governed, LeftKinds
<1> QED
  BY <1>1, RequestsInductive, PTL

\* Every stage of the log of a request that ends unstopped reports, on every
\* path through run(), the exceptions included (ARCHITECTURE.md:62).
THEOREM StagesAlwaysReport == Spec => []StagesReport
<1>1. IInv => StagesReport
  BY DEF IInv, ThreadInv, Sane, Staged, StagesReport, At
<1> QED
  BY <1>1, RequestsInductive, PTL

\* Passages go to a third party with the authorisation of the moment only, in the
\* lookups and in the answer, whatever is configured while the request runs
\* (egress.py:238-249).
THEOREM PassagesAlwaysWithConsent == Spec => []PassagesOnlyWithConsent
<1>1. IInv => PassagesOnlyWithConsent
  BY DEF IInv, ThreadInv, Sane, Consent, PassagesOnlyWithConsent
<1> QED
  BY <1>1, RequestsInductive, PTL

\* A request that has been asked has its question in the conversation, as long as
\* that exists.
Asked ==
    /\ ~exists => rows = <<>>
    /\ \A r \in Requests : exists /\ req[r].pc \notin Over => Contains(rows, User(r))

\* Questions stay where rows are only added.
LEMMA AskedKept ==
  ASSUME Asked, exists' = exists, NEW r \in Requests,
         \A q \in Requests \ {r} : req'[q] = req[q],
         ~exists => rows' = rows,
         \A e : Contains(rows, e) => Contains(rows', e),
         req'[r].pc \notin Over /\ exists => req[r].pc \notin Over \/ Contains(rows', User(r))
  PROVE  Asked'
BY DEF Asked

\* Every step keeps the question of a request that is not over.
LEMMA NextAsked == IInv /\ Asked /\ [Next]_vars => Asked'
<1> SUFFICES ASSUME IInv, Asked, [Next]_vars PROVE Asked'
  OBVIOUS
<1>1. ASSUME NEW r \in Requests, NEW x, Becomes(r, x), UNCHANGED <<exists, rows>>,
             x.pc \notin Over => req[r].pc \notin Over
      PROVE  Asked'
  <2>1. req'[r] = x /\ \A q \in Requests \ {r} : req'[q] = req[q]
    BY <1>1 DEF IInv, ThreadInv, Becomes
  <2> QED
    BY <1>1, <2>1, AskedKept
<1>2. ASSUME NEW r \in Requests, Works(r) PROVE Asked'
  <2>1. PICK x : Work(r, x)
    BY <1>2 DEF Works
  <2>2. Becomes(r, x) /\ UNCHANGED <<exists, rows>>
    BY <2>1 DEF Work, stored
  <2>3. x.pc \notin Over => req[r].pc \notin Over
    BY <2>1 DEF Work, Running, Over
  <2> QED
    BY <1>1, <2>2, <2>3
<1>3. ASSUME NEW r \in Requests, NEW q, Send(r, q) PROVE Asked'
  <2>1. /\ exists /\ exists' = exists /\ rows' = Append(rows, User(r)) /\ User(r) \in Messages
        /\ \A p \in Requests \ {r} : req'[p] = req[p]
    BY <1>3 DEF Send, Goes, Becomes, IInv, ThreadInv, Messages
  <2>2. Contains(rows', User(r)) /\ \A e : Contains(rows, e) => Contains(rows', e)
    BY <2>1, AppendContains DEF IInv, Stored
  <2> QED
    BY <2>1, <2>2, AskedKept
<1>4. ASSUME NEW r \in Requests, NEW old \in Requests, Retry(r, old) PROVE Asked'
  BY <1>3, <1>4 DEF Retry
<1>5. ASSUME NEW r \in Requests, AddPlaceholder(r) PROVE Asked'
  <2>1. /\ req[r].pc = "placeholder" /\ exists' = exists
        /\ \A q \in Requests \ {r} : req'[q] = req[q]
        /\ rows' = rows \/ (exists /\ rows' = Append(rows, Assistant(r)))
    BY <1>5 DEF AddPlaceholder, Goes, Becomes, At, IInv, ThreadInv
  <2>2. Assistant(r) \in Messages
    BY DEF Messages
  <2>3. \A e : Contains(rows, e) => Contains(rows', e)
    BY <2>1, <2>2, AppendContains DEF IInv, Stored
  <2> QED
    BY <2>1, <2>3, AskedKept DEF Over
<1>6. ASSUME NEW r \in Requests, Start(r) PROVE Asked'
  <2>1. PICK pc \in {"read", "refused"} : Goes(r, pc)
    BY <1>6 DEF Start
  <2>2. Becomes(r, [req[r] EXCEPT !.pc = pc]) /\ UNCHANGED <<exists, rows>> /\ req[r].pc = "start"
    BY <1>6, <2>1 DEF Start, Goes, At
  <2> QED
    BY <1>1, <2>2 DEF Over
<1>7. ASSUME NEW r \in Requests, Write(r) \/ Close(r) \/ Leave(r) PROVE Asked'
  <2>1. PICK x : Becomes(r, x)
    BY <1>7 DEF Write, Close, Leave, Goes
  <2>2. UNCHANGED <<exists, rows>> /\ req[r].pc \in {"write", "close", "leave"}
    BY <1>7 DEF Write, Close, Leave, At, stored
  <2> QED
    BY <1>1, <2>1, <2>2 DEF Over
<1>8. ASSUME UNCHANGED <<exists, rows, req>> PROVE Asked'
  BY <1>8 DEF Asked
<1>9. ASSUME \/ \E r \in Requests : Interrupt(r) \/ Page(r)
             \/ \E s \in Settings : Configure(s)
             \/ Shutdown \/ UNCHANGED vars
      PROVE  Asked'
  <2>1. UNCHANGED <<exists, rows, req>>
    BY <1>9 DEF Interrupt, Page, Track, Deliver, LoseEvent, Poll, Configure, Shutdown, vars, stored
  <2> QED
    BY <1>8, <2>1
<1>10. CASE DeleteConversation
  BY <1>10 DEF DeleteConversation, Asked
<1>11. CASE Restart
  <2>1. UNCHANGED <<exists, rows>> /\ \A r \in Requests : req'[r].pc \in Over
    <3>1. ASSUME NEW r \in Requests PROVE req'[r].pc \in Over
      <4>1. PICK pc \in Over : req'[r] = [Fresh EXCEPT !.pc = pc]
        BY <1>11 DEF Restart, Over
      <4> QED
        BY <4>1 DEF Fresh
    <3> QED
      BY <1>11, <3>1 DEF Restart, stored
  <2> QED
    BY <2>1 DEF Asked
<1> QED
  BY <1>2, <1>3, <1>4, <1>5, <1>6, <1>7, <1>9, <1>10, <1>11, NextCases

\* Of some places in a sequence one is the last.
LEMMA GreatestPlace ==
  ASSUME NEW n \in Nat, NEW K \in SUBSET (1 .. n), K # {}
  PROVE  \E x \in K : \A i \in K : x >= i
<1> DEFINE Rest == {n - i : i \in K}
           R == OpToRel(<, Nat)
<1>1. Rest \in SUBSET Nat /\ Rest # {}
  <2>1. PICK k \in K : TRUE
    OBVIOUS
  <2>2. n - k \in Rest
    OBVIOUS
  <2>3. \A i \in K : n - i \in Nat
    OBVIOUS
  <2> QED
    BY <2>2, <2>3
<1>2. IsWellFoundedOn(R, Nat)
  BY NatLessThanWellFounded
<1> HIDE DEF R
<1>3. PICK d \in Rest : \A e \in Rest : <<e, d>> \notin R
  BY <1>1, <1>2, WFMin
<1>4. \A e \in Rest : ~(e < d)
  BY <1>1, <1>3 DEF R, OpToRel
<1>5. PICK x \in K : d = n - x
  BY <1>3
<1>6. ASSUME NEW i \in K PROVE x >= i
  <2>1. n - i \in Rest
    OBVIOUS
  <2>2. ~(n - i < d)
    BY <1>4, <2>1
  <2>3. x \in 1 .. n /\ i \in 1 .. n
    OBVIOUS
  <2> HIDE DEF Rest
  <2> QED
    BY <1>5, <2>2, <2>3
<1> QED
  BY <1>6

\* What a thread takes for the question, when no message of another request has
\* come after it, is the question of its own request (chat.py:183-189).
THEOREM AlwaysAnswersItsQuestion == Spec => []AnswersItsQuestion
<1>1. Init => Asked
  BY DEF Init, Asked, Fresh, Over
<1>2. IInv /\ Asked => AnswersItsQuestion
  <2> SUFFICES ASSUME IInv, Asked, NEW r \in Requests, At(r, "read"), Prior(r) # {},
                      \A i, j \in 1 .. Len(rows) : rows[j] = User(r) /\ i > j => rows[i].of = r
               PROVE  UserText(r) = question[r]
    BY DEF AnswersItsQuestion
  <2> DEFINE K == Prior(r)
             m == Max(K)
  <2>1. rows \in Seq(Messages) /\ Len(rows) \in Nat /\ K \subseteq 1 .. Len(rows)
    BY DEF IInv, Stored, Prior
  <2>2. exists
    <3>1. rows # <<>>
      BY DEF Prior
    <3> QED
      BY <3>1 DEF Asked
  <2>3. PICK j \in 1 .. Len(rows) : rows[j] = User(r)
    <3>1. req[r].pc \notin Over
      BY DEF At, Over
    <3>2. Contains(rows, User(r))
      BY <2>2, <3>1 DEF Asked
    <3> QED
      BY <3>2 DEF Contains
  <2>4. User(r).of = r /\ User(r).role = "user" /\ User(r) # Assistant(r)
    BY DEF User, Assistant
  <2>5. j \in K
    BY <2>3, <2>4 DEF Prior
  <2>6. m \in K /\ \A i \in K : m >= i
    <3>1. \E x \in K : \A i \in K : x >= i
      BY <2>1, <2>5, GreatestPlace
    <3> HIDE DEF K
    <3> QED
      BY <3>1 DEF Max
  <2>7. rows[m] \in Messages /\ rows[m] # Assistant(r) /\ m \in 1 .. Len(rows)
    BY <2>1, <2>6 DEF Prior
  <2>8. rows[m] = User(r)
    <3>1. CASE m = j
      BY <2>3, <3>1
    <3>2. CASE m # j
      <4>1. m > j
        BY <2>5, <2>6, <2>7, <3>2
      <4>2. rows[m].of = r
        BY <2>3, <2>7, <4>1
      <4>3. PICK q \in Requests : rows[m] \in {User(q), Assistant(q)}
        BY <2>7 DEF Messages
      <4>4. User(q).of = q /\ Assistant(q).of = q
        BY DEF User, Assistant
      <4> QED
        BY <2>7, <4>2, <4>3, <4>4
    <3> QED
      BY <3>1, <3>2
  <2> QED
    BY <2>4, <2>8 DEF UserText
<1> QED
  BY <1>1, <1>2, NextAsked, InitHolds, RequestsInductive, PTL DEF Spec

=============================================================================
