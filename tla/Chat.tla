-------------------------------- MODULE Chat --------------------------------
(***************************************************************************)
(* The life of chat requests (chat.py) in one conversation: the HTTP       *)
(* handler that stores the question and a placeholder, the thread that     *)
(* reads the conversation, tries the swarm (Orchestrator.run), falls back  *)
(* to the local model, and writes the answer with its privacy receipt; the *)
(* stop button, retry, deletion, changes of configuration, shutdown and    *)
(* restart; and the page that waits for the answer (chat.js).              *)
(*                                                                         *)
(* Abstractions.  A question is named by the request that first asked it.  *)
(* What an answer says, and why a text is personal, sensitive, to be       *)
(* fragmented or not, is a choice.  The execution of the plan is the       *)
(* subject of Scheduler; here it sends fragments to peers, has a thread of *)
(* the pool work for a task, its rescue by the local model or the choice   *)
(* among its answers, and ends.  Texts that are compared by an embedding   *)
(* model leave when that runs elsewhere: passages and question when the    *)
(* user's sources are looked up, answers when a task or the whole is put   *)
(* together.  The context limit of twelve messages is never reached.  A    *)
(* statement of the database is one step, and so are the calls between two *)
(* of them: whether a call may leave is decided under one configuration.   *)
(***************************************************************************)
EXTENDS Naturals, Sequences, SequencesExt, FiniteSets, Stages, Egress

CONSTANTS
    Requests,     \* requests; also their user message and their placeholder
    Settings,     \* configurations the user may choose: host of the model, policy, embedder
    MaxEvents,    \* bound: changes of configuration, stops, deletions, ends of the process
    Plain,        \* requests sent in the local mode, with no document or source to look up
    Watched,      \* requests whose page stays open
    Nothing       \* no message, no request row, no question

ASSUME SettingsAssumption ==
    /\ Settings \subseteq [host : HostClasses, policy : Policies, embedder : {"hash", "server"}]
    /\ Settings # {}
    /\ MaxEvents \in Nat
    /\ Plain \union Watched \subseteq Requests
    /\ Nothing \notin Requests \union {"running", "pending", "done", "failed", "stopped"}

VARIABLES
    setting,   \* the configuration in force
    process,   \* "up", or "closing" once the database is closed
    exists,    \* the conversation is in the database
    rows,      \* its messages, in the order of created_at
    question,  \* question[r]: the text of the user message of r
    message,   \* message[r]: the assistant message of r
    row,       \* row[r]: the status in the requests table
    active,    \* ChatService._active
    stopping,  \* requests whose stop_event is set
    req,       \* req[r]: the state of the thread of r
    done,      \* done[r]: the chat.done event on its way to the page
    page,      \* page[r]: what the page shows of r
    restarted, \* the process has been started again
    events

vars == <<setting, process, exists, rows, question, message, row, active, stopping, req, done,
          page, restarted, events>>

stored == <<exists, rows, question, message, row>>
user == <<setting, process, restarted, events>>
seen == <<done, page>>

-----------------------------------------------------------------------------

User(r) == [of |-> r, role |-> "user"]
Assistant(r) == [of |-> r, role |-> "assistant"]

Open == process = "up"

\* The steps of the HTTP handler and of the thread, by the call to come.
Sending == {"placeholder", "start"}
Running == {"read", "route", "plan", "swarm", "assemble", "resolve", "prepare", "generate", "generating"}
Finishing == {"write", "close", "leave"}
Over == {"new", "refused", "ended", "lost"}

Fresh ==
    [pc |-> "new", routed |-> FALSE, log |-> NewLog, status |-> Nothing, host |-> "local",
     toPeers |-> FALSE, pool |-> FALSE, embedder |-> "local", passages |-> FALSE, sources |-> FALSE,
     again |-> FALSE, ledger |-> {}, left |-> {}, ending |-> Nothing]

At(r, pc) == req[r].pc = pc

Exit(kind, to) ==
    [kind |-> kind, to |-> to, under |-> IF kind = "passages" THEN setting.policy ELSE "any"]

\* The thread of r makes calls of some kinds and goes on with other fields:
\* check_call or record_public_query notes in the request's ledger what leaves.
Called(state, kinds, host) ==
    LET out == {k \in kinds : Leaves(setting.policy, host, k)}
    IN  [state EXCEPT !.left = @ \union {Exit(k, Destination(host, k)) : k \in out},
                      !.ledger = @ \union out]

\* Mutant: the calls of the embedding model are recorded and not checked.
EmbeddedUnchecked(state, kinds) ==
    [state EXCEPT !.left = @ \union {Exit(k, setting.host) : k \in kinds}, !.ledger = @ \union kinds]

\* The user's sources are looked up: paragraphs that have no vector yet, then the
\* question, go to the embedding model of the configuration in force.  A refusal
\* or an error ends that in silence, so some of the calls may be missing.
Embedded(state, kinds) == Called(state, kinds, setting.host)

\* What a request may need beside its conversation.
Lookups(r) == SUBSET IF r \in Plain THEN {} ELSE {"passages", "question"}

\* The answers of tasks go to the embedder that the plan took, past check_call
\* and the ledger; the one in this process is "local".
AnswersEmbedded(state) ==
    [state EXCEPT !.left = @ \union IF state.embedder = "local" THEN {}
                                    ELSE {Exit("answers", state.embedder)}]

Becomes(r, state) == req' = [req EXCEPT ![r] = state]
Goes(r, pc) == Becomes(r, [req[r] EXCEPT !.pc = pc])

-----------------------------------------------------------------------------
(* _finish_distributed, _finish and _fail: receipt first, then four steps *)

NoLog == <<>>

\* What the thread needs no more is forgotten; the pool keeps what it calls.
Left(state, pc, status) ==
    [Fresh EXCEPT !.pc = pc, !.status = status, !.pool = state.pool,
                  !.host = IF state.pool THEN state.host ELSE @,
                  !.embedder = IF state.pool THEN state.embedder ELSE @]

Ended(state, status, log, distributed) ==
    [Left(state, "write", status) EXCEPT
        !.ledger = state.ledger, !.left = state.left,
        !.ending = [statuses |-> Range(log),
                    receipt |-> AttachReceipt(distributed, state.toPeers, state.ledger)]]

Fail(r, state, log) == Becomes(r, Ended(state, "failed", log, FALSE))
Stop(r, log) == Becomes(r, Ended(req[r], "stopped", log, FALSE))

\* Mutant: nobody catches an exception of the generation.
Unhandled(r) == Goes(r, "ended")

\* "except Exception": the request fails without a stage log.
Unexpected(r) == Fail(r, req[r], NoLog)

Write(r) ==
    /\ At(r, "write")
    /\ IF Open
       THEN /\ message' = IF exists
                          THEN [message EXCEPT ![r] = req[r].status]
                          ELSE message
            /\ Becomes(r, Left(req[r], "close", req[r].status))
       ELSE UNCHANGED message /\ Becomes(r, Left(req[r], "leave", req[r].status))
    /\ UNCHANGED <<user, exists, rows, question, row, active, stopping, seen>>

Close(r) ==
    /\ At(r, "close")
    /\ row' = IF Open THEN [row EXCEPT ![r] = req[r].status] ELSE row
    /\ Goes(r, "leave")
    /\ UNCHANGED <<user, exists, rows, question, message, active, stopping, seen>>

\* The request is let go and chat.done is published.
Leave(r) ==
    /\ At(r, "leave")
    /\ active' = active \ {r}
    /\ Becomes(r, Left(req[r], "ended", Nothing))
    /\ done' = [done EXCEPT ![r] = IF r \in Watched THEN "sent" ELSE @]
    /\ stopping' = stopping \ {r}
    /\ UNCHANGED <<user, stored, page>>

-----------------------------------------------------------------------------
(* send() and retry() *)

Send(r, text) ==
    /\ At(r, "new") /\ Open /\ exists
    /\ rows' = Append(rows, User(r))
    /\ question' = [question EXCEPT ![r] = text]
    /\ Goes(r, "placeholder")
    /\ UNCHANGED <<user, exists, message, row, active, stopping, seen>>

\* retry: the message just before must be the user's.
Retry(r, old) ==
    \E i \in 2 .. Len(rows) :
        /\ rows[i] = Assistant(old)
        /\ rows[i - 1].role = "user"
        /\ Send(r, question[rows[i - 1].of])

\* An exception of the handler, such as the foreign key of a conversation
\* deleted since, or the closed database, is the end of the request.
AddPlaceholder(r) ==
    /\ At(r, "placeholder")
    /\ IF Open /\ exists
       THEN /\ rows' = Append(rows, Assistant(r))
            /\ message' = [message EXCEPT ![r] = "running"]
            /\ Goes(r, "start")
       ELSE UNCHANGED <<rows, message>> /\ Goes(r, "refused")
    /\ UNCHANGED <<user, exists, question, row, active, stopping, seen>>

\* The client cannot name the request before request.started is published.
\* add_request, request.started, and the thread.
Start(r) ==
    /\ At(r, "start")
    /\ active' = active \union {r}
    /\ IF Open THEN row' = [row EXCEPT ![r] = "pending"] /\ Goes(r, "read")
       ELSE UNCHANGED row /\ Goes(r, "refused")
    /\ UNCHANGED <<user, exists, rows, question, message, stopping, seen>>

-----------------------------------------------------------------------------
(* The thread: the conversation, the swarm *)

\* Mutant: the placeholder is part of the context.
WithPlaceholder(r) == 1 .. Len(rows)

\* Where the messages stand that are the context of r.
Prior(r) == {i \in 1 .. Len(rows) : rows[i] # Assistant(r)}

\* The last message of the context is taken for the question, whatever it is.
UserText(r) == LET m == rows[Max(Prior(r))] IN IF m.role = "user" THEN question[m.of] ELSE Nothing

\* Whether a request is personal may need a look at the user's sources.
Read(r) ==
    /\ At(r, "read")
    /\ \/ /\ Open /\ Prior(r) # {}
          /\ \E lookup \in Lookups(r) :
               LET state == Embedded(req[r], lookup)
               IN  \/ Becomes(r, [state EXCEPT !.pc = "resolve"])         \* or personal
                   \/ /\ r \notin Plain
                      /\ \/ Becomes(r, [state EXCEPT !.pc = "route"])
                         \/ Fail(r, state, NoLog)                        \* internet
       \/ /\ ~Open \/ Prior(r) = {}
          /\ Unexpected(r)
    /\ UNCHANGED <<user, stored, active, stopping, seen>>

\* Orchestrator.run up to the routing; the rewriting of a follow-up may call
\* the model.  The request stays here, or may run on peers or on the pool.
Route(r) ==
    /\ At(r, "route")
    /\ \E calls \in SUBSET {"question"} :
         LET state == Called(req[r], calls, setting.host)
         IN  \/ Becomes(r, [state EXCEPT !.pc = "resolve", !.routed = TRUE])
             \/ Becomes(r, [state EXCEPT !.pc = "plan", !.log = PlanningLog, !.host = setting.host])
             \/ Fail(r, state, NoLog)
    /\ UNCHANGED <<user, stored, active, stopping, seen>>

EmbedderHost == IF setting.embedder = "server" THEN setting.host ELSE "local"

\* Plan, packets and nodes; the outline may call the model, the evidence of an
\* enumerated batch is looked up in public sources.
Plan(r) ==
    /\ At(r, "plan")
    /\ \E calls \in SUBSET {"question", "public_query"} :
         LET state == Called(req[r], calls, req[r].host)
         IN  \/ Becomes(r, [state EXCEPT !.pc = "swarm", !.log = DispatchLog,
                                           !.embedder = EmbedderHost])
             \/ \E log \in PreparationLogs : Fail(r, state, Raised(log))
    /\ UNCHANGED <<user, stored, active, stopping, seen>>

\* A packet goes to a peer; the directory of other requests has no peers.
SendFragment(r) ==
    /\ At(r, "swarm") /\ ~req[r].toPeers
    /\ Becomes(r, [req[r] EXCEPT !.toPeers = TRUE,
                                !.left = @ \union {Exit("fragment", "peers")}])
    /\ UNCHANGED <<user, stored, active, stopping, seen>>

\* A thread of the pool works for a task, whatever becomes of r.
StartPool(r) ==
    /\ At(r, "swarm") /\ ~req[r].pool
    /\ Becomes(r, [req[r] EXCEPT !.pool = TRUE])
    /\ UNCHANGED <<user, stored, active, stopping, seen>>

\* Mutant: the pool's thread has no ledger.
CalledUnbound(state, kinds, host) ==
    [Called(state, kinds, host) EXCEPT !.ledger = state.ledger]

\* egress.carry binds the pool's thread to the ledger of the request.
CalledFromPool(state, kinds, host) == Called(state, kinds, host)

\* The local model writes the task.
Rescue(r) ==
    /\ req[r].pool
    /\ Becomes(r, [CalledFromPool(req[r], {"question"}, req[r].host) EXCEPT !.pool = FALSE])
    /\ UNCHANGED <<user, stored, active, stopping, seen>>

\* The answers of the task are compared.
ResolveTask(r) ==
    /\ req[r].pool
    /\ Becomes(r, [AnswersEmbedded(req[r]) EXCEPT !.pool = FALSE])
    /\ UNCHANGED <<user, stored, active, stopping, seen>>

\* Every task has its text.
AllDone(r) == ~req[r].pool

SwarmAnswers(r) ==
    /\ At(r, "swarm") /\ AllDone(r)
    /\ \E log \in ResultLogs : Becomes(r, [req[r] EXCEPT !.pc = "assemble", !.log = log])
    /\ UNCHANGED <<user, stored, active, stopping, seen>>

\* Mutant: the pool is waited for before the request is given up.
SwarmRaisesAfterRescue(r) ==
    /\ At(r, "swarm") /\ AllDone(r)
    /\ Fail(r, req[r], Raised(req[r].log))
    /\ UNCHANGED <<user, stored, active, stopping, seen>>

\* A task failed, or the global deadline passed.
SwarmRaises(r) ==
    /\ At(r, "swarm")
    /\ Fail(r, req[r], Raised(req[r].log))
    /\ UNCHANGED <<user, stored, active, stopping, seen>>

SwarmStopped(r) ==
    /\ At(r, "swarm") /\ r \in stopping
    /\ Stop(r, Interrupted(req[r].log))
    /\ UNCHANGED <<user, stored, active, stopping, seen>>

\* Seams between fragments are measured, bridges call the model.
Assemble(r) ==
    /\ At(r, "assemble")
    /\ \E calls \in SUBSET {"question"}, start \in {req[r], AnswersEmbedded(req[r])} :
         LET state == Called(start, calls, req[r].host)
         IN  \/ Becomes(r, Ended(state, "done", AnsweredBySwarm(state.log), TRUE))
             \/ \E log \in AssemblyLogs(state.log) : Fail(r, state, Raised(log))
    /\ UNCHANGED <<user, stored, active, stopping, seen>>

-----------------------------------------------------------------------------
(* The thread: the local model *)

\* The backend is resolved; an unauthorised third party ends the request, one
\* authorised for questions only keeps the documents out.
Resolve(r) ==
    /\ At(r, "resolve")
    /\ LET third == setting.host = "third_party"
       IN  \/ /\ third => setting.policy # "nothing"
              /\ Becomes(r, [req[r] EXCEPT !.pc = "prepare", !.host = setting.host,
                                           !.passages = ~third \/ setting.policy = "passages"])
           \/ Unexpected(r)
    /\ UNCHANGED <<user, stored, active, stopping, seen>>

\* Keywords, passages of the user's documents, public lookups.
Prepare(r) ==
    /\ At(r, "prepare")
    /\ \E calls \in SUBSET IF r \in Plain THEN {} ELSE {"question", "public_query"},
          lookup \in IF req[r].passages THEN Lookups(r) ELSE {{}}, sources \in BOOLEAN :
         /\ sources => req[r].passages /\ r \notin Plain
         /\ Becomes(r, [Embedded(Called(req[r], calls, req[r].host), lookup)
                          EXCEPT !.pc = "generate", !.sources = sources, !.passages = FALSE])
    /\ UNCHANGED <<user, stored, active, stopping, seen>>

\* Mutant: the policy of the moment the backend was resolved decides.
Checked(r, kind) == TRUE

\* check_call raises EgressDenied.
Permitted(r, kind) == Allows(setting.policy, req[r].host, kind)

Generate(r) ==
    /\ At(r, "generate")
    /\ LET kind == IF req[r].sources THEN "passages" ELSE "question"
           out == IF Destination(req[r].host, kind) = "local" THEN {} ELSE {kind}
       IN  IF Permitted(r, kind)
           THEN Becomes(r, [req[r] EXCEPT !.pc = "generating", !.ledger = @ \union out,
                                          !.left = @ \union {Exit(k, req[r].host) : k \in out}])
           ELSE Unexpected(r)
    /\ UNCHANGED <<user, stored, active, stopping, seen>>

\* The fusion model returned nothing: once more with the conversation's model.
AnswerEmpty(r) ==
    /\ At(r, "generating") /\ ~req[r].again
    /\ "public_query" \in req[r].ledger
    /\ Becomes(r, [req[r] EXCEPT !.pc = "generate", !.again = TRUE])
    /\ UNCHANGED <<user, stored, active, stopping, seen>>

Answer(r) ==
    /\ At(r, "generating")
    /\ \E log \in IF req[r].routed THEN LocalLogs ELSE {NoLog} :
         Becomes(r, Ended(req[r], "done", log, FALSE))
    /\ UNCHANGED <<user, stored, active, stopping, seen>>

GenerationRaises(r) ==
    /\ At(r, "generating")
    /\ Unexpected(r)
    /\ UNCHANGED <<user, stored, active, stopping, seen>>

GenerationStopped(r) ==
    /\ At(r, "generating") /\ r \in stopping
    /\ Stop(r, NoLog)
    /\ UNCHANGED <<user, stored, active, stopping, seen>>

-----------------------------------------------------------------------------
(* The user, the process and the page *)

UserEvent == events < MaxEvents /\ events' = events + 1

Interrupt(r) ==
    /\ UserEvent
    /\ r \in active \ stopping
    /\ stopping' = stopping \union {r}
    /\ UNCHANGED <<setting, process, restarted, stored, active, req, seen>>

Configure(s) ==
    /\ UserEvent
    /\ s # setting
    /\ setting' = s
    /\ UNCHANGED <<process, restarted, stored, active, stopping, req, seen>>

\* Mutant: the messages are not deleted with the conversation.
DeleteLeavingMessages ==
    /\ UserEvent
    /\ Open /\ exists
    /\ exists' = FALSE
    /\ rows' = <<>>
    /\ UNCHANGED <<setting, process, restarted, question, message, row, active, stopping, req, seen>>

\* The messages go with the conversation, the rows of the requests stay.
DeleteConversation ==
    /\ UserEvent
    /\ Open /\ exists
    /\ exists' = FALSE
    /\ rows' = <<>>
    /\ question' = [r \in Requests |-> Nothing]
    /\ message' = [r \in Requests |-> Nothing]
    /\ UNCHANGED <<setting, process, restarted, row, active, stopping, req, seen>>

\* Shutdown closes the database under the running threads.
Shutdown ==
    /\ UserEvent
    /\ Open
    /\ process' = "closing"
    /\ UNCHANGED <<setting, restarted, stored, active, stopping, req, seen>>

\* The process ends, by itself or not, and is started again: threads are daemons.
Restart ==
    /\ UserEvent
    /\ restarted' = TRUE
    /\ process' = "up"
    /\ active' = {}
    /\ stopping' = {}
    /\ req' = [r \in Requests |->
                 [Fresh EXCEPT !.pc = IF req[r].pc \in Over THEN req[r].pc ELSE "lost"]]
    /\ done' = [r \in Requests |-> IF done[r] = "sent" THEN "none" ELSE done[r]]
    /\ UNCHANGED <<setting, stored, page>>

\* track(): the answer to the POST; an event that came before is replayed.
Track(r) ==
    /\ r \in Watched /\ page[r] = "none"
    /\ row[r] # Nothing /\ ~At(r, "lost")
    /\ page' = [page EXCEPT ![r] = IF done[r] = "early" THEN "shown" ELSE "pending"]
    /\ UNCHANGED <<user, stored, active, stopping, req, done>>

\* onEvent for chat.done.
Deliver(r) ==
    /\ done[r] = "sent"
    /\ IF page[r] = "pending"
       THEN page' = [page EXCEPT ![r] = "shown"] /\ done' = [done EXCEPT ![r] = "none"]
       ELSE UNCHANGED page /\ done' = [done EXCEPT ![r] = "early"]
    /\ UNCHANGED <<user, stored, active, stopping, req>>

\* The WebSocket is down when the event comes.
LoseEvent(r) ==
    /\ done[r] = "sent"
    /\ done' = [done EXCEPT ![r] = "none"]
    /\ UNCHANGED <<user, stored, active, stopping, req, page>>

\* Mutant: only a failed message counts as finished.
FinishedFailed(r) == message[r] = "failed"

Finished(r) == message[r] \notin {Nothing, "running"}

\* checkPending, every few seconds.
Poll(r) ==
    /\ page[r] = "pending" /\ Open
    /\ Finished(r)
    /\ page' = [page EXCEPT ![r] = "shown"]
    /\ UNCHANGED <<user, stored, active, stopping, req, done>>

-----------------------------------------------------------------------------

Init ==
    /\ setting \in Settings
    /\ process = "up"
    /\ exists = TRUE
    /\ rows = <<>>
    /\ question = [r \in Requests |-> Nothing]
    /\ message = [r \in Requests |-> Nothing]
    /\ row = [r \in Requests |-> Nothing]
    /\ active = {}
    /\ stopping = {}
    /\ req = [r \in Requests |-> Fresh]
    /\ done = [r \in Requests |-> "none"]
    /\ page = [r \in Requests |-> "none"]
    /\ restarted = FALSE
    /\ events = 0

\* The HTTP handler of r and the thread it starts.
Step(r) ==
    \/ AddPlaceholder(r) \/ Start(r)
    \/ Read(r) \/ Route(r) \/ Plan(r)
    \/ SwarmAnswers(r) \/ SwarmRaises(r) \/ SwarmStopped(r) \/ Assemble(r)
    \/ Resolve(r) \/ Prepare(r) \/ Generate(r) \/ AnswerEmpty(r)
    \/ Answer(r) \/ GenerationRaises(r) \/ GenerationStopped(r)
    \/ Write(r) \/ Close(r) \/ Leave(r)

Page(r) == Track(r) \/ Deliver(r) \/ LoseEvent(r) \/ Poll(r)

Next ==
    \/ \E r \in Requests :
         \/ Send(r, r)
         \/ \E old \in Requests : Retry(r, old)
         \/ Step(r) \/ SendFragment(r) \/ StartPool(r) \/ Rescue(r) \/ ResolveTask(r)
         \/ Interrupt(r) \/ Page(r)
    \/ \E s \in Settings : Configure(s)
    \/ DeleteConversation
    \/ Shutdown \/ Restart

\* Handlers and threads are scheduled, every wait of a thread has a timeout
\* (the global deadline of the swarm, the read timeout of a backend); the page
\* gets the answer to its POST and polls.  The user owes nothing, and neither
\* do peers, the pool and the WebSocket.
Fairness ==
    /\ \A r \in Requests : WF_vars(Step(r))
    /\ \A r \in Watched : WF_vars(Track(r)) /\ WF_vars(Poll(r))

Spec == Init /\ [][Next]_vars
FairSpec == Spec /\ Fairness

-----------------------------------------------------------------------------
(* Properties *)

LeftKinds(r) == {e.kind : e \in req[r].left}

Ending == [statuses : SUBSET Statuses,
           receipt : [route : {"local", "local+public", "fragmented"}, sends : SUBSET Kinds]]

\* Types: messages exist only in a conversation, and a request has an ending
\* once it is finishing (chat.py:28-41, db.py:27-46).
TypeOK ==
    /\ setting \in Settings
    /\ process \in {"up", "closing"}
    /\ exists \in BOOLEAN
    /\ \A i \in 1 .. Len(rows) : rows[i] \in {User(r) : r \in Requests} \union {Assistant(r) : r \in Requests}
    /\ question \in [Requests -> Requests \union {Nothing}]
    /\ \A r \in Requests :
         /\ message[r] # Nothing =>
              /\ message[r] \in {"running", "done", "failed", "stopped"}
              /\ Contains(rows, Assistant(r))
         /\ row[r] \in {Nothing, "pending", "done", "failed", "stopped"}
         /\ req[r].pc \in Sending \union Running \union Finishing \union Over
         /\ At(r, "write") => req[r].ending \in Ending
         /\ req[r].pc \in Finishing => req[r].status \in {"done", "failed", "stopped"}
    /\ active \union stopping \subseteq Requests

\* No request is left running: while the process is up, a message that says
\* running, and a request that the service still lists, belong to a thread at
\* work; and a request the service has let go is closed in both tables with the
\* same status (chat.py:415).
NoneLeftRunning ==
    ~restarted /\ Open =>
        \A r \in Requests :
            /\ message[r] = "running" \/ r \in active => req[r].pc \notin Over
            /\ row[r] # Nothing /\ r \notin active =>
                 message[r] \in {Nothing, row[r]}

\* The receipt of an answer misses no call that the policy governs: whatever left
\* this computer for an answered request, from the thread or from the pool, before
\* or after the receipt was built, stands in the receipt (chat.py:503-504).  Only
\* the answers of tasks that a server of embeddings compares go past the policy
\* and the ledger (orchestrator.py:1045-1057), so the receipt has not those, and
\* "every call that leaves the app" (CHANGELOG.md:10) is more than the code does.
AnswersReceiptIsComplete ==
    \A r \in Requests :
        At(r, "write") /\ req[r].status = "done" =>
            /\ LeftKinds(r) \ {"answers"} \subseteq req[r].ending.receipt.sends
            /\ ~req[r].pool

\* No passage of the user's documents goes to a third party that is not
\* authorised for passages at that moment, on any of its three ways out: the
\* lookup that decides whether the request is personal, the lookup for the
\* answer, and the answer itself, although the configuration may change between
\* them and the host of the model was taken earlier (egress.py:238-249).
PassagesOnlyWithConsent ==
    \A r \in Requests : \A e \in req[r].left :
        e.kind = "passages" /\ e.to = "third_party" => e.under = "passages"

\* Every stage of the log of an answered or failed request reports completed,
\* partial, skipped or failed (ARCHITECTURE.md:62).
StagesReport ==
    \A r \in Requests :
        At(r, "write") /\ req[r].status # "stopped" => req[r].ending.statuses \subseteq Reported

\* What a thread is about to take for the question is the question of its own
\* request, when no message of another request came after it (chat.py:183-189).
AnswersItsQuestion ==
    \A r \in Requests :
        /\ At(r, "read") /\ Prior(r) # {}
        /\ \A i, j \in 1 .. Len(rows) : rows[j] = User(r) /\ i > j => rows[i].of = r
        => UserText(r) = question[r]

\* Requests come to an end: however the swarm, the pool, the model and the user
\* behave, a time comes when the service works on none (chat.py:179-416).
RequestsEnd == <>[](\A r \in Requests : req[r].pc \in Over)

\* A page does not wait for ever: although the event may be lost, or come before
\* the answer to the POST, the page shows the end of what it waits for, unless
\* the process ends or the conversation is deleted (chat.js:281-303).
PageShowsTheEnd ==
    <>[](\A r \in Watched : page[r] # "pending" \/ ~exists \/ restarted \/ ~Open)

\* chat.py:504: the receipt says what actually left.  The receipt of a stopped
\* or failed request leaves out the fragments, so this does not hold.
ReceiptSaysWhatLeft ==
    \A r \in Requests :
        At(r, "write") => LeftKinds(r) \subseteq req[r].ending.receipt.sends

=============================================================================
