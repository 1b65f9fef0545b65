# SwarmblyAI: TLA+ models of its core

SwarmblyAI answers a prompt on a swarm of desktop nodes. A requester plans the
prompt into micro-tasks, sends each to several workers, collects signed
results, resolves them by consensus and assembles an answer. Beside the desktop
app the repository holds the library that plans and packs prompts (Core) and the
library that learns from the user's files (LCE). This directory models the parts
whose correctness depends on concurrency, failure, order or long sequences of
calls. Paths below are relative to `src/SwarmblyApp/swarmbly_app/` unless they
start with `src/`.

## 1. The system

| Part | State it keeps | Operations | Talks to | Model |
|---|---|---|---|---|
| Chat requests (`chat.py`) | active requests, stop events, message status | send, retry, run, finish, fail, interrupt | database, orchestrator, event bus (a thread per request) | `Chat` |
| Orchestrator (`engine/orchestrator.py`) | stage tracker; results and carried summaries of the tasks | admission, plan, `run_one` per task, stop, assembly | scheduler, on the P2P loop through `run_coroutine_threadsafe` | `Stages`, `Chat`, `Scheduler` |
| Scheduler (`engine/scheduler.py`) | attempts, load per node and pair, slots, busy times, speed figures | `run_levels`, `run_task` (launch, hedge, retry, close), `_dispatch_one` | node or directory | `Scheduler`, `PlanRun` |
| Directory, local pool (`engine/directory.py`) | the set of workers | `available_workers`, `dispatch` | node, own worker | none |
| Node (`p2p/node.py`) | peers, sessions, pending calls, seen attempts, queue per peer | dial, register, read loop, dispatch, cancel, handle task, keepalive, advertise | other nodes, worker | `Sessions`, `Serving` |
| Worker (`p2p/worker.py`) | running count, cancel events | policy, handle, cancel | backend threads | `Serving` |
| Handshake, transport, messages (`p2p/`) | certificates, nonces | hello, ack, framing, signing | sockets | `Sessions` (order only) |
| Discovery (`p2p/discovery.py`) | cache of announced nodes | announce, browse, record, remove | node | `Sessions` |
| Egress (`egress.py`) | ledger of a request, policy | check, record, receipt | every outgoing call | `Egress`, `Chat` |
| Page (`web/js/chat.js`) | pending requests, early events | track, event, poll | HTTP, WebSocket | `Chat` |
| Core (`src/SwarmblyCore/swarmbly_v0`) | none between calls | plan, pack, generate by levels, splice | orchestrator and the sweep (pure calls) | `Packing`, `Cell` |
| LCE (`src/SwarmblyLCE/swarmbly_lce`) | wiki, claims, dependency graph, adapter | digest, merge, consolidate, contest, forget, train, save, load | its own command line | `Wiki`, `Depgraph` |

Where it is hard:

* One event loop runs every coroutine of a requester: what happens between two
  awaits is atomic, and every await lets answers, failures, other tasks and a
  stop in. `asyncio.wait` neither cancels what it waits for nor orders it.
* An attempt can answer, fail, time out, be overtaken by a hedge, lose its node
  or be given up, and its late outcome still arrives.
* The worker spawns a handler per packet and reads on: a handler may start after
  later frames, and gives way while it probes whether the machine is idle.
* Sessions are lost, replaced and re-established; nodes restart.
* Each chat request is a thread. It shares the conversation, the settings, the
  tables and the ledger with the HTTP handlers, the pool of the local rescue and
  the threads of other requests; its end is four statements, not one.
* The user edits a file while it is digested, changes the policy between two
  commands, and withdraws what an adapter was trained on.
* A budget is divided before the summaries that share it exist.

`PROJECT.json` lists every component with its status and, under `hazards`, each
place in the code where one of these bites, with the properties that watch it.

What makes each part correct:

* Scheduler: attempts of a task have distinct ids and stay below the ceiling; its
  first round asks a pair <<node, family>> at most once, and a tie-break asks one
  that no replica it is compared with reports; the replicas that vote are sound;
  an attempt's verdict is final; load is exact; every request and every dispatch
  ends; tasks start after what they consume; a failure or a stop ends the rest.
* Node and worker: a packet is executed at most once; what a handler takes it
  gives back; limits hold; on a session that stays every packet is answered; a
  cancel stops the generation it is about.
* Sessions: a node reads exactly the sessions of its connected peers; nodes that
  see each other come to share one session, whoever dials; a dead one goes away.
* Chat: a request ends, in all tables alike, answers its own question, and its
  page shows the end. Its stages report, no passage leaves against the policy in
  force, and the receipt of an answer lists every call that the policy governs.
* LCE: what a claim counts as rests on evidence that is there, and still holds
  unless the claim is marked stale; what changed is marked and stays so; an adapter
  whose own new examples rest on what is gone or changed is known.
* Core: a packet never loses what it must carry; the whole stays in the budget;
  the window a row records is the packer's own; no fragment is lost, and none is
  said to start before it does.

Some of this is less than the documents promise; section 4 says where.

## 2. Modules

| Module | What it is |
|---|---|
| `Scheduler` | the scheduler with `run_one`, the stop of a request and the requester's end of the wire |
| `PlanRun` | abstract: what a run of a plan promises |
| `Serving` | `dispatch_async`, the session's frames, the worker's read loop, `_handle_task`, `WorkerService` |
| `Sessions` | discovery, dialling, the handshake's steps, the duplicate rule, read loops and keepalive of nodes that meet |
| `Chat` | chat requests from the POST to the page, composed of the next two |
| `Stages` | operators: the stage log of a request and the logs that the paths of `run()` produce |
| `Egress` | operators: what may leave, what is recorded, the receipt |
| `Wiki` | the local plane of the LCE, over the next one |
| `Depgraph` | operators: the dependency graph with its marks |
| `Cell` | one cell of the sweep: plan, levels, packets, bounds, splice, over the next one |
| `Packing` | operators: levels of a plan, packets under a budget, floor and ceiling |
| `SchedulerProofs`, `SchedulerSafety`, `ServingProofs`, `SessionsProofs`, `WikiProofs`, `ChatProofs`, `PackingProofs`, `CellProofs` | theorems, for all constants |
| `MCScheduler`, `MCServing`, `MCSessions`, `MCChat`, `MCWiki`, `MCCell` | small instances for TLC |

### Scheduler

State: `request` is what the caller of `run_levels` has seen, `results` the tasks
it has collected, `phase` where each `run_one` stands. `need`, `ceiling`,
`number`, `used`, `inflight`, `accepted` and `rejected` are the locals of the
current `run_task` of each task; `replicas` those of `run_one`. `attempts` is
`Scheduler.attempts`, append-only and shared by all tasks; each record carries
the attempt's `status` and the `stage` of its dispatch coroutine. `load` is
`_load`, `linked` the nodes with a live session. `turn` is the task whose
coroutine is between two awaits, `todo` and `batch` what is left of its loops.

A coroutine segment runs without interruption: while `turn` is not `NoTask` only
that task moves. The segment is cut into readable actions (`Enter`,
`LaunchInitial`, `Collect`, `Accept`, `Reject`, `DropFailed`, `Hedge`, `Park`,
`CloseRound`, the `Return...` actions), none of which lets another task in.
Dispatches (`Send`, `Reply`, `Expire`, `Unwind`, `Disconnect`, ...) move only
when no segment runs.

Abstractions, each permitting at least what the code does:

* `_select` ranks candidates by speed, load, latency and family; the model takes
  any candidate that passes its filters, so a property here holds for every
  ranking.
* Delays have no length. A hedge may fire whenever the code waits with a timer;
  a dispatch may time out whenever it is on the wire; a node's grace time is the
  freedom to leave a slot's holder unsent.
* The semaphores are counts without a queue order.
* A result is correct, of bad quality, or not verifiable. Which replicas split is
  chosen freely when two sound ones came back.

A worker advertises families (`Offers`) and its reply reports one, which need not be
the one asked for: the two are computed by different functions, and a worker may
fall back on another model (`p2p/state.py:68`, `p2p/worker.py:231`, `:282`). So an
attempt has a `family`, the one asked for, by which candidates and used pairs go,
and a `told`, the one its `Replica` carries, which a verified reply chooses freely;
the tie-break excludes by `told` (`ReportedPair`), as the code does.

### PlanRun

`PlanRun` knows only the request's outcome and a state per task: pending,
running, done, failed, abandoned. `Scheduler` maps onto it in `ImplementsPlan`:
whatever hedging, retrying, rescuing and stopping go on inside a task, the plan
sees a task start on finished predecessors, finish once, and nothing after the
end.

### Serving

State: `call` is the pending future of each attempt at its requester; `link`,
`toWorker`, `toPeer` are the session and its frames in order; `ready` the spawned
handlers that have not started; `seen`, `queued` are `seen_attempts` and
`tasks_inflight`; `running`, `cancels`, `flagged` the worker's `_tasks_now`,
`_cancels` and the events set; `policy` what the owner allows now.

`Start` is `_handle_task` to its first await, which covers the early refusals,
the start of an idle probe, and a slot taken at once. `Probed` is the rest after
the probe; it uses the limit read before it, as the code does. `Finish` is the
end of the generation with the `finally` blocks and the reply. `Replace` is
`_register`'s duplicate rule, which fails no pending call; `Disconnect` the end of
the current session, which fails all of them. `Restart` forgets everything the
process held.

Abstractions: the gates that refuse at once are one flag of the policy;
`seen_attempts` does not forget (the code remembers 4096 per peer); a write
completes at once; both ends see a session end together and frames under way are
lost. What the backend generates is a result or an error.

### Sessions

State: `conns` are the connections dialled so far, each with its two ends
(`open` during the handshake, `up` while its read loop runs, `closed`) and the
handshake message sent last; `session` is each node's `Peer.session`, non-zero
exactly while `Peer.connected`; `known` the discovery cache, `due` the
`_dial_later` tasks; `reach` who can dial whom, any choice in which each pair has
one way.

`Ack` is the initiator's `_connect` from `hello_ack` to `_register`, `Accept` the
responder's from the final ack; `Register` is the duplicate rule with the close
of the loser. A close reaches the other end later (`Drop`, `HandshakeFails`), and
a message sent before it may still be read. `Cut` is a connection that stops
without a word, including a handshake slow enough to time out; the keepalive
notices. `Restart` comes with a goodbye, without one, or without even closing its
sockets.

Abstractions: identities are what the peers say (signatures, nonces and the
binding to the certificate are taken to hold); delays have no length, so the
higher node may dial as early as the lower; an advertisement is left out, as is
the limit of 64 peers.

### Chat, Stages, Egress

State: `rows` are the messages of the conversation in the order in which they
were stored, `message` and `row` the status of a request's answer in the tables
`messages` and `requests`; `active` and `stopping` are `ChatService._active` and
the stop events set. `req[r]` is what the thread of `r` holds: where it stands,
its stage log, its egress ledger, and `left`, which no code keeps: everything
that has really left this computer for `r`, each with its destination and, for
passages, the policy it left under. `done` is the `chat.done` event
under way and `page` what the browser shows.

`Send`, `Retry`, `AddPlaceholder` and `Start` are the HTTP handler; the placeholder
exists before the thread, and another request may be stored between the two. `Read`
takes the last message of the context for the question, as the code does. `Route`,
`Plan`, the `Swarm...` actions and `Assemble` are `Orchestrator.run`; `Resolve`,
`Prepare`, `Generate` and what follows the local path. Every call to a model, a public
source or a peer is an action or a choice within one, made under the setting in force
at that moment. `StartPool` is a task that goes to a thread of the pool, which
outlives its request, and there either `Rescue` (the local model writes it) or
`ResolveTask` (its answers are compared) happens. `Write`, `Close` and `Leave` are the
end of a request. `Shutdown` closes the database under the running threads; `Restart`
ends them.

With an embedding server as `embedder` two more things leave. Looking up the user's
documents embeds passages and the question, in `Read` to decide whether the request
is personal and in `Prepare` for the answer; both go through `check_call` for the
host configured at that moment (`Lookups`, `Embedded`). Consensus and assembly embed
the answers of tasks (`AnswersEmbedded`, in `ResolveTask` and `Assemble`), on the
embedder taken when the plan was made, past policy and ledger.

Abstractions: a question is named by the request that first asked it; why a text
is personal or fragmented is a choice; the execution of the plan, the subject of
`Scheduler`, is one step of the thread during which fragments go out; a context
holds every message; a stage log leaves timings out, and of the log of an ended
request only the statuses are kept; the calls between two statements of the
database are made under one configuration.

### Wiki, Depgraph

State: `file` is the user's file, `sources` what the wiki was last registered
with, `claims` the claims with their anchors and maturity, `graph` the dependency
graph with its stale marks, `policy` the rules in force; `current`, `generation`
and `affectedFor` belong to the adapter manager and live in memory only.

A digestion is `RegisterSource`, any number of `DigestSpan`, `DigestDone`, each
with the anchors it writes; the file may change in between (`Edit`). `Link`,
`Contest`, `ConsolidationCycle`, `SetPolicy` and `ForgetSource` are the other
operations of `Wiki`, `RunGeneration` and `EnforceForgetting` those of the adapter
manager. `Reload` saves, loads under the policy file of that moment, and loses
the manager.

`RunGeneration` trains on new examples, which may have been built at any earlier
moment and of which those still eligible are used; on replayed examples of any
claim, which nothing checks again; and on examples of peers, which are checked.
Only the new ones are linked to their claims, so `current` keeps apart `claims`
(the new ones) and `others`, and `basis` is the content and rule of each source
behind the new ones at the training.

Abstractions: a hash and a span are numbers; an anchor records the hash it quotes
(`hash`) and, beside it, the text its support was judged on (`seen`), which the code
does not keep; `verify_anchor` reads a file and hashes it in one step; what a
digester proposes, what the support check says and which adapter wins is a choice;
counters count as far as their conditions look; preference pairs and general text,
which carry no claim, are left out.

### Packing, Cell

A text is its number of tokens. `Packing` holds the arithmetic of `packing.py`:
shares of a budget, two correction passes, Python's rounding, blocks that fit
whole and the first that is cut. Since a packet takes the blocks in their order
until one does not fit, its size is all of them or all of the room, and the
expansion blocks, a finite list, count together (`ExpansionTokens`). A block of a
kind has one size in all tasks; in the code they vary, and the bounds are checked
and proved here for equal ones. A plan is one
the planner builds (`IsPlan`): a `Chain` of steps, or a `FanIn` of sections and
their integration. Levels are the rounds of Kahn's algorithm, as in `schema.py`.

`Cell` runs it: `PackLevel` builds the packets of a level when the summaries of
its predecessors are there and applies the packet invariant, `Generate` produces a
summary, `Measure` records floor, ceiling and what was paid and may refuse the
cell, `Splice` and `Join` put the fragments together in the order of the levels
(`Before`). rho is the budget it stands for; seams and bridges are choices;
replicas, the editor and the metrics are left out.

Sentences are counted twice, as in `assembler.py:251-258`: `cursor` adds up those of
each piece split on its own, `total` counts those of the joined text, which is split
anew. How many a piece has and whether its first is one with the last of the piece
before it (a fragment that ends in a colon, a next one that begins in lower case)
are choices, so the two may part; each piece has its true place (`at`) beside the
offset the code attributes to it.

### How the models fit together

Attempt ids are unique (proved), so to a worker each attempt is a packet of its own,
and to the scheduler a worker is a source of a result, an error or silence; each of
`Scheduler` and `Serving` lets its counterpart do anything the other allows and more.
`Serving` takes a session as something that begins, is replaced and ends at any
moment; `Sessions` shows between which nodes and when. `Chat` takes the execution of a
plan as a step that ends in an answer, an exception or a stop, which is what
`Scheduler` shows (`RequestEnds`, `ImplementsPlan`), and that it may leave a thread of
the pool behind. `Wiki` and `Cell` share nothing with the rest while they run: the app
calls the Core's functions without keeping state there, and the LCE runs as commands
of its own.

## 3. Runs

| Run | Instance | Shows |
|---|---|---|
| `sched_one` | one task, four pairs on two nodes, two replicas of at most three attempts, tie-break and local rescue | `TypeOK`, `UniqueAttemptIds`, `WithinCeiling`, `DistinctPairs`, `SoundReplicas`, `VerdictIsFinal` |
| `sched_chain` | two tasks, the second consuming the first, two pairs, under fairness | `DependenciesFirst`, `LoadExact`, `RequestEnds`, `DispatchesEnd`, `ImplementsPlan` |
| `sched_stop` | one task, one attempt | violated: `StopCancelsAttempts` |
| `serving_two` | three attempts of two peers, one slot, queue of one, two packets, two sessions, three policies, under fairness | `TypeOK`, `CountersExact`, `Bounded`, `ReplyUnderWay`, `LetInOnce`, `Drains`, `Answered` |
| `serving_cancel` | two attempts of one peer, one session | violated: `CancelStopsGeneration` |
| `sessions_two` | two nodes, three connections, a dial by hand, one fault, under fairness | `TypeOK`, `OneReadLoop`, `Meet`, `StaleSessionsEnd` |
| `sessions_manual` | two nodes, a dial by hand, no fault | violated: `DuplicateKeepsOne` |
| `wiki` | two sources of two contents and one span, a style claim and a fact, two policies, two user events, one generation over any replayed and social examples | `TypeOK`, `GraphFollowsAnchors`, `FreshAnchors`, `TrainableHasEvidence`, `FactsCorroborated`, `AffectedIsKnown`, `MarksStay` |
| `wiki_forget` | the same | violated: `UnverifiedIsDigested` |
| `chat` | a request through the swarm with a page, a local one, a third party as host, authorised for questions, or for passages with its embedding server, one user event, under fairness | `TypeOK`, `NoneLeftRunning`, `AnswersReceiptIsComplete`, `StagesReport`, `AnswersItsQuestion`, `PassagesOnlyWithConsent`, `RequestsEnd`, `PageShowsTheEnd` |
| `chat_receipt` | one request through the swarm | violated: `ReceiptSaysWhatLeft` |
| `cell` | chains and fan-ins of up to four tasks, five budgets, three sizes of a summary, pieces that may share a sentence with the one before | `WithinBudget`, `WindowIsHonest`, `NoFragmentLost` |

Why the bounds are enough.

* A run of `run_task` interacts with others through `load`, the slots and the
  attempt list. One task with more pairs than attempts, and nodes that come and
  go, reaches every branch of it (hedge, retry after failure, retry after
  rejection, no worker left, tie-break, rescue, redo); two tasks, of which the
  first leaves attempts behind that outlive it, reach the shared state.
* A worker's handlers meet through the slot, the peer's queue and the session:
  two attempts compete for the first two, a third from another peer separates the
  queues, a packet more than once is a duplicate, a second session a replacement.
* Two nodes meet in at most two discovered dials; a third connection is the one
  dialled by hand, or after a fault.
* Two requests are the least in which one's message may stand where the other
  looks for its question; one event of the user at any moment reaches each race
  of a stop, a change of settings, a deletion or a shutdown with a thread.
* A fact needs two sources to be corroborated, and loses one to an edit or a
  withdrawal; a second event undoes or repeats the first. Every property of `wiki`
  is proved for any constants.
* Budgets lie below the floor, between floor and ceiling and above; levels are
  one to four deep, and a fan-in has its carries in the last.

`MaxSends` and `MaxSessions` bound `Serving`, `MaxConns`, `MaxManual` and
`MaxFaults` bound `Sessions`, `MaxEvents` bounds `Chat` and, with
`MaxGenerations`, `Wiki`; `KMax` bounds `Scheduler`. Deadlock is not checked where
the system comes to rest: a request ends, a worker is idle, a cell is done.

Five documented promises do not hold (`findings` in `PROJECT.json`):

* `sched_stop`: the change log says the requester cancels an attempt when the
  user stops. A stop cancels `run_task` inside `asyncio.wait`, which leaves the
  dispatch tasks alone; the workers go on until the timeout.
* `serving_cancel`: the change log says the worker stops on a cancel. A cancel
  read before the attempt's handler has registered its event, because both
  frames were buffered or the idle probe was running, is dropped and the
  generation runs to its end.
* `sessions_manual`: the node says that of two sessions the one initiated by the
  lower id is kept. Two dials of the same node are both kept or both refused, in
  the order in which each end happens to register them; when the orders differ,
  each end closes the connection the other keeps and none is left.
* `wiki_forget`: the LCE's specification says that a claim without a verified
  anchor never gets past DIGESTED. `forget_source` keeps the maturity of a claim
  whose remaining anchors are all unverified.
* `chat_receipt`: the code says that the receipt tells what actually left. The
  receipt of a stopped or failed request through the swarm is built without the
  metadata of the swarm and lists no fragment.

## 4. Where the code guarantees less than its documents say

The following are no runs of their own: the property of the run beside it is stated
as what the code does guarantee, its comment names the gap, and the model reaches
it.

* Tie-break (`DistinctPairs`). The third replica is asked for "on another family"
  (`engine/orchestrator.py:528`, comment). What is excluded are the pairs the replicas
  report (`engine/orchestrator.py:538`, `engine/scheduler.py:608`), what is chosen
  from are the pairs workers advertise, and another node with the same family is not
  excluded. A worker that reports another family than it advertises may be asked for
  the same one again.
* Embeddings (`AnswersReceiptIsComplete`). `src/CHANGELOG.md:10` speaks of every call
  that leaves the app, embeddings named, and `src/SwarmblyApp/docs/CHANGELOG.md:21` of
  a policy before every one of them. The embedder of the orchestrator
  (`engine/orchestrator.py:1045-1057`) sends answers of tasks to an embedding server
  without a check and without an entry. The property therefore speaks of the calls
  that the policy governs.
* Stale facts (`FactsCorroborated`). A claim whose anchor is withdrawn must return to
  DIGESTED (`src/SwarmblyLCE/docs/SPEC_LCE_EN.md:226`), and the code treats a changed
  source as a lost anchor. But `register_source` regresses only what becomes stale by
  the change (`src/SwarmblyLCE/swarmbly_lce/wiki.py:66-70`): a fact that a change of
  policy made stale before keeps its maturity, and its mark is all that tells. Of such a
  fact the property says only that the texts it quotes were seen to support it.
* Replay and social examples (`AffectedIsKnown`). Line 241 of the same specification
  speaks of an adapter's training set. `_register` links the new examples only
  (`src/SwarmblyLCE/swarmbly_lce/training.py:375-389`), and replayed ones are not
  checked again, so an adapter that learned a withdrawn claim through them is not
  marked.
* Sentence offsets (`NoFragmentLost`). The docstring calls the attribution of errors
  exact (`src/SwarmblyCore/swarmbly_v0/assembler.py:168-172`). The offsets add up the
  sentences of each piece, while the text is split as a whole (lines 251-258); from
  where two pieces share a sentence, offsets lie behind the true place. They never lie
  before it.

## 5. Fairness

Weak fairness on steps the event loop runs when they are ready: coroutine
segments, the collection of finished dispatches, dispatches that hold their slot,
handlers, read loops. `Scheduler` also assumes that a dispatch on the wire ends,
which `asyncio.wait_for` guarantees, and that the rescue on the local model
returns, which its deadline guarantees. `Serving` assumes that the idle probe
returns (it sleeps half a second) and that a generation ends (`_execute` has a
hard deadline). Nothing is assumed about stops, sends, timeouts at the requester,
sessions, restarts or the owner: `Drains` holds although the worker's peers may
do anything, and `Answered` needs only that the session stays. `Sessions` assumes
that announcements are seen, delays pass, messages arrive on a connection that is
not cut, and silence is noticed (handshake timeouts, the keepalive); `Meet` is
claimed for behaviours without a fault or a dial by hand, because after a fault
the code dials again only when an announcement is new.

`Chat` assumes that the steps of each handler and thread are taken: threads are
scheduled, and each wait of a thread has a timeout (the global deadline of the
swarm, the read timeout of a backend). Of a page that stays open it assumes that
the answer to its POST arrives and that its poll runs every few seconds. The user,
the peers, the pool and the WebSocket owe nothing: an event may be lost for ever.

## 6. Proofs

Every theorem is for any constants that meet the assumptions of its module
(`SchedulerAssumption`, `ServingAssumption`, `SessionsAssumption`, `SettingsAssumption`,
`TypeOfAssumption`, `ParamsAssumption` and the other assumptions of `Wiki`,
`PackingAssumption`, `CellAssumption`, `UnreachableAssumption`). TLC
checked each inductive invariant on the instances above before it was proved.

`SchedulerProofs`:

* `TypeCorrect`: `Spec => []TypeOK`. `TypeOK` is inductive. One lemma per
  building block that several actions share (`Launch`, `Popping`, `CloseRound`,
  the rewriting of one attempt), then one step per action.
* `AttemptIdsUnique`: `Spec => []UniqueAttemptIds`. The property is not
  inductive: a launch appends an attempt with the round's number, and nothing in
  it says that number is new. The strengthening `IdInv` does, with three facts:
  `NoEarlyAttempt` (a task whose first round has not begun has no attempt),
  `NumbersBehind` (the next number of a round exceeds every number its task has
  used, and never exceeds the length of the attempt list, which is why a
  tie-break numbered by that length starts past them all); `TurnInRound` says
  that the coroutine between two awaits is inside a round.

* `DependenciesAlwaysFirst` and `SchedulerImplementsPlan`, the refinement of `PlanRun`.
  The invariant `PlanInv` says that collected results are done, that a task that has
  started has its dependencies among them, and that nothing runs once the request is
  over. `PlanSteps` says what a step can be to the plan: one of `run_levels`, the
  user's, an advance of one `run_one`, or none of its business; `AdvanceMaps` and
  `LevelsMaps` map them to steps of `PlanRun`.

`SchedulerSafety` proves the other safety properties of `Scheduler`. All of them rest
on `RoundInv`: what is in flight, accepted or rejected belongs to its task and agrees
with the stage, verdict and answer of the attempt, and a done set is what has come
back. Its actions are first reduced to five kinds of step, so that each invariant
is proved for five cases and not for twenty: `Quiet` (tasks and the loop move),
`Wire` (dispatches move), `Begin`, `Work` (a round judges one attempt at most and
launches one at most) and `Close` (a round ends); `Kinds` says there are no others.

* `VerdictsAreFinal`: the dispatch writes a verdict only while the attempt is out,
  a round judges only what has come back and gives up only what has not.
* `LoadAlwaysExact`: the load follows from sets in flight that are disjoint.
* `AlwaysWithinCeiling`: the first round has made as many attempts as its number
  says; the second has one left to make until it makes it, and while it has made
  none there is nothing in flight that a retry or a hedge could follow
  (`CeilingInv`).
* `AlwaysDistinctPairs`: a round's used pairs contain those of its attempts, and the
  second starts with the pairs that the replicas it is compared with *report*
  (`PairInv`). It needs the ceiling: a second tie-break attempt could share the
  first's pair only if there were two. Nothing relates `told` to `family`.
* `AlwaysSoundReplicas`: in the first round a good answer is in flight or accepted,
  so a round that ends with nothing accepted has had none; after it nothing of
  the task is out, so none can come (`SoundInv`).

`ServingProofs`, for any peers, attempts, limits and policies. The inductive
invariant is `TypeOK`, `CountersExact`, `Bounded` and two facts they need:
`JobsSeen` (a handler that was let in is remembered, so that no attempt gets a
second one, which would count the first twice) and `LimitsRead` (the limit a
handler read before its idle probe is one that the owner had set, so that the
bound on running generations survives a change of policy during the probe). The
counts are cardinalities of sets of attempts in a stage; the lemmas `OneMore`,
`OneLess` and their like say how a change of one attempt changes them. From it:
`CountersAlwaysExact`, `AlwaysBounded`, `TypeCorrect` and the action property
`NeverLetInTwice`. `ReplyAlwaysUnderWay` is inductive on top of it: each step that
takes a packet, a handler or a reply out of one place puts it into the next, a new
session has a number no packet carries, and `JobsSeen` is why a second packet of an
attempt cannot take the reply of the first away.

`SessionsProofs`, for any number of nodes, dials and faults. `OneReadLoop` is not
inductive: it does not say which peer a session belongs to. `SessionRuns` (a
peer's session is a connection with that peer that runs here), `RunningIsSession`
(a running connection is the session of the peer at its other end) and `NotSelf`
(nobody dials himself, so the two ends differ) make it so. The lemmas
`EndingKeeps` (read loops only end), `DialKeeps` and `RegisterKeeps` (the
duplicate rule) cover all actions. From it `AlwaysOneReadLoop` and `TypeCorrect`.

`WikiProofs`, for any files, claims, policies and parameters. The inductive invariant
adds to `TypeOK` that the graph is a record of its three fields (`Shaped`), that every
anchor's source is registered (`Registered`), the edges (`EdgesOfAnchors`), and the
two halves of `FreshAnchors`: `Fresh` (a verified anchor of what is not stale quotes
what its source is registered with) and `Judged` (a verified anchor was judged on what
it quotes, because `verify_anchor` hashes the file again). `GraphAlwaysFollowsAnchors`
and `AnchorsAlwaysFresh` need each other: an anchor stays fresh because the change of
its source marks the claim, and the mark reaches the claim because the edge is there.
`Reload` drops the edges of examples and adapters but none between a source and a
claim.

On top of that it proves `FactsAlwaysCorroborated`,
`TrainableAlwaysHasEvidence` and `MarksNeverLost`. What a step may do to a claim
is one of few things (start again, lower it, raise it over rungs whose
conditions hold, lose anchors and be marked); each action is shown to do one of
them to each claim, and each of them to keep `EInv`. `EvidenceOfFresh` has to say
"unless stale", because of what `wiki_forget` finds. That the two sources of a fact
are verified is part of it (`FactsVerified`); that their text was seen to support
the fact and, unless it is stale, is the text they have now, follows with `Judged`
and `Fresh`.

`AffectedIsAlwaysKnown` rests on `AdapterInductive`: unless the adapter in use is
marked, each claim of its new examples is there, not stale, and joined to it through
an example in the graph, and each source in its basis is as it was and has an edge
to one of them (`Learned`). So the mark of a source or a claim reaches it. That nothing
else leads from a source to a claim than an edge of an anchor needs the shape of the
graph (`LInv`): edges go from sources to claims, claims to examples, examples to
adapters.

`ChatProofs`, for any requests, configurations and number of events:
`TypeCorrect`, `NeverLeftRunning`, `ReceiptAlwaysComplete`, `StagesAlwaysReport` and
`PassagesAlwaysWithConsent`. Four conjuncts make the invariant. A
thread's own state is sane (`Sane`): fragments and the pool belong to the swarm's
path, the ledger has all that left but fragments and compared answers (`Governed`),
passages that went to a third party went under a policy that allows it (`Consent`),
the log is one of the path's. What a call of any kind adds to what left and to the
ledger is said once (`CalledFacts`, `SentFacts`, `ComparedFacts`). The
tables are typed (`Stored`), a request at work has its placeholder (`Placed`), and
message, row and active list stand where the thread's program counter says, in the
four steps of its end too (`Tidy`; while the process is up and was not restarted,
for a restart does leave requests running). The eighteen steps of the work of a
thread are all reduced to one, `Work`.

`AlwaysAnswersItsQuestion` needs one conjunct more, `Asked`: while the conversation
exists, each request whose thread is not over has its question among the rows. `Read`
takes the last message above its placeholder, the greatest of a finite set of places;
the lemma `GreatestPlace` says that there is one.

`PackingProofs` holds the lemmas that the arithmetic of a budget needs, for blocks of
any size:

* Sums. The library's sum over a set chooses a function by recursion over subsets.
  That the choice exists is proved by well-founded induction on the size of the
  subset, and the induction principle for the subsets of a finite set
  (`SubsetInduction`) from a least counterexample, so that no theorem takes an
  operator as parameter. From them: any element may be taken out (`SumOut`), sums
  are monotone, additive, and add up over disjoint sets.
* `RoundNear`, `RoundKeeps`: rounding moves a budget by half a token at most and
  passes no integer.
* `PlacedTasks`, `LevelAlike`: in a planner's plan Kahn's rounds place the tasks up to
  a number, the last round all of them, and tasks of a level depend on the same
  tasks, so that they desire the same context and get the same share.
* `LevelWithinShare`: `build_packets` keeps a level within the budget it shares, half
  a token a packet and the carries apart, when the budget covers the floors. The first
  pass does because equal packets exhaust at most their slack (`FirstPassKeeps`), and
  each correction because it divides a residue: what it adds is at most what was
  missing, and what it cannot take away is mandatory (`CorrectKeeps`).
* `CeilingAbove`: asked for a target out of reach, a correction pays every packet
  more than it can hold, so the ceiling is the sum of all there is.

`CellProofs`, for any plans, budgets and summaries. The inductive invariant
`PackInvariant` says which tasks are packed and produced at each level (`Progress`),
and that the packets so far are as they would be built from today's summaries and
within the shares of their levels (`PacketsKept`). The first half survives `Generate`
because a packet depends on its predecessors' summaries only, which are all there;
the second survives `PackLevel` because shares of disjoint sets add up.

* `LevelsPacked`: the invariant itself.
* `BudgetHolds` (`WithinBudget`): the shares of all levels are the target, or the
  floors when the target is below them.
* `WindowHolds` (`WindowIsHonest`): carries counted by the floor are among what is
  mandatory, and no packet exceeds what the ceiling counts.
* `SpliceHolds` (`NoFragmentLost`): `Spliced` describes the text half way: the tasks up
  to some number, each at or before its offset, exactly there as long as as many
  sentences were counted as the joined text has, and nothing else but bridges. The
  order of the levels is that of the tasks (`BeforeIsLess`), so the next fragment
  comes after all of them.
* `DependentsAlwaysCarry`: the packet invariant's third condition
  (`src/SwarmblyCore/swarmbly_v0/packing.py:656-659`) never refuses a level, for what
  `build_packets` builds has the carry whatever the budget. It is an action property
  that no run checks.

`UnreachableAssumption` says of the sizes what the code says of its constant 999: no
plan reaches that target, here with a factor of two to spare, which rounding and the
0.5 % that a correction lets pass use up. `CellAssumption` says that the plans are the
planner's.

Only model-checked: liveness (`RequestEnds`, `DispatchesEnd`, `Drains`, `Answered`,
`Meet`, `StaleSessionsEnd`, `RequestsEnd`, `PageShowsTheEnd`), since fairness and
`ENABLED` are outside the prover's reach, and the counterexamples of the five findings.
Every invariant and action property of a passing run is proved. Induction with an
operator as parameter is out of reach too, and is done over sets of counterexamples
instead; the modules that are proved about use no `RECURSIVE` operator.

## 7. Not modelled

* Consensus over replicas and the coherence edit (`src/SwarmblyCore/swarmbly_v0/
  consensus.py`, `editor.py`), metrics, statistics, grading and reports: functions
  of texts and numbers, without state. `Scheduler` takes a split vote as a choice.
* The local pool (`engine/directory.py`): a cancelled dispatch frees its slot
  while its thread goes on. `Chat` has the same hazard for the pool of the rescue.
* Sequence numbers of advertisements and the limit of 64 peers (hazards of `node.py`
  without a place in `Sessions`, whose instances hold two nodes).
* Social cache, capsules and projection of the LCE, and its export.
* Planning heuristics, composing, parsing of sources, retrieval: text in, text out.
* Backends, cryptography as such, formats on disk, the presentation of the web
  interface, installers, offline studies and benches: input and output, or
  sequential work outside the system's protocol.

Two hazards have no property. A message stored as running before its thread
exists stays so after a restart (`chat.py:124`): `Chat` reaches it, nothing
promises otherwise. A fan-in plan forced above
a target in range is refused with its cell (`experiment.py:1378`): `Cell` reaches
it, and `WithinBudget` bounds it.

Next, in this order: the local pool beside `Serving`'s slot; the consensus vote
against a reference definition; sequence numbers of advertisements in `Sessions`.
