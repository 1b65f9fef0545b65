------------------------------- MODULE Serving -------------------------------
(***************************************************************************)
(* A worker node serving the attempts of its peers: dispatch_async on the  *)
(* requester (p2p/node.py), the frames of a session, and on the worker the *)
(* read loop, _handle_task (p2p/node.py) and WorkerService (p2p/worker.py).*)
(*                                                                         *)
(* Requesters and worker are event loops of their own.  On the worker the  *)
(* read loop spawns _handle_task and goes on reading without giving way as *)
(* long as frames are buffered, so a spawned handler may start after later *)
(* frames have been read.                                                  *)
(*                                                                         *)
(* A session that ends loses the frames in both directions and is seen to  *)
(* end by both sides.  Sessions are numbered, 0 is none.                   *)
(***************************************************************************)
EXTENDS Integers, Sequences, FiniteSets

CONSTANTS
  Peers,        \* requesting nodes
  Attempts,     \* attempt ids
  Owner,        \* Owner[a]: the peer whose request attempt a belongs to
  MaxQueued,    \* MAX_QUEUED_TASKS_PER_PEER
  Policies,     \* what the worker's owner may set: records of Policy
  MaxSends,     \* bound: dispatches in all
  MaxSessions   \* bound: sessions in all

\* serving stands for the gates that refuse at once: role off, paused, kind,
\* lane, tier, budget, deadline, battery.
Policy == [serving: BOOLEAN, idleOnly: BOOLEAN, limit: Nat \ {0}]

ASSUME ServingAssumption ==
  /\ IsFiniteSet(Attempts)
  /\ Owner \in [Attempts -> Peers]
  /\ MaxQueued \in Nat \ {0}
  /\ Policies \subseteq Policy
  /\ MaxSends \in Nat /\ MaxSessions \in Nat

VARIABLES
  call,      \* how dispatch_async of each attempt stands at its requester
  sends,     \* dispatches so far
  sentOn,    \* the session its packet was written to
  link,      \* the current session of each peer, or 0
  sessions,  \* sessions so far
  toWorker,  \* frames on their way to the worker, per peer
  toPeer,    \* frames on their way to the peer
  ready,     \* _handle_task coroutines spawned and not started, in order
  seen,      \* peer.seen_attempts of all peers (REPLAY_WINDOW not reached)
  job,       \* where the handler of each attempt that was let in stands
  replyOn,   \* the session that handler answers on
  limitRead, \* max_concurrent of the policy it read
  queued,    \* peer.tasks_inflight
  running,   \* WorkerService._tasks_now
  cancels,   \* keys of WorkerService._cancels
  flagged,   \* those whose event is set
  policy     \* the worker's current policy

requester == <<call, sends, sentOn>>
wire == <<link, sessions, toWorker, toPeer>>
handlers == <<ready, seen, job, replyOn, limitRead, queued>>
slots == <<running, cancels, flagged>>
vars == <<requester, wire, handlers, slots, policy>>

-----------------------------------------------------------------------------
(* Values *)

Frame(kind, a) == [kind |-> kind, attempt |-> a]
Replies == {"result", "error"}
Packets == [kind: {"task", "cancel"}, attempt: Attempts]
Answers == [kind: Replies, attempt: Attempts]

GivenUp == {"timeout", "cancelled"}
Calls == {"idle", "waiting", "lost"} \cup Replies \cup GivenUp

AttemptsOf(p) == {a \in Attempts : Owner[a] = p}

Init ==
  /\ call = [a \in Attempts |-> "idle"]
  /\ sends = 0
  /\ sentOn = [a \in Attempts |-> 0]
  /\ link = [p \in Peers |-> 0]
  /\ sessions = 0
  /\ toWorker = [p \in Peers |-> <<>>]
  /\ toPeer = [p \in Peers |-> <<>>]
  /\ ready = <<>>
  /\ seen = {}
  /\ job = [a \in Attempts |-> "none"]
  /\ replyOn = [a \in Attempts |-> 0]
  /\ limitRead = [a \in Attempts |-> 0]
  /\ queued = [p \in Peers |-> 0]
  /\ running = 0
  /\ cancels = {} /\ flagged = {}
  /\ policy \in Policies

-----------------------------------------------------------------------------
(* dispatch_async *)

\* The packet is written and its future is pending.  A requester may send an
\* id again once its call has ended; without a session the call raises at once.
Send(a) ==
  LET p == Owner[a]
  IN /\ call[a] # "waiting" /\ sends < MaxSends
     /\ link[p] # 0
     /\ call' = [call EXCEPT ![a] = "waiting"]
     /\ sends' = sends + 1
     /\ sentOn' = [sentOn EXCEPT ![a] = link[p]]
     /\ toWorker' = [toWorker EXCEPT ![p] = Append(@, Frame("task", a))]
     /\ UNCHANGED <<link, sessions, toPeer, handlers, slots, policy>>

\* timeout_s passes, or the dispatch is cancelled: "cancel" goes out on the
\* session the peer has now, if any.
GiveUp(a, why) ==
  LET p == Owner[a]
  IN /\ call[a] = "waiting"
     /\ call' = [call EXCEPT ![a] = why]
     /\ toWorker' = [toWorker EXCEPT ![p] =
          IF link[p] # 0 THEN Append(@, Frame("cancel", a)) ELSE @]
     /\ UNCHANGED <<sends, sentOn, link, sessions, toPeer, handlers, slots, policy>>

\* _route on the requester: a reply settles the pending call of its attempt,
\* and is dropped when there is none.
PeerReads(p) ==
  /\ toPeer[p] # <<>>
  /\ toPeer' = [toPeer EXCEPT ![p] = Tail(@)]
  /\ LET f == Head(toPeer[p])
     IN call' = [call EXCEPT ![f.attempt] = IF @ = "waiting" THEN f.kind ELSE @]
  /\ UNCHANGED <<sends, sentOn, link, sessions, toWorker, handlers, slots, policy>>

-----------------------------------------------------------------------------
(* Sessions *)

NewSession(p) ==
  /\ sessions < MaxSessions
  /\ sessions' = sessions + 1
  /\ link' = [link EXCEPT ![p] = sessions + 1]

Connect(p) ==
  /\ link[p] = 0
  /\ NewSession(p)
  /\ UNCHANGED <<requester, toWorker, toPeer, handlers, slots, policy>>

\* The read loop of the current session ends: every call pending on the peer
\* fails.  The handlers of its tasks go on.
Disconnect(p) ==
  /\ link[p] # 0
  /\ link' = [link EXCEPT ![p] = 0]
  /\ toWorker' = [toWorker EXCEPT ![p] = <<>>]
  /\ toPeer' = [toPeer EXCEPT ![p] = <<>>]
  /\ call' = [a \in Attempts |->
       IF Owner[a] = p /\ call[a] = "waiting" THEN "lost" ELSE call[a]]
  /\ UNCHANGED <<sends, sentOn, sessions, handlers, slots, policy>>

\* A duplicate session takes over: the read loop of the old one ends without
\* failing anything, because it is not the peer's session any more.
Replace(p) ==
  /\ link[p] # 0
  /\ NewSession(p)
  /\ toWorker' = [toWorker EXCEPT ![p] = <<>>]
  /\ toPeer' = [toPeer EXCEPT ![p] = <<>>]
  /\ UNCHANGED <<requester, handlers, slots, policy>>

-----------------------------------------------------------------------------
(* The worker's read loop *)

\* Mutant: a cancel sets the event of an attempt the worker does not know.
WorkerReadsBlindly(p) ==
  /\ toWorker[p] # <<>>
  /\ toWorker' = [toWorker EXCEPT ![p] = Tail(@)]
  /\ LET f == Head(toWorker[p])
     IN \/ /\ f.kind = "task"
           /\ ready' = Append(ready, [attempt |-> f.attempt, session |-> link[p]])
           /\ UNCHANGED flagged
        \/ /\ f.kind = "cancel"
           /\ flagged' = flagged \cup {f.attempt}
           /\ UNCHANGED ready
  /\ UNCHANGED <<requester, link, sessions, toPeer, seen, job, replyOn, limitRead,
                 queued, running, cancels, policy>>

WorkerReads(p) ==
  /\ toWorker[p] # <<>>
  /\ toWorker' = [toWorker EXCEPT ![p] = Tail(@)]
  /\ LET f == Head(toWorker[p])
     IN \/ /\ f.kind = "task"
           /\ ready' = Append(ready, [attempt |-> f.attempt, session |-> link[p]])
           /\ UNCHANGED flagged
        \/ /\ f.kind = "cancel"
           /\ flagged' = IF f.attempt \in cancels THEN flagged \cup {f.attempt} ELSE flagged
           /\ UNCHANGED ready
  /\ UNCHANGED <<requester, link, sessions, toPeer, seen, job, replyOn, limitRead,
                 queued, running, cancels, policy>>

-----------------------------------------------------------------------------
(* _handle_task and WorkerService.handle *)

\* A reply to a session that is gone is lost.
Reply(a, session, kind) ==
  toPeer' = [toPeer EXCEPT ![Owner[a]] =
    IF link[Owner[a]] = session THEN Append(@, Frame(kind, a)) ELSE @]

\* Mutant: the peer's queue is shortened only after a result.
EndKeepingQueue(a, session, kind, others) ==
  /\ job' = [job EXCEPT ![a] = "over"]
  /\ queued' = [queued EXCEPT ![Owner[a]] = IF kind = "result" THEN others ELSE @]
  /\ Reply(a, session, kind)

\* The handler of a is done, others of its peer go on: the reply goes out.
End(a, session, kind, others) ==
  /\ job' = [job EXCEPT ![a] = "over"]
  /\ queued' = [queued EXCEPT ![Owner[a]] = others]
  /\ Reply(a, session, kind)

\* Mutant: the limit was tested once, before the idle probe.
TakeSlotUntested(a, session, limit, others) ==
  /\ running' = running + 1
  /\ cancels' = cancels \cup {a}
  /\ job' = [job EXCEPT ![a] = "executing"]
  /\ queued' = [queued EXCEPT ![Owner[a]] = others + 1]
  /\ UNCHANGED <<flagged, toPeer>>

\* A free slot is taken and the cancel event registered, or the task refused.
TakeSlot(a, session, limit, others) ==
  \/ /\ running < limit
     /\ running' = running + 1
     /\ cancels' = cancels \cup {a}
     /\ job' = [job EXCEPT ![a] = "executing"]
     /\ queued' = [queued EXCEPT ![Owner[a]] = others + 1]
     /\ UNCHANGED <<flagged, toPeer>>
  \/ /\ running >= limit
     /\ End(a, session, "error", others)
     /\ UNCHANGED slots

HandlerStep == UNCHANGED <<requester, link, sessions, toWorker, policy>>

\* Mutant: attempts are not remembered.
AdmitsRepeats(a) == queued[Owner[a]] < MaxQueued

Admits(a) == a \notin seen /\ queued[Owner[a]] < MaxQueued

\* Mutant: a task over the peer's queue is dropped without an answer.
TurnAwaySilently(a, session) ==
  /\ ~Admits(a)
  /\ UNCHANGED <<seen, job, replyOn, limitRead, queued, slots, toPeer>>

\* A duplicate, or one task too many of this peer.
TurnAway(a, session) ==
  /\ ~Admits(a)
  /\ Reply(a, session, "error")
  /\ UNCHANGED <<seen, job, replyOn, limitRead, queued, slots>>

\* handle() runs up to its first await: a refusal, the idle probe, or a slot.
LetIn(a, session) ==
  /\ Admits(a)
  /\ seen' = seen \cup {a}
  /\ replyOn' = [replyOn EXCEPT ![a] = session]
  /\ limitRead' = [limitRead EXCEPT ![a] = policy.limit]
  /\ \/ /\ ~policy.serving
        /\ End(a, session, "error", queued[Owner[a]])
        /\ UNCHANGED slots
     \/ /\ policy.serving /\ policy.idleOnly
        /\ job' = [job EXCEPT ![a] = "probing"]
        /\ queued' = [queued EXCEPT ![Owner[a]] = @ + 1]
        /\ UNCHANGED <<slots, toPeer>>
     \/ /\ policy.serving /\ ~policy.idleOnly
        /\ TakeSlot(a, session, policy.limit, queued[Owner[a]])

Start ==
  /\ HandlerStep
  /\ ready # <<>> /\ ready' = Tail(ready)
  /\ LET h == Head(ready)
     IN TurnAway(h.attempt, h.session) \/ LetIn(h.attempt, h.session)

\* _machine_idle answers.  The slot test uses the limit read before it.
Probed(a) ==
  /\ HandlerStep
  /\ job[a] = "probing"
  /\ LET others == queued[Owner[a]] - 1
     IN \/ End(a, replyOn[a], "error", others) /\ UNCHANGED slots
        \/ TakeSlot(a, replyOn[a], limitRead[a], others)
  /\ UNCHANGED <<ready, seen, replyOn, limitRead>>

\* Mutant: the handler of a session that is gone is never resumed.
FinishOnSession(a) ==
  /\ HandlerStep
  /\ job[a] = "executing" /\ replyOn[a] = link[Owner[a]]
  /\ running' = running - 1
  /\ cancels' = cancels \ {a} /\ flagged' = flagged \ {a}
  /\ \E kind \in Replies : End(a, replyOn[a], kind, queued[Owner[a]] - 1)
  /\ UNCHANGED <<ready, seen, replyOn, limitRead>>

\* The generation ends by itself, at its deadline, or between two tokens after
\* its event was set; a cancelled one may still have finished first.
Finish(a) ==
  /\ HandlerStep
  /\ job[a] = "executing"
  /\ running' = running - 1
  /\ cancels' = cancels \ {a} /\ flagged' = flagged \ {a}
  /\ \E kind \in Replies : End(a, replyOn[a], kind, queued[Owner[a]] - 1)
  /\ UNCHANGED <<ready, seen, replyOn, limitRead>>

\* The owner changes the worker's configuration.
SetPolicy ==
  /\ policy' \in Policies \ {policy}
  /\ UNCHANGED <<requester, wire, handlers, slots>>

\* The worker's app stops and starts again: sessions end, nothing is kept.
Restart ==
  /\ ready # <<>> \/ seen # {}
  /\ link' = [p \in Peers |-> 0]
  /\ toWorker' = [p \in Peers |-> <<>>] /\ toPeer' = [p \in Peers |-> <<>>]
  /\ call' = [a \in Attempts |-> IF call[a] = "waiting" THEN "lost" ELSE call[a]]
  /\ ready' = <<>> /\ seen' = {}
  /\ job' = [a \in Attempts |-> "none"]
  /\ replyOn' = [a \in Attempts |-> 0] /\ limitRead' = [a \in Attempts |-> 0]
  /\ queued' = [p \in Peers |-> 0]
  /\ running' = 0 /\ cancels' = {} /\ flagged' = {}
  /\ UNCHANGED <<sends, sentOn, sessions, policy>>

-----------------------------------------------------------------------------
Handler == Start \/ \E a \in Attempts : Probed(a) \/ Finish(a)

Next ==
  \/ \E a \in Attempts : Send(a) \/ \E why \in GivenUp : GiveUp(a, why)
  \/ \E p \in Peers : \/ PeerReads(p) \/ WorkerReads(p)
                      \/ Connect(p) \/ Disconnect(p) \/ Replace(p)
  \/ Handler
  \/ SetPolicy \/ Restart

Spec == Init /\ [][Next]_vars

\* Both event loops run what is ready, the idle probe takes half a second, and a
\* generation is cut at its deadline.
Fairness ==
  /\ \A p \in Peers : WF_vars(PeerReads(p)) /\ WF_vars(WorkerReads(p))
  /\ WF_vars(Start)
  /\ \A a \in Attempts : WF_vars(Probed(a)) /\ WF_vars(Finish(a))

FairSpec == Spec /\ Fairness

-----------------------------------------------------------------------------
(* Invariants *)

In(frame, frames) == \E i \in DOMAIN frames : frames[i] = frame

TypeOK ==
  /\ call \in [Attempts -> Calls]
  /\ sends \in 0..MaxSends
  /\ sentOn \in [Attempts -> 0..sessions]
  /\ link \in [Peers -> 0..sessions]
  /\ sessions \in 0..MaxSessions
  /\ toWorker \in [Peers -> Seq(Packets)] /\ toPeer \in [Peers -> Seq(Answers)]
  /\ ready \in Seq([attempt: Attempts, session: 0..sessions])
  /\ seen \subseteq Attempts
  /\ job \in [Attempts -> {"none", "probing", "executing", "over"}]
  /\ replyOn \in [Attempts -> 0..sessions]
  /\ limitRead \in [Attempts -> Nat]
  /\ queued \in [Peers -> Nat]
  /\ running \in Nat
  /\ cancels \subseteq Attempts /\ flagged \subseteq cancels
  /\ policy \in Policies

Doing(stages) == {a \in Attempts : job[a] \in stages}

\* The three places that count work in progress agree with the handlers: no
\* refusal, failure, cancel, restart or lost session leaks a slot, a place in
\* the peer's queue or a cancel event.
CountersExact ==
  /\ running = Cardinality(Doing({"executing"}))
  /\ cancels = Doing({"executing"})
  /\ \A p \in Peers :
       queued[p] = Cardinality(Doing({"probing", "executing"}) \cap AttemptsOf(p))

\* Generations never outnumber the largest limit the owner set, and a peer has
\* never more than MAX_QUEUED_TASKS_PER_PEER in hand, although the idle probe
\* lets other handlers run between the reading of the policy and the slot test.
Bounded ==
  /\ \E q \in Policies : running <= q.limit
  /\ \A p \in Peers : queued[p] <= MaxQueued

\* While the session its packet went out on is the peer's session, a waiting
\* call has its packet, its handler or its reply under way: it can only time
\* out because the worker is slow, never because something was dropped.
ReplyUnderWay ==
  \A a \in Attempts : call[a] = "waiting" /\ sentOn[a] = link[Owner[a]] =>
    \/ In(Frame("task", a), toWorker[Owner[a]])
    \/ In([attempt |-> a, session |-> sentOn[a]], ready)
    \/ job[a] \in {"probing", "executing"} /\ replyOn[a] = sentOn[a]
    \/ \E kind \in Replies : In(Frame(kind, a), toPeer[Owner[a]])

-----------------------------------------------------------------------------
(* Action properties *)

\* An attempt that was let in is not let in again while the worker is up, even
\* if its packet arrives twice, on two sessions, or while it is running.
LetInOnce ==
  [][\A a \in Attempts : job[a] # "none" /\ seen' # {} =>
       \/ job'[a] = job[a]
       \/ job'[a] = "over"
       \/ job[a] = "probing" /\ job'[a] = "executing"]_job

-----------------------------------------------------------------------------
(* Liveness *)

\* The worker drains: whatever peers and sessions do, every task it took is
\* over in the end and every slot is free again.
Drains == <>[](ready = <<>> /\ \A a \in Attempts : job[a] \in {"none", "over"})

\* A call never waits for ever on a session that stays.
Answered ==
  \A a \in Attempts :
    (call[a] = "waiting" /\ sentOn[a] = link[Owner[a]])
      ~> (call[a] # "waiting" \/ sentOn[a] # link[Owner[a]])

-----------------------------------------------------------------------------
(* What the change log says of a cancel *)

\* "... it sends a cancel message; the worker stops generating between tokens":
\* once the cancel has been read, the generation it is about has its event set.
CancelStopsGeneration ==
  \A a \in Attempts :
    /\ call[a] \in GivenUp
    /\ job[a] = "executing" /\ replyOn[a] = link[Owner[a]]
    /\ ~In(Frame("cancel", a), toWorker[Owner[a]])
    => a \in flagged

=============================================================================
