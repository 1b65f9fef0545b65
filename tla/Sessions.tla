------------------------------- MODULE Sessions -------------------------------
(***************************************************************************)
(* How nodes that discover each other come to share one session            *)
(* (p2p/node.py, with the handshake of p2p/handshake.py and the            *)
(* announcements of p2p/discovery.py): two nodes may dial each other at    *)
(* once, a user may dial by hand, connections break without a word and     *)
(* nodes restart.                                                          *)
(*                                                                         *)
(* A connection is hello, hello_ack and final ack, then a read loop at     *)
(* each end.  Closing an end shows at the other some time later, and what  *)
(* was sent before may or may not be read.  Connections are numbered in    *)
(* the order of the dials, 0 is none.  Nodes answer with their own         *)
(* identity; MAX_PEERS is not reached.                                     *)
(***************************************************************************)
EXTENDS Integers, Sequences, FiniteSets

CONSTANTS
  Nodes,       \* node ids, which are compared
  MaxConns,    \* bound: connections in all
  MaxManual,   \* bound: dials by hand
  MaxFaults    \* bound: restarts, broken connections, expired announcements

ASSUME SessionsAssumption ==
  /\ Nodes \subseteq Nat /\ IsFiniteSet(Nodes)
  /\ MaxConns \in Nat /\ MaxManual \in Nat /\ MaxFaults \in Nat

VARIABLES
  conns,    \* the connections dialled so far
  session,  \* session[n][m]: peer m's session at n, or 0 while not connected
  known,    \* known[n]: nodes in the discovery cache of n
  due,      \* due[n]: nodes n has a _dial_later task for
  reach,    \* pairs <<n, m>> such that n can dial m
  manual, faults

vars == <<conns, session, known, due, reach, manual, faults>>

Pairs == {p \in Nodes \X Nodes : p[1] # p[2]}

-----------------------------------------------------------------------------
(* Connections *)

\* sent is the last handshake message sent; a cut connection carries nothing.
Connection(n, m, how) ==
  [by |-> n, to |-> m, how |-> how, sent |-> "hello", cut |-> FALSE,
   end |-> [k \in Nodes |-> IF k \in {n, m} THEN "open" ELSE "none"]]

Hows == {"mdns", "manual"}
Ends == {"none", "open", "up", "closed"}
Conns == DOMAIN conns

Other(c, n) == IF conns[c].by = n THEN conns[c].to ELSE conns[c].by

Put(cs, c, n, e) == [cs EXCEPT ![c].end[n] = e]

\* The other side has closed, or is not there any more.
Gone(c, n) == conns[c].cut \/ conns[c].end[Other(c, n)] = "closed"

-----------------------------------------------------------------------------
(* Discovery and dialling *)

Init ==
  /\ conns = <<>>
  /\ session = [n \in Nodes |-> [m \in Nodes |-> 0]]
  /\ known = [n \in Nodes |-> {}]
  /\ due = [n \in Nodes |-> {}]
  /\ reach \in SUBSET Pairs
  /\ \A p \in Pairs : p \in reach \/ <<p[2], p[1]>> \in reach
  /\ manual = 0 /\ faults = 0

\* An announcement that is not in the cache; a known one changes nothing.
Discovered(n, m) ==
  /\ n # m /\ m \notin known[n]
  /\ known' = [known EXCEPT ![n] = @ \cup {m}]
  /\ due' = [due EXCEPT ![n] = IF session[n][m] = 0 THEN @ \cup {m} ELSE @]
  /\ UNCHANGED <<conns, session, reach, manual, faults>>

\* _dialing: one attempt per address at a time.
Dialling(n, m, how) ==
  \E c \in Conns : /\ conns[c].by = n /\ conns[c].to = m
                   /\ conns[c].how = how /\ conns[c].end[n] = "open"

Dial(n, m, how) ==
  /\ Len(conns) < MaxConns
  /\ conns' = IF <<n, m>> \in reach /\ ~Dialling(n, m, how)
              THEN Append(conns, Connection(n, m, how)) ELSE conns

\* _dial_later, after its delay.
DialDue(n, m) ==
  /\ m \in due[n]
  /\ due' = [due EXCEPT ![n] = @ \ {m}]
  /\ \/ session[n][m] # 0 /\ UNCHANGED conns
     \/ session[n][m] = 0 /\ Dial(n, m, "mdns")
  /\ UNCHANGED <<session, known, reach, manual, faults>>

\* connect_manual knows an address, not who answers there.
DialByHand(n, m) ==
  /\ n # m /\ manual < MaxManual
  /\ manual' = manual + 1
  /\ Dial(n, m, "manual")
  /\ UNCHANGED <<session, known, due, reach, faults>>

-----------------------------------------------------------------------------
(* Handshake and registration *)

\* Mutant: of two sessions the older one is kept.
KeepsOld(c) == FALSE

\* Of two sessions the one initiated by the lower node id is kept.
ByLower(c) == conns[c].by < conns[c].to

\* Mutant: the session that is replaced stays open.
RegisterBeside(n, c, cs) ==
  LET m == Other(c, n)
      old == session[n][m]
  IN \/ /\ old # 0 /\ ~ByLower(c)
        /\ conns' = Put(cs, c, n, "closed")
        /\ UNCHANGED session
     \/ /\ old = 0 \/ ByLower(c)
        /\ conns' = Put(cs, c, n, "up")
        /\ session' = [session EXCEPT ![n][m] = c]

\* _register at n: the new session is closed, or takes over from the old one.
Register(n, c, cs) ==
  LET m == Other(c, n)
      old == session[n][m]
  IN \/ /\ old # 0 /\ ~ByLower(c)
        /\ conns' = Put(cs, c, n, "closed")
        /\ UNCHANGED session
     \/ /\ old = 0 \/ ByLower(c)
        /\ conns' = Put(IF old = 0 THEN cs ELSE Put(cs, old, n, "closed"), c, n, "up")
        /\ session' = [session EXCEPT ![n][m] = c]

\* n has read the message the handshake stands at.
Reads(n, c, message) ==
  /\ conns[c].sent = message /\ conns[c].end[n] = "open" /\ ~conns[c].cut
  /\ UNCHANGED <<known, due, reach, manual, faults>>

\* Mutant: the responder registers before the initiator has proved who it is.
AnswerRegisters(c) ==
  /\ Reads(conns[c].to, c, "hello")
  /\ Register(conns[c].to, c, [conns EXCEPT ![c].sent = "hello_ack"])

\* The responder answers hello with hello_ack.
Answer(c) ==
  /\ Reads(conns[c].to, c, "hello")
  /\ conns' = [conns EXCEPT ![c].sent = "hello_ack"]
  /\ UNCHANGED session

\* The initiator verifies hello_ack, sends the final ack and registers.
Ack(c) ==
  /\ Reads(conns[c].by, c, "hello_ack")
  /\ Register(conns[c].by, c, [conns EXCEPT ![c].sent = "ack"])

\* The responder verifies the final ack and registers.
Accept(c) ==
  /\ Reads(conns[c].to, c, "ack")
  /\ Register(conns[c].to, c, [conns EXCEPT ![c].sent = "done"])

\* The other side is gone in the middle of a handshake, or says nothing until
\* the handshake times out.
HandshakeFails(c, n) ==
  /\ conns[c].end[n] = "open" /\ Gone(c, n)
  /\ conns' = Put(conns, c, n, "closed")
  /\ UNCHANGED <<session, known, due, reach, manual, faults>>

\* Mutant: the keepalive does not close a silent session.
DropClosed(c, n) ==
  /\ conns[c].end[n] = "up" /\ conns[c].end[Other(c, n)] = "closed"
  /\ conns' = Put(conns, c, n, "closed")
  /\ session' = [session EXCEPT ![n][Other(c, n)] = IF @ = c THEN 0 ELSE @]
  /\ UNCHANGED <<known, due, reach, manual, faults>>

\* The read loop ends, because the other side closed or because the keepalive
\* closed a session that was silent for too long.
Drop(c, n) ==
  /\ conns[c].end[n] = "up" /\ Gone(c, n)
  /\ conns' = Put(conns, c, n, "closed")
  /\ session' = [session EXCEPT ![n][Other(c, n)] = IF @ = c THEN 0 ELSE @]
  /\ UNCHANGED <<known, due, reach, manual, faults>>

-----------------------------------------------------------------------------
(* Faults *)

Fault == faults < MaxFaults /\ faults' = faults + 1 /\ UNCHANGED <<reach, manual>>

\* A connection breaks and neither side is told.
Cut(c) ==
  /\ Fault
  /\ ~conns[c].cut /\ \E n \in Nodes : conns[c].end[n] \in {"open", "up"}
  /\ conns' = [conns EXCEPT ![c].cut = TRUE]
  /\ UNCHANGED <<session, known, due>>

\* A node stops with a goodbye, crashes, or loses power, and comes back.  Only
\* without power do its peers' connections not notice.
Restart(n, how) ==
  /\ Fault
  /\ conns' = [c \in Conns |->
       IF conns[c].end[n] \in {"open", "up"}
       THEN [conns[c] EXCEPT !.end[n] = "closed", !.cut = @ \/ how = "power"]
       ELSE conns[c]]
  /\ session' = [session EXCEPT ![n] = [m \in Nodes |-> 0]]
  /\ known' = [m \in Nodes |-> IF m = n THEN {}
                               ELSE IF how = "goodbye" THEN known[m] \ {n} ELSE known[m]]
  /\ due' = [due EXCEPT ![n] = {}]

\* The announcement of m expires in the cache of n.
Forget(n, m) ==
  /\ Fault
  /\ m \in known[n]
  /\ known' = [known EXCEPT ![n] = @ \ {m}]
  /\ UNCHANGED <<conns, session, due>>

-----------------------------------------------------------------------------
Next ==
  \/ \E n, m \in Nodes : \/ Discovered(n, m) \/ DialDue(n, m) \/ DialByHand(n, m)
                         \/ Forget(n, m)
  \/ \E c \in Conns : \/ Answer(c) \/ Ack(c) \/ Accept(c) \/ Cut(c)
                      \/ \E n \in Nodes : HandshakeFails(c, n) \/ Drop(c, n)
  \/ \E n \in Nodes, how \in {"goodbye", "crash", "power"} : Restart(n, how)

Spec == Init /\ [][Next]_vars

\* Announcements are repeated until they are seen, delays pass, messages on a
\* connection that is not cut arrive, silence is noticed.
Fairness ==
  /\ \A n, m \in Nodes : WF_vars(Discovered(n, m)) /\ WF_vars(DialDue(n, m))
  /\ \A c \in 1..MaxConns :
       /\ WF_vars(c \in Conns /\ (Answer(c) \/ Ack(c) \/ Accept(c)))
       /\ \A n \in Nodes : WF_vars(c \in Conns /\ (HandshakeFails(c, n) \/ Drop(c, n)))

FairSpec == Spec /\ Fairness

-----------------------------------------------------------------------------
(* Properties *)

\* Types; an end is registered only after the other side has proved its identity.
TypeOK ==
  /\ conns \in Seq([by: Nodes, to: Nodes, how: Hows,
                    sent: {"hello", "hello_ack", "ack", "done"}, cut: BOOLEAN,
                    end: [Nodes -> Ends]])
  /\ Len(conns) <= MaxConns
  /\ \A c \in Conns : /\ conns[c].end[conns[c].by] = "up" => conns[c].sent \in {"ack", "done"}
                      /\ conns[c].end[conns[c].to] = "up" => conns[c].sent = "done"
  /\ session \in [Nodes -> [Nodes -> 0..Len(conns)]]
  /\ known \in [Nodes -> SUBSET Nodes] /\ due \in [Nodes -> SUBSET Nodes]
  /\ reach \subseteq Pairs
  /\ manual \in 0..MaxManual /\ faults \in 0..MaxFaults

\* "One session per peer": the read loops that run at a node are those of its
\* peers' sessions, one for each connected peer, whatever was replaced, refused
\* or lost on the way.
OneReadLoop ==
  \A n \in Nodes :
    {c \in Conns : conns[c].end[n] = "up"} = {session[n][m] : m \in Nodes} \ {0}

\* Both ends run the same connection.
Shared(n, m) == session[n][m] # 0 /\ session[n][m] = session[m][n]

\* Nodes that see each other's announcements, and of which one can dial the
\* other, end up sharing a session and keep it, in whatever order their dials
\* and handshakes meet, if nothing breaks and nobody dials by hand.
Meet ==
  [](faults = 0 /\ manual = 0) => <>[](\A p \in Pairs : Shared(p[1], p[2]))

\* A session whose other end is gone does not last, silent breaks included:
\* again and again every session is one the other side can still answer on.
StaleSessionsEnd ==
  []<>(\A p \in Pairs : LET c == session[p[1]][p[2]] IN c # 0 => ~Gone(c, p[1]))

-----------------------------------------------------------------------------
(* What the code says of duplicate sessions *)

\* Nothing is under way and nothing is broken.
Settled ==
  \A c \in Conns : \A n \in {conns[c].by, conns[c].to} :
    conns[c].end[n] # "open" /\ ~(conns[c].end[n] = "up" /\ Gone(c, n))

\* "Duplicate session: keep the one initiated by the lower node_id": when two
\* handshakes meet one of them is kept.  So once the handshakes are over, two
\* nodes that completed one and had no fault share a session.
DuplicateKeepsOne ==
  faults = 0 /\ Settled =>
    \A c \in Conns : conns[c].sent = "done" => Shared(conns[c].by, conns[c].to)

=============================================================================
