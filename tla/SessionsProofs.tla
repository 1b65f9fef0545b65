---------------------------- MODULE SessionsProofs ----------------------------
(* Machine-checked theorems about Sessions, for any nodes and bounds: a node *)
(* reads exactly the sessions of its connected peers.                        *)
EXTENDS Sessions, SequenceTheorems, TLAPS

-----------------------------------------------------------------------------
(* The inductive invariant *)

\* Nobody dials himself, so the two ends of a connection differ.
NotSelf ==
  /\ \A n \in Nodes : n \notin due[n]
  /\ \A c \in Conns : conns[c].by # conns[c].to

\* The session of a connected peer is a connection with it that runs here.
SessionRuns ==
  \A n, m \in Nodes : LET c == session[n][m] IN c # 0 =>
    /\ n \in {conns[c].by, conns[c].to} /\ m = Other(c, n)
    /\ conns[c].end[n] = "up"

\* A connection that runs here is the session of the peer at its other end.
RunningIsSession ==
  \A c \in Conns, n \in Nodes : conns[c].end[n] = "up" =>
    n \in {conns[c].by, conns[c].to} /\ session[n][Other(c, n)] = c

IInv == TypeOK /\ NotSelf /\ SessionRuns /\ RunningIsSession

Messages == {"hello", "hello_ack", "ack", "done"}
Connections == [by: Nodes, to: Nodes, how: Hows, sent: Messages, cut: BOOLEAN,
                end: [Nodes -> Ends]]

-----------------------------------------------------------------------------
(* Sequences of connections *)

\* What a change of one end does.
LEMMA PutChanges ==
  ASSUME NEW cs \in Seq(Connections), NEW c \in DOMAIN cs, NEW n \in Nodes, NEW e \in Ends
  PROVE  /\ Put(cs, c, n, e) \in Seq(Connections)
         /\ Len(Put(cs, c, n, e)) = Len(cs)
         /\ \A d \in DOMAIN cs :
              /\ Put(cs, c, n, e)[d].by = cs[d].by /\ Put(cs, c, n, e)[d].to = cs[d].to
              /\ Put(cs, c, n, e)[d].sent = cs[d].sent /\ Put(cs, c, n, e)[d].cut = cs[d].cut
              /\ \A k \in Nodes :
                   Put(cs, c, n, e)[d].end[k] = IF d = c /\ k = n THEN e ELSE cs[d].end[k]
<1> DEFINE ends == [cs[c].end EXCEPT ![n] = e]
           new == [cs[c] EXCEPT !.end = ends]
<1>1. c \in 1..Len(cs) /\ DOMAIN cs = 1..Len(cs)
  BY LenProperties
<1>2. cs[c] \in Connections
  BY <1>1, ElementOfSeq
<1>3. ends \in [Nodes -> Ends] /\ \A k \in Nodes : ends[k] = IF k = n THEN e ELSE cs[c].end[k]
  BY <1>2 DEF Connections
<1>4. Put(cs, c, n, e) = [cs EXCEPT ![c] = new]
  BY DEF Put
<1> HIDE DEF ends
<1>5. /\ new \in Connections
      /\ new.by = cs[c].by /\ new.to = cs[c].to /\ new.sent = cs[c].sent /\ new.cut = cs[c].cut
      /\ new.end = ends
  BY <1>2, <1>3 DEF Connections
<1> HIDE DEF new
<1>6. Put(cs, c, n, e) \in Seq(Connections) /\ Len(Put(cs, c, n, e)) = Len(cs)
  BY <1>1, <1>4, <1>5, ExceptSeq
<1>7. \A d \in DOMAIN cs : Put(cs, c, n, e)[d] = IF d = c THEN new ELSE cs[d]
  BY <1>1, <1>4
<1> QED
  BY <1>3, <1>5, <1>6, <1>7

\* What the types say of a connection and its ends.
LEMMA ConnsTyped ==
  ASSUME TypeOK
  PROVE  /\ conns \in Seq(Connections) /\ Len(conns) \in Nat /\ Conns = 1..Len(conns)
         /\ \A c \in Conns : /\ conns[c] \in Connections /\ c \in Nat /\ c # 0
                             /\ conns[c].by \in Nodes /\ conns[c].to \in Nodes
                             /\ \A n \in Nodes : Other(c, n) \in Nodes
<1>1. conns \in Seq(Connections)
  BY DEF TypeOK, Connections, Messages
<1>2. Len(conns) \in Nat /\ Conns = 1..Len(conns)
  BY <1>1, LenProperties DEF Conns
<1>3. \A c \in Conns : conns[c] \in Connections
  BY <1>1, <1>2, ElementOfSeq
<1>4. \A c \in Conns : conns[c].by \in Nodes /\ conns[c].to \in Nodes
  BY <1>3 DEF Connections
<1>5. \A c \in Conns : c \in Nat /\ c # 0
  BY <1>2
<1> QED
  BY <1>1, <1>2, <1>3, <1>4, <1>5 DEF Other

\* An end speaks for itself only when the handshake has come far enough.
Proved(cs) ==
  \A c \in DOMAIN cs : /\ cs[c].end[cs[c].by] = "up" => cs[c].sent \in {"ack", "done"}
                       /\ cs[c].end[cs[c].to] = "up" => cs[c].sent = "done"

-----------------------------------------------------------------------------
(* Steps that start no read loop *)

\* What a step may do to the discovery caches and to what is due.
Discovery ==
  /\ known' \in [Nodes -> SUBSET Nodes] /\ due' \in [Nodes -> SUBSET Nodes]
  /\ \A n \in Nodes : n \notin due'[n]
  /\ reach' = reach
  /\ manual' \in 0..MaxManual /\ faults' \in 0..MaxFaults

\* Read loops only end, and the sessions that ended are given up.
LEMMA EndingKeeps ==
  ASSUME IInv, Discovery,
         conns' \in Seq(Connections), Len(conns') = Len(conns),
         \A c \in Conns : /\ conns'[c].by = conns[c].by /\ conns'[c].to = conns[c].to
                          /\ \A n \in Nodes : conns'[c].end[n] = "up" => conns[c].end[n] = "up",
         Proved(conns'),
         session' \in [Nodes -> [Nodes -> 0..Len(conns)]],
         \A n, m \in Nodes : LET c == session[n][m] IN
           session'[n][m] = IF c # 0 /\ conns'[c].end[n] = "up" THEN c ELSE 0
  PROVE  IInv'
<1>1. /\ conns \in Seq(Connections) /\ Len(conns) \in Nat /\ Conns = 1..Len(conns)
      /\ \A c \in Conns : c # 0 /\ \A n \in Nodes : Other(c, n) \in Nodes
  BY ConnsTyped DEF IInv
<1>2. Conns' = Conns /\ DOMAIN conns' = Conns
  BY <1>1, LenProperties DEF Conns
<1>3. TypeOK'
  BY <1>1, <1>2 DEF IInv, TypeOK, Discovery, Proved, Connections, Messages
<1>4. NotSelf'
  BY <1>2 DEF IInv, NotSelf, Discovery
<1>5. \A c \in Conns, n \in Nodes : Other(c, n)' = Other(c, n)
  BY DEF Other
<1>6. SessionRuns'
  <2>1. ASSUME NEW n \in Nodes, NEW m \in Nodes, session'[n][m] # 0
        PROVE  /\ n \in {conns'[session'[n][m]].by, conns'[session'[n][m]].to}
               /\ m = (IF conns'[session'[n][m]].by = n THEN conns'[session'[n][m]].to
                                                        ELSE conns'[session'[n][m]].by)
               /\ conns'[session'[n][m]].end[n] = "up"
    <3>1. session'[n][m] = session[n][m] /\ session[n][m] # 0 /\ conns'[session[n][m]].end[n] = "up"
      BY <2>1
    <3>2. session[n][m] \in Conns
      BY <1>1, <3>1 DEF IInv, TypeOK
    <3>3. n \in {conns[session[n][m]].by, conns[session[n][m]].to} /\ m = Other(session[n][m], n)
      BY <3>1 DEF IInv, SessionRuns
    <3> QED
      BY <3>1, <3>2, <3>3 DEF Other
  <2> QED
    BY <2>1 DEF SessionRuns, Other
<1>7. RunningIsSession'
  <2> SUFFICES ASSUME NEW c \in Conns, NEW n \in Nodes, conns'[c].end[n] = "up"
               PROVE  n \in {conns'[c].by, conns'[c].to} /\ session'[n][Other(c, n)'] = c
    BY <1>2 DEF RunningIsSession
  <2>1. n \in {conns[c].by, conns[c].to} /\ session[n][Other(c, n)] = c
    BY DEF IInv, RunningIsSession
  <2>2. Other(c, n) \in Nodes /\ c # 0
    BY <1>1
  <2> QED
    BY <1>5, <2>1, <2>2
<1> QED
  BY <1>3, <1>4, <1>6, <1>7 DEF IInv

\* A step that touches neither connections nor sessions.
LEMMA ElsewhereKeeps ==
  ASSUME IInv, Discovery, conns' = conns, session' = session
  PROVE  IInv'
<1>1. conns \in Seq(Connections)
  BY ConnsTyped DEF IInv
<1>2. Proved(conns)
  BY DEF IInv, TypeOK, Proved, Conns
<1>3. session \in [Nodes -> [Nodes -> 0..Len(conns)]]
  BY DEF IInv, TypeOK
<1>4. \A n, m \in Nodes : session[n][m] # 0 => conns[session[n][m]].end[n] = "up"
  BY DEF IInv, SessionRuns
<1> QED
  BY <1>1, <1>2, <1>3, <1>4, EndingKeeps

\* One end that does not run, or runs no more, is closed.
LEMMA CloseKeeps ==
  ASSUME IInv, NEW c \in Conns, NEW n \in Nodes,
         conns' = Put(conns, c, n, "closed"),
         UNCHANGED <<known, due, reach, manual, faults>>,
         \/ conns[c].end[n] # "up" /\ session' = session
         \/ session' = [session EXCEPT ![n][Other(c, n)] = IF @ = c THEN 0 ELSE @]
  PROVE  IInv'
<1>1. /\ conns \in Seq(Connections) /\ Len(conns) \in Nat /\ Conns = 1..Len(conns)
      /\ n \in Nodes /\ c # 0 /\ Other(c, n) \in Nodes
  BY ConnsTyped DEF IInv
<1>2. "closed" \in Ends
  BY DEF Ends
<1>3. /\ conns' \in Seq(Connections) /\ Len(conns') = Len(conns)
      /\ \A d \in Conns :
           /\ conns'[d].by = conns[d].by /\ conns'[d].to = conns[d].to
           /\ conns'[d].sent = conns[d].sent
           /\ \A k \in Nodes :
                conns'[d].end[k] = IF d = c /\ k = n THEN "closed" ELSE conns[d].end[k]
  <2> DEFINE new == Put(conns, c, n, "closed")
  <2>0. c \in DOMAIN conns /\ conns \in Seq(Connections) /\ n \in Nodes
    BY <1>1 DEF Conns
  <2>1. /\ new \in Seq(Connections) /\ Len(new) = Len(conns)
        /\ \A d \in DOMAIN conns :
              /\ new[d].by = conns[d].by /\ new[d].to = conns[d].to
              /\ new[d].sent = conns[d].sent /\ new[d].cut = conns[d].cut
              /\ \A k \in Nodes :
                   new[d].end[k] = IF d = c /\ k = n THEN "closed" ELSE conns[d].end[k]
    BY ONLY <1>2, <2>0, PutChanges
  <2>2. conns' = new
    OBVIOUS
  <2> HIDE DEF new
  <2> QED
    BY <2>1, <2>2 DEF Conns
<1>4. \A d \in Conns : /\ conns'[d].by = conns[d].by /\ conns'[d].to = conns[d].to
                       /\ \A k \in Nodes : conns'[d].end[k] = "up" => conns[d].end[k] = "up"
  BY <1>3
<1>5. Proved(conns')
  <2>1. DOMAIN conns' = Conns
    BY <1>1, <1>3, LenProperties
  <2>2. \A d \in Conns : conns[d].by \in Nodes /\ conns[d].to \in Nodes
    BY ConnsTyped DEF IInv
  <2>3. ASSUME NEW d \in Conns
        PROVE  /\ conns'[d].end[conns'[d].by] = "up" => conns[d].end[conns[d].by] = "up"
               /\ conns'[d].end[conns'[d].to] = "up" => conns[d].end[conns[d].to] = "up"
    BY <1>4, <2>2
  <2>4. \A d \in Conns : conns'[d].sent = conns[d].sent
    BY <1>3
  <2>5. \A d \in Conns : /\ conns[d].end[conns[d].by] = "up" => conns[d].sent \in {"ack", "done"}
                         /\ conns[d].end[conns[d].to] = "up" => conns[d].sent = "done"
    BY DEF IInv, TypeOK
  <2> QED
    BY <2>1, <2>3, <2>4, <2>5 DEF Proved
<1>6. session \in [Nodes -> [Nodes -> 0..Len(conns)]]
  BY DEF IInv, TypeOK
<1>7. \A m \in Nodes : session[n][m] = c => m = Other(c, n) /\ conns[c].end[n] = "up"
  BY <1>1 DEF IInv, SessionRuns
<1>8. /\ session' \in [Nodes -> [Nodes -> 0..Len(conns)]]
      /\ \A k, m \in Nodes :
           session'[k][m] = IF k = n /\ session[k][m] = c THEN 0 ELSE session[k][m]
  <2>1. CASE conns[c].end[n] # "up" /\ session' = session
    BY <1>6, <1>7, <2>1
  <2>2. CASE session' = [session EXCEPT ![n][Other(c, n)] = IF @ = c THEN 0 ELSE @]
    <3> DEFINE o == Other(c, n)
               mine == [session[n] EXCEPT ![o] = IF session[n][o] = c THEN 0 ELSE session[n][o]]
    <3>1. o \in Nodes /\ session[n] \in [Nodes -> 0..Len(conns)]
      BY <1>1, <1>6
    <3>2. session' = [session EXCEPT ![n] = mine]
      BY <2>2
    <3>3. \A m \in Nodes : session[n][m] = c => m = o
      BY <1>7
    <3> HIDE DEF o
    <3>4. mine \in [Nodes -> 0..Len(conns)]
      BY <1>1, <3>1
    <3>5. \A m \in Nodes : mine[m] = IF session[n][m] = c THEN 0 ELSE session[n][m]
      BY <3>1, <3>3
    <3> HIDE DEF mine
    <3> QED
      BY <1>1, <1>6, <3>2, <3>4, <3>5
  <2> QED
    BY <2>1, <2>2
<1>10. ASSUME NEW k \in Nodes, NEW m \in Nodes
       PROVE  session'[k][m] = IF session[k][m] # 0 /\ conns'[session[k][m]].end[k] = "up"
                               THEN session[k][m] ELSE 0
  <2>1. CASE session[k][m] = 0
    BY <1>1, <1>8, <2>1
  <2>2. CASE session[k][m] # 0
    <3>1. session[k][m] \in Conns /\ conns[session[k][m]].end[k] = "up"
      BY <1>1, <1>6, <2>2 DEF IInv, SessionRuns
    <3>2. CASE session[k][m] = c /\ k = n
      BY <1>1, <1>3, <1>8, <2>2, <3>1, <3>2
    <3>3. CASE ~(session[k][m] = c /\ k = n)
      <4>1. conns'[session[k][m]].end[k] = "up"
        BY <1>3, <3>1, <3>3
      <4>2. session'[k][m] = session[k][m]
        BY <1>8, <3>3
      <4> QED
        BY <2>2, <4>1, <4>2
    <3> QED
      BY <3>2, <3>3
  <2> QED
    BY <2>1, <2>2
<1>9. Discovery
  BY DEF IInv, TypeOK, NotSelf, Discovery
<1> QED
  BY <1>3, <1>4, <1>5, <1>8, <1>9, <1>10, EndingKeeps

\* A connection is changed in what it sent, or is cut.
LEMMA ChangeTyped ==
  ASSUME NEW cs \in Seq(Connections), NEW c \in DOMAIN cs, NEW new \in Connections
  PROVE  /\ [cs EXCEPT ![c] = new] \in Seq(Connections)
         /\ Len([cs EXCEPT ![c] = new]) = Len(cs)
         /\ \A d \in DOMAIN cs : [cs EXCEPT ![c] = new][d] = IF d = c THEN new ELSE cs[d]
<1>1. c \in 1..Len(cs) /\ DOMAIN cs = 1..Len(cs)
  BY LenProperties
<1> QED
  BY <1>1, ExceptSeq

\* Writing the last message of a connection changes nothing else of it.
LEMMA SentChanges ==
  ASSUME NEW cs \in Seq(Connections), NEW c \in DOMAIN cs, NEW m \in Messages
  PROVE  LET new == [cs EXCEPT ![c].sent = m] IN
         /\ new \in Seq(Connections) /\ Len(new) = Len(cs)
         /\ \A d \in DOMAIN cs :
              /\ new[d].by = cs[d].by /\ new[d].to = cs[d].to /\ new[d].end = cs[d].end
              /\ new[d].sent = IF d = c THEN m ELSE cs[d].sent
<1> DEFINE one == [cs[c] EXCEPT !.sent = m]
           new == [cs EXCEPT ![c].sent = m]
<1>1. cs[c] \in Connections
  BY LenProperties, ElementOfSeq
<1>2. one \in Connections /\ one.by = cs[c].by /\ one.to = cs[c].to /\ one.end = cs[c].end /\ one.sent = m
  BY <1>1 DEF Connections
<1>3. new = [cs EXCEPT ![c] = one]
  OBVIOUS
<1> HIDE DEF one, new
<1>4. /\ new \in Seq(Connections) /\ Len(new) = Len(cs)
      /\ \A d \in DOMAIN cs : new[d] = IF d = c THEN one ELSE cs[d]
  BY <1>2, <1>3, ChangeTyped
<1>5. /\ new \in Seq(Connections) /\ Len(new) = Len(cs)
      /\ \A d \in DOMAIN cs :
           /\ new[d].by = cs[d].by /\ new[d].to = cs[d].to /\ new[d].end = cs[d].end
           /\ new[d].sent = IF d = c THEN m ELSE cs[d].sent
  BY <1>2, <1>4
<1> QED
  BY <1>5 DEF new

\* The sessions of running ends stay.
LEMMA SameSessions ==
  ASSUME IInv
  PROVE  /\ session \in [Nodes -> [Nodes -> 0..Len(conns)]]
         /\ \A n, m \in Nodes : session[n][m] # 0 =>
              session[n][m] \in Conns /\ conns[session[n][m]].end[n] = "up"
<1>1. Conns = 1..Len(conns) /\ Len(conns) \in Nat
  BY ConnsTyped DEF IInv
<1>2. session \in [Nodes -> [Nodes -> 0..Len(conns)]]
  BY DEF IInv, TypeOK
<1>3. \A n, m \in Nodes : session[n][m] # 0 => conns[session[n][m]].end[n] = "up"
  BY DEF IInv, SessionRuns
<1> QED
  BY <1>1, <1>2, <1>3

\* The responder's hello_ack: no read loop starts.
LEMMA AnswerKeeps ==
  ASSUME IInv, NEW c \in Conns, Answer(c)
  PROVE  IInv'
<1>1. conns \in Seq(Connections) /\ c \in DOMAIN conns /\ "hello_ack" \in Messages
  BY ConnsTyped DEF IInv, Conns, Messages
<1>2. /\ conns' \in Seq(Connections) /\ Len(conns') = Len(conns)
      /\ \A d \in Conns :
           /\ conns'[d].by = conns[d].by /\ conns'[d].to = conns[d].to
           /\ conns'[d].end = conns[d].end
           /\ conns'[d].sent = IF d = c THEN "hello_ack" ELSE conns[d].sent
  <2>1. conns' = [conns EXCEPT ![c].sent = "hello_ack"]
    BY DEF Answer
  <2> QED
    BY ONLY <1>1, <2>1, SentChanges DEF Conns
<1>3. Proved(conns')
  <2>1. DOMAIN conns' = Conns
    BY <1>1, <1>2, LenProperties DEF Conns
  <2>2. conns[c].sent = "hello"
    BY DEF Answer, Reads
  <2>3. \A d \in Conns : /\ conns[d].end[conns[d].by] = "up" => conns[d].sent \in {"ack", "done"}
                         /\ conns[d].end[conns[d].to] = "up" => conns[d].sent = "done"
    BY DEF IInv, TypeOK
  <2> QED
    BY <1>2, <2>1, <2>2, <2>3 DEF Proved
<1>4. Discovery /\ session' = session
  BY DEF IInv, TypeOK, NotSelf, Discovery, Answer, Reads
<1>5. \A n, m \in Nodes : LET d == session[n][m] IN
        session'[n][m] = IF d # 0 /\ conns'[d].end[n] = "up" THEN d ELSE 0
  BY <1>2, <1>4, SameSessions
<1>6. session' \in [Nodes -> [Nodes -> 0..Len(conns)]]
  BY <1>4, SameSessions
<1> QED
  BY <1>2, <1>3, <1>4, <1>5, <1>6, EndingKeeps

\* A connection that is cut still runs at both ends, for all they know.
LEMMA CutKeeps ==
  ASSUME IInv, NEW c \in Conns, Cut(c)
  PROVE  IInv'
<1> DEFINE one == [conns[c] EXCEPT !.cut = TRUE]
<1>1. conns \in Seq(Connections) /\ c \in DOMAIN conns /\ conns[c] \in Connections
  BY ConnsTyped DEF IInv, Conns
<1>2. /\ one \in Connections /\ one.by = conns[c].by /\ one.to = conns[c].to
      /\ one.end = conns[c].end /\ one.sent = conns[c].sent
  BY <1>1 DEF Connections
<1>3. conns' = [conns EXCEPT ![c] = one]
  BY DEF Cut
<1> HIDE DEF one
<1>4. /\ conns' \in Seq(Connections) /\ Len(conns') = Len(conns)
      /\ \A d \in DOMAIN conns : conns'[d] = IF d = c THEN one ELSE conns[d]
  BY ONLY <1>1, <1>2, <1>3, ChangeTyped
<1>5. \A d \in Conns : /\ conns'[d].by = conns[d].by /\ conns'[d].to = conns[d].to
                       /\ conns'[d].end = conns[d].end /\ conns'[d].sent = conns[d].sent
  BY <1>2, <1>4 DEF Conns
<1>6. Proved(conns')
  <2>1. DOMAIN conns' = Conns
    BY <1>1, <1>4, LenProperties DEF Conns
  <2>2. \A d \in Conns : /\ conns[d].end[conns[d].by] = "up" => conns[d].sent \in {"ack", "done"}
                         /\ conns[d].end[conns[d].to] = "up" => conns[d].sent = "done"
    BY DEF IInv, TypeOK
  <2> QED
    BY <1>5, <2>1, <2>2 DEF Proved
<1>7. Discovery /\ session' = session
  BY SessionsAssumption DEF IInv, TypeOK, NotSelf, Discovery, Cut, Fault
<1>8. \A n, m \in Nodes : LET d == session[n][m] IN
        session'[n][m] = IF d # 0 /\ conns'[d].end[n] = "up" THEN d ELSE 0
  BY <1>5, <1>7, SameSessions
<1>9. session' \in [Nodes -> [Nodes -> 0..Len(conns)]]
  BY <1>7, SameSessions
<1> QED
  BY <1>4, <1>5, <1>6, <1>7, <1>8, <1>9, EndingKeeps

\* A restart ends every read loop of its node and no other.
LEMMA RestartKeeps ==
  ASSUME IInv, NEW n \in Nodes, NEW how, Restart(n, how)
  PROVE  IInv'
<1> DEFINE new(c) == IF conns[c].end[n] \in {"open", "up"}
                     THEN [conns[c] EXCEPT !.end[n] = "closed", !.cut = @ \/ how = "power"]
                     ELSE conns[c]
<1>1. conns \in Seq(Connections) /\ Len(conns) \in Nat /\ Conns = 1..Len(conns)
      /\ \A c \in Conns : conns[c] \in Connections
  BY ConnsTyped DEF IInv
<1>2. ASSUME NEW c \in Conns
      PROVE  /\ new(c) \in Connections
             /\ new(c).by = conns[c].by /\ new(c).to = conns[c].to /\ new(c).sent = conns[c].sent
             /\ \A k \in Nodes : new(c).end[k] = IF k = n /\ conns[c].end[k] \in {"open", "up"}
                                                 THEN "closed" ELSE conns[c].end[k]
  <2> DEFINE ends == [conns[c].end EXCEPT ![n] = "closed"]
  <2>1. conns[c] \in Connections
    BY <1>1
  <2>2. CASE conns[c].end[n] \in {"open", "up"}
    <3>1. ends \in [Nodes -> Ends] /\ \A k \in Nodes : ends[k] = IF k = n THEN "closed" ELSE conns[c].end[k]
      BY <2>1 DEF Connections, Ends
    <3>2. new(c) = [conns[c] EXCEPT !.end = ends, !.cut = conns[c].cut \/ how = "power"]
      BY <2>2
    <3> HIDE DEF ends, new
    <3>3. (conns[c].cut \/ how = "power") \in BOOLEAN
      OBVIOUS
    <3> DEFINE silent == conns[c].cut \/ how = "power"
    <3>4. new(c) = [conns[c] EXCEPT !.end = ends, !.cut = silent] /\ silent \in BOOLEAN
      BY <3>2, <3>3
    <3> HIDE DEF silent
    <3>5. /\ new(c) \in Connections /\ new(c).by = conns[c].by /\ new(c).to = conns[c].to
          /\ new(c).sent = conns[c].sent /\ new(c).end = ends
      BY <2>1, <3>1, <3>4 DEF Connections
    <3> QED
      BY <2>2, <3>1, <3>5
  <2>3. CASE conns[c].end[n] \notin {"open", "up"}
    BY <2>1, <2>3
  <2> QED
    BY <2>2, <2>3
<1>3. conns' = [c \in Conns |-> new(c)]
  BY DEF Restart
<1> HIDE DEF new
<1>4. conns' \in Seq(Connections) /\ Len(conns') = Len(conns)
  <2>1. conns' \in [1..Len(conns) -> Connections]
    BY <1>1, <1>2, <1>3
  <2>2. conns' \in Seq(Connections)
    BY <1>1, <2>1, SeqDef
  <2> QED
    BY <1>1, <2>1, <2>2, LenProperties
<1>5. \A c \in Conns :
        /\ conns'[c].by = conns[c].by /\ conns'[c].to = conns[c].to
        /\ conns'[c].sent = conns[c].sent
        /\ \A k \in Nodes : conns'[c].end[k] = IF k = n /\ conns[c].end[k] \in {"open", "up"}
                                               THEN "closed" ELSE conns[c].end[k]
  BY <1>2, <1>3
<1>6. \A c \in Conns, k \in Nodes : conns'[c].end[k] = "up" <=> conns[c].end[k] = "up" /\ k # n
  BY <1>5
<1>7. Proved(conns')
  <2>1. DOMAIN conns' = Conns
    BY <1>1, <1>4, LenProperties DEF Conns
  <2>2. \A c \in Conns : /\ conns[c].end[conns[c].by] = "up" => conns[c].sent \in {"ack", "done"}
                         /\ conns[c].end[conns[c].to] = "up" => conns[c].sent = "done"
    BY DEF IInv, TypeOK
  <2>3. \A c \in Conns : conns[c].by \in Nodes /\ conns[c].to \in Nodes
    BY ConnsTyped DEF IInv
  <2> QED
    BY <1>5, <1>6, <2>1, <2>2, <2>3 DEF Proved
<1>8. Discovery
  <2>1. known' \in [Nodes -> SUBSET Nodes]
    BY DEF IInv, TypeOK, Restart
  <2>2. due' \in [Nodes -> SUBSET Nodes] /\ \A m \in Nodes : m \notin due'[m]
    BY DEF IInv, TypeOK, NotSelf, Restart
  <2>3. reach' = reach /\ manual' = manual /\ faults < MaxFaults /\ faults' = faults + 1
    BY DEF Restart, Fault
  <2>4. manual \in 0..MaxManual /\ faults \in 0..MaxFaults
    BY DEF IInv, TypeOK
  <2>5. faults' \in 0..MaxFaults
    BY <2>3, <2>4, SessionsAssumption
  <2> QED
    BY <2>1, <2>2, <2>3, <2>4, <2>5 DEF Discovery
<1>9. /\ session' \in [Nodes -> [Nodes -> 0..Len(conns)]]
      /\ \A k, m \in Nodes : session'[k][m] = IF k = n THEN 0 ELSE session[k][m]
  <2>1. [m \in Nodes |-> 0] \in [Nodes -> 0..Len(conns)]
    BY <1>1
  <2> QED
    BY <2>1, SameSessions DEF Restart
<1>10. \A k, m \in Nodes : LET d == session[k][m] IN
         session'[k][m] = IF d # 0 /\ conns'[d].end[k] = "up" THEN d ELSE 0
  BY <1>6, <1>9, SameSessions
<1> QED
  BY <1>4, <1>5, <1>6, <1>7, <1>8, <1>9, <1>10, EndingKeeps

-----------------------------------------------------------------------------
(* Steps that dial and register *)

\* A connection dialled is new and runs nowhere.
LEMMA DialKeeps ==
  ASSUME IInv, NEW n \in Nodes, NEW m \in Nodes, n # m, NEW how \in Hows, Dial(n, m, how),
         Discovery, session' = session
  PROVE  IInv'
<1> DEFINE new == Connection(n, m, how)
<1>1. CASE conns' = conns
  BY <1>1, ElsewhereKeeps
<1>2. CASE conns' = Append(conns, new)
  <2>1. /\ conns \in Seq(Connections) /\ Len(conns) \in Nat /\ Conns = 1..Len(conns)
        /\ \A c \in Conns, k \in Nodes : Other(c, k) \in Nodes /\ c # 0
    BY ConnsTyped DEF IInv
  <2>2. /\ new \in Connections /\ new.by = n /\ new.to = m
        /\ \A k \in Nodes : new.end[k] # "up"
    BY DEF Connection, Connections, Messages, Ends
  <2> HIDE DEF new
  <2>3. /\ conns' \in Seq(Connections) /\ Len(conns') = Len(conns) + 1
        /\ \A c \in Conns : conns'[c] = conns[c]
        /\ conns'[Len(conns) + 1] = new
    BY <1>2, <2>1, <2>2, AppendProperties
  <2>4. DOMAIN conns' = Conns \cup {Len(conns) + 1} /\ Conns' = DOMAIN conns'
    BY <2>1, <2>3, LenProperties DEF Conns
  <2>5. \A c \in Conns' : /\ conns'[c].end[conns'[c].by] = "up" => conns'[c].sent \in {"ack", "done"}
                          /\ conns'[c].end[conns'[c].to] = "up" => conns'[c].sent = "done"
    <3>1. \A c \in Conns : /\ conns[c].end[conns[c].by] = "up" => conns[c].sent \in {"ack", "done"}
                           /\ conns[c].end[conns[c].to] = "up" => conns[c].sent = "done"
      BY DEF IInv, TypeOK
    <3> QED
      BY <2>2, <2>3, <2>4, <3>1
  <2>6. TypeOK'
    <3>1. Len(conns') <= MaxConns
      <4>1. Len(conns) # MaxConns
        <5>1. conns' # conns
          BY <2>1, <2>3
        <5> QED
          BY <2>1, <5>1, SessionsAssumption DEF Dial
      <4> QED
        BY <2>1, <2>3, <4>1, SessionsAssumption DEF IInv, TypeOK
    <3>2. session' \in [Nodes -> [Nodes -> 0..Len(conns')]]
      <4>1. 0..Len(conns) \subseteq 0..Len(conns')
        BY <2>1, <2>3
      <4> QED
        BY <4>1 DEF IInv, TypeOK
    <3> QED
      BY <2>3, <2>5, <3>1, <3>2 DEF IInv, TypeOK, Discovery, Connections, Messages
  <2>7. NotSelf'
    <3>1. \A c \in Conns : conns[c].by # conns[c].to
      BY DEF IInv, NotSelf
    <3> QED
      BY <2>2, <2>3, <2>4, <3>1 DEF NotSelf, Discovery
  <2>8. SessionRuns'
    <3>1. ASSUME NEW k \in Nodes, NEW l \in Nodes, session[k][l] # 0
          PROVE  /\ k \in {conns'[session[k][l]].by, conns'[session[k][l]].to}
                 /\ l = (IF conns'[session[k][l]].by = k THEN conns'[session[k][l]].to
                                                         ELSE conns'[session[k][l]].by)
                 /\ conns'[session[k][l]].end[k] = "up"
      <4>1. conns'[session[k][l]] = conns[session[k][l]]
        BY <2>3, <3>1, SameSessions
      <4> QED
        BY <3>1, <4>1 DEF IInv, SessionRuns, Other
    <3> QED
      BY <3>1 DEF SessionRuns, Other
  <2>9. RunningIsSession'
    <3> SUFFICES ASSUME NEW c \in Conns', NEW k \in Nodes, conns'[c].end[k] = "up"
                 PROVE  k \in {conns'[c].by, conns'[c].to} /\ session'[k][Other(c, k)'] = c
      BY DEF RunningIsSession
    <3>1. c \in Conns
      BY <2>2, <2>3, <2>4
    <3>2. conns'[c] = conns[c] /\ Other(c, k)' = Other(c, k)
      BY <2>3, <3>1 DEF Other
    <3> QED
      BY <3>1, <3>2 DEF IInv, RunningIsSession
  <2> QED
    BY <2>6, <2>7, <2>8, <2>9 DEF IInv
<1> QED
  BY <1>1, <1>2 DEF Dial

\* The end n of c has read what came before the message and registers.
LEMMA RegisterKeeps ==
  ASSUME IInv, NEW c \in Conns, NEW n \in {conns[c].by, conns[c].to}, NEW message \in {"ack", "done"},
         conns[c].end[n] = "open",
         n = conns[c].by => conns[c].sent = "hello_ack" /\ message = "ack",
         n = conns[c].to => conns[c].sent = "ack" /\ message = "done",
         Register(n, c, [conns EXCEPT ![c].sent = message]),
         UNCHANGED <<known, due, reach, manual, faults>>
  PROVE  IInv'
<1> DEFINE cs == [conns EXCEPT ![c].sent = message]
           m == Other(c, n)
           old == session[n][m]
<1>1. /\ conns \in Seq(Connections) /\ Len(conns) \in Nat /\ Conns = 1..Len(conns)
      /\ c \in DOMAIN conns /\ c # 0 /\ n \in Nodes /\ m \in Nodes /\ message \in Messages
      /\ \A d \in Conns : conns[d].by \in Nodes /\ conns[d].to \in Nodes /\ d # 0
      /\ \A d \in Conns, k \in Nodes : Other(d, k) \in Nodes
  BY ConnsTyped DEF IInv, Conns, Messages
<1>2. /\ cs \in Seq(Connections) /\ Len(cs) = Len(conns) /\ DOMAIN cs = Conns
      /\ \A d \in Conns : /\ cs[d].by = conns[d].by /\ cs[d].to = conns[d].to
                          /\ cs[d].end = conns[d].end
                          /\ cs[d].sent = IF d = c THEN message ELSE conns[d].sent
  BY ONLY <1>1, SentChanges, LenProperties DEF Conns
<1>3. /\ session \in [Nodes -> [Nodes -> 0..Len(conns)]]
      /\ \A k, l \in Nodes : session[k][l] # 0 =>
           session[k][l] \in Conns /\ conns[session[k][l]].end[k] = "up"
  BY SameSessions
<1>4. old = 0 \/ (old \in Conns /\ old # c)
  BY <1>1, <1>3
<1>5. \/ /\ conns' = Put(cs, c, n, "closed") /\ session' = session
      \/ /\ conns' = Put(IF old = 0 THEN cs ELSE Put(cs, old, n, "closed"), c, n, "up")
         /\ session' = [session EXCEPT ![n][m] = c]
  BY DEF Register
<1>6. Discovery
  BY DEF IInv, TypeOK, NotSelf, Discovery
<1>7. \A d \in Conns : /\ conns[d].end[conns[d].by] = "up" => conns[d].sent \in {"ack", "done"}
                       /\ conns[d].end[conns[d].to] = "up" => conns[d].sent = "done"
  BY DEF IInv, TypeOK
<1>8. \A d \in Conns : conns[d].by # conns[d].to
  BY DEF IInv, NotSelf
<1> HIDE DEF cs, m, old
<1>9. "closed" \in Ends /\ "up" \in Ends
  BY DEF Ends
<1>10. CASE conns' = Put(cs, c, n, "closed") /\ session' = session
  <2>1. /\ conns' \in Seq(Connections) /\ Len(conns') = Len(conns)
        /\ \A d \in Conns :
             /\ conns'[d].by = cs[d].by /\ conns'[d].to = cs[d].to /\ conns'[d].sent = cs[d].sent
             /\ \A k \in Nodes :
                  conns'[d].end[k] = IF d = c /\ k = n THEN "closed" ELSE cs[d].end[k]
    <3> DEFINE new == Put(cs, c, n, "closed")
    <3>1. conns' = new /\ c \in DOMAIN cs /\ n \in Nodes /\ cs \in Seq(Connections)
      BY <1>1, <1>2, <1>10
    <3>2. /\ new \in Seq(Connections) /\ Len(new) = Len(cs)
          /\ \A d \in DOMAIN cs :
               /\ new[d].by = cs[d].by /\ new[d].to = cs[d].to /\ new[d].sent = cs[d].sent
               /\ \A k \in Nodes :
                    new[d].end[k] = IF d = c /\ k = n THEN "closed" ELSE cs[d].end[k]
      <4>1. c \in DOMAIN cs /\ n \in Nodes /\ cs \in Seq(Connections)
        BY <3>1
      <4> QED
        BY ONLY <1>9, <4>1, PutChanges
    <3> HIDE DEF new
    <3> QED
      BY <1>2, <3>1, <3>2
  <2>2. DOMAIN conns' = Conns
    BY <1>1, <2>1, LenProperties
  <2>3. Proved(conns')
    BY <1>1, <1>2, <1>7, <1>8, <2>1, <2>2 DEF Proved
  <2>4. \A d \in Conns : /\ conns'[d].by = conns[d].by /\ conns'[d].to = conns[d].to
                         /\ \A k \in Nodes : conns'[d].end[k] = "up" <=> conns[d].end[k] = "up"
    BY <1>2, <2>1
  <2>5. \A k, l \in Nodes : LET d == session[k][l] IN
          session'[k][l] = IF d # 0 /\ conns'[d].end[k] = "up" THEN d ELSE 0
    BY <1>3, <1>10, <2>4
  <2> QED
    BY <1>3, <1>6, <1>10, <2>1, <2>3, <2>4, <2>5, EndingKeeps
<1>11. CASE /\ conns' = Put(IF old = 0 THEN cs ELSE Put(cs, old, n, "closed"), c, n, "up")
            /\ session' = [session EXCEPT ![n][m] = c]
  <2>1. PICK ds \in Seq(Connections) :
          /\ conns' = Put(ds, c, n, "up") /\ Len(ds) = Len(conns) /\ DOMAIN ds = Conns
          /\ \A d \in Conns :
               /\ ds[d].by = conns[d].by /\ ds[d].to = conns[d].to /\ ds[d].sent = cs[d].sent
               /\ \A k \in Nodes :
                    ds[d].end[k] = IF d = old /\ k = n THEN "closed" ELSE conns[d].end[k]
    <3>1. CASE old = 0
      <4>1. \A d \in Conns : d # old
        BY <1>1, <3>1
      <4> QED
        BY <1>2, <1>11, <3>1, <4>1
    <3>2. CASE old # 0
      <4> DEFINE closed == Put(cs, old, n, "closed")
      <4>1. old \in DOMAIN cs /\ n \in Nodes /\ cs \in Seq(Connections)
        BY <1>1, <1>2, <1>4, <3>2
      <4>2. /\ closed \in Seq(Connections) /\ Len(closed) = Len(cs)
            /\ \A d \in DOMAIN cs :
                 /\ closed[d].by = cs[d].by /\ closed[d].to = cs[d].to
                 /\ closed[d].sent = cs[d].sent
                 /\ \A k \in Nodes :
                      closed[d].end[k] = IF d = old /\ k = n THEN "closed" ELSE cs[d].end[k]
        BY ONLY <1>9, <4>1, PutChanges
      <4>3. conns' = Put(closed, c, n, "up")
        BY <1>11, <3>2
      <4> HIDE DEF closed
      <4>4. DOMAIN closed = Conns
        BY <1>1, <1>2, <4>2, LenProperties
      <4> QED
        BY <1>2, <4>2, <4>3, <4>4
    <3> QED
      BY <3>1, <3>2
  <2>2. /\ conns' \in Seq(Connections) /\ Len(conns') = Len(ds)
        /\ \A d \in DOMAIN ds :
             /\ conns'[d].by = ds[d].by /\ conns'[d].to = ds[d].to /\ conns'[d].sent = ds[d].sent
             /\ \A k \in Nodes : conns'[d].end[k] = IF d = c /\ k = n THEN "up" ELSE ds[d].end[k]
    <3>1. conns' = Put(ds, c, n, "up") /\ c \in DOMAIN ds /\ n \in Nodes /\ ds \in Seq(Connections)
      BY <1>1, <2>1
    <3> QED
      BY ONLY <1>9, <3>1, PutChanges
  <2>3. DOMAIN conns' = Conns /\ Conns' = Conns /\ Len(conns') = Len(conns)
    BY <1>1, <2>1, <2>2, LenProperties DEF Conns
  <2>4. \A d \in Conns :
          /\ conns'[d].by = conns[d].by /\ conns'[d].to = conns[d].to
          /\ conns'[d].sent = IF d = c THEN message ELSE conns[d].sent
          /\ \A k \in Nodes :
               conns'[d].end[k] = IF d = c /\ k = n THEN "up"
                                  ELSE IF d = old /\ k = n THEN "closed" ELSE conns[d].end[k]
    BY <1>2, <2>1, <2>2
  <2>5. \A d \in Conns : /\ conns'[d].end[conns'[d].by] = "up" => conns'[d].sent \in {"ack", "done"}
                         /\ conns'[d].end[conns'[d].to] = "up" => conns'[d].sent = "done"
    BY <1>1, <1>7, <1>8, <2>4
  <2>6. /\ session' \in [Nodes -> [Nodes -> 0..Len(conns)]]
        /\ \A k, l \in Nodes : session'[k][l] = IF k = n /\ l = m THEN c ELSE session[k][l]
    <3> DEFINE mine == [session[n] EXCEPT ![m] = c]
    <3>1. mine \in [Nodes -> 0..Len(conns)] /\ \A l \in Nodes : mine[l] = IF l = m THEN c ELSE session[n][l]
      BY <1>1, <1>3
    <3>2. session' = [session EXCEPT ![n] = mine]
      BY <1>11
    <3> HIDE DEF mine
    <3> QED
      BY <1>1, <1>3, <3>1, <3>2
  <2>7. TypeOK'
    <3>1. Len(conns') <= MaxConns
      BY <2>3 DEF IInv, TypeOK
    <3> QED
      BY <1>6, <2>2, <2>3, <2>5, <2>6, <3>1 DEF TypeOK, Discovery, IInv, Connections, Messages
  <2>8. NotSelf'
    BY <1>6, <1>8, <2>3, <2>4 DEF NotSelf, Discovery
  <2>9. ASSUME NEW k \in Nodes, NEW l \in Nodes, session'[k][l] # 0
        PROVE  /\ session'[k][l] \in Conns
               /\ k \in {conns[session'[k][l]].by, conns[session'[k][l]].to}
               /\ l = Other(session'[k][l], k)
               /\ conns'[session'[k][l]].end[k] = "up"
    <3>1. CASE k = n /\ l = m
      BY <1>1, <2>4, <2>6, <3>1 DEF m
    <3>2. CASE ~(k = n /\ l = m)
      <4>1. /\ session'[k][l] = session[k][l] /\ session[k][l] \in Conns
            /\ conns[session[k][l]].end[k] = "up"
        BY <1>3, <2>6, <2>9, <3>2
      <4>2. /\ k \in {conns[session[k][l]].by, conns[session[k][l]].to}
            /\ l = Other(session[k][l], k)
        BY <2>9, <4>1 DEF IInv, SessionRuns
      <4>3. ~(session[k][l] = old /\ k = n)
        <5> SUFFICES ASSUME session[k][l] = old, k = n
                     PROVE  FALSE
          OBVIOUS
        <5>1. old # 0 /\ session[n][m] = old
          BY <1>1, <4>1 DEF old
        <5>2. m = Other(old, n)
          BY <1>1, <5>1 DEF IInv, SessionRuns
        <5> QED
          BY <3>2, <4>2, <5>2
      <4>4. conns'[session[k][l]].end[k] = "up"
        BY <2>4, <4>1, <4>3
      <4> QED
        BY <4>1, <4>2, <4>4
    <3> QED
      BY <3>1, <3>2
  <2>10. SessionRuns'
    <3>1. ASSUME NEW k \in Nodes, NEW l \in Nodes, session'[k][l] # 0
          PROVE  /\ k \in {conns'[session'[k][l]].by, conns'[session'[k][l]].to}
                 /\ l = (IF conns'[session'[k][l]].by = k THEN conns'[session'[k][l]].to
                                                          ELSE conns'[session'[k][l]].by)
                 /\ conns'[session'[k][l]].end[k] = "up"
      BY <2>4, <2>9, <3>1 DEF Other
    <3> QED
      BY <3>1 DEF SessionRuns, Other
  <2>11. RunningIsSession'
    <3> SUFFICES ASSUME NEW d \in Conns, NEW k \in Nodes, conns'[d].end[k] = "up"
                 PROVE  k \in {conns'[d].by, conns'[d].to} /\ session'[k][Other(d, k)'] = d
      BY <2>3 DEF RunningIsSession
    <3>1. Other(d, k)' = Other(d, k) /\ Other(d, k) \in Nodes
      BY <1>1, <2>4 DEF Other
    <3>2. CASE d = c /\ k = n
      BY <1>1, <2>4, <2>6, <3>1, <3>2 DEF m
    <3>3. CASE ~(d = c /\ k = n)
      <4>1. conns[d].end[k] = "up" /\ ~(d = old /\ k = n)
        BY <2>4, <3>3
      <4>2. k \in {conns[d].by, conns[d].to} /\ session[k][Other(d, k)] = d
        BY <4>1 DEF IInv, RunningIsSession
      <4>3. ~(k = n /\ Other(d, k) = m)
        BY <4>1, <4>2 DEF old
      <4> QED
        BY <2>4, <2>6, <3>1, <4>2, <4>3
    <3> QED
      BY <3>2, <3>3
  <2> QED
    BY <2>7, <2>8, <2>10, <2>11 DEF IInv
<1> QED
  BY <1>5, <1>10, <1>11

\* The initiator registers, or closes the loser of two.
LEMMA AckKeeps ==
  ASSUME IInv, NEW c \in Conns, Ack(c)
  PROVE  IInv'
<1>1. conns[c].by # conns[c].to
  BY DEF IInv, NotSelf
<1> QED
  BY <1>1, RegisterKeeps DEF Ack, Reads

\* The responder registers, or closes the loser of two.
LEMMA AcceptKeeps ==
  ASSUME IInv, NEW c \in Conns, Accept(c)
  PROVE  IInv'
<1>1. conns[c].by # conns[c].to
  BY DEF IInv, NotSelf
<1> QED
  BY <1>1, RegisterKeeps DEF Accept, Reads

-----------------------------------------------------------------------------
(* Steps of discovery *)

\* A node discovered is dialled at once or later.
LEMMA DiscoveredKeeps ==
  ASSUME IInv, NEW n \in Nodes, NEW m \in Nodes, Discovered(n, m)
  PROVE  IInv'
<1>1. known' \in [Nodes -> SUBSET Nodes]
  BY DEF IInv, TypeOK, Discovered
<1>2. due' \in [Nodes -> SUBSET Nodes] /\ \A k \in Nodes : k \notin due'[k]
  BY DEF IInv, TypeOK, NotSelf, Discovered
<1> QED
  BY <1>1, <1>2, ElsewhereKeeps DEF IInv, TypeOK, Discovery, Discovered

\* A dial that was put off, unless a session is there by then.
LEMMA DialDueKeeps ==
  ASSUME IInv, NEW n \in Nodes, NEW m \in Nodes, DialDue(n, m)
  PROVE  IInv'
<1>1. due' \in [Nodes -> SUBSET Nodes] /\ \A k \in Nodes : k \notin due'[k]
  BY DEF IInv, TypeOK, NotSelf, DialDue
<1>2. Discovery /\ session' = session
  BY <1>1 DEF IInv, TypeOK, Discovery, DialDue
<1>3. n # m /\ "mdns" \in Hows
  BY DEF IInv, NotSelf, DialDue, Hows
<1>4. conns' = conns \/ Dial(n, m, "mdns")
  BY DEF DialDue
<1> QED
  BY <1>2, <1>3, <1>4, ElsewhereKeeps, DialKeeps

\* A dial by hand may open a second connection, which runs nowhere yet.
LEMMA DialByHandKeeps ==
  ASSUME IInv, NEW n \in Nodes, NEW m \in Nodes, DialByHand(n, m)
  PROVE  IInv'
<1>1. manual' \in 0..MaxManual
  BY SessionsAssumption DEF IInv, TypeOK, DialByHand
<1>2. Discovery /\ session' = session
  BY <1>1 DEF IInv, TypeOK, NotSelf, Discovery, DialByHand
<1>3. n # m /\ "manual" \in Hows /\ Dial(n, m, "manual")
  BY DEF DialByHand, Hows
<1> QED
  BY <1>2, <1>3, DialKeeps

\* A node forgotten by discovery keeps its session.
LEMMA ForgetKeeps ==
  ASSUME IInv, NEW n \in Nodes, NEW m \in Nodes, Forget(n, m)
  PROVE  IInv'
<1>1. known' \in [Nodes -> SUBSET Nodes]
  BY DEF IInv, TypeOK, Forget
<1>2. faults' \in 0..MaxFaults
  BY SessionsAssumption DEF IInv, TypeOK, Forget, Fault
<1>3. Discovery /\ conns' = conns /\ session' = session
  BY <1>1, <1>2 DEF IInv, TypeOK, NotSelf, Discovery, Forget, Fault
<1> QED
  BY <1>3, ElsewhereKeeps

\* A handshake that fails ends an end that was not running.
LEMMA HandshakeFailsKeeps ==
  ASSUME IInv, NEW c \in Conns, NEW n \in Nodes, HandshakeFails(c, n)
  PROVE  IInv'
BY CloseKeeps DEF HandshakeFails

\* An end that notices the other's close ends its read loop and its session together.
LEMMA DropKeeps ==
  ASSUME IInv, NEW c \in Conns, NEW n \in Nodes, Drop(c, n)
  PROVE  IInv'
BY CloseKeeps DEF Drop

-----------------------------------------------------------------------------
(* Theorems *)

\* There are no connections.
LEMMA InitHolds == Init => IInv
<1> SUFFICES ASSUME Init
             PROVE  IInv
  OBVIOUS
<1>1. conns \in Seq(Connections) /\ Len(conns) = 0 /\ Conns = {}
  BY EmptySeq, LenProperties DEF Init, Conns
<1>2. TypeOK
  BY <1>1, SessionsAssumption DEF Init, TypeOK, Connections, Messages
<1>3. NotSelf /\ SessionRuns /\ RunningIsSession
  BY <1>1 DEF Init, NotSelf, SessionRuns, RunningIsSession
<1> QED
  BY <1>2, <1>3 DEF IInv

\* What a node reads are the sessions of its connected peers, and a session is
\* a connection with that peer that the node runs: each needs the other, since
\* the duplicate rule closes what it finds as the session, and the end of a read
\* loop gives up the session only if it is still that connection.
THEOREM SessionsInductive == Spec => []IInv
<1>1. IInv /\ [Next]_vars => IInv'
  <2> SUFFICES ASSUME IInv, [Next]_vars
               PROVE  IInv'
    OBVIOUS
  <2>1. ASSUME NEW n \in Nodes, NEW m \in Nodes, Discovered(n, m)
        PROVE  IInv'
    BY <2>1, DiscoveredKeeps
  <2>2. ASSUME NEW n \in Nodes, NEW m \in Nodes, DialDue(n, m)
        PROVE  IInv'
    BY <2>2, DialDueKeeps
  <2>3. ASSUME NEW n \in Nodes, NEW m \in Nodes, DialByHand(n, m)
        PROVE  IInv'
    BY <2>3, DialByHandKeeps
  <2>4. ASSUME NEW n \in Nodes, NEW m \in Nodes, Forget(n, m)
        PROVE  IInv'
    BY <2>4, ForgetKeeps
  <2>5. ASSUME NEW c \in Conns, Answer(c)
        PROVE  IInv'
    BY <2>5, AnswerKeeps
  <2>6. ASSUME NEW c \in Conns, Ack(c)
        PROVE  IInv'
    BY <2>6, AckKeeps
  <2>7. ASSUME NEW c \in Conns, Accept(c)
        PROVE  IInv'
    BY <2>7, AcceptKeeps
  <2>8. ASSUME NEW c \in Conns, Cut(c)
        PROVE  IInv'
    BY <2>8, CutKeeps
  <2>9. ASSUME NEW c \in Conns, NEW n \in Nodes, HandshakeFails(c, n)
        PROVE  IInv'
    BY <2>9, HandshakeFailsKeeps
  <2>10. ASSUME NEW c \in Conns, NEW n \in Nodes, Drop(c, n)
         PROVE  IInv'
    BY <2>10, DropKeeps
  <2>11. ASSUME NEW n \in Nodes, NEW how, Restart(n, how)
         PROVE  IInv'
    BY <2>11, RestartKeeps
  <2>12. CASE UNCHANGED vars
    <3>1. Discovery /\ conns' = conns /\ session' = session
      BY <2>12 DEF IInv, TypeOK, NotSelf, Discovery, vars
    <3> QED
      BY <3>1, ElsewhereKeeps
  <2> QED
    BY <2>1, <2>2, <2>3, <2>4, <2>5, <2>6, <2>7, <2>8, <2>9, <2>10, <2>11, <2>12 DEF Next
<1> QED
  BY InitHolds, <1>1, PTL DEF Spec

\* Every variable keeps its type, and no end runs a read loop before the other
\* side has proved who it is, whatever handshakes meet, fail or are cut.
THEOREM TypeCorrect == Spec => []TypeOK
<1>1. IInv => TypeOK
  BY DEF IInv
<1> QED
  BY <1>1, SessionsInductive, PTL

\* "One session per peer", for any number of nodes, dials and faults: the read
\* loops of a node are those of its connected peers' sessions, one for each.
THEOREM AlwaysOneReadLoop == Spec => []OneReadLoop
<1>1. IInv => OneReadLoop
  <2> SUFFICES ASSUME IInv, NEW n \in Nodes
               PROVE  {c \in Conns : conns[c].end[n] = "up"} = {session[n][m] : m \in Nodes} \ {0}
    BY DEF OneReadLoop
  <2>1. ASSUME NEW c \in Conns, conns[c].end[n] = "up"
        PROVE  c \in {session[n][m] : m \in Nodes} \ {0}
    <3>1. c # 0 /\ Other(c, n) \in Nodes
      BY ConnsTyped DEF IInv
    <3>2. session[n][Other(c, n)] = c
      BY <2>1 DEF IInv, RunningIsSession
    <3> QED
      BY <3>1, <3>2
  <2>2. ASSUME NEW m \in Nodes, session[n][m] # 0
        PROVE  session[n][m] \in Conns /\ conns[session[n][m]].end[n] = "up"
    BY <2>2, SameSessions
  <2> QED
    BY <2>1, <2>2
<1> QED
  BY <1>1, SessionsInductive, PTL

=============================================================================
