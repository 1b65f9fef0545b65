------------------------------ MODULE WikiProofs ------------------------------
(* Machine-checked theorems about Wiki, for any files, claims, policies and  *)
(* parameters: the dependency graph follows the anchors and what is not      *)
(* stale is up to date; what a claim counts as is backed by evidence; the    *)
(* adapter in use is marked when what it was trained on changes.             *)
EXTENDS Wiki, FiniteSetTheorems, TLAPS

-----------------------------------------------------------------------------
(* The inductive invariant *)

Shaped(g) == g = [nodes |-> g.nodes, edges |-> g.edges, stale |-> g.stale]

\* A source under digestion is registered, and so is every source of an anchor.
Registered ==
    /\ digesting # Nobody => digesting \in DOMAIN sources
    /\ \A c \in Present : SourcesOf(claims[c].anchors) \subseteq DOMAIN sources

\* GraphFollowsAnchors without what Registered says.
EdgesOfAnchors ==
    \A c \in Claims, s \in Sources :
        <<SourceNode(s), ClaimNode(c)>> \in graph.edges <=>
            c \in Present /\ s \in SourcesOf(claims[c].anchors)

\* What is not marked quotes what is registered.
Fresh ==
    \A c \in Present : ~IsStale(graph, ClaimNode(c)) =>
        \A a \in Verified(claims[c].anchors) :
            a.source \in DOMAIN sources /\ a.hash = sources[a.source]

\* Support is judged on the content that the anchor quotes.
Judged ==
    \A c \in Present : \A a \in Verified(claims[c].anchors) : a.seen = a.hash

IInv == TypeOK /\ Shaped(graph) /\ Registered /\ EdgesOfAnchors /\ Fresh /\ Judged

-----------------------------------------------------------------------------
(* Nodes and graphs *)

\* Nodes of different kinds differ, and the name of a node fixes it.
LEMMA NodesDiffer ==
    ASSUME NEW c, NEW d, NEW s, NEW t, NEW a
    PROVE  /\ SourceNode(s) # ClaimNode(c)
           /\ ExampleNode(c) # ClaimNode(d)
           /\ ExampleNode(c) # SourceNode(s)
           /\ AdapterNode(a) # ClaimNode(c)
           /\ AdapterNode(a) # SourceNode(s)
           /\ ClaimNode(c) = ClaimNode(d) => c = d
           /\ SourceNode(s) = SourceNode(t) => s = t
<1>1. SourceNode(s)[1] = "source" /\ SourceNode(s)[2] = s /\ SourceNode(t)[2] = t
    BY DEF SourceNode
<1>2. ClaimNode(c)[1] = "claim" /\ ClaimNode(c)[2] = c
    BY DEF ClaimNode
<1>3. ClaimNode(d)[1] = "claim" /\ ClaimNode(d)[2] = d
    BY DEF ClaimNode
<1>4. ExampleNode(c)[1] = "example"
    BY DEF ExampleNode
<1>5. AdapterNode(a)[1] = "adapter"
    BY DEF AdapterNode
<1> QED
    BY <1>1, <1>2, <1>3, <1>4, <1>5

\* AddEdges adds edges and marks nothing.
LEMMA AddEdgesFields ==
    ASSUME NEW g, Shaped(g), NEW es
    PROVE  /\ AddEdges(g, es).edges = g.edges \union es
           /\ AddEdges(g, es).stale = g.stale
           /\ Shaped(AddEdges(g, es))
<1> DEFINE N == g.nodes \union {e[1] : e \in es} \union {e[2] : e \in es}
<1>1. AddEdges(g, es) = [g EXCEPT !.nodes = N, !.edges = g.edges \union es]
    BY DEF AddEdges
<1> HIDE DEF N
<1>2. AddEdges(g, es) = [nodes |-> N, edges |-> g.edges \union es, stale |-> g.stale]
    BY <1>1 DEF Shaped
<1> QED
    BY <1>2 DEF Shaped

\* The children of a node are among its descendants.
LEMMA ChildrenDescend ==
    ASSUME NEW g, NEW n, NEW m, <<n, m>> \in g.edges
    PROVE  m \in Descendants(g, n)
<1>1. m \in Children(g, {n})
    <2>1. <<n, m>> \in {f \in g.edges : f[1] \in {n}} /\ <<n, m>>[2] = m
        OBVIOUS
    <2> QED
        BY <2>1 DEF Children
<1> QED
    BY <1>1 DEF Descendants

\* What a removal leaves of the edges between two other nodes, and of the marks.
LEMMA RemoveFields ==
    ASSUME NEW g, NEW n
    PROVE  /\ Shaped(Remove(g, n))
           /\ Remove(g, n).edges = {e \in g.edges : n \notin {e[1], e[2]}}
           /\ Remove(g, n).stale = (g.stale \union Descendants(g, n)) \ {n}
           /\ Remove(g, n).nodes = g.nodes \ {n}
<1> DEFINE E == {e \in g.edges : n \notin {e[1], e[2]}}
           S == (g.stale \union Descendants(g, n)) \ {n}
<1>1. Remove(g, n) = [nodes |-> g.nodes \ {n}, edges |-> E, stale |-> S]
    BY DEF Remove
<1> HIDE DEF E, S
<1>2. Shaped(Remove(g, n)) /\ Remove(g, n).edges = E /\ Remove(g, n).stale = S
          /\ Remove(g, n).nodes = g.nodes \ {n}
    BY <1>1 DEF Shaped
<1> QED
    BY <1>2 DEF E, S

-----------------------------------------------------------------------------
(* Anchors and claims *)

\* The sources of a set of anchors are sources.
LEMMA SourcesOfAnchors ==
    ASSUME NEW as \in SUBSET Anchor, NEW s
    PROVE  s \in SourcesOf(as) <=> \E a \in as : a.source = s
BY DEF SourcesOf

\* A claim whose anchors are lost has the same sources and nothing verified.
LEMMA AnchorLostFields ==
    ASSUME NEW r \in Claim
    PROVE  /\ AnchorLost(r) \in Claim
           /\ SourcesOf(AnchorLost(r).anchors) = SourcesOf(r.anchors)
           /\ Verified(AnchorLost(r).anchors) = {}
           /\ r.anchors # {} => AnchorLost(r).anchors # {}
           /\ AnchorLost(r).maturity = DIGESTED
<1> DEFINE U == Unverify(r.anchors)
<1>1. \A b \in U : \E a \in r.anchors : b = [a EXCEPT !.verified = FALSE]
    BY DEF Unverify
<1>2. \A a \in r.anchors : [a EXCEPT !.verified = FALSE] \in U
    BY DEF Unverify
<1>3. r.anchors \subseteq Anchor
    BY DEF Claim
<1>4. \A a \in Anchor : /\ [a EXCEPT !.verified = FALSE] \in Anchor
                        /\ [a EXCEPT !.verified = FALSE].source = a.source
                        /\ ~[a EXCEPT !.verified = FALSE].verified
    BY DEF Anchor
<1> HIDE DEF U
<1>5. U \subseteq Anchor /\ \A b \in U : ~b.verified
    BY <1>1, <1>3, <1>4
<1>6. SourcesOf(U) = SourcesOf(r.anchors)
    <2>1. ASSUME NEW s PROVE s \in SourcesOf(U) <=> s \in SourcesOf(r.anchors)
        <3>0. \A b \in U : \E a \in r.anchors : b.source = a.source
            BY <1>1, <1>3, <1>4
        <3>1. s \in SourcesOf(U) => s \in SourcesOf(r.anchors)
            BY <3>0 DEF SourcesOf
        <3>2. s \in SourcesOf(r.anchors) => s \in SourcesOf(U)
            BY <1>2, <1>3, <1>4 DEF SourcesOf
        <3> QED
            BY <3>1, <3>2
    <2> QED
        BY <2>1
<1>7. Verified(U) = {}
    BY <1>5 DEF Verified
<1>8. r.anchors # {} => U # {}
    BY <1>2
<1> DEFINE M == IF r.maturity > DIGESTED THEN DIGESTED ELSE r.maturity
<1>9. M = DIGESTED
    BY DEF Claim, DIGESTED, TRAINABLE
<1>10. AnchorLost(r) = [r EXCEPT !.anchors = U, !.maturity = M]
    BY DEF AnchorLost, U
<1> HIDE DEF M
<1>11. AnchorLost(r) \in Claim /\ AnchorLost(r).anchors = U /\ AnchorLost(r).maturity = M
    <2>1. AnchorLost(r) = [maturity |-> M, anchors |-> U, links |-> r.links,
                           contested |-> r.contested, cycles |-> r.cycles, clean |-> r.clean]
        BY <1>10 DEF Claim
    <2>2. M \in DIGESTED .. TRAINABLE
        BY <1>9 DEF DIGESTED, TRAINABLE
    <2> QED
        BY <2>1, <2>2, <1>5 DEF Claim
<1> QED
    BY <1>6, <1>7, <1>8, <1>9, <1>11

\* What is proved of a step in which no claim gains or loses an anchor, no
\* source changes, and no claim loses its mark.
LEMMA AnchorsKept ==
    ASSUME IInv, TypeOK', Shaped(graph'),
           digesting' \in {digesting, Nobody}, sources' = sources,
           Present' = Present,
           \A c \in Present : claims'[c].anchors = claims[c].anchors,
           \A c \in Claims, s \in Sources :
               <<SourceNode(s), ClaimNode(c)>> \in graph'.edges
                   <=> <<SourceNode(s), ClaimNode(c)>> \in graph.edges,
           \A c \in Present : ClaimNode(c) \in graph.stale => ClaimNode(c) \in graph'.stale
    PROVE  IInv'
<1>1. Registered'
    BY DEF IInv, Registered
<1>2. EdgesOfAnchors'
    BY DEF IInv, EdgesOfAnchors
<1>3. Fresh'
    BY DEF IInv, Fresh, IsStale
<1>4. Judged'
    BY DEF IInv, Judged
<1> QED
    BY <1>1, <1>2, <1>3, <1>4 DEF IInv

-----------------------------------------------------------------------------
(* Steps that leave the anchors alone *)

\* The user edits a file: the wiki does not know yet.
LEMMA EditStep ==
    ASSUME IInv, NEW s \in Sources, Edit(s)
    PROVE  IInv'
<1>1. file' \in [Sources -> Hashes] /\ events' \in 0 .. MaxEvents
    BY ParamsAssumption DEF IInv, TypeOK, Edit, UserEvent
<1>2. UNCHANGED <<digesting, sources, claims, policy, graph, current, generation, affectedFor>>
    BY DEF Edit, manager
<1>3. TypeOK'
    BY <1>1, <1>2 DEF IInv, TypeOK, Present
<1> QED
    BY <1>2, <1>3, AnchorsKept DEF IInv, Present, Shaped

\* A digestion ends.
LEMMA DigestDoneStep ==
    ASSUME IInv, DigestDone
    PROVE  IInv'
<1>1. UNCHANGED <<file, sources, claims, policy, graph, current, generation, affectedFor, events>>
      /\ digesting' = Nobody
    BY DEF DigestDone, manager
<1>2. TypeOK'
    BY <1>1 DEF IInv, TypeOK, Present
<1> QED
    BY <1>1, <1>2, AnchorsKept DEF IInv, Present, Shaped

\* Links, contests and cycles leave the anchors of the claims alone.
LEMMA LinkAnchors ==
    ASSUME IInv, NEW c \in Claims, NEW d \in Claims, Link(c, d)
    PROVE  /\ Present' = Present
           /\ claims' \in [Present -> Claim]
           /\ \A b \in Present : claims'[b].anchors = claims[b].anchors
<1>2. claims \in [Present -> Claim] /\ c \in Present /\ d \in Present
    BY DEF IInv, TypeOK, Link
<1> DEFINE More(b) == IF b = c THEN {d} ELSE IF b = d THEN {c} ELSE {}
<1>3. \A b \in Present : /\ claims'[b].anchors = claims[b].anchors
                         /\ claims'[b] \in Claim
    <2>1. claims' = [claims EXCEPT ![c].links = @ \union {d}, ![d].links = @ \union {c}]
        BY DEF Link
    <2>2. c # d
        BY DEF Link
    <2> SUFFICES ASSUME NEW b \in Present
                 PROVE  claims'[b].anchors = claims[b].anchors /\ claims'[b] \in Claim
        OBVIOUS
    <2>3. claims[b] \in Claim
        BY <1>2
    <2>4. claims'[b] = [claims[b] EXCEPT !.links = @ \union More(b)]
        <3>1. CASE b = c
            BY <3>1, <2>1, <2>2, <1>2
        <3>2. CASE b = d
            BY <3>2, <2>1, <2>2, <1>2
        <3>3. CASE b # c /\ b # d
            <4>1. claims'[b] = claims[b]
                BY <3>3, <2>1, <1>2
            <4>2. [claims[b] EXCEPT !.links = @ \union {}] = claims[b]
                BY <2>3 DEF Claim
            <4> QED
                BY <3>3, <4>1, <4>2
        <3> QED
            BY <3>1, <3>2, <3>3
    <2>5. More(b) \subseteq Claims
        OBVIOUS
    <2> HIDE DEF More
    <2> QED
        BY <2>3, <2>4, <2>5 DEF Claim
<1>4. Present' = Present /\ claims' = [b \in Present |-> claims'[b]]
    BY <1>2 DEF Link, Present
<1> QED
    BY <1>3, <1>4

\* Two claims are linked: the graph stays as it is.
LEMMA LinkStep ==
    ASSUME IInv, NEW c \in Claims, NEW d \in Claims, Link(c, d)
    PROVE  IInv'
<1>1. UNCHANGED <<file, digesting, sources, policy, graph, current, generation, affectedFor, events>>
    BY DEF Link, manager
<1>2. Present' = Present /\ claims' \in [Present -> Claim]
      /\ \A b \in Present : claims'[b].anchors = claims[b].anchors
    BY LinkAnchors
<1>3. TypeOK'
    BY <1>1, <1>2 DEF IInv, TypeOK
<1> QED
    BY <1>1, <1>2, <1>3, AnchorsKept DEF IInv, Shaped

\* A contest lowers a claim and leaves its anchors.
LEMMA ContestAnchors ==
    ASSUME IInv, NEW c \in Claims, Contest(c)
    PROVE  /\ Present' = Present
           /\ claims' \in [Present -> Claim]
           /\ \A b \in Present : claims'[b].anchors = claims[b].anchors
<1>1. claims \in [Present -> Claim] /\ c \in Present
    BY DEF IInv, TypeOK, Contest
<1>4. Contradiction(claims[c]) \in Claim /\ Contradiction(claims[c]).anchors = claims[c].anchors
    <2> DEFINE r == claims[c]
               M == IF r.maturity > CONNECTED THEN CONNECTED ELSE r.maturity
    <2>1. r \in Claim
        BY <1>1
    <2>2. M \in DIGESTED .. TRAINABLE
        BY <2>1 DEF Claim, DIGESTED, CONNECTED, TRAINABLE
    <2>3. Contradiction(r) = [r EXCEPT !.maturity = M, !.contested = TRUE, !.clean = 0]
        BY DEF Contradiction
    <2> HIDE DEF r, M
    <2>4. Contradiction(r) = [maturity |-> M, anchors |-> r.anchors, links |-> r.links,
                              contested |-> TRUE, cycles |-> r.cycles, clean |-> 0]
        BY <2>1, <2>3 DEF Claim
    <2>5. Contradiction(r) \in Claim /\ Contradiction(r).anchors = r.anchors
        BY <2>1, <2>2, <2>4 DEF Claim
    <2> QED
        BY <2>5 DEF r
<1>5. claims' = [claims EXCEPT ![c] = Contradiction(claims[c])]
    BY DEF Contest
<1> QED
    BY <1>1, <1>4, <1>5 DEF Present

\* Anchors as they were, the graph has the edges it needs.
LEMMA ContestStep ==
    ASSUME IInv, NEW c \in Claims, Contest(c)
    PROVE  IInv'
<1>1. UNCHANGED <<file, digesting, sources, policy, graph, current, generation, affectedFor>>
    BY DEF Contest, manager
<1>2. events' \in 0 .. MaxEvents
    BY ParamsAssumption DEF IInv, TypeOK, Contest, UserEvent
<1>3. Present' = Present /\ claims' \in [Present -> Claim]
      /\ \A b \in Present : claims'[b].anchors = claims[b].anchors
    BY ContestAnchors
<1>4. TypeOK'
    BY <1>1, <1>2, <1>3 DEF IInv, TypeOK
<1> QED
    BY <1>1, <1>3, <1>4, AnchorsKept DEF IInv, Shaped

\* A ladder climbed from lo while each rung may be left stops somewhere.
LEMMA LadderStops ==
    ASSUME NEW lo \in DIGESTED .. TRAINABLE, NEW S
    PROVE  \E m \in lo .. TRAINABLE :
               /\ \A k \in lo .. m - 1 : k \in S
               /\ m = TRAINABLE \/ m \notin S
<1> USE DEF DIGESTED, TRAINABLE
<1>6. CASE lo = 6
    BY <1>6
<1>5. CASE lo = 5
    <2>1. CASE 5 \notin S
        BY <1>5, <2>1
    <2> QED
        BY <1>5, <2>1
<1>4. CASE lo = 4
    <2>1. CASE 4 \notin S
        BY <1>4, <2>1
    <2>2. CASE 4 \in S /\ 5 \notin S
        BY <1>4, <2>2
    <2>3. CASE 4 \in S /\ 5 \in S
        BY <1>4, <2>3
    <2> QED
        BY <2>1, <2>2, <2>3
<1>3. CASE lo = 3
    <2>1. CASE 3 \notin S
        BY <1>3, <2>1
    <2>2. CASE 3 \in S /\ 4 \notin S
        BY <1>3, <2>2
    <2>3. CASE {3, 4} \subseteq S /\ 5 \notin S
        BY <1>3, <2>3
    <2>4. CASE {3, 4, 5} \subseteq S
        BY <1>3, <2>4
    <2> QED
        BY <2>1, <2>2, <2>3, <2>4
<1>2. CASE lo = 2
    <2>1. CASE 2 \notin S
        BY <1>2, <2>1
    <2>2. CASE 2 \in S /\ 3 \notin S
        BY <1>2, <2>2
    <2>3. CASE {2, 3} \subseteq S /\ 4 \notin S
        BY <1>2, <2>3
    <2>4. CASE {2, 3, 4} \subseteq S /\ 5 \notin S
        BY <1>2, <2>4
    <2>5. CASE {2, 3, 4, 5} \subseteq S
        BY <1>2, <2>5
    <2> QED
        BY <2>1, <2>2, <2>3, <2>4, <2>5
<1>1. CASE lo = 1
    <2>1. CASE 1 \notin S
        BY <1>1, <2>1
    <2>2. CASE 1 \in S /\ 2 \notin S
        BY <1>1, <2>2
    <2>3. CASE {1, 2} \subseteq S /\ 3 \notin S
        BY <1>1, <2>3
    <2>4. CASE {1, 2, 3} \subseteq S /\ 4 \notin S
        BY <1>1, <2>4
    <2>5. CASE {1, 2, 3, 4} \subseteq S /\ 5 \notin S
        BY <1>1, <2>5
    <2>6. CASE {1, 2, 3, 4, 5} \subseteq S
        BY <1>1, <2>6
    <2> QED
        BY <2>1, <2>2, <2>3, <2>4, <2>5, <2>6
<1> QED
    BY <1>1, <1>2, <1>3, <1>4, <1>5, <1>6

\* Where the loop over advance() stops, and what it passed on the way.
LEMMA AdvancedStops ==
    ASSUME NEW c, NEW r \in Claim
    PROVE  /\ Advanced(c, r) \in DIGESTED .. TRAINABLE
           /\ Advanced(c, r) >= r.maturity
           /\ \A k \in r.maturity .. Advanced(c, r) - 1 : MayLeave(c, r, k)
<1> DEFINE S == {k \in DIGESTED .. TRAINABLE : MayLeave(c, r, k)}
<1>1. r.maturity \in DIGESTED .. TRAINABLE
    BY DEF Claim
<1>2. \A k \in r.maturity .. TRAINABLE : k \in S <=> MayLeave(c, r, k)
    BY <1>1 DEF DIGESTED, TRAINABLE
<1> HIDE DEF S
<1>3. PICK m \in r.maturity .. TRAINABLE :
          (\A k \in r.maturity .. m - 1 : k \in S) /\ (m = TRAINABLE \/ m \notin S)
    BY <1>1, LadderStops
<1>4. /\ \A k \in r.maturity .. m - 1 : MayLeave(c, r, k)
      /\ m = TRAINABLE \/ ~MayLeave(c, r, m)
    BY <1>1, <1>2, <1>3 DEF DIGESTED, TRAINABLE
<1>5. /\ Advanced(c, r) \in r.maturity .. TRAINABLE
      /\ \A k \in r.maturity .. Advanced(c, r) - 1 : MayLeave(c, r, k)
    BY <1>3, <1>4 DEF Advanced
<1> QED
    BY <1>1, <1>5 DEF DIGESTED, TRAINABLE

\* The fields of a claim whose counters are set.
LEMMA CountersFields ==
    ASSUME NEW r \in Claim, NEW n, NEW k
    PROVE  [r EXCEPT !.cycles = n, !.clean = k]
               = [maturity |-> r.maturity, anchors |-> r.anchors, links |-> r.links,
                  contested |-> r.contested, cycles |-> n, clean |-> k]
<1>1. r = [maturity |-> r.maturity, anchors |-> r.anchors, links |-> r.links,
           contested |-> r.contested, cycles |-> r.cycles, clean |-> r.clean]
    BY DEF Claim
<1>2. [r EXCEPT !.cycles = n] = [maturity |-> r.maturity, anchors |-> r.anchors, links |-> r.links,
                                 contested |-> r.contested, cycles |-> n, clean |-> r.clean]
    BY <1>1
<1> DEFINE q == [r EXCEPT !.cycles = n]
<1>3. [r EXCEPT !.cycles = n, !.clean = k] = [q EXCEPT !.clean = k]
    OBVIOUS
<1> HIDE DEF q
<1>4. q = [maturity |-> r.maturity, anchors |-> r.anchors, links |-> r.links,
           contested |-> r.contested, cycles |-> n, clean |-> r.clean]
    BY <1>2 DEF q
<1>5. [q EXCEPT !.clean = k]
          = [maturity |-> r.maturity, anchors |-> r.anchors, links |-> r.links,
             contested |-> r.contested, cycles |-> n, clean |-> k]
    BY <1>4
<1> QED
    BY <1>3, <1>5

\* A consolidation raises claims and leaves their anchors.
LEMMA ConsolidationCycleAnchors ==
    ASSUME IInv, ConsolidationCycle
    PROVE  /\ Present' = Present
           /\ claims' \in [Present -> Claim]
           /\ \A c \in Present : claims'[c].anchors = claims[c].anchors
<1>2. claims \in [Present -> Claim]
    BY DEF IInv, TypeOK
<1> DEFINE N(c) ==
        IF Behavioural(c) /\ Verified(claims[c].anchors) # {} /\ claims[c].cycles < StabilityCycles
        THEN claims[c].cycles + 1 ELSE claims[c].cycles
    K(c) == IF ~claims[c].contested /\ claims[c].maturity >= CORROBORATED THEN 1 ELSE claims[c].clean
    Seen(c) == [claims[c] EXCEPT !.cycles = N(c), !.clean = K(c)]
    New(c) == [Seen(c) EXCEPT !.maturity = Advanced(c, Seen(c))]
<1>4. claims' = [c \in Present |-> New(c)]
    BY DEF ConsolidationCycle
<1>5. ASSUME NEW c \in Present
      PROVE  New(c) \in Claim /\ New(c).anchors = claims[c].anchors
    <2>1. claims[c] \in Claim
        BY <1>2
    <2>2. N(c) \in 0 .. StabilityCycles /\ K(c) \in 0 .. 1
        BY <2>1, ParamsAssumption DEF Claim
    <2> HIDE DEF N, K
    <2>3. Seen(c) = [maturity |-> claims[c].maturity, anchors |-> claims[c].anchors,
                     links |-> claims[c].links, contested |-> claims[c].contested,
                     cycles |-> N(c), clean |-> K(c)]
        BY <2>1, CountersFields
    <2>4. Seen(c) \in Claim
        BY <2>1, <2>2, <2>3 DEF Claim
    <2>5. Seen(c).anchors = claims[c].anchors
        BY <2>3
    <2> HIDE DEF Seen
    <2>6. Advanced(c, Seen(c)) \in DIGESTED .. TRAINABLE
        BY <2>4, AdvancedStops
    <2>7. New(c) \in Claim /\ New(c).anchors = Seen(c).anchors
        BY <2>4, <2>6 DEF Claim
    <2> QED
        BY <2>5, <2>7
<1> HIDE DEF New
<1> QED
    BY <1>4, <1>5 DEF Present

\* Likewise.
LEMMA ConsolidationCycleStep ==
    ASSUME IInv, ConsolidationCycle
    PROVE  IInv'
<1>1. UNCHANGED <<file, digesting, sources, policy, graph, current, generation, events>>
    BY DEF ConsolidationCycle
<1>2. Present' = Present /\ claims' \in [Present -> Claim]
      /\ \A c \in Present : claims'[c].anchors = claims[c].anchors
    BY ConsolidationCycleAnchors
<1>3. affectedFor' \in 0 .. ForgetMaxCycles \union {Nobody}
    <2>1. affectedFor \in 0 .. ForgetMaxCycles \union {Nobody} /\ ForgetMaxCycles \in Nat
        BY ParamsAssumption DEF IInv, TypeOK
    <2>2. affectedFor' = IF affectedFor = Nobody \/ affectedFor = ForgetMaxCycles THEN affectedFor
                         ELSE affectedFor + 1
        BY DEF ConsolidationCycle
    <2> QED
        BY ONLY <2>1, <2>2
<1>4. TypeOK'
    BY <1>1, <1>2, <1>3 DEF IInv, TypeOK
<1> QED
    BY <1>1, <1>2, <1>4, AnchorsKept DEF IInv, Shaped

\* A policy that changes marks what is derived from the sources it is about.
LEMMA SetPolicyStep ==
    ASSUME IInv, NEW p \in Policies, SetPolicy(p)
    PROVE  IInv'
<1>1. UNCHANGED <<file, digesting, sources, current, generation, affectedFor>> /\ policy' = p
    BY DEF SetPolicy, manager
<1>2. claims \in [Present -> Claim]
    BY DEF IInv, TypeOK
<1>3. events' \in 0 .. MaxEvents
    BY ParamsAssumption DEF IInv, TypeOK, SetPolicy, UserEvent
<1> DEFINE Low(c) == /\ c \in {d \in Present : RuleChanged(p, d)} /\ claims[c].maturity = TRAINABLE
                     /\ ~PolicyAllows(p, c, claims[c].anchors)
           New(c) == IF Low(c) THEN [claims[c] EXCEPT !.maturity = CONSOLIDATED] ELSE claims[c]
<1>4. claims' = [c \in Present |-> New(c)]
    BY DEF SetPolicy
<1>5. ASSUME NEW c \in Present
      PROVE  New(c) \in Claim /\ New(c).anchors = claims[c].anchors
    <2>1. claims[c] \in Claim
        BY <1>2
    <2> HIDE DEF Low
    <2> QED
        BY <2>1 DEF Claim, CONSOLIDATED, DIGESTED, TRAINABLE
<1> HIDE DEF New
<1>6. Present' = Present /\ claims' \in [Present -> Claim]
      /\ \A c \in Present : claims'[c].anchors = claims[c].anchors
    BY <1>4, <1>5 DEF Present
<1>7. TypeOK'
    BY <1>1, <1>3, <1>6 DEF IInv, TypeOK
<1> DEFINE more == UNION {{ClaimNode(c)} \union Descendants(graph, ClaimNode(c)) :
                              c \in {d \in Present : RuleChanged(p, d)}}
<1>8. graph' = [graph EXCEPT !.stale = @ \union more]
    BY DEF SetPolicy
<1> HIDE DEF more
<1>9. Shaped(graph') /\ graph'.edges = graph.edges /\ graph.stale \subseteq graph'.stale
    <2>1. graph' = [nodes |-> graph.nodes, edges |-> graph.edges, stale |-> graph.stale \union more]
        BY <1>8 DEF IInv, Shaped
    <2> QED
        BY <2>1 DEF Shaped
<1> QED
    BY <1>1, <1>6, <1>7, <1>9, AnchorsKept

\* Training adds edges to examples and adapters only.
LEMMA TrainStep ==
    ASSUME IInv, NEW new \in SUBSET Claims, NEW replayed \in SUBSET Claims,
           NEW social \in SUBSET Claims, Train(new, replayed, social), generation < MaxGenerations
    PROVE  /\ current' \in Adapter
           /\ Shaped(graph') /\ graph'.stale = graph.stale
           /\ \A c, s : <<SourceNode(s), ClaimNode(c)>> \in graph'.edges
                            <=> <<SourceNode(s), ClaimNode(c)>> \in graph.edges
<1> DEFINE own == {c \in new : Eligible(c)}
           bases == UNION {Basis(c) : c \in own}
           adapter == [generation |-> generation + 1, claims |-> own,
                       others |-> replayed \union social, basis |-> bases]
           edges == TrainingEdges(own, adapter)
<1>1. current' = adapter /\ graph' = AddEdges(graph, edges)
    BY DEF Train
<1>2. bases \subseteq Sources \X Hashes \X Rules
    <2> SUFFICES ASSUME NEW c \in own PROVE Basis(c) \subseteq Sources \X Hashes \X Rules
        OBVIOUS
    <2>1. c \in Present
        BY DEF Eligible, Trainable
    <2>2. SourcesOf(claims[c].anchors) \subseteq DOMAIN sources
        BY <2>1 DEF IInv, Registered
    <2>3. policy \in [Sources -> Rules] /\ DOMAIN sources \subseteq Sources
          /\ sources \in [DOMAIN sources -> Hashes]
        BY ParamsAssumption DEF IInv, TypeOK
    <2> QED
        BY <2>2, <2>3 DEF Basis
<1>3. own \subseteq Claims /\ generation + 1 \in 1 .. MaxGenerations
    BY ParamsAssumption DEF IInv, TypeOK
<1>4. ASSUME NEW c, NEW s, <<SourceNode(s), ClaimNode(c)>> \in edges
      PROVE  FALSE
    <2>1. PICK d \in own : \/ <<SourceNode(s), ClaimNode(c)>> = <<ClaimNode(d), ExampleNode(d)>>
                           \/ <<SourceNode(s), ClaimNode(c)>> = <<ExampleNode(d), AdapterNode(adapter)>>
        BY <1>4 DEF TrainingEdges
    <2>2. SourceNode(s) = ClaimNode(d) \/ SourceNode(s) = ExampleNode(d)
        BY <2>1
    <2>3. SourceNode(s) # ClaimNode(d) /\ SourceNode(s) # ExampleNode(d)
        BY NodesDiffer
    <2> QED
        BY <2>2, <2>3
<1> HIDE DEF edges, own, bases
<1>5. current' \in Adapter
    BY <1>1, <1>2, <1>3 DEF Adapter
<1>6. /\ AddEdges(graph, edges).edges = graph.edges \union edges
      /\ AddEdges(graph, edges).stale = graph.stale
      /\ Shaped(AddEdges(graph, edges))
    BY AddEdgesFields DEF IInv
<1> QED
    BY <1>1, <1>4, <1>5, <1>6

\* A generation adds examples and an adapter to the graph.
LEMMA RunGenerationStep ==
    ASSUME IInv, NEW new \in SUBSET Claims, RunGeneration(new)
    PROVE  IInv'
<1>1. UNCHANGED <<file, digesting, sources, claims, policy, events>>
      /\ generation' = generation + 1 /\ generation < MaxGenerations
    BY DEF RunGeneration
<1>2. generation' \in 0 .. MaxGenerations
    BY <1>1, ParamsAssumption DEF IInv, TypeOK
<1>3. Present' = Present
    BY <1>1 DEF Present
<1>4. CASE /\ \E replayed \in SUBSET Claims, social \in SUBSET {c \in Claims : Eligible(c)} :
                  Train(new, replayed, social)
           /\ affectedFor' = Nobody
    <2>1. /\ current' \in Adapter
          /\ Shaped(graph') /\ graph'.stale = graph.stale
          /\ \A c, s : <<SourceNode(s), ClaimNode(c)>> \in graph'.edges
                           <=> <<SourceNode(s), ClaimNode(c)>> \in graph.edges
        BY <1>1, <1>4, TrainStep
    <2>2. TypeOK'
        BY <1>1, <1>2, <1>3, <1>4, <2>1 DEF IInv, TypeOK
    <2> QED
        BY <1>1, <1>3, <2>1, <2>2, AnchorsKept
<1>5. CASE UNCHANGED <<graph, current, affectedFor>>
    <2>1. TypeOK'
        BY <1>1, <1>2, <1>3, <1>5 DEF IInv, TypeOK
    <2> QED
        BY <1>1, <1>3, <1>5, <2>1, AnchorsKept DEF IInv, Shaped
<1> QED
    BY <1>4, <1>5 DEF RunGeneration

\* Forgetting retires adapters, and no claim.
LEMMA EnforceForgettingStep ==
    ASSUME IInv, EnforceForgetting
    PROVE  IInv'
<1>1. UNCHANGED <<file, digesting, sources, claims, policy, generation, events>>
    BY DEF EnforceForgetting
<1>2. Present' = Present
    BY <1>1 DEF Present
<1>3. affectedFor' \in 0 .. ForgetMaxCycles \union {Nobody} /\ current' \in {current, Nobody}
    BY ParamsAssumption DEF IInv, TypeOK, EnforceForgetting
<1>4. TypeOK'
    BY <1>1, <1>2, <1>3 DEF IInv, TypeOK
<1>5. graph' = graph \/ graph' = Remove(graph, AdapterNode(current))
    BY DEF EnforceForgetting
<1>6. CASE graph' = graph
    BY <1>1, <1>2, <1>4, <1>6, AnchorsKept DEF IInv, Shaped
<1>7. CASE graph' = Remove(graph, AdapterNode(current))
    <2> DEFINE n == AdapterNode(current)
    <2>1. \A c, s : n # SourceNode(s) /\ n # ClaimNode(c)
        BY NodesDiffer
    <2>2. /\ Shaped(Remove(graph, n))
          /\ Remove(graph, n).edges = {e \in graph.edges : n \notin {e[1], e[2]}}
          /\ Remove(graph, n).stale = (graph.stale \union Descendants(graph, n)) \ {n}
        BY RemoveFields
    <2> HIDE DEF n
    <2>3. \A c, s : <<SourceNode(s), ClaimNode(c)>> \in graph'.edges
                        <=> <<SourceNode(s), ClaimNode(c)>> \in graph.edges
        BY <1>7, <2>1, <2>2 DEF n
    <2>4. \A c : ClaimNode(c) \in graph.stale => ClaimNode(c) \in graph'.stale
        BY <1>7, <2>1, <2>2 DEF n
    <2>5. Shaped(graph')
        BY <1>7, <2>2 DEF n
    <2> QED
        BY <1>1, <1>2, <1>4, <2>3, <2>4, <2>5, AnchorsKept
<1> QED
    BY <1>5, <1>6, <1>7

\* What load() rebuilds has the edges that the anchors call for.
LEMMA LoadedFollowsAnchors ==
    ASSUME IInv
    PROVE  /\ Shaped(Loaded) /\ Loaded.stale = graph.stale /\ Loaded.edges = LoadedEdges
           /\ \A c \in Claims, s \in Sources :
                  <<SourceNode(s), ClaimNode(c)>> \in Loaded.edges
                      <=> c \in Present /\ s \in SourcesOf(claims[c].anchors)
<1> DEFINE base == LoadedNodes
<1>1. Shaped(base) /\ base.edges = {}
    <2>1. base = [nodes |-> {SourceNode(s) : s \in DOMAIN sources}, edges |-> {}, stale |-> {}]
        BY DEF LoadedNodes, EmptyGraph
    <2> QED
        BY <2>1 DEF Shaped
<1> HIDE DEF base
<1> DEFINE es == LoadedEdges
<1>2. ASSUME NEW c \in Claims, NEW s \in Sources
      PROVE  <<SourceNode(s), ClaimNode(c)>> \in es
                 <=> c \in Present /\ s \in SourcesOf(claims[c].anchors)
    <2>1. ASSUME c \in Present, s \in SourcesOf(claims[c].anchors)
          PROVE  <<SourceNode(s), ClaimNode(c)>> \in es
        <3>1. PICK a \in claims[c].anchors : a.source = s
            BY <2>1 DEF SourcesOf
        <3>2. <<SourceNode(s), ClaimNode(c)>>
                  \in {<<SourceNode(b.source), ClaimNode(c)>> : b \in claims[c].anchors}
            BY <3>1
        <3> QED
            BY <3>2, <2>1 DEF LoadedEdges
    <2>2. ASSUME <<SourceNode(s), ClaimNode(c)>> \in es
          PROVE  c \in Present /\ s \in SourcesOf(claims[c].anchors)
        <3>1. PICK d \in Present :
                  <<SourceNode(s), ClaimNode(c)>>
                      \in {<<SourceNode(b.source), ClaimNode(d)>> : b \in claims[d].anchors}
            BY <2>2 DEF LoadedEdges
        <3>2. PICK b \in claims[d].anchors :
                  <<SourceNode(s), ClaimNode(c)>> = <<SourceNode(b.source), ClaimNode(d)>>
            BY <3>1
        <3>3. SourceNode(s) = SourceNode(b.source) /\ ClaimNode(c) = ClaimNode(d)
            BY <3>2
        <3>4. s = b.source /\ c = d
            BY <3>3, NodesDiffer
        <3> QED
            BY <3>4 DEF SourcesOf
    <2> QED
        BY <2>1, <2>2
<1> HIDE DEF es
<1>7. es = LoadedEdges
    BY DEF es
<1>3. AddEdges(base, es).edges = es /\ Shaped(AddEdges(base, es))
    BY <1>1, AddEdgesFields
<1> DEFINE more == AddEdges(base, es)
<1>4. Loaded = [more EXCEPT !.stale = graph.stale]
    BY DEF Loaded, base, es
<1> HIDE DEF more
<1>5. more.edges = es /\ more = [nodes |-> more.nodes, edges |-> more.edges, stale |-> more.stale]
    BY <1>3 DEF more, Shaped
<1>6. Loaded = [nodes |-> more.nodes, edges |-> es, stale |-> graph.stale]
    BY <1>4, <1>5
<1> QED
    BY <1>2, <1>6, <1>7 DEF Shaped

\* A graph that is loaded has the edges of the claims that are loaded.
LEMMA ReloadStep ==
    ASSUME IInv, NEW p \in Policies, Reload(p)
    PROVE  IInv'
<1>1. UNCHANGED <<file, digesting, sources, claims>> /\ policy' = p /\ graph' = Loaded
      /\ current' = Nobody /\ generation' = 0 /\ affectedFor' = Nobody
    BY DEF Reload
<1>2. events' \in 0 .. MaxEvents
    BY ParamsAssumption DEF IInv, TypeOK, Reload, UserEvent
<1>3. Present' = Present
    BY <1>1 DEF Present
<1>4. 0 \in 0 .. MaxGenerations
    BY ParamsAssumption
<1>5. TypeOK'
    BY <1>1, <1>2, <1>3, <1>4 DEF IInv, TypeOK
<1>6. \A c \in Claims, s \in Sources :
          <<SourceNode(s), ClaimNode(c)>> \in graph'.edges
              <=> <<SourceNode(s), ClaimNode(c)>> \in graph.edges
    BY <1>1, LoadedFollowsAnchors DEF IInv, EdgesOfAnchors
<1>7. Shaped(graph') /\ graph'.stale = graph.stale
    BY <1>1, LoadedFollowsAnchors
<1> QED
    BY <1>1, <1>3, <1>5, <1>6, <1>7, AnchorsKept

-----------------------------------------------------------------------------
(* Steps that register, digest and forget *)

\* A claim anchored in a source descends from it.
LEMMA AnchoredDescends ==
    ASSUME IInv, NEW c \in Present, NEW s \in Sources, s \in SourcesOf(claims[c].anchors),
           NEW g, g.edges = graph.edges
    PROVE  ClaimNode(c) \in Descendants(g, SourceNode(s))
<1>1. <<SourceNode(s), ClaimNode(c)>> \in g.edges
    BY DEF IInv, EdgesOfAnchors, TypeOK
<1> QED
    BY <1>1, ChildrenDescend

\* New content of a source marks every claim anchored in it.
LEMMA RegisterSourceStep ==
    ASSUME IInv, NEW s \in Sources, RegisterSource(s)
    PROVE  IInv'
<1>1. UNCHANGED <<file, policy, current, generation, affectedFor, events>> /\ digesting' = s
    BY DEF RegisterSource, manager
<1>2. /\ sources \in [DOMAIN sources -> Hashes] /\ DOMAIN sources \subseteq Sources
      /\ file \in [Sources -> Hashes]
      /\ claims \in [Present -> Claim] /\ Present \subseteq Claims
    BY DEF IInv, TypeOK
<1>3. /\ sources' = [t \in DOMAIN sources \union {s} |-> IF t = s THEN file[s] ELSE sources[t]]
      /\ digesting = Nobody
    BY DEF RegisterSource
<1>4. sources' \in [DOMAIN sources' -> Hashes] /\ DOMAIN sources' = DOMAIN sources \union {s}
    BY <1>2, <1>3
<1> DEFINE known == AddNode(graph, SourceNode(s))
           lost == IF Changed(s) THEN Newly(known, SourceNode(s)) ELSE {}
<1>5. graph' = IF Changed(s) THEN Invalidate(known, SourceNode(s)) ELSE known
    BY DEF RegisterSource
<1>6. claims' = [c \in Present |-> IF ClaimNode(c) \in lost THEN AnchorLost(claims[c]) ELSE claims[c]]
    BY DEF RegisterSource
<1>7. Shaped(known) /\ known.edges = graph.edges /\ known.stale = graph.stale
    <2>1. known = [nodes |-> graph.nodes \union {SourceNode(s)}, edges |-> graph.edges, stale |-> graph.stale]
        BY DEF IInv, Shaped, AddNode
    <2> QED
        BY <2>1 DEF Shaped
<1>8. Shaped(graph') /\ graph'.edges = graph.edges
      /\ graph'.stale = IF Changed(s) THEN graph.stale \union Descendants(known, SourceNode(s))
                        ELSE graph.stale
    <2> HIDE DEF known
    <2>1. Invalidate(known, SourceNode(s))
              = [nodes |-> known.nodes, edges |-> graph.edges,
                 stale |-> graph.stale \union Descendants(known, SourceNode(s))]
        BY <1>7 DEF Invalidate, Shaped
    <2>2. CASE Changed(s)
        BY <2>1, <2>2, <1>5 DEF Shaped
    <2>3. CASE ~Changed(s)
        BY <2>3, <1>5, <1>7
    <2> QED
        BY <2>2, <2>3
<1>9. Changed(s) => lost = Descendants(known, SourceNode(s)) \ graph.stale
    BY <1>7 DEF Newly
<1> HIDE DEF known, lost
<1>10. ASSUME NEW c \in Present
       PROVE  /\ claims'[c] \in Claim /\ claims'[c].anchors # {}
              /\ SourcesOf(claims'[c].anchors) = SourcesOf(claims[c].anchors)
              /\ ClaimNode(c) \notin lost => claims'[c] = claims[c]
              /\ ClaimNode(c) \in lost => Verified(claims'[c].anchors) = {}
    <2>1. claims[c] \in Claim /\ claims[c].anchors # {}
        BY <1>2 DEF IInv, TypeOK
    <2>2. CASE ClaimNode(c) \in lost
        <3>1. claims'[c] = AnchorLost(claims[c])
            BY <2>2, <1>6
        <3> QED
            BY <2>1, <2>2, <3>1, AnchorLostFields
    <2>3. CASE ClaimNode(c) \notin lost
        <3>1. claims'[c] = claims[c]
            BY <2>3, <1>6
        <3> QED
            BY <2>1, <2>3, <3>1
    <2> QED
        BY <2>2, <2>3
<1>11. Present' = Present
    BY <1>6 DEF Present
<1>12. claims' \in [Present' -> Claim]
    <2>1. claims' = [c \in Present' |-> claims'[c]]
        BY <1>6, <1>11
    <2> QED
        BY <2>1, <1>10, <1>11
<1>13. TypeOK'
    BY <1>1, <1>2, <1>4, <1>10, <1>11, <1>12 DEF IInv, TypeOK
<1>14. Registered'
    BY <1>1, <1>4, <1>10, <1>11 DEF IInv, Registered
<1>15. EdgesOfAnchors'
    BY <1>8, <1>10, <1>11 DEF IInv, EdgesOfAnchors
<1>16. Fresh'
    <2> SUFFICES ASSUME NEW c \in Present, ClaimNode(c) \notin graph'.stale,
                        NEW a \in Verified(claims'[c].anchors)
                 PROVE  a.source \in DOMAIN sources' /\ a.hash = sources'[a.source]
        BY <1>11 DEF Fresh, IsStale
    <2>1. ClaimNode(c) \notin graph.stale /\ ClaimNode(c) \notin lost
        BY <1>8, <1>10
    <2>2. claims'[c] = claims[c] /\ a \in claims[c].anchors
        BY <2>1, <1>10 DEF Verified
    <2>3. a.source \in DOMAIN sources /\ a.hash = sources[a.source]
        BY <2>1, <2>2 DEF IInv, Fresh, IsStale
    <2>4. CASE Changed(s)
        <3>1. ClaimNode(c) \notin Descendants(known, SourceNode(s))
            BY <1>8, <2>4
        <3>2. s \notin SourcesOf(claims[c].anchors)
            BY <3>1, <1>7, AnchoredDescends
        <3>3. a.source # s
            BY <2>2, <3>2 DEF SourcesOf
        <3> QED
            BY <2>3, <3>3, <1>3
    <2>5. CASE ~Changed(s)
        BY <2>3, <2>5, <1>3 DEF Changed
    <2> QED
        BY <2>4, <2>5
<1>17. Judged'
    BY <1>10, <1>11 DEF IInv, Judged
<1> QED
    BY <1>8, <1>13, <1>14, <1>15, <1>16, <1>17 DEF IInv

\* What Wiki.add makes of the proposal of a claim: its fields, and the anchors
\* it has now.
LEMMA AddedFields ==
    ASSUME IInv, NEW c \in Claims, NEW anchor \in Anchor,
           NEW r, r = IF c \in Present THEN Merged(claims[c], anchor) ELSE NewClaim(anchor)
    PROVE  /\ r \in Claim /\ r.anchors # {}
           /\ SourcesOf(r.anchors)
                  = (IF c \in Present THEN SourcesOf(claims[c].anchors) ELSE {}) \union {anchor.source}
           /\ \A a \in r.anchors : a = anchor \/ (c \in Present /\ a \in claims[c].anchors)
<1>1. CASE c \notin Present
    <2>1. r = [maturity |-> DIGESTED, anchors |-> {anchor}, links |-> {}, contested |-> FALSE,
               cycles |-> 0, clean |-> 0]
        BY <1>1 DEF NewClaim
    <2>2. 0 \in 0 .. StabilityCycles /\ DIGESTED \in DIGESTED .. TRAINABLE
        BY ParamsAssumption DEF DIGESTED, TRAINABLE
    <2>3. r \in Claim /\ r.anchors = {anchor}
        <3> DEFINE Q == {anchor}
                   none == {}
        <3>1. Q \in SUBSET Anchor /\ none \in SUBSET Claims /\ 0 \in 0 .. 1
            OBVIOUS
        <3>2. r = [maturity |-> DIGESTED, anchors |-> Q, links |-> none, contested |-> FALSE,
                   cycles |-> 0, clean |-> 0]
            BY <2>1
        <3> HIDE DEF Q, none
        <3>3. r \in Claim /\ r.anchors = Q
            BY ONLY <2>2, <3>1, <3>2 DEF Claim
        <3> QED
            BY <3>3 DEF Q
    <2>4. SourcesOf({anchor}) = {anchor.source}
        BY DEF SourcesOf
    <2> QED
        BY <1>1, <2>3, <2>4
<1>2. CASE c \in Present
    <2> DEFINE old == claims[c]
    <2>1. old \in Claim /\ old.anchors # {} /\ old.anchors \subseteq Anchor
        BY <1>2 DEF IInv, TypeOK, Claim
    <2>2. r = Merged(old, anchor)
        BY <1>2
    <2> HIDE DEF old
    <2>3. CASE \E a \in old.anchors : a.source = anchor.source /\ a.span = anchor.span
        <3>1. r = old
            BY <2>2, <2>3 DEF Merged
        <3>2. anchor.source \in SourcesOf(old.anchors)
            BY <2>3 DEF SourcesOf
        <3>3. SourcesOf(r.anchors) = SourcesOf(old.anchors) \union {anchor.source}
            BY <3>1, <3>2
        <3> QED
            BY <1>2, <2>1, <3>1, <3>3 DEF old
    <2>4. CASE ~\E a \in old.anchors : a.source = anchor.source /\ a.span = anchor.span
        <3>1. r = [old EXCEPT !.anchors = @ \union {anchor}]
            BY <2>2, <2>4 DEF Merged
        <3>2. r \in Claim /\ r.anchors = old.anchors \union {anchor}
            BY <2>1, <3>1 DEF Claim
        <3>3. SourcesOf(r.anchors) = SourcesOf(old.anchors) \union {anchor.source}
            BY <3>2 DEF SourcesOf
        <3> QED
            BY <1>2, <3>2, <3>3 DEF old
    <2> QED
        BY <2>3, <2>4
<1> QED
    BY <1>1, <1>2

\* A claim gets an anchor and the edge from its source together; a merge has both anchors.
LEMMA DigestSpanStep ==
    ASSUME IInv, NEW s \in Sources, DigestSpan(s)
    PROVE  IInv'
<1>1. UNCHANGED <<file, digesting, sources, policy, current, generation, affectedFor, events>>
    BY DEF DigestSpan, manager
<1>2. PICK c \in Claims, span \in Spans, ok \in BOOLEAN :
          LET anchor == [source |-> s, span |-> span, hash |-> sources[s], seen |-> file[s],
                         verified |-> ok]
          IN  /\ ok => SameHash(s)
              /\ claims' = [d \in Present \union {c} |->
                              IF d # c THEN claims[d]
                              ELSE IF c \in Present THEN Merged(claims[c], anchor)
                              ELSE NewClaim(anchor)]
              /\ graph' = AddEdges(graph, AnchorEdge(s, c))
    BY DEF DigestSpan
<1> DEFINE anchor == [source |-> s, span |-> span, hash |-> sources[s], seen |-> file[s], verified |-> ok]
           r == IF c \in Present THEN Merged(claims[c], anchor) ELSE NewClaim(anchor)
<1>3. s \in DOMAIN sources /\ sources[s] \in Hashes
    <2>1. digesting = s /\ s # Nobody
        BY ParamsAssumption DEF DigestSpan
    <2>2. s \in DOMAIN sources
        BY <2>1 DEF IInv, Registered
    <2>3. sources \in [DOMAIN sources -> Hashes]
        BY DEF IInv, TypeOK
    <2> QED
        BY <2>2, <2>3
<1>4. /\ anchor \in Anchor /\ anchor.source = s /\ anchor.hash = sources[s]
      /\ anchor.verified => anchor.seen = anchor.hash
    <2>1. file[s] \in Hashes
        BY DEF IInv, TypeOK
    <2> QED
        BY <1>2, <1>3, <2>1 DEF Anchor, SameHash
<1>5. claims' = [d \in Present \union {c} |-> IF d # c THEN claims[d] ELSE r]
    BY <1>2
<1> HIDE DEF anchor
<1>6. /\ r \in Claim /\ r.anchors # {}
      /\ SourcesOf(r.anchors)
             = (IF c \in Present THEN SourcesOf(claims[c].anchors) ELSE {}) \union {s}
      /\ \A a \in r.anchors : a = anchor \/ (c \in Present /\ a \in claims[c].anchors)
    BY <1>4, AddedFields
<1> HIDE DEF r
<1>7. Present' = Present \union {c} /\ claims'[c] = r
      /\ \A d \in Present \ {c} : claims'[d] = claims[d]
    BY <1>5 DEF Present
<1>8. claims \in [Present -> Claim] /\ \A d \in Present : claims[d].anchors # {}
    BY DEF IInv, TypeOK
<1>9. claims' \in [Present' -> Claim] /\ \A d \in Present' : claims'[d].anchors # {}
    <2>1. \A d \in Present' : claims'[d] \in Claim /\ claims'[d].anchors # {}
        BY <1>6, <1>7, <1>8
    <2>2. claims' = [d \in Present' |-> claims'[d]]
        BY <1>5, <1>7
    <2> QED
        BY <2>1, <2>2
<1>10. TypeOK'
    BY <1>1, <1>7, <1>9 DEF IInv, TypeOK
<1>11. Registered'
    BY <1>1, <1>3, <1>6, <1>7 DEF IInv, Registered
<1>12. /\ graph'.edges = graph.edges \union {<<SourceNode(s), ClaimNode(c)>>}
       /\ graph'.stale = graph.stale
       /\ Shaped(graph')
    BY <1>2, AddEdgesFields DEF IInv, AnchorEdge
<1>13. EdgesOfAnchors'
    <2> SUFFICES ASSUME NEW d \in Claims, NEW t \in Sources
                 PROVE  <<SourceNode(t), ClaimNode(d)>> \in graph'.edges
                            <=> d \in Present' /\ t \in SourcesOf(claims'[d].anchors)
        BY DEF EdgesOfAnchors
    <2>1. <<SourceNode(t), ClaimNode(d)>> \in graph.edges
              <=> d \in Present /\ t \in SourcesOf(claims[d].anchors)
        BY DEF IInv, EdgesOfAnchors
    <2>2. <<SourceNode(t), ClaimNode(d)>> = <<SourceNode(s), ClaimNode(c)>> <=> t = s /\ d = c
        BY NodesDiffer
    <2>3. <<SourceNode(t), ClaimNode(d)>> \in graph'.edges
              <=> (t = s /\ d = c) \/ (d \in Present /\ t \in SourcesOf(claims[d].anchors))
        BY <1>12, <2>1, <2>2
    <2>4. CASE d = c
        <3>1. t \in SourcesOf(claims'[c].anchors)
                  <=> t = s \/ (c \in Present /\ t \in SourcesOf(claims[c].anchors))
            BY <1>6, <1>7
        <3> QED
            BY <2>3, <2>4, <3>1, <1>7
    <2>5. CASE d # c
        BY <2>3, <2>5, <1>7
    <2> QED
        BY <2>4, <2>5
<1>14. Fresh'
    <2> SUFFICES ASSUME NEW d \in Present', ClaimNode(d) \notin graph'.stale,
                        NEW a \in Verified(claims'[d].anchors)
                 PROVE  a.source \in DOMAIN sources' /\ a.hash = sources'[a.source]
        BY DEF Fresh, IsStale
    <2>1. a \in claims'[d].anchors /\ a.verified
        BY DEF Verified
    <2>2. CASE d # c \/ a # anchor
        <3>1. d \in Present /\ a \in claims[d].anchors
            BY <1>6, <1>7, <2>1, <2>2
        <3>2. a \in Verified(claims[d].anchors)
            BY <2>1, <3>1 DEF Verified
        <3> QED
            BY <1>1, <1>12, <3>1, <3>2 DEF IInv, Fresh, IsStale
    <2>3. CASE a = anchor
        BY <1>1, <1>3, <1>4, <2>3
    <2> QED
        BY <2>2, <2>3
<1>15. Judged'
    <2> SUFFICES ASSUME NEW d \in Present', NEW a \in Verified(claims'[d].anchors)
                 PROVE  a.seen = a.hash
        BY DEF Judged
    <2>1. a \in claims'[d].anchors /\ a.verified
        BY DEF Verified
    <2>2. CASE d # c \/ a # anchor
        <3>1. d \in Present /\ a \in claims[d].anchors
            BY <1>6, <1>7, <2>1, <2>2
        <3>2. a \in Verified(claims[d].anchors)
            BY <2>1, <3>1 DEF Verified
        <3> QED
            BY <3>1, <3>2 DEF IInv, Judged
    <2>3. CASE a = anchor
        BY <1>4, <2>1, <2>3
    <2> QED
        BY <2>2, <2>3
<1> QED
    BY <1>10, <1>11, <1>12, <1>13, <1>14, <1>15 DEF IInv

\* What a claim keeps when a source is withdrawn.
LEMMA KeptFields ==
    ASSUME IInv, NEW c \in Present, NEW left \in SUBSET claims[c].anchors
    PROVE  Kept(c, left) \in Claim /\ Kept(c, left).anchors = left
<1> DEFINE r == claims[c]
           weak == /\ left # r.anchors /\ r.maturity > ANCHORED
                   /\ TypeOf[c] = "fact" /\ Cardinality(IndependentSources(left)) < 2
           M == IF weak THEN CONNECTED ELSE r.maturity
<1>1. r \in Claim
    BY DEF IInv, TypeOK
<1>2. Kept(c, left) = [r EXCEPT !.anchors = left, !.maturity = M]
    BY DEF Kept
<1> HIDE DEF weak
<1>3. M \in DIGESTED .. TRAINABLE
    BY <1>1 DEF Claim, DIGESTED, CONNECTED, TRAINABLE
<1>4. left \in SUBSET Anchor
    BY <1>1 DEF Claim
<1> HIDE DEF r, M
<1>5. Kept(c, left) = [maturity |-> M, anchors |-> left, links |-> r.links,
                       contested |-> r.contested, cycles |-> r.cycles, clean |-> r.clean]
    BY <1>1, <1>2 DEF Claim
<1> QED
    BY <1>1, <1>3, <1>4, <1>5 DEF Claim

\* A source withdrawn takes its anchors and edges along.
LEMMA ForgetSourceStep ==
    ASSUME IInv, NEW s \in Sources, ForgetSource(s)
    PROVE  IInv'
<1>1. UNCHANGED <<file, digesting, policy, current, generation, affectedFor>> /\ digesting = Nobody
    BY DEF ForgetSource, manager
<1>2. events' \in 0 .. MaxEvents
    BY ParamsAssumption DEF IInv, TypeOK, ForgetSource, UserEvent
<1> DEFINE left(c) == {a \in claims[c].anchors : a.source # s}
           gone == {c \in Present : left(c) = {}}
           without == Remove(graph, SourceNode(s))
           dead == {ClaimNode(c) : c \in gone}
           marked == (without.stale \union UNION {Descendants(without, n) : n \in dead}) \ dead
           kept == {e \in without.edges : {e[1], e[2]} \cap dead = {}}
<1>3. /\ claims' = [c \in Present \ gone |-> Kept(c, left(c))]
      /\ graph' = [nodes |-> without.nodes \ dead, edges |-> kept, stale |-> marked]
      /\ sources' = [t \in DOMAIN sources \ {s} |-> sources[t]]
    BY DEF ForgetSource
<1>4. /\ claims \in [Present -> Claim] /\ Present \subseteq Claims
      /\ DOMAIN sources \subseteq Sources /\ sources \in [DOMAIN sources -> Hashes]
    BY DEF IInv, TypeOK
<1>5. ASSUME NEW c \in Present \ gone
      PROVE  /\ claims'[c] \in Claim /\ claims'[c].anchors = left(c) /\ left(c) # {}
    <2>1. left(c) \in SUBSET claims[c].anchors /\ left(c) # {}
        OBVIOUS
    <2>2. claims'[c] = Kept(c, left(c))
        BY <1>3
    <2> HIDE DEF left
    <2> QED
        BY <2>1, <2>2, KeptFields
<1>6. Present' = Present \ gone
    BY <1>3 DEF Present
<1>7. claims' \in [Present' -> Claim] /\ \A c \in Present' : claims'[c].anchors # {}
    <2>1. claims' = [c \in Present' |-> claims'[c]]
        BY <1>3, <1>6
    <2>2. \A c \in Present' : claims'[c] \in Claim /\ claims'[c].anchors # {}
        BY <1>5, <1>6
    <2> QED
        BY <2>1, <2>2
<1>8. DOMAIN sources' = DOMAIN sources \ {s} /\ sources' \in [DOMAIN sources' -> Hashes]
      /\ \A t \in DOMAIN sources' : sources'[t] = sources[t]
    BY <1>3, <1>4
<1>9. TypeOK'
    BY <1>1, <1>2, <1>4, <1>6, <1>7, <1>8 DEF IInv, TypeOK
<1>10. ASSUME NEW c \in Present'
       PROVE  \A t : t \in SourcesOf(claims'[c].anchors)
                         <=> t # s /\ t \in SourcesOf(claims[c].anchors)
    BY <1>5, <1>6 DEF SourcesOf
<1>11. Registered'
    BY <1>1, <1>6, <1>8, <1>10 DEF IInv, Registered
<1>12. ASSUME NEW c \in gone
       PROVE  \A t : t \in SourcesOf(claims[c].anchors) => t = s
    BY DEF SourcesOf
<1>13. \A c : ClaimNode(c) \in dead <=> c \in gone
    BY NodesDiffer
<1> HIDE DEF gone, left
<1>14. /\ without.edges = {e \in graph.edges : SourceNode(s) \notin {e[1], e[2]}}
       /\ without.stale = (graph.stale \union Descendants(graph, SourceNode(s))) \ {SourceNode(s)}
    BY RemoveFields
<1> HIDE DEF without, dead
<1>15. Shaped(graph') /\ graph'.edges = kept /\ graph'.stale = marked
    BY <1>3 DEF Shaped
<1>16. EdgesOfAnchors'
    <2> SUFFICES ASSUME NEW c \in Claims, NEW t \in Sources
                 PROVE  <<SourceNode(t), ClaimNode(c)>> \in kept
                            <=> c \in Present' /\ t \in SourcesOf(claims'[c].anchors)
        BY <1>15 DEF EdgesOfAnchors
    <2> DEFINE e == <<SourceNode(t), ClaimNode(c)>>
    <2>1. e \in graph.edges <=> c \in Present /\ t \in SourcesOf(claims[c].anchors)
        BY DEF IInv, EdgesOfAnchors
    <2>2. e[1] = SourceNode(t) /\ e[2] = ClaimNode(c)
        OBVIOUS
    <2>3. SourceNode(s) \in {SourceNode(t), ClaimNode(c)} <=> t = s
        BY NodesDiffer
    <2>4. {SourceNode(t), ClaimNode(c)} \cap dead = {} <=> c \notin gone
        <3>1. SourceNode(t) \notin dead
            BY NodesDiffer DEF dead
        <3> QED
            BY <3>1, <1>13
    <2> HIDE DEF e
    <2>5. e \in kept <=> e \in graph.edges /\ t # s /\ c \notin gone
        BY <1>14, <2>2, <2>3, <2>4
    <2> QED
        BY <2>1, <2>5, <1>6, <1>10 DEF e
<1>17. Fresh'
    <2> SUFFICES ASSUME NEW c \in Present', ClaimNode(c) \notin marked,
                        NEW a \in Verified(claims'[c].anchors)
                 PROVE  a.source \in DOMAIN sources' /\ a.hash = sources'[a.source]
        BY <1>15 DEF Fresh, IsStale
    <2>1. c \in Present /\ a \in claims[c].anchors /\ a.source # s /\ a.verified
        BY <1>5, <1>6 DEF Verified, left
    <2>2. ClaimNode(c) \notin graph.stale
        <3>1. ClaimNode(c) \notin dead
            BY <1>6, <1>13
        <3>2. ClaimNode(c) # SourceNode(s)
            BY NodesDiffer
        <3> QED
            BY <1>14, <3>1, <3>2
    <2>3. a.source \in DOMAIN sources /\ a.hash = sources[a.source]
        BY <2>1, <2>2 DEF IInv, Fresh, IsStale, Verified
    <2> QED
        BY <2>1, <2>3, <1>8
<1>18. Judged'
    <2> SUFFICES ASSUME NEW c \in Present', NEW a \in Verified(claims'[c].anchors)
                 PROVE  a.seen = a.hash
        BY DEF Judged
    <2>1. c \in Present /\ a \in claims[c].anchors /\ a.verified
        BY <1>5, <1>6 DEF Verified, left
    <2> QED
        BY <2>1 DEF IInv, Judged, Verified
<1> QED
    BY <1>9, <1>11, <1>15, <1>16, <1>17, <1>18 DEF IInv

-----------------------------------------------------------------------------
(* Theorems *)

\* The wiki starts empty.
LEMMA InitIInv == Init => IInv
<1> SUFFICES ASSUME Init PROVE IInv
    OBVIOUS
<1>1. Present = {} /\ DOMAIN sources = {}
    BY DEF Init, Present
<1>2. file \in [Sources -> Hashes]
    <2>1. (CHOOSE h \in Hashes : TRUE) \in Hashes
        BY ParamsAssumption
    <2> QED
        BY <2>1 DEF Init
<1>3. sources \in [DOMAIN sources -> Hashes] /\ claims \in [Present -> Claim]
    <2>1. sources = [x \in {} |-> x] /\ claims = [x \in {} |-> x]
        BY DEF Init
    <2> QED
        BY <2>1, <1>1
<1>4. generation \in 0 .. MaxGenerations /\ events \in 0 .. MaxEvents
    BY ParamsAssumption DEF Init
<1>5. TypeOK
    BY <1>1, <1>2, <1>3, <1>4 DEF Init, TypeOK
<1>6. Shaped(graph) /\ graph.edges = {}
    BY DEF Init, EmptyGraph, Shaped
<1> QED
    BY <1>1, <1>5, <1>6 DEF Init, IInv, Registered, EdgesOfAnchors, Fresh, Judged

\* Every step keeps the invariant.
LEMMA NextIInv == IInv /\ [Next]_vars => IInv'
<1> SUFFICES ASSUME IInv, [Next]_vars PROVE IInv'
    OBVIOUS
<1>1. CASE \E s \in Sources : Edit(s) \/ RegisterSource(s) \/ DigestSpan(s) \/ ForgetSource(s)
    BY <1>1, EditStep, RegisterSourceStep, DigestSpanStep, ForgetSourceStep
<1>2. CASE DigestDone
    BY <1>2, DigestDoneStep
<1>3. CASE \E c, d \in Claims : Link(c, d)
    BY <1>3, LinkStep
<1>4. CASE \E c \in Claims : Contest(c)
    BY <1>4, ContestStep
<1>5. CASE ConsolidationCycle
    BY <1>5, ConsolidationCycleStep
<1>6. CASE \E p \in Policies : SetPolicy(p) \/ Reload(p)
    BY <1>6, SetPolicyStep, ReloadStep
<1>7. CASE \E new \in SUBSET Claims \ {{}} : RunGeneration(new)
    BY <1>7, RunGenerationStep
<1>8. CASE EnforceForgetting
    BY <1>8, EnforceForgettingStep
<1>9. CASE UNCHANGED vars
    BY <1>9, AnchorsKept
    DEF vars, manager, IInv, TypeOK, Present, Shaped, Registered, EdgesOfAnchors, Fresh, Judged
<1> QED
    BY <1>1, <1>2, <1>3, <1>4, <1>5, <1>6, <1>7, <1>8, <1>9 DEF Next

\* The invariant behind the theorems below: it is inductive.
THEOREM WikiInductive == Spec => []IInv
BY InitIInv, NextIInv, PTL DEF Spec

\* The type invariant of the wiki holds in every reachable state.
THEOREM TypeCorrect == Spec => []TypeOK
<1>1. IInv => TypeOK
    BY DEF IInv
<1> QED
    BY <1>1, WikiInductive, PTL

\* The dependency graph has an edge from a source to a claim exactly when the
\* claim has an anchor in it, through every merge, withdrawal and reload.
THEOREM GraphAlwaysFollowsAnchors == Spec => []GraphFollowsAnchors
<1>1. IInv => GraphFollowsAnchors
    BY DEF IInv, Registered, EdgesOfAnchors, GraphFollowsAnchors
<1> QED
    BY <1>1, WikiInductive, PTL

\* A verified anchor of a claim that is not marked stale was judged on the
\* content its source was last registered with.
THEOREM AnchorsAlwaysFresh == Spec => []FreshAnchors
<1>1. IInv => FreshAnchors
    BY DEF IInv, Fresh, Judged, FreshAnchors
<1> QED
    BY <1>1, WikiInductive, PTL

-----------------------------------------------------------------------------
(* Maturity: what a claim counts as is backed by evidence it has, and a stale *)
(* mark is not lost                                                           *)

\* A claim that got past DIGESTED and is not stale has a verified anchor.  Only
\* what is not stale can be said to: a withdrawal leaves the maturity and marks.
EvidenceOfFresh ==
    \A c \in Present :
        claims[c].maturity > DIGESTED /\ ~IsStale(graph, ClaimNode(c))
            => Verified(claims[c].anchors) # {}

OnlyBehaviouralTrainable ==
    \A c \in Present : claims[c].maturity = TRAINABLE => Behavioural(c)

\* FactsCorroborated before what IInv adds about the anchors.
FactsVerified ==
    \A c \in Present : TypeOf[c] = "fact" /\ claims[c].maturity >= CORROBORATED =>
        Cardinality(IndependentSources(claims[c].anchors)) >= 2

EInv == FactsVerified /\ EvidenceOfFresh /\ OnlyBehaviouralTrainable

-----------------------------------------------------------------------------
(* What a step may do to a claim *)

\* It starts again, or is new.
Reset(c) == claims'[c].maturity = DIGESTED

\* It does not rise and keeps its verified anchors.
Lowered(c) ==
    /\ c \in Present
    /\ claims'[c].maturity <= claims[c].maturity
    /\ Verified(claims[c].anchors) \subseteq Verified(claims'[c].anchors)

\* It climbs over rungs that it may leave.
Climbed(c) ==
    /\ c \in Present
    /\ Verified(claims'[c].anchors) = Verified(claims[c].anchors)
    /\ \A k \in claims[c].maturity .. claims'[c].maturity - 1 :
          /\ k = DIGESTED => Verified(claims[c].anchors) # {}
          /\ k = CONNECTED /\ TypeOf[c] = "fact"
                 => Cardinality(IndependentSources(claims[c].anchors)) >= 2
          /\ k = CONSOLIDATED => Behavioural(c)

\* It loses anchors and is marked.
Weakened(c) ==
    /\ c \in Present
    /\ ClaimNode(c) \in graph'.stale
    /\ claims'[c].maturity <= claims[c].maturity
    /\ TypeOf[c] = "fact" /\ claims'[c].maturity >= CORROBORATED
           => Cardinality(IndependentSources(claims'[c].anchors)) >= 2

Change(c) == Reset(c) \/ Lowered(c) \/ Climbed(c) \/ Weakened(c)

ClaimChange(c) ==
    /\ Change(c)
    /\ c \in Present /\ ClaimNode(c) \in graph.stale => ClaimNode(c) \in graph'.stale

\* More verified anchors are no fewer independent sources.
LEMMA MoreAnchorsMoreSources ==
    ASSUME NEW old, NEW new \in SUBSET Anchor, Verified(old) \subseteq Verified(new),
           Cardinality(IndependentSources(old)) >= 2
    PROVE  Cardinality(IndependentSources(new)) >= 2
<1>1. IndependentSources(old) \subseteq IndependentSources(new)
    BY DEF IndependentSources, SourcesOf
<1>2. IndependentSources(new) \subseteq Sources
    BY DEF IndependentSources, SourcesOf, Verified, Anchor
<1> DEFINE A == IndependentSources(old)
           B == IndependentSources(new)
<1>3. IsFiniteSet(Sources)
    BY ParamsAssumption
<1> HIDE DEF A, B
<1>4. IsFiniteSet(B)
    BY <1>2, <1>3, FS_Subset DEF B
<1>5. IsFiniteSet(A) /\ Cardinality(A) <= Cardinality(B)
    BY <1>1, <1>4, FS_Subset DEF A, B
<1>6. Cardinality(A) \in Nat /\ Cardinality(B) \in Nat
    BY <1>4, <1>5, FS_CardinalityType
<1>7. Cardinality(B) >= 2
    BY <1>5, <1>6 DEF A
<1> QED
    BY <1>7 DEF B

\* Whatever a step does to the claims is one of these, so it keeps EInv.
LEMMA ChangesKeepEvidence ==
    ASSUME IInv, IInv', EInv, \A c \in Present' : ClaimChange(c)
    PROVE  EInv'
<1> SUFFICES ASSUME NEW c \in Present'
             PROVE  /\ TypeOf[c] = "fact" /\ claims'[c].maturity >= CORROBORATED
                           => Cardinality(IndependentSources(claims'[c].anchors)) >= 2
                    /\ claims'[c].maturity > DIGESTED /\ ClaimNode(c) \notin graph'.stale
                           => Verified(claims'[c].anchors) # {}
                    /\ claims'[c].maturity = TRAINABLE => Behavioural(c)
    BY DEF EInv, FactsVerified, EvidenceOfFresh, OnlyBehaviouralTrainable, IsStale
<1>1. claims'[c].maturity \in 1 .. 6 /\ claims'[c].anchors \subseteq Anchor
    BY DEF IInv, TypeOK, Claim, DIGESTED, TRAINABLE
<1>2. ClaimChange(c)
    OBVIOUS
<1>3. ASSUME c \in Present
      PROVE  /\ claims[c].maturity \in 1 .. 6
             /\ TypeOf[c] = "fact" /\ claims[c].maturity >= 4
                    => Cardinality(IndependentSources(claims[c].anchors)) >= 2
             /\ claims[c].maturity > 1 /\ ClaimNode(c) \notin graph'.stale
                    => Verified(claims[c].anchors) # {}
             /\ claims[c].maturity = 6 => Behavioural(c)
    <2>1. claims[c].maturity \in 1 .. 6
        BY <1>3 DEF IInv, TypeOK, Claim, DIGESTED, TRAINABLE
    <2> QED
        BY <1>2, <1>3, <2>1
        DEF ClaimChange, EInv, FactsVerified, EvidenceOfFresh, OnlyBehaviouralTrainable, IsStale,
            DIGESTED, CORROBORATED, TRAINABLE
<1>4. CASE Reset(c)
    BY <1>1, <1>4 DEF Reset, DIGESTED, CORROBORATED, TRAINABLE
<1>5. CASE Lowered(c)
    <2>1. /\ c \in Present /\ claims'[c].maturity <= claims[c].maturity
          /\ Verified(claims[c].anchors) \subseteq Verified(claims'[c].anchors)
        BY <1>5 DEF Lowered
    <2>2. Cardinality(IndependentSources(claims[c].anchors)) >= 2
              => Cardinality(IndependentSources(claims'[c].anchors)) >= 2
        BY <2>1, <1>1, MoreAnchorsMoreSources
    <2> QED
        BY <1>1, <1>3, <2>1, <2>2 DEF DIGESTED, CORROBORATED, TRAINABLE
<1>6. CASE Climbed(c)
    <2>1. /\ c \in Present
          /\ Verified(claims'[c].anchors) = Verified(claims[c].anchors)
          /\ IndependentSources(claims'[c].anchors) = IndependentSources(claims[c].anchors)
        BY <1>6 DEF Climbed, IndependentSources
    <2>2. \A k \in claims[c].maturity .. claims'[c].maturity - 1 :
              /\ k = 1 => Verified(claims[c].anchors) # {}
              /\ k = 3 /\ TypeOf[c] = "fact"
                     => Cardinality(IndependentSources(claims[c].anchors)) >= 2
              /\ k = 5 => Behavioural(c)
        BY <1>6 DEF Climbed, DIGESTED, CONNECTED, CONSOLIDATED
    <2>3. claims'[c].maturity > 1 /\ ClaimNode(c) \notin graph'.stale
              => Verified(claims[c].anchors) # {}
        <3>1. CASE claims[c].maturity = 1
            BY <3>1, <2>2, <1>1
        <3>2. CASE claims[c].maturity > 1
            BY <3>2, <2>1, <1>3
        <3> QED
            BY <3>1, <3>2, <2>1, <1>3
    <2>4. TypeOf[c] = "fact" /\ claims'[c].maturity >= 4
              => Cardinality(IndependentSources(claims[c].anchors)) >= 2
        <3>1. CASE claims[c].maturity <= 3
            BY <3>1, <2>1, <2>2, <1>1, <1>3
        <3>2. CASE claims[c].maturity >= 4
            BY <3>2, <2>1, <1>3
        <3> QED
            BY <3>1, <3>2, <2>1, <1>3
    <2>5. claims'[c].maturity = 6 => Behavioural(c)
        <3>1. CASE claims[c].maturity <= 5
            BY <3>1, <2>1, <2>2, <1>3
        <3>2. CASE claims[c].maturity = 6
            BY <3>2, <2>1, <1>3
        <3> QED
            BY <3>1, <3>2, <2>1, <1>3
    <2> QED
        BY <2>1, <2>3, <2>4, <2>5 DEF DIGESTED, CORROBORATED, TRAINABLE
<1>7. CASE Weakened(c)
    <2>1. /\ c \in Present /\ ClaimNode(c) \in graph'.stale
          /\ claims'[c].maturity <= claims[c].maturity
          /\ TypeOf[c] = "fact" /\ claims'[c].maturity >= CORROBORATED
                 => Cardinality(IndependentSources(claims'[c].anchors)) >= 2
        BY <1>7 DEF Weakened
    <2> QED
        BY <1>1, <1>3, <2>1 DEF DIGESTED, CORROBORATED, TRAINABLE
<1> QED
    BY <1>2, <1>4, <1>5, <1>6, <1>7 DEF ClaimChange, Change


-----------------------------------------------------------------------------
(* Marks *)

\* Only what leaves the graph loses its mark, and no claim of the wiki does.
MarksKept ==
    \E gone : /\ gone \cap graph'.nodes = {}
              /\ \A c \in Present' : ClaimNode(c) \notin gone
              /\ graph.stale \ gone \subseteq graph'.stale

\* A step that takes no mark away.
LEMMA MarksGrow ==
    ASSUME graph.stale \subseteq graph'.stale
    PROVE  MarksKept
<1> DEFINE none == {}
<1>1. none \cap graph'.nodes = {} /\ (\A c \in Present' : ClaimNode(c) \notin none)
      /\ graph.stale \ none \subseteq graph'.stale
    OBVIOUS
<1> QED
    BY <1>1 DEF MarksKept

\* Registering adds marks.
LEMMA RegisterSourceMarks ==
    ASSUME IInv, NEW s \in Sources, RegisterSource(s)
    PROVE  graph.stale \subseteq graph'.stale
<1> DEFINE known == AddNode(graph, SourceNode(s))
<1>1. graph' = IF Changed(s) THEN Invalidate(known, SourceNode(s)) ELSE known
    BY DEF RegisterSource
<1>2. known = [nodes |-> graph.nodes \union {SourceNode(s)}, edges |-> graph.edges, stale |-> graph.stale]
    BY DEF IInv, Shaped, AddNode
<1> HIDE DEF known
<1> DEFINE below == Descendants(known, SourceNode(s))
<1>3. Invalidate(known, SourceNode(s)) = [known EXCEPT !.stale = @ \union below]
    BY DEF Invalidate
<1> HIDE DEF below
<1>4. Invalidate(known, SourceNode(s)).stale = graph.stale \union below
    BY <1>2, <1>3
<1> QED
    BY <1>1, <1>2, <1>4

\* So does a change of policy.
LEMMA SetPolicyMarks ==
    ASSUME IInv, NEW p \in Policies, SetPolicy(p)
    PROVE  graph.stale \subseteq graph'.stale
<1> DEFINE more == UNION {{ClaimNode(c)} \union Descendants(graph, ClaimNode(c)) :
                              c \in {d \in Present : RuleChanged(p, d)}}
<1>1. graph' = [graph EXCEPT !.stale = @ \union more]
    BY DEF SetPolicy
<1> HIDE DEF more
<1>2. graph'.stale = graph.stale \union more
    BY <1>1 DEF IInv, Shaped
<1> QED
    BY <1>2

\* Forgetting takes marks away from what leaves the graph only.
LEMMA EnforceForgettingMarks ==
    ASSUME IInv, EnforceForgetting
    PROVE  MarksKept
<1> DEFINE n == AdapterNode(current)
<1>1. CASE graph' = graph
    BY <1>1, MarksGrow
<1>2. CASE graph' = Remove(graph, n)
    <2>1. \A c : n # ClaimNode(c)
        BY NodesDiffer
    <2> HIDE DEF n
    <2>2. /\ graph'.nodes = graph.nodes \ {n}
          /\ graph'.stale = (graph.stale \union Descendants(graph, n)) \ {n}
        BY <1>2, RemoveFields
    <2>3. {n} \cap graph'.nodes = {} /\ (\A c \in Present' : ClaimNode(c) \notin {n})
          /\ graph.stale \ {n} \subseteq graph'.stale
        BY <2>1, <2>2
    <2> QED
        BY <2>3 DEF MarksKept
<1> QED
    BY <1>1, <1>2 DEF EnforceForgetting

\* So does a withdrawal.
LEMMA ForgetSourceMarks ==
    ASSUME IInv, NEW s \in Sources, ForgetSource(s)
    PROVE  MarksKept
<1> DEFINE left(c) == {a \in claims[c].anchors : a.source # s}
           lone == {c \in Present : left(c) = {}}
           without == Remove(graph, SourceNode(s))
           dead == {ClaimNode(c) : c \in lone}
           marked == (without.stale \union UNION {Descendants(without, n) : n \in dead}) \ dead
           kept == {e \in without.edges : {e[1], e[2]} \cap dead = {}}
           gone == {SourceNode(s)} \union dead
<1>1. /\ claims' = [c \in Present \ lone |-> Kept(c, left(c))]
      /\ graph' = [nodes |-> without.nodes \ dead, edges |-> kept, stale |-> marked]
    BY DEF ForgetSource
<1>2. /\ without.nodes = graph.nodes \ {SourceNode(s)}
      /\ without.stale = (graph.stale \union Descendants(graph, SourceNode(s))) \ {SourceNode(s)}
    BY RemoveFields
<1>3. Present' = Present \ lone
    BY <1>1 DEF Present
<1>4. \A c \in Present' : ClaimNode(c) \notin gone
    BY <1>3, NodesDiffer
<1> HIDE DEF without, dead, lone
<1>5. graph'.nodes = without.nodes \ dead /\ graph'.stale = marked
    BY <1>1
<1>6. gone \cap graph'.nodes = {} /\ graph.stale \ gone \subseteq graph'.stale
    BY <1>2, <1>5
<1> QED
    BY <1>4, <1>6 DEF MarksKept

\* No step takes a mark from what stays.
LEMMA StepKeepsMarks ==
    ASSUME IInv, [Next]_vars
    PROVE  MarksKept
<1>1. CASE \E s \in Sources : Edit(s)
    BY <1>1, MarksGrow DEF Edit
<1>2. CASE \E s \in Sources : RegisterSource(s)
    BY <1>2, RegisterSourceMarks, MarksGrow
<1>3. CASE \E s \in Sources : DigestSpan(s)
    <2> PICK s \in Sources : DigestSpan(s)
        BY <1>3
    <2>1. \E c : graph' = AddEdges(graph, AnchorEdge(s, c))
        BY DEF DigestSpan
    <2>2. graph'.stale = graph.stale
        BY <2>1, AddEdgesFields DEF IInv
    <2> QED
        BY <2>2, MarksGrow
<1>4. CASE \E s \in Sources : ForgetSource(s)
    BY <1>4, ForgetSourceMarks
<1>5. CASE DigestDone \/ (\E c, d \in Claims : Link(c, d)) \/ (\E c \in Claims : Contest(c))
           \/ ConsolidationCycle
    BY <1>5, MarksGrow DEF DigestDone, Link, Contest, ConsolidationCycle
<1>6. CASE \E p \in Policies : SetPolicy(p)
    BY <1>6, SetPolicyMarks, MarksGrow
<1>7. CASE \E p \in Policies : Reload(p)
    <2>1. graph' = Loaded
        BY <1>7 DEF Reload
    <2>2. graph'.stale = graph.stale
        BY <2>1, LoadedFollowsAnchors
    <2> QED
        BY <2>2, MarksGrow
<1>8. CASE \E new \in SUBSET Claims \ {{}} : RunGeneration(new)
    <2> PICK new \in SUBSET Claims : RunGeneration(new)
        BY <1>8
    <2>1. CASE \E replayed \in SUBSET Claims, social \in SUBSET {c \in Claims : Eligible(c)} :
                   Train(new, replayed, social)
        <3>1. generation < MaxGenerations
            BY DEF RunGeneration
        <3>2. graph'.stale = graph.stale
            BY <2>1, <3>1, TrainStep
        <3> QED
            BY <3>2, MarksGrow
    <2>2. CASE graph' = graph
        BY <2>2, MarksGrow
    <2> QED
        BY <2>1, <2>2 DEF RunGeneration
<1>9. CASE EnforceForgetting
    BY <1>9, EnforceForgettingMarks
<1>10. CASE UNCHANGED vars
    BY <1>10, MarksGrow DEF vars
<1> QED
    BY <1>1, <1>2, <1>3, <1>4, <1>5, <1>6, <1>7, <1>8, <1>9, <1>10 DEF Next

-----------------------------------------------------------------------------
(* What each operation does to the claims *)

\* A claim that is left alone.
LEMMA SameClaim ==
    ASSUME IInv, NEW c \in Present, claims'[c] = claims[c]
    PROVE  Change(c)
<1>1. claims[c].maturity \in 1 .. 6
    BY DEF IInv, TypeOK, Claim, DIGESTED, TRAINABLE
<1> QED
    BY <1>1 DEF Change, Lowered

\* Registering marks claims or leaves them.
LEMMA RegisterSourceClaims ==
    ASSUME IInv, NEW s \in Sources, RegisterSource(s)
    PROVE  \A c \in Present' : Change(c)
<1> DEFINE lost == IF Changed(s) THEN Newly(AddNode(graph, SourceNode(s)), SourceNode(s)) ELSE {}
<1>1. claims' = [c \in Present |-> IF ClaimNode(c) \in lost THEN AnchorLost(claims[c]) ELSE claims[c]]
    BY DEF RegisterSource
<1> HIDE DEF lost
<1>2. Present' = Present
    BY <1>1 DEF Present
<1> SUFFICES ASSUME NEW c \in Present PROVE Change(c)
    BY <1>2
<1>3. CASE ClaimNode(c) \in lost
    <2>1. claims'[c] = AnchorLost(claims[c]) /\ claims[c] \in Claim
        BY <1>1, <1>3 DEF IInv, TypeOK
    <2>2. claims'[c].maturity = DIGESTED
        BY <2>1, AnchorLostFields
    <2> QED
        BY <2>2 DEF Change, Reset
<1>4. CASE ClaimNode(c) \notin lost
    <2>1. claims'[c] = claims[c]
        BY <1>1, <1>4
    <2> QED
        BY <2>1, SameClaim
<1> QED
    BY <1>3, <1>4

\* A digestion starts a claim again, or adds an anchor to it.
LEMMA DigestSpanClaims ==
    ASSUME IInv, NEW s \in Sources, DigestSpan(s)
    PROVE  \A c \in Present' : Change(c)
<1>1. PICK c \in Claims : \E anchor :
          claims' = [d \in Present \union {c} |->
                       IF d # c THEN claims[d]
                       ELSE IF c \in Present THEN Merged(claims[c], anchor)
                       ELSE NewClaim(anchor)]
    BY DEF DigestSpan
<1>1a. PICK anchor :
          claims' = [d \in Present \union {c} |->
                       IF d # c THEN claims[d]
                       ELSE IF c \in Present THEN Merged(claims[c], anchor)
                       ELSE NewClaim(anchor)]
    BY <1>1
<1>2. Present' = Present \union {c}
    BY <1>1a DEF Present
<1> SUFFICES ASSUME NEW d \in Present \union {c} PROVE Change(d)
    BY <1>2
<1>3. CASE d # c
    <2>1. d \in Present /\ claims'[d] = claims[d]
        BY <1>1a, <1>3
    <2> QED
        BY <2>1, SameClaim
<1>4. CASE d = c /\ c \notin Present
    <2>1. claims'[d] = NewClaim(anchor)
        BY <1>1a, <1>4
    <2> QED
        BY <2>1 DEF NewClaim, Change, Reset
<1>5. CASE d = c /\ c \in Present
    <2> DEFINE old == claims[c]
    <2>1. claims'[d] = Merged(old, anchor)
        BY <1>1a, <1>5
    <2>2. old \in Claim /\ old.maturity \in 1 .. 6
        BY <1>5 DEF IInv, TypeOK, Claim, DIGESTED, TRAINABLE
    <2> HIDE DEF old
    <2> DEFINE wide == old.anchors \union {anchor}
    <2>3. Merged(old, anchor) = old \/ Merged(old, anchor) = [old EXCEPT !.anchors = wide]
        BY DEF Merged
    <2> HIDE DEF wide
    <2>4. \/ Merged(old, anchor) = old
          \/ Merged(old, anchor).maturity = old.maturity /\ Merged(old, anchor).anchors = wide
        BY <2>2, <2>3 DEF Claim
    <2>5. Verified(old.anchors) \subseteq Verified(wide)
        BY DEF Verified, wide
    <2>6. claims'[d].maturity = old.maturity
          /\ Verified(old.anchors) \subseteq Verified(claims'[d].anchors)
        BY <2>1, <2>4, <2>5
    <2>7. claims'[d].maturity <= old.maturity
        BY <2>2, <2>6
    <2> QED
        BY <1>5, <2>6, <2>7 DEF Change, Lowered, old
<1> QED
    BY <1>3, <1>4, <1>5

\* A link is written to two claims and changes nothing else of them.
LEMMA LinkClaims ==
    ASSUME IInv, NEW c \in Claims, NEW d \in Claims, Link(c, d)
    PROVE  \A b \in Present' : Change(b)
<1>1. /\ claims' = [claims EXCEPT ![c].links = @ \union {d}, ![d].links = @ \union {c}]
      /\ claims \in [Present -> Claim] /\ c \in Present /\ d \in Present /\ c # d
    BY DEF Link, IInv, TypeOK
<1>2. Present' = Present
    BY <1>1 DEF Present
<1> SUFFICES ASSUME NEW b \in Present PROVE Change(b)
    BY <1>2
<1>3. claims[b] \in Claim /\ claims[b].maturity \in 1 .. 6
    BY <1>1 DEF Claim, DIGESTED, TRAINABLE
<1>4. claims'[b].maturity = claims[b].maturity /\ claims'[b].anchors = claims[b].anchors
    <2>1. \/ claims'[b] = claims[b]
          \/ \E x : claims'[b] = [claims[b] EXCEPT !.links = x]
        <3>1. CASE b = c
            BY <3>1, <1>1
        <3>2. CASE b = d
            BY <3>2, <1>1
        <3>3. CASE b # c /\ b # d
            BY <3>3, <1>1
        <3> QED
            BY <3>1, <3>2, <3>3
    <2> QED
        BY <2>1, <1>3 DEF Claim
<1> QED
    BY <1>3, <1>4 DEF Change, Lowered

\* A contest lowers one claim.
LEMMA ContestClaims ==
    ASSUME IInv, NEW c \in Claims, Contest(c)
    PROVE  \A b \in Present' : Change(b)
<1>1. /\ claims' = [claims EXCEPT ![c] = Contradiction(claims[c])]
      /\ claims \in [Present -> Claim] /\ c \in Present
    BY DEF Contest, IInv, TypeOK
<1>2. Present' = Present
    BY <1>1 DEF Present
<1> SUFFICES ASSUME NEW b \in Present PROVE Change(b)
    BY <1>2
<1>3. CASE b # c
    <2>1. claims'[b] = claims[b]
        BY <1>1, <1>3
    <2> QED
        BY <2>1, SameClaim
<1>4. CASE b = c
    <2> DEFINE r == claims[c]
               M == IF r.maturity > CONNECTED THEN CONNECTED ELSE r.maturity
    <2>1. r \in Claim
        BY <1>1
    <2>2. M <= r.maturity
        BY <2>1 DEF Claim, DIGESTED, CONNECTED, TRAINABLE
    <2>3. Contradiction(r) = [r EXCEPT !.maturity = M, !.contested = TRUE, !.clean = 0]
        BY DEF Contradiction
    <2> HIDE DEF r, M
    <2>4. Contradiction(r) = [maturity |-> M, anchors |-> r.anchors, links |-> r.links,
                              contested |-> TRUE, cycles |-> r.cycles, clean |-> 0]
        BY <2>1, <2>3 DEF Claim
    <2>5. claims'[b] = Contradiction(r)
        BY <1>1, <1>4 DEF r
    <2>6. claims'[b].maturity = M /\ claims'[b].anchors = r.anchors
        BY <2>4, <2>5
    <2> QED
        BY <1>4, <2>2, <2>6 DEF Change, Lowered, r
<1> QED
    BY <1>3, <1>4

\* A change of policy marks claims or leaves them.
LEMMA SetPolicyClaims ==
    ASSUME IInv, NEW p \in Policies, SetPolicy(p)
    PROVE  \A c \in Present' : Change(c)
<1> DEFINE Low(c) == /\ c \in {d \in Present : RuleChanged(p, d)} /\ claims[c].maturity = TRAINABLE
                     /\ ~PolicyAllows(p, c, claims[c].anchors)
<1>1. claims' = [c \in Present |->
                   IF Low(c) THEN [claims[c] EXCEPT !.maturity = CONSOLIDATED] ELSE claims[c]]
    BY DEF SetPolicy
<1>2. Present' = Present
    BY <1>1 DEF Present
<1> SUFFICES ASSUME NEW c \in Present PROVE Change(c)
    BY <1>2
<1>3. CASE Low(c)
    <2>1. claims[c].maturity = TRAINABLE
        BY <1>3
    <2> HIDE DEF Low
    <2>2. claims'[c] = [claims[c] EXCEPT !.maturity = CONSOLIDATED] /\ claims[c] \in Claim
        BY <1>1, <1>3 DEF IInv, TypeOK
    <2>3. claims'[c].maturity = CONSOLIDATED /\ claims'[c].anchors = claims[c].anchors
        BY <2>2 DEF Claim
    <2> QED
        BY <2>1, <2>3 DEF Change, Lowered, CONSOLIDATED, TRAINABLE
<1>4. CASE ~Low(c)
    <2> HIDE DEF Low
    <2>1. claims'[c] = claims[c]
        BY <1>1, <1>4
    <2> QED
        BY <2>1, SameClaim
<1> QED
    BY <1>3, <1>4

\* A consolidation raises a claim over rungs whose conditions hold.
LEMMA ConsolidationCycleClaims ==
    ASSUME IInv, ConsolidationCycle
    PROVE  \A c \in Present' : Change(c)
<1> DEFINE N(c) ==
        IF Behavioural(c) /\ Verified(claims[c].anchors) # {} /\ claims[c].cycles < StabilityCycles
        THEN claims[c].cycles + 1 ELSE claims[c].cycles
    K(c) == IF ~claims[c].contested /\ claims[c].maturity >= CORROBORATED THEN 1 ELSE claims[c].clean
    Seen(c) == [claims[c] EXCEPT !.cycles = N(c), !.clean = K(c)]
    New(c) == [Seen(c) EXCEPT !.maturity = Advanced(c, Seen(c))]
<1>1. claims' = [c \in Present |-> New(c)]
    BY DEF ConsolidationCycle
<1>2. Present' = Present
    BY <1>1 DEF Present
<1> SUFFICES ASSUME NEW c \in Present PROVE Change(c)
    BY <1>2
<1>3. claims[c] \in Claim
    BY DEF IInv, TypeOK
<1>4. N(c) \in 0 .. StabilityCycles /\ K(c) \in 0 .. 1
    BY <1>3, ParamsAssumption DEF Claim
<1>5. claims'[c] = New(c)
    BY <1>1
<1> HIDE DEF N, K
<1>6. Seen(c) = [maturity |-> claims[c].maturity, anchors |-> claims[c].anchors,
                 links |-> claims[c].links, contested |-> claims[c].contested,
                 cycles |-> N(c), clean |-> K(c)]
    BY <1>3, CountersFields
<1>7. Seen(c) \in Claim
    BY <1>3, <1>4, <1>6 DEF Claim
<1>8. Seen(c).maturity = claims[c].maturity /\ Seen(c).anchors = claims[c].anchors
    BY <1>6
<1> HIDE DEF Seen
<1> DEFINE m == Advanced(c, Seen(c))
<1>9. m \in DIGESTED .. TRAINABLE /\ \A k \in Seen(c).maturity .. m - 1 : MayLeave(c, Seen(c), k)
    BY <1>7, AdvancedStops
<1> HIDE DEF m
<1>10. claims'[c].maturity = m /\ claims'[c].anchors = claims[c].anchors
    BY <1>5, <1>7, <1>8 DEF Claim, m
<1>11. ASSUME NEW k \in claims[c].maturity .. m - 1
       PROVE  /\ k = DIGESTED => Verified(claims[c].anchors) # {}
              /\ k = CONNECTED /\ TypeOf[c] = "fact"
                     => Cardinality(IndependentSources(claims[c].anchors)) >= 2
              /\ k = CONSOLIDATED => Behavioural(c)
    <2>1. MayLeave(c, Seen(c), k)
        BY <1>8, <1>9
    <2>2. TypeOf[c] = "fact" => ~Behavioural(c)
        BY DEF Behavioural
    <2> QED
        BY <2>1, <2>2, <1>8
        DEF MayLeave, PolicyAllows, DIGESTED, ANCHORED, CONNECTED, CORROBORATED, CONSOLIDATED
<1>12. Climbed(c)
    BY <1>10, <1>11 DEF Climbed
<1> QED
    BY <1>12 DEF Change

\* A withdrawal takes anchors and lowers what depended on them.
LEMMA ForgetSourceClaims ==
    ASSUME IInv, NEW s \in Sources, ForgetSource(s)
    PROVE  \A c \in Present' : Change(c)
<1> DEFINE left(c) == {a \in claims[c].anchors : a.source # s}
           gone == {c \in Present : left(c) = {}}
           without == Remove(graph, SourceNode(s))
           dead == {ClaimNode(c) : c \in gone}
           marked == (without.stale \union UNION {Descendants(without, n) : n \in dead}) \ dead
           kept == {e \in without.edges : {e[1], e[2]} \cap dead = {}}
<1>1. /\ claims' = [c \in Present \ gone |-> Kept(c, left(c))]
      /\ graph' = [nodes |-> without.nodes \ dead, edges |-> kept, stale |-> marked]
    BY DEF ForgetSource
<1>2. Present' = Present \ gone
    BY <1>1 DEF Present
<1> SUFFICES ASSUME NEW c \in Present \ gone PROVE Change(c)
    BY <1>2
<1> DEFINE r == claims[c]
           rest == left(c)
           weak == /\ rest # r.anchors /\ r.maturity > ANCHORED
                   /\ TypeOf[c] = "fact" /\ Cardinality(IndependentSources(rest)) < 2
           M == IF weak THEN CONNECTED ELSE r.maturity
<1>3. claims'[c] = Kept(c, rest)
    BY <1>1
<1>4. r \in Claim /\ r.maturity \in 1 .. 6
    BY DEF IInv, TypeOK, Claim, DIGESTED, TRAINABLE
<1>5. claims'[c] = [r EXCEPT !.anchors = rest, !.maturity = M]
    BY <1>3 DEF Kept
<1> HIDE DEF weak, left
<1>6. M = IF weak THEN CONNECTED ELSE r.maturity
    OBVIOUS
<1>6a. M <= r.maturity
    <2>1. CASE weak
        <3>1. r.maturity > ANCHORED
            BY <2>1 DEF weak
        <3> QED
            BY <2>1, <3>1, <1>4 DEF ANCHORED, CONNECTED
    <2>2. CASE ~weak
        BY <2>2, <1>4
    <2> QED
        BY <2>1, <2>2
<1> HIDE DEF M
<1>7. claims'[c].maturity = M /\ claims'[c].anchors = rest
    BY <1>4, <1>5 DEF Claim
<1>8. CASE rest = r.anchors
    BY <1>6a, <1>7, <1>8 DEF Change, Lowered
<1>9. CASE rest # r.anchors
    <2>1. s \in SourcesOf(r.anchors)
        BY <1>9 DEF left, SourcesOf
    <2>2. ClaimNode(c) \in Descendants(graph, SourceNode(s))
        BY <2>1, AnchoredDescends
    <2>3. ClaimNode(c) # SourceNode(s) /\ ClaimNode(c) \notin dead
        BY NodesDiffer
    <2>4. without.stale = (graph.stale \union Descendants(graph, SourceNode(s))) \ {SourceNode(s)}
        BY RemoveFields
    <2> HIDE DEF without, dead
    <2>5. ClaimNode(c) \in graph'.stale
        <3>1. graph'.stale = marked
            BY <1>1
        <3> QED
            BY <3>1, <2>2, <2>3, <2>4
    <2>6. ASSUME TypeOf[c] = "fact", M >= CORROBORATED
          PROVE  Cardinality(IndependentSources(rest)) >= 2
        <3>1. ~weak /\ r.maturity >= CORROBORATED
            BY <2>6, <1>6, <1>4 DEF CONNECTED, CORROBORATED
        <3>2. r.maturity > ANCHORED
            BY <3>1, <1>4 DEF ANCHORED, CORROBORATED
        <3>3. ~(Cardinality(IndependentSources(rest)) < 2)
            BY <3>1, <3>2, <1>9, <2>6 DEF weak
        <3>4. Cardinality(IndependentSources(rest)) \in Nat
            <4> DEFINE B == IndependentSources(rest)
            <4>1. rest \subseteq Anchor
                BY <1>4 DEF left, Claim
            <4>2. B \subseteq Sources
                BY <4>1 DEF IndependentSources, SourcesOf, Verified, Anchor
            <4>3. IsFiniteSet(Sources)
                BY ParamsAssumption
            <4> HIDE DEF B
            <4>4. Cardinality(B) \in Nat
                BY <4>2, <4>3, FS_Subset, FS_CardinalityType
            <4> QED
                BY <4>4 DEF B
        <3> QED
            BY <3>3, <3>4
    <2>7. Weakened(c)
        BY <1>6a, <1>7, <2>5, <2>6 DEF Weakened
    <2> QED
        BY <2>7 DEF Change
<1> QED
    BY <1>8, <1>9

\* Nothing else happens to a claim.
LEMMA StepChangesClaims ==
    ASSUME IInv, [Next]_vars
    PROVE  \A c \in Present' : ClaimChange(c)
<1>1. \A c \in Present' : Change(c)
    <2>0. ASSUME claims' = claims PROVE \A c \in Present' : Change(c)
        <3>1. Present' = Present
            BY <2>0 DEF Present
        <3>2. ASSUME NEW c \in Present PROVE Change(c)
            BY <2>0, SameClaim
        <3> QED
            BY <3>1, <3>2
    <2>1. CASE \E s \in Sources : Edit(s)
        BY <2>0, <2>1 DEF Edit
    <2>2. CASE \E s \in Sources : RegisterSource(s)
        BY <2>2, RegisterSourceClaims
    <2>3. CASE \E s \in Sources : DigestSpan(s)
        BY <2>3, DigestSpanClaims
    <2>4. CASE \E s \in Sources : ForgetSource(s)
        BY <2>4, ForgetSourceClaims
    <2>5. CASE \E c, d \in Claims : Link(c, d)
        BY <2>5, LinkClaims
    <2>6. CASE \E c \in Claims : Contest(c)
        BY <2>6, ContestClaims
    <2>7. CASE ConsolidationCycle
        BY <2>7, ConsolidationCycleClaims
    <2>8. CASE \E p \in Policies : SetPolicy(p)
        BY <2>8, SetPolicyClaims
    <2>9. CASE \/ DigestDone \/ (\E p \in Policies : Reload(p))
               \/ (\E new \in SUBSET Claims \ {{}} : RunGeneration(new))
               \/ EnforceForgetting \/ UNCHANGED vars
        BY <2>0, <2>9 DEF DigestDone, Reload, RunGeneration, EnforceForgetting, vars
    <2> QED
        BY <2>1, <2>2, <2>3, <2>4, <2>5, <2>6, <2>7, <2>8, <2>9 DEF Next
<1>2. MarksKept
    BY StepKeepsMarks
<1> QED
    BY <1>1, <1>2 DEF ClaimChange, MarksKept

-----------------------------------------------------------------------------
(* Theorems *)

\* There is no claim without evidence.
LEMMA InitEInv == Init => EInv
<1>1. Init => Present = {}
    BY DEF Init, Present
<1> QED
    BY <1>1 DEF EInv, FactsVerified, EvidenceOfFresh, OnlyBehaviouralTrainable

\* The invariant behind the theorems below: it is inductive on top of IInv.
THEOREM EvidenceInductive == Spec => []EInv
<1>1. IInv /\ IInv' /\ EInv /\ [Next]_vars => EInv'
    BY StepChangesClaims, ChangesKeepEvidence
<1> QED
    BY <1>1, InitEInv, WikiInductive, PTL DEF Spec

\* A verified anchor supports its claim as Supporters asks.
LEMMA VerifiedSupport ==
    ASSUME IInv, NEW c \in Present
    PROVE  Supporters(c) = IndependentSources(claims[c].anchors)
<1> DEFINE held == {a \in Verified(claims[c].anchors) :
               /\ a.seen = a.hash
               /\ IsStale(graph, ClaimNode(c)) \/ (a.source \in DOMAIN sources /\ a.hash = sources[a.source])}
<1>1. held = Verified(claims[c].anchors)
    BY DEF IInv, Judged, Fresh
<1>2. Supporters(c) = SourcesOf(held)
    BY DEF Supporters
<1> HIDE DEF held
<1> QED
    BY <1>1, <1>2 DEF IndependentSources

\* A fact that counts as corroborated has two sources that supported it and that,
\* unless it is marked stale, are still registered with the text that does.
THEOREM FactsAlwaysCorroborated == Spec => []FactsCorroborated
<1>1. IInv /\ EInv => FactsCorroborated
    <2> SUFFICES ASSUME IInv, EInv, NEW c \in Present, TypeOf[c] = "fact",
                        claims[c].maturity >= CORROBORATED
                 PROVE  Cardinality(Supporters(c)) >= 2
        BY DEF FactsCorroborated
    <2> QED
        BY VerifiedSupport DEF EInv, FactsVerified
<1> QED
    BY <1>1, EvidenceInductive, WikiInductive, PTL

\* What may be trained on rests on verified evidence and may be learned.
THEOREM TrainableAlwaysHasEvidence == Spec => []TrainableHasEvidence
<1>1. EInv => TrainableHasEvidence
    <2> SUFFICES ASSUME EInv, NEW c \in Trainable
                 PROVE  Behavioural(c) /\ Verified(claims[c].anchors) # {}
        BY DEF TrainableHasEvidence
    <2>1. c \in Present /\ claims[c].maturity = TRAINABLE /\ ~IsStale(graph, ClaimNode(c))
        BY DEF Trainable
    <2>2. claims[c].maturity > DIGESTED
        BY <2>1 DEF DIGESTED, TRAINABLE
    <2> QED
        BY <2>1, <2>2 DEF EInv, EvidenceOfFresh, OnlyBehaviouralTrainable
<1> QED
    BY <1>1, EvidenceInductive, PTL

\* A stale node that stays in the graph stays stale.
THEOREM MarksNeverLost == Spec => MarksStay
<1>1. IInv /\ [Next]_vars
          => [\A n \in graph.stale : n \in graph.nodes \cap graph'.nodes => n \in graph'.stale]_vars
    <2> SUFFICES ASSUME IInv, [Next]_vars, NEW n \in graph.stale, n \in graph'.nodes
                 PROVE  n \in graph'.stale
        OBVIOUS
    <2>1. MarksKept
        BY StepKeepsMarks
    <2> QED
        BY <2>1 DEF MarksKept
<1> QED
    BY <1>1, WikiInductive, PTL DEF Spec, MarksStay

-----------------------------------------------------------------------------
(* The adapter in use: unless it is marked affected, everything it was trained *)
(* on is as it was                                                             *)

\* The kinds of edges there are: a source to a claim, a claim to an example, an
\* example to an adapter.
Leveled(edges) ==
    \A e \in edges :
        \/ \E s \in Sources, c \in Claims : e = <<SourceNode(s), ClaimNode(c)>>
        \/ \E c \in Claims : e = <<ClaimNode(c), ExampleNode(c)>>
        \/ \E c \in Claims : \E a : e = <<ExampleNode(c), AdapterNode(a)>>

LInv == Leveled(graph.edges)

\* A child is never a source, and a child that is a claim hangs on a source.
LEMMA ClaimChildren ==
    ASSUME NEW g, Leveled(g.edges), NEW ns, NEW m \in Children(g, ns)
    PROVE  /\ \A s : m # SourceNode(s)
           /\ \A c : m = ClaimNode(c) =>
                 \E s \in Sources : /\ SourceNode(s) \in ns /\ c \in Claims
                                    /\ <<SourceNode(s), ClaimNode(c)>> \in g.edges
<1>1. PICK e \in g.edges : e[1] \in ns /\ e[2] = m
    BY DEF Children
<1>2. CASE \E s \in Sources, c \in Claims : e = <<SourceNode(s), ClaimNode(c)>>
    BY <1>1, <1>2, NodesDiffer
<1>3. CASE \E c \in Claims : e = <<ClaimNode(c), ExampleNode(c)>>
    BY <1>1, <1>3, NodesDiffer
<1>4. CASE \E c \in Claims : \E a : e = <<ExampleNode(c), AdapterNode(a)>>
    BY <1>1, <1>4, NodesDiffer
<1> QED
    BY <1>2, <1>3, <1>4 DEF Leveled

\* A claim that descends from a node is a child of it, and the node is a source.
LEMMA ClaimsDescend ==
    ASSUME NEW g, Leveled(g.edges), NEW n, NEW c, ClaimNode(c) \in Descendants(g, n)
    PROVE  \E s \in Sources : /\ n = SourceNode(s) /\ c \in Claims
                              /\ <<SourceNode(s), ClaimNode(c)>> \in g.edges
<1> DEFINE first == Children(g, {n})
           second == Children(g, first)
           third == Children(g, second)
<1>1. \A s : SourceNode(s) \notin first /\ SourceNode(s) \notin second
    BY ClaimChildren
<1>2. ClaimNode(c) \notin second
    <2> SUFFICES ASSUME ClaimNode(c) \in second PROVE FALSE
        OBVIOUS
    <2> HIDE DEF first
    <2>1. \E s \in Sources : SourceNode(s) \in first
        BY ClaimChildren
    <2> QED
        BY <1>1, <2>1
<1>3. ClaimNode(c) \notin third
    <2> SUFFICES ASSUME ClaimNode(c) \in third PROVE FALSE
        OBVIOUS
    <2> HIDE DEF second
    <2>1. \E s \in Sources : SourceNode(s) \in second
        BY ClaimChildren
    <2> QED
        BY <1>1, <2>1
<1>4. Descendants(g, n) = first \union second \union third
    BY DEF Descendants
<1> HIDE DEF second, third
<1>5. ClaimNode(c) \in first
    BY <1>2, <1>3, <1>4
<1> QED
    BY <1>5, ClaimChildren

\* The edges of a digestion, of a load and of a training are of these kinds.
LEMMA NewEdgesLeveled ==
    ASSUME IInv
    PROVE  /\ \A s \in Sources, c \in Claims : Leveled(AnchorEdge(s, c))
           /\ \A own \in SUBSET Claims : \A a : Leveled(TrainingEdges(own, a))
           /\ Leveled(LoadedEdges)
<1>1. ASSUME NEW s \in Sources, NEW c \in Claims PROVE Leveled(AnchorEdge(s, c))
    BY DEF Leveled, AnchorEdge
<1>2. ASSUME NEW own \in SUBSET Claims, NEW a PROVE Leveled(TrainingEdges(own, a))
    <2> SUFFICES ASSUME NEW e \in TrainingEdges(own, a)
                 PROVE  \/ \E c \in Claims : e = <<ClaimNode(c), ExampleNode(c)>>
                        \/ \E c \in Claims : \E b : e = <<ExampleNode(c), AdapterNode(b)>>
        BY DEF Leveled
    <2>1. PICK c \in own : e = <<ClaimNode(c), ExampleNode(c)>> \/ e = <<ExampleNode(c), AdapterNode(a)>>
        BY DEF TrainingEdges
    <2> QED
        BY <2>1
<1>3. Leveled(LoadedEdges)
    <2> SUFFICES ASSUME NEW e \in LoadedEdges
                 PROVE  \E s \in Sources, c \in Claims : e = <<SourceNode(s), ClaimNode(c)>>
        BY DEF Leveled
    <2>1. PICK c \in Present : e \in {<<SourceNode(a.source), ClaimNode(c)>> : a \in claims[c].anchors}
        BY DEF LoadedEdges
    <2>2. PICK a \in claims[c].anchors : e = <<SourceNode(a.source), ClaimNode(c)>>
        BY <2>1
    <2>3. c \in Claims /\ claims[c] \in Claim
        BY DEF IInv, TypeOK
    <2>4. a.source \in Sources
        BY <2>3 DEF Claim, Anchor
    <2> QED
        BY <2>2, <2>3, <2>4
<1> QED
    BY <1>1, <1>2, <1>3

\* Edges of other kinds never come.
LEMMA StepLeveled == IInv /\ LInv /\ [Next]_vars => LInv'
<1> SUFFICES ASSUME IInv, Leveled(graph.edges), [Next]_vars PROVE Leveled(graph'.edges)
    BY DEF LInv
<1>1. ASSUME graph'.edges \subseteq graph.edges PROVE Leveled(graph'.edges)
    BY <1>1 DEF Leveled
<1>2. ASSUME NEW es, Leveled(es), graph' = AddEdges(graph, es) PROVE Leveled(graph'.edges)
    <2>1. graph'.edges = graph.edges \union es
        BY <1>2, AddEdgesFields DEF IInv
    <2> QED
        BY <1>2, <2>1 DEF Leveled
<1>3. CASE \E s \in Sources : RegisterSource(s)
    <2> PICK s \in Sources : RegisterSource(s)
        BY <1>3
    <2> DEFINE known == AddNode(graph, SourceNode(s))
    <2>1. known = [nodes |-> graph.nodes \union {SourceNode(s)}, edges |-> graph.edges, stale |-> graph.stale]
        BY DEF IInv, Shaped, AddNode
    <2>2. graph' = IF Changed(s) THEN Invalidate(known, SourceNode(s)) ELSE known
        BY DEF RegisterSource
    <2> HIDE DEF known
    <2>3. Invalidate(known, SourceNode(s)).edges = known.edges
        BY <2>1 DEF Invalidate
    <2> QED
        BY <1>1, <2>1, <2>2, <2>3
<1>4. CASE \E s \in Sources : DigestSpan(s)
    <2>1. \E s \in Sources, c \in Claims : graph' = AddEdges(graph, AnchorEdge(s, c))
        BY <1>4 DEF DigestSpan
    <2> QED
        BY <1>2, <2>1, NewEdgesLeveled
<1>5. CASE \E s \in Sources : ForgetSource(s)
    <2> PICK s \in Sources : ForgetSource(s)
        BY <1>5
    <2> DEFINE without == Remove(graph, SourceNode(s))
    <2>1. without.edges \subseteq graph.edges
        BY RemoveFields
    <2>2. graph'.edges \subseteq without.edges
        BY DEF ForgetSource
    <2> QED
        BY <1>1, <2>1, <2>2
<1>6. CASE \E p \in Policies : SetPolicy(p)
    <2>1. \E more : graph' = [graph EXCEPT !.stale = @ \union more]
        BY <1>6 DEF SetPolicy
    <2>2. graph'.edges = graph.edges
        BY <2>1 DEF IInv, Shaped
    <2> QED
        BY <1>1, <2>2
<1>7. CASE \E p \in Policies : Reload(p)
    BY <1>7, LoadedFollowsAnchors, NewEdgesLeveled DEF Reload
<1>8. CASE \E new \in SUBSET Claims \ {{}} : RunGeneration(new)
    <2> PICK new \in SUBSET Claims : RunGeneration(new)
        BY <1>8
    <2>1. CASE graph' = graph
        BY <1>1, <2>1
    <2>2. CASE \E replayed \in SUBSET Claims, social \in SUBSET {c \in Claims : Eligible(c)} :
                   Train(new, replayed, social)
        <3>1. \E own \in SUBSET Claims : \E a : graph' = AddEdges(graph, TrainingEdges(own, a))
            BY <2>2 DEF Train
        <3> QED
            BY <1>2, <3>1, NewEdgesLeveled
    <2> QED
        BY <2>1, <2>2 DEF RunGeneration
<1>9. CASE EnforceForgetting
    <2>1. graph' = graph \/ graph' = Remove(graph, AdapterNode(current))
        BY <1>9 DEF EnforceForgetting
    <2> QED
        BY <1>1, <2>1, RemoveFields
<1>10. CASE UNCHANGED graph
    BY <1>1, <1>10
<1> QED
    BY <1>3, <1>4, <1>5, <1>6, <1>7, <1>8, <1>9, <1>10
    DEF Next, vars, manager, Edit, DigestDone, Link, Contest, ConsolidationCycle

\* The path from a claim to the adapter that learned it.
Path(c) ==
    /\ <<ClaimNode(c), ExampleNode(c)>> \in graph.edges
    /\ <<ExampleNode(c), AdapterNode(current)>> \in graph.edges

\* What the adapter in use learned is still there and not stale, rests on what it
\* rested on, and is joined to the adapter in the dependency graph.
Learned ==
    /\ \A c \in current.claims : c \in Present /\ Path(c) /\ ClaimNode(c) \notin graph.stale
    /\ \A b \in current.basis :
          /\ b[1] \in DOMAIN sources /\ sources[b[1]] = b[2] /\ policy[b[1]] = b[3]
          /\ \E c \in current.claims : b[1] \in SourcesOf(claims[c].anchors)

AInv == current # Nobody /\ ~Affected => Learned

\* What depends on a claim through an example, and on a source through a claim.
LEMMA TwoStepsDescend ==
    ASSUME NEW g, NEW l, NEW m, NEW n, <<l, m>> \in g.edges, <<m, n>> \in g.edges
    PROVE  n \in Descendants(g, l)
<1> DEFINE first == Children(g, {l})
           second == Children(g, first)
<1>1. m \in first
    <2>1. <<l, m>> \in {f \in g.edges : f[1] \in {l}} /\ <<l, m>>[2] = m
        OBVIOUS
    <2> QED
        BY <2>1 DEF Children
<1>2. n \in second
    <2> HIDE DEF first
    <2>1. <<m, n>> \in {f \in g.edges : f[1] \in first} /\ <<m, n>>[2] = n
        BY <1>1
    <2> QED
        BY <2>1 DEF Children
<1>3. Descendants(g, l) = first \union second \union Children(g, second)
    BY DEF Descendants
<1> HIDE DEF first, second
<1> QED
    BY <1>2, <1>3

\* Three edges reach a descendant.
LEMMA ThreeStepsDescend ==
    ASSUME NEW g, NEW k, NEW l, NEW m, NEW n,
           <<k, l>> \in g.edges, <<l, m>> \in g.edges, <<m, n>> \in g.edges
    PROVE  n \in Descendants(g, k)
<1> DEFINE first == Children(g, {k})
           second == Children(g, first)
           third == Children(g, second)
<1>1. l \in first
    <2>1. <<k, l>> \in {f \in g.edges : f[1] \in {k}} /\ <<k, l>>[2] = l
        OBVIOUS
    <2> QED
        BY <2>1 DEF Children
<1>2. m \in second
    <2> HIDE DEF first
    <2>1. <<l, m>> \in {f \in g.edges : f[1] \in first} /\ <<l, m>>[2] = m
        BY <1>1
    <2> QED
        BY <2>1 DEF Children
<1>3. n \in third
    <2> HIDE DEF second
    <2>1. <<m, n>> \in {f \in g.edges : f[1] \in second} /\ <<m, n>>[2] = n
        BY <1>2
    <2> QED
        BY <2>1 DEF Children
<1>4. Descendants(g, k) = first \union second \union third
    BY DEF Descendants
<1> HIDE DEF first, second, third
<1> QED
    BY <1>3, <1>4

\* What the adapter learned from a claim, or from a source, descends from it.
LEMMA AdapterDescends ==
    ASSUME IInv, NEW c \in Present, Path(c), NEW g, g.edges = graph.edges
    PROVE  /\ AdapterNode(current) \in Descendants(g, ClaimNode(c))
           /\ \A s \in SourcesOf(claims[c].anchors) :
                 AdapterNode(current) \in Descendants(g, SourceNode(s))
<1>1. AdapterNode(current) \in Descendants(g, ClaimNode(c))
    BY TwoStepsDescend DEF Path
<1>2. ASSUME NEW s \in SourcesOf(claims[c].anchors)
      PROVE  AdapterNode(current) \in Descendants(g, SourceNode(s))
    <2>1. s \in Sources /\ c \in Claims
        BY DEF IInv, TypeOK, Registered
    <2>2. <<SourceNode(s), ClaimNode(c)>> \in g.edges
        BY <2>1 DEF IInv, EdgesOfAnchors
    <2>3. <<ClaimNode(c), ExampleNode(c)>> \in g.edges
          /\ <<ExampleNode(c), AdapterNode(current)>> \in g.edges
        BY DEF Path
    <2> QED
        BY <2>2, <2>3, ThreeStepsDescend
<1> QED
    BY <1>1, <1>2

\* A mark that reaches a claim from a source reaches what was learned from it.
LEMMA MarkedTogether ==
    ASSUME IInv, LInv, NEW c \in Present, Path(c), NEW g, g.edges = graph.edges,
           NEW s, ClaimNode(c) \in Descendants(g, SourceNode(s))
    PROVE  AdapterNode(current) \in Descendants(g, SourceNode(s))
<1>1. PICK t \in Sources : /\ SourceNode(s) = SourceNode(t) /\ c \in Claims
                           /\ <<SourceNode(t), ClaimNode(c)>> \in g.edges
    BY ClaimsDescend DEF LInv
<1>2. s = t
    BY <1>1, NodesDiffer
<1>3. s \in SourcesOf(claims[c].anchors)
    BY <1>1, <1>2 DEF IInv, EdgesOfAnchors
<1> QED
    BY <1>3, AdapterDescends

\* What is proved of a step that leaves the adapter, the hashes, the policy and
\* the marks alone, takes no claim, anchor or edge to the adapter away.
LEMMA LearnedKept ==
    ASSUME AInv, current' = current, sources' = sources, policy' = policy,
           graph.edges \subseteq graph'.edges, graph'.stale = graph.stale,
           \A c \in Present : /\ c \in Present'
                              /\ SourcesOf(claims[c].anchors) \subseteq SourcesOf(claims'[c].anchors)
    PROVE  AInv'
<1> SUFFICES ASSUME current # Nobody, ~Affected' PROVE Learned'
    BY DEF AInv
<1>1. ~Affected
    BY DEF Affected, IsStale
<1>2. Learned
    BY <1>1 DEF AInv
<1>3. \A c \in current'.claims : c \in Present' /\ Path(c)' /\ ClaimNode(c) \notin graph'.stale
    BY <1>2 DEF Learned, Path
<1>4. \A b \in current'.basis :
          /\ b[1] \in DOMAIN sources' /\ sources'[b[1]] = b[2] /\ policy'[b[1]] = b[3]
          /\ \E c \in current'.claims : b[1] \in SourcesOf(claims'[c].anchors)
    BY <1>2 DEF Learned
<1> QED
    BY <1>3, <1>4 DEF Learned


-----------------------------------------------------------------------------
(* Steps *)

\* A step that changes neither the claims nor what the adapter rests on.
LEMMA QuietSteps ==
    ASSUME AInv, UNCHANGED <<sources, policy, graph, current>>, Present' = Present,
           \A c \in Present : claims'[c].anchors = claims[c].anchors
    PROVE  AInv'
BY LearnedKept

\* A claim that is digested anew stays joined to the adapter that learned it.
LEMMA DigestSpanAdapter ==
    ASSUME IInv, AInv, NEW s \in Sources, DigestSpan(s)
    PROVE  AInv'
<1>1. PICK c \in Claims, span \in Spans, ok \in BOOLEAN :
          LET anchor == [source |-> s, span |-> span, hash |-> sources[s], seen |-> file[s],
                         verified |-> ok]
          IN  /\ ok => SameHash(s)
              /\ claims' = [d \in Present \union {c} |->
                              IF d # c THEN claims[d]
                              ELSE IF c \in Present THEN Merged(claims[c], anchor)
                              ELSE NewClaim(anchor)]
              /\ graph' = AddEdges(graph, AnchorEdge(s, c))
    BY DEF DigestSpan
<1> DEFINE anchor == [source |-> s, span |-> span, hash |-> sources[s], seen |-> file[s], verified |-> ok]
           r == IF c \in Present THEN Merged(claims[c], anchor) ELSE NewClaim(anchor)
<1>2. s \in DOMAIN sources /\ sources[s] \in Hashes
    <2>1. digesting = s /\ s # Nobody
        BY ParamsAssumption DEF DigestSpan
    <2>2. s \in DOMAIN sources
        BY <2>1 DEF IInv, Registered
    <2>3. sources \in [DOMAIN sources -> Hashes]
        BY DEF IInv, TypeOK
    <2> QED
        BY <2>2, <2>3
<1>3. anchor \in Anchor /\ claims' = [d \in Present \union {c} |-> IF d # c THEN claims[d] ELSE r]
    <2>1. file[s] \in Hashes
        BY DEF IInv, TypeOK
    <2> QED
        BY <1>1, <1>2, <2>1 DEF Anchor
<1> HIDE DEF anchor
<1>4. c \in Present => SourcesOf(claims[c].anchors) \subseteq SourcesOf(r.anchors)
    BY <1>3, AddedFields
<1> HIDE DEF r
<1>5. \A d \in Present : /\ d \in Present'
                         /\ SourcesOf(claims[d].anchors) \subseteq SourcesOf(claims'[d].anchors)
    <2>1. Present' = Present \union {c}
        BY <1>3 DEF Present
    <2> SUFFICES ASSUME NEW d \in Present
                 PROVE  SourcesOf(claims[d].anchors) \subseteq SourcesOf(claims'[d].anchors)
        BY <2>1
    <2>2. CASE d = c
        BY <1>3, <1>4, <2>2
    <2>3. CASE d # c
        BY <1>3, <2>3
    <2> QED
        BY <2>2, <2>3
<1>6. graph.edges \subseteq graph'.edges /\ graph'.stale = graph.stale
    BY <1>1, AddEdgesFields DEF IInv
<1> QED
    BY <1>5, <1>6, LearnedKept DEF DigestSpan, manager

\* Either the source is not one the adapter rests on, or the adapter is marked.
LEMMA RegisterSourceAdapter ==
    ASSUME IInv, LInv, AInv, NEW s \in Sources, RegisterSource(s)
    PROVE  AInv'
<1> DEFINE known == AddNode(graph, SourceNode(s))
           lost == IF Changed(s) THEN Newly(known, SourceNode(s)) ELSE {}
<1>1. /\ graph' = IF Changed(s) THEN Invalidate(known, SourceNode(s)) ELSE known
      /\ claims' = [c \in Present |-> IF ClaimNode(c) \in lost THEN AnchorLost(claims[c]) ELSE claims[c]]
      /\ sources' = [t \in DOMAIN sources \union {s} |-> IF t = s THEN file[s] ELSE sources[t]]
      /\ current' = current /\ policy' = policy
    BY DEF RegisterSource, manager
<1>2. known = [nodes |-> graph.nodes \union {SourceNode(s)}, edges |-> graph.edges, stale |-> graph.stale]
    BY DEF IInv, Shaped, AddNode
<1> HIDE DEF known, lost
<1> DEFINE below == Descendants(known, SourceNode(s))
<1>3. Invalidate(known, SourceNode(s)) = [known EXCEPT !.stale = @ \union below]
    BY DEF Invalidate
<1> HIDE DEF below
<1>4. /\ known.edges = graph.edges /\ graph'.edges = graph.edges
      /\ graph'.stale = IF Changed(s) THEN graph.stale \union below ELSE graph.stale
    BY <1>1, <1>2, <1>3
<1>5. Present' = Present
    BY <1>1 DEF Present
<1>6. \A c \in Present : SourcesOf(claims'[c].anchors) = SourcesOf(claims[c].anchors)
    <2> SUFFICES ASSUME NEW c \in Present
                 PROVE  SourcesOf(claims'[c].anchors) = SourcesOf(claims[c].anchors)
        OBVIOUS
    <2>1. claims[c] \in Claim
        BY DEF IInv, TypeOK
    <2>2. claims'[c] = AnchorLost(claims[c]) \/ claims'[c] = claims[c]
        BY <1>1
    <2> QED
        BY <2>1, <2>2, AnchorLostFields
<1> SUFFICES ASSUME current # Nobody, ~Affected' PROVE Learned'
    BY <1>1 DEF AInv
<1>7. AdapterNode(current) \notin graph'.stale
    BY <1>1 DEF Affected, IsStale
<1>8. Learned
    BY <1>4, <1>7 DEF AInv, Affected, IsStale
<1>9. \A c \in current'.claims : c \in Present' /\ Path(c)' /\ ClaimNode(c) \notin graph'.stale
    <2> SUFFICES ASSUME NEW c \in current.claims
                 PROVE  c \in Present' /\ Path(c)' /\ ClaimNode(c) \notin graph'.stale
        BY <1>1
    <2>1. c \in Present /\ Path(c) /\ ClaimNode(c) \notin graph.stale
        BY <1>8 DEF Learned
    <2>2. Changed(s) => ClaimNode(c) \notin Descendants(known, SourceNode(s))
        BY <2>1, <1>4, <1>7, MarkedTogether DEF below
    <2>3. ClaimNode(c) \notin graph'.stale
        BY <2>1, <2>2, <1>4 DEF below
    <2> QED
        BY <2>1, <2>3, <1>1, <1>4, <1>5 DEF Path
<1>10. ASSUME NEW b \in current.basis
       PROVE  /\ b[1] \in DOMAIN sources' /\ sources'[b[1]] = b[2] /\ policy'[b[1]] = b[3]
              /\ \E c \in current.claims : b[1] \in SourcesOf(claims'[c].anchors)
    <2>1. /\ b[1] \in DOMAIN sources /\ sources[b[1]] = b[2] /\ policy[b[1]] = b[3]
          /\ \E c \in current.claims : b[1] \in SourcesOf(claims[c].anchors)
        BY <1>8 DEF Learned
    <2>2. PICK c \in current.claims : b[1] \in SourcesOf(claims[c].anchors)
        BY <2>1
    <2>3. c \in Present /\ Path(c)
        BY <1>8 DEF Learned
    <2>4. b[1] = s => ~Changed(s)
        <3>1. AdapterNode(current) \in Descendants(known, SourceNode(b[1]))
            BY <2>2, <2>3, <1>4, AdapterDescends
        <3> QED
            BY <3>1, <1>4, <1>7 DEF below
    <2>5. sources'[b[1]] = sources[b[1]] /\ b[1] \in DOMAIN sources'
        BY <1>1, <2>1, <2>4 DEF Changed
    <2> QED
        BY <2>1, <2>2, <2>3, <2>5, <1>1, <1>6
<1> QED
    BY <1>1, <1>9, <1>10 DEF Learned

\* A rule the adapter was trained under marks it when it changes.
LEMMA SetPolicyAdapter ==
    ASSUME IInv, LInv, AInv, NEW p \in Policies, SetPolicy(p)
    PROVE  AInv'
<1> DEFINE more == UNION {{ClaimNode(c)} \union Descendants(graph, ClaimNode(c)) :
                              c \in {d \in Present : RuleChanged(p, d)}}
           Low(c) == /\ c \in {d \in Present : RuleChanged(p, d)} /\ claims[c].maturity = TRAINABLE
                     /\ ~PolicyAllows(p, c, claims[c].anchors)
<1>1. /\ graph' = [graph EXCEPT !.stale = @ \union more]
      /\ claims' = [c \in Present |->
                      IF Low(c) THEN [claims[c] EXCEPT !.maturity = CONSOLIDATED] ELSE claims[c]]
      /\ current' = current /\ policy' = p /\ sources' = sources
    BY DEF SetPolicy, manager
<1>2. Present' = Present
    BY <1>1 DEF Present
<1> HIDE DEF Low
<1>3. \A c \in Present : claims'[c].anchors = claims[c].anchors
    <2> SUFFICES ASSUME NEW c \in Present PROVE claims'[c].anchors = claims[c].anchors
        OBVIOUS
    <2>1. claims[c] \in Claim
        BY DEF IInv, TypeOK
    <2>2. claims'[c] = [claims[c] EXCEPT !.maturity = CONSOLIDATED] \/ claims'[c] = claims[c]
        BY <1>1
    <2> QED
        BY <2>1, <2>2 DEF Claim
<1>4. \A c \in Present : RuleChanged(p, c) => Descendants(graph, ClaimNode(c)) \subseteq more
    OBVIOUS
<1> HIDE DEF more
<1>5. graph'.edges = graph.edges /\ graph'.stale = graph.stale \union more
    <2>1. graph = [nodes |-> graph.nodes, edges |-> graph.edges, stale |-> graph.stale]
        BY DEF IInv, Shaped
    <2> QED
        BY <1>1, <2>1
<1> SUFFICES ASSUME current # Nobody, ~Affected' PROVE Learned'
    BY <1>1 DEF AInv
<1>6. AdapterNode(current) \notin graph'.stale
    BY <1>1 DEF Affected, IsStale
<1>7. Learned
    BY <1>5, <1>6 DEF AInv, Affected, IsStale
<1>8. \A c \in current'.claims : c \in Present' /\ Path(c)' /\ ClaimNode(c) \notin graph'.stale
    <2> SUFFICES ASSUME NEW c \in current.claims
                 PROVE  c \in Present' /\ Path(c)' /\ ClaimNode(c) \notin graph'.stale
        BY <1>1
    <2>1. c \in Present /\ Path(c) /\ ClaimNode(c) \notin graph.stale
        BY <1>7 DEF Learned
    <2>2. ASSUME ClaimNode(c) \in more PROVE FALSE
        <3>1. PICK d \in Present : /\ RuleChanged(p, d)
                                   /\ ClaimNode(c) \in {ClaimNode(d)} \union Descendants(graph, ClaimNode(d))
            BY <2>2 DEF more
        <3>2. ClaimNode(c) \notin Descendants(graph, ClaimNode(d))
            <4> SUFFICES ASSUME ClaimNode(c) \in Descendants(graph, ClaimNode(d)) PROVE FALSE
                OBVIOUS
            <4>1. \E s \in Sources : ClaimNode(d) = SourceNode(s)
                BY ClaimsDescend DEF LInv
            <4> QED
                BY <4>1, NodesDiffer
        <3>3. c = d
            BY <3>1, <3>2, NodesDiffer
        <3>4. AdapterNode(current) \in more
            BY <2>1, <3>1, <3>3, <1>4, AdapterDescends
        <3> QED
            BY <3>4, <1>5, <1>6
    <2> QED
        BY <2>1, <2>2, <1>1, <1>2, <1>5 DEF Path
<1>9. ASSUME NEW b \in current.basis
      PROVE  /\ b[1] \in DOMAIN sources' /\ sources'[b[1]] = b[2] /\ policy'[b[1]] = b[3]
             /\ \E c \in current.claims : b[1] \in SourcesOf(claims'[c].anchors)
    <2>1. /\ b[1] \in DOMAIN sources /\ sources[b[1]] = b[2] /\ policy[b[1]] = b[3]
          /\ \E c \in current.claims : b[1] \in SourcesOf(claims[c].anchors)
        BY <1>7 DEF Learned
    <2>2. PICK c \in current.claims : b[1] \in SourcesOf(claims[c].anchors)
        BY <2>1
    <2>3. c \in Present /\ Path(c)
        BY <1>7 DEF Learned
    <2>4. AdapterNode(current) \in Descendants(graph, ClaimNode(c))
        BY <2>3, AdapterDescends
    <2>5. ~RuleChanged(p, c)
        BY <2>3, <2>4, <1>4, <1>5, <1>6
    <2>6. p[b[1]] = policy[b[1]]
        BY <2>2, <2>5 DEF RuleChanged
    <2> QED
        BY <2>1, <2>2, <2>3, <2>6, <1>1, <1>3
<1> QED
    BY <1>1, <1>8, <1>9 DEF Learned

\* A withdrawal marks what was learned from the source.
LEMMA ForgetSourceAdapter ==
    ASSUME IInv, LInv, AInv, NEW s \in Sources, ForgetSource(s)
    PROVE  AInv'
<1> DEFINE left(c) == {a \in claims[c].anchors : a.source # s}
           gone == {c \in Present : left(c) = {}}
           without == Remove(graph, SourceNode(s))
           dead == {ClaimNode(c) : c \in gone}
           marked == (without.stale \union UNION {Descendants(without, n) : n \in dead}) \ dead
           kept == {e \in without.edges : {e[1], e[2]} \cap dead = {}}
           n == AdapterNode(current)
<1>1. /\ claims' = [c \in Present \ gone |-> Kept(c, left(c))]
      /\ graph' = [nodes |-> without.nodes \ dead, edges |-> kept, stale |-> marked]
      /\ sources' = [t \in DOMAIN sources \ {s} |-> sources[t]]
      /\ current' = current /\ policy' = policy
    BY DEF ForgetSource, manager
<1>2. \A c : /\ n # ClaimNode(c) /\ n # SourceNode(s) /\ ClaimNode(c) # SourceNode(s)
             /\ ExampleNode(c) # SourceNode(s)
             /\ ClaimNode(c) \in dead => c \in gone
    BY NodesDiffer
<1>3. \A c, d : ExampleNode(c) # ClaimNode(d)
    BY NodesDiffer
<1>4. n \notin dead /\ \A c : ExampleNode(c) \notin dead
    BY <1>2, <1>3
<1>5. Present' = Present \ gone
    BY <1>1 DEF Present
<1>6. \A c \in Present : left(c) \in SUBSET claims[c].anchors
    OBVIOUS
<1>7. /\ without.edges = {e \in graph.edges : SourceNode(s) \notin {e[1], e[2]}}
      /\ without.stale = (graph.stale \union Descendants(graph, SourceNode(s))) \ {SourceNode(s)}
    BY RemoveFields
<1> SUFFICES ASSUME current # Nobody, ~Affected' PROVE Learned'
    BY <1>1 DEF AInv
<1>8. n \notin marked
    BY <1>1 DEF Affected, IsStale
<1> HIDE DEF without, dead, n
<1>9. n \notin graph.stale /\ n \notin Descendants(graph, SourceNode(s))
    <2>1. n # SourceNode(s)
        BY <1>2
    <2> QED
        BY <2>1, <1>4, <1>7, <1>8
<1>10. Learned
    BY <1>9 DEF AInv, Affected, IsStale, n
<1>11. ASSUME NEW c \in current.claims
       PROVE  /\ c \in Present /\ c \notin gone /\ s \notin SourcesOf(claims[c].anchors)
              /\ claims'[c].anchors = claims[c].anchors
    <2>1. c \in Present /\ Path(c)
        BY <1>10 DEF Learned
    <2>2. s \notin SourcesOf(claims[c].anchors)
        BY <2>1, <1>9, AdapterDescends DEF n
    <2>3. left(c) = claims[c].anchors
        BY <2>2 DEF SourcesOf
    <2>4. claims[c].anchors # {}
        BY <2>1 DEF IInv, TypeOK
    <2>5. c \notin gone
        BY <2>3, <2>4
    <2>6. claims'[c] = Kept(c, left(c))
        BY <1>1, <2>1, <2>5
    <2>7. Kept(c, left(c)).anchors = left(c)
        BY <2>1, <1>6, KeptFields
    <2> QED
        BY <2>1, <2>2, <2>3, <2>5, <2>6, <2>7
<1> HIDE DEF gone, left
<1>12. ASSUME NEW c \in current.claims
       PROVE  c \in Present' /\ Path(c)' /\ ClaimNode(c) \notin graph'.stale
    <2>1. c \in Present' /\ ClaimNode(c) \notin dead /\ Path(c) /\ ClaimNode(c) \notin graph.stale
        BY <1>2, <1>5, <1>10, <1>11 DEF Learned
    <2> DEFINE e == <<ClaimNode(c), ExampleNode(c)>>
               f == <<ExampleNode(c), n>>
    <2>2. e[1] = ClaimNode(c) /\ e[2] = ExampleNode(c) /\ f[1] = ExampleNode(c) /\ f[2] = n
        OBVIOUS
    <2>3. e \in graph.edges /\ f \in graph.edges
        BY <2>1 DEF Path, n
    <2> HIDE DEF e, f
    <2>4. e \in without.edges /\ f \in without.edges
        BY <2>2, <2>3, <1>2, <1>7
    <2>5. e \in kept /\ f \in kept
        BY <2>1, <2>2, <2>4, <1>4
    <2>6. graph'.edges = kept
        BY <1>1
    <2>7. ClaimNode(c) \notin without.stale
        <3>1. ClaimNode(c) \notin Descendants(graph, SourceNode(s))
            BY <2>1, <1>9, <1>11, MarkedTogether DEF n
        <3> QED
            BY <2>1, <3>1, <1>7
    <2>8. ASSUME NEW d PROVE ClaimNode(c) \notin Descendants(without, ClaimNode(d))
        <3> SUFFICES ASSUME ClaimNode(c) \in Descendants(without, ClaimNode(d)) PROVE FALSE
            OBVIOUS
        <3>1. Leveled(without.edges)
            BY <1>7 DEF LInv, Leveled
        <3>2. \E t \in Sources : ClaimNode(d) = SourceNode(t)
            BY <3>1, ClaimsDescend
        <3> QED
            BY <3>2, NodesDiffer
    <2>9. ClaimNode(c) \notin marked
        BY <2>1, <2>7, <2>8 DEF dead
    <2> QED
        BY <2>1, <2>5, <2>6, <2>9, <1>1 DEF Path, e, f, n
<1>13. ASSUME NEW b \in current.basis
       PROVE  /\ b[1] \in DOMAIN sources' /\ sources'[b[1]] = b[2] /\ policy'[b[1]] = b[3]
              /\ \E c \in current.claims : b[1] \in SourcesOf(claims'[c].anchors)
    <2>1. /\ b[1] \in DOMAIN sources /\ sources[b[1]] = b[2] /\ policy[b[1]] = b[3]
          /\ \E c \in current.claims : b[1] \in SourcesOf(claims[c].anchors)
        BY <1>10 DEF Learned
    <2>2. PICK c \in current.claims : b[1] \in SourcesOf(claims[c].anchors)
        BY <2>1
    <2>3. b[1] # s /\ claims'[c].anchors = claims[c].anchors
        BY <2>2, <1>11
    <2> QED
        BY <2>1, <2>2, <2>3, <1>1
<1> QED
    BY <1>1, <1>12, <1>13 DEF Learned

\* A new adapter is registered under what it learned.
LEMMA TrainAdapter ==
    ASSUME IInv, NEW new \in SUBSET Claims, NEW replayed, NEW social,
           Train(new, replayed, social), UNCHANGED <<sources, claims, policy>>
    PROVE  Learned'
<1> DEFINE own == {c \in new : Eligible(c)}
           bases == UNION {Basis(c) : c \in own}
           adapter == [generation |-> generation + 1, claims |-> own,
                       others |-> replayed \union social, basis |-> bases]
           edges == TrainingEdges(own, adapter)
<1>1. current' = adapter /\ graph' = AddEdges(graph, edges)
    BY DEF Train
<1>2. edges \subseteq graph'.edges
    BY <1>1, AddEdgesFields DEF IInv
<1>3. \A c \in own : c \in Present /\ ClaimNode(c) \notin graph'.stale
    <2>1. graph'.stale = graph.stale
        BY <1>1, AddEdgesFields DEF IInv
    <2> QED
        BY <2>1 DEF Eligible, Trainable, IsStale
<1>4. ASSUME NEW c \in own
      PROVE  <<ClaimNode(c), ExampleNode(c)>> \in edges /\ <<ExampleNode(c), AdapterNode(adapter)>> \in edges
    BY DEF TrainingEdges
<1>5. ASSUME NEW b \in bases
      PROVE  /\ b[1] \in DOMAIN sources /\ sources[b[1]] = b[2] /\ policy[b[1]] = b[3]
             /\ \E c \in own : b[1] \in SourcesOf(claims[c].anchors)
    <2>1. PICK c \in own : b \in Basis(c)
        OBVIOUS
    <2>2. PICK s \in SourcesOf(claims[c].anchors) : b = <<s, sources[s], policy[s]>>
        BY <2>1 DEF Basis
    <2>3. s \in DOMAIN sources
        BY <1>3 DEF IInv, Registered
    <2>4. b[1] = s /\ b[2] = sources[s] /\ b[3] = policy[s]
        BY <2>2
    <2> QED
        BY <2>2, <2>3, <2>4
<1> HIDE DEF own, bases, edges
<1>6. adapter.claims = own /\ adapter.basis = bases
    OBVIOUS
<1> HIDE DEF adapter
<1>7. \A c \in current'.claims : c \in Present' /\ Path(c)' /\ ClaimNode(c) \notin graph'.stale
    BY <1>1, <1>2, <1>3, <1>4, <1>6 DEF Path, Present
<1>8. \A b \in current'.basis :
          /\ b[1] \in DOMAIN sources' /\ sources'[b[1]] = b[2] /\ policy'[b[1]] = b[3]
          /\ \E c \in current'.claims : b[1] \in SourcesOf(claims'[c].anchors)
    BY <1>1, <1>5, <1>6
<1> QED
    BY <1>7, <1>8 DEF Learned

\* A winner is joined to its claims through the examples it was trained on.
LEMMA RunGenerationAdapter ==
    ASSUME IInv, AInv, NEW new \in SUBSET Claims, RunGeneration(new)
    PROVE  AInv'
<1>1. UNCHANGED <<sources, claims, policy>>
    BY DEF RunGeneration
<1>2. CASE \E replayed \in SUBSET Claims, social \in SUBSET {c \in Claims : Eligible(c)} :
               Train(new, replayed, social)
    BY <1>1, <1>2, TrainAdapter DEF AInv
<1>3. CASE UNCHANGED <<graph, current, affectedFor>>
    BY <1>1, <1>3, QuietSteps DEF Present
<1> QED
    BY <1>2, <1>3 DEF RunGeneration

\* An adapter that is retired is in use no longer.
LEMMA EnforceForgettingAdapter ==
    ASSUME IInv, AInv, EnforceForgetting
    PROVE  AInv'
<1>1. UNCHANGED <<sources, claims, policy>>
    BY DEF EnforceForgetting
<1>2. current' = Nobody \/ UNCHANGED <<graph, current>>
    BY DEF EnforceForgetting
<1>3. CASE current' = Nobody
    BY <1>3 DEF AInv
<1>4. CASE UNCHANGED <<graph, current>>
    BY <1>1, <1>4, QuietSteps DEF Present
<1> QED
    BY <1>2, <1>3, <1>4

\* Claims change their standing, not their edges.
LEMMA LinkContestAdapter ==
    ASSUME IInv, AInv,
           (\E c, d \in Claims : Link(c, d)) \/ (\E c \in Claims : Contest(c)) \/ ConsolidationCycle
    PROVE  AInv'
<1>1. UNCHANGED <<sources, policy, graph, current>>
    BY DEF Link, Contest, ConsolidationCycle, manager
<1>2. Present' = Present /\ \A c \in Present : claims'[c].anchors = claims[c].anchors
    BY LinkAnchors, ContestAnchors, ConsolidationCycleAnchors
<1> QED
    BY <1>1, <1>2, QuietSteps

-----------------------------------------------------------------------------
(* Theorems *)

\* Every step keeps what is known of the adapter in use.
LEMMA NextAInv == IInv /\ LInv /\ AInv /\ [Next]_vars => AInv'
<1> SUFFICES ASSUME IInv, LInv, AInv, [Next]_vars PROVE AInv'
    OBVIOUS
<1>1. CASE \E s \in Sources : Edit(s) \/ RegisterSource(s) \/ DigestSpan(s) \/ ForgetSource(s)
    <2>1. CASE \E s \in Sources : Edit(s)
        BY <2>1, QuietSteps DEF Edit, manager, Present
    <2> QED
        BY <1>1, <2>1, RegisterSourceAdapter, DigestSpanAdapter, ForgetSourceAdapter
<1>2. CASE DigestDone \/ UNCHANGED vars
    BY <1>2, QuietSteps DEF DigestDone, vars, manager, Present
<1>3. CASE (\E c, d \in Claims : Link(c, d)) \/ (\E c \in Claims : Contest(c)) \/ ConsolidationCycle
    BY <1>3, LinkContestAdapter
<1>4. CASE \E p \in Policies : SetPolicy(p)
    BY <1>4, SetPolicyAdapter
<1>5. CASE \E p \in Policies : Reload(p)
    BY <1>5 DEF Reload, AInv
<1>6. CASE \E new \in SUBSET Claims \ {{}} : RunGeneration(new)
    BY <1>6, RunGenerationAdapter
<1>7. CASE EnforceForgetting
    BY <1>7, EnforceForgettingAdapter
<1> QED
    BY <1>1, <1>2, <1>3, <1>4, <1>5, <1>6, <1>7 DEF Next

\* The invariant behind the theorem below: it is inductive on top of IInv.
THEOREM AdapterInductive == Spec => [](AInv /\ LInv)
<1>1. Init => AInv /\ LInv
    BY DEF Init, AInv, LInv, Leveled, EmptyGraph
<1> QED
    BY <1>1, NextAInv, StepLeveled, WikiInductive, PTL DEF Spec

\* Unless the adapter in use is marked affected, the claims of its new examples
\* are there and not stale, and every source behind them has the content and the
\* rule it had at the training.
THEOREM AffectedIsAlwaysKnown == Spec => []AffectedIsKnown
<1>1. AInv => AffectedIsKnown
    BY DEF AInv, Learned, AffectedIsKnown, IsStale
<1> QED
    BY <1>1, AdapterInductive, PTL
=============================================================================
