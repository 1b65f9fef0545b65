-------------------------------- MODULE Wiki --------------------------------
(***************************************************************************)
(* The local plane of the Local Cognitive Extension (swarmbly_lce): the    *)
(* user's files, the claims a digester extracts from them, the maturity    *)
(* state machine, the learning policy, the dependency graph, and the       *)
(* adapter that is trained on what reached TRAINABLE.                      *)
(*                                                                         *)
(* One process runs one operation after another; the user edits files at   *)
(* any moment, also in the middle of a digestion.  Reload is the end of    *)
(* one command and the start of the next: wiki.json is saved and loaded,   *)
(* under the policy.json of that moment, and the adapter manager, which    *)
(* lives in memory only, is gone.                                          *)
(*                                                                         *)
(* Abstractions.  A content hash is a number; a span is a number; the text *)
(* of a claim is its identity and fixes its type.  The digester proposes   *)
(* any claim from any span, and the support check may say yes or no.       *)
(* human_source is always "self" and the epistemic distance always at most *)
(* one, as the digester sets them; nothing sets a claim RETRACTED.         *)
(* cycles_observed and clean_review_cycles count up to the value that      *)
(* satisfies their conditions, and the age of an affected adapter up to    *)
(* ForgetMaxCycles.  verify_anchor reads the text of a file and hashes it  *)
(* in one step.  Training and the gate are a choice of a winner or none.   *)
(* An example is named by its claim, whose id fixes its text; it may have  *)
(* been built at any earlier moment.  Preference pairs and general text    *)
(* carry no claim and are left out.                                        *)
(***************************************************************************)
EXTENDS Naturals, FiniteSets, Depgraph

CONSTANTS
    Sources,          \* paths of source files
    Claims,           \* claim ids
    TypeOf,           \* TypeOf[c]: the type that is part of the id of c
    Hashes,           \* content hashes a file may have
    Spans,            \* spans of a file
    Rules,            \* effective rules a policy may give a source
    StabilityCycles,  \* params.stability_cycles
    ForgetMaxCycles,  \* params.forget_max_cycles
    Policies,         \* policies the user may write: functions from Sources to Rules
    MaxGenerations,   \* bound: generations of one adapter manager
    MaxEvents,        \* bound: edits, policy changes, contests and withdrawals
    Nobody            \* no source under digestion, no adapter

ASSUME TypeOfAssumption == TypeOf \in [Claims -> {"fact", "belief", "experience", "style", "procedure"}]
ASSUME ParamsAssumption ==
    /\ StabilityCycles \in Nat \ {0}
    /\ ForgetMaxCycles \in Nat \ {0}
    /\ MaxGenerations \in Nat
    /\ MaxEvents \in Nat
    /\ Policies \subseteq [Sources -> Rules]
    /\ IsFiniteSet(Sources)
    /\ Hashes \subseteq Nat /\ Hashes # {}
    /\ Nobody \notin Sources

VARIABLES
    file,         \* file[s]: the hash of what the file holds now
    digesting,    \* the source that digest_source is in the middle of
    sources,      \* wiki.source_hashes
    claims,       \* wiki.claims
    policy,       \* wiki.policy: the effective rule of every source
    graph,        \* wiki.graph
    current,      \* AdapterManager.current
    generation,   \* AdapterManager.generation
    affectedFor,  \* cycles since affected_since, or Nobody for None
    events        \* bound: what the user has done so far

vars == <<file, digesting, sources, claims, policy, graph, current, generation, affectedFor, events>>
manager == <<current, generation, affectedFor>>

-----------------------------------------------------------------------------
(* Maturity, anchors and nodes *)

DIGESTED == 1
ANCHORED == 2
CONNECTED == 3
CORROBORATED == 4
CONSOLIDATED == 5
TRAINABLE == 6

\* seen: what verify_anchor found in the file when it judged the support.
Anchor == [source : Sources, span : Spans, hash : Hashes, seen : Hashes, verified : BOOLEAN]

Claim == [maturity : DIGESTED .. TRAINABLE, anchors : SUBSET Anchor, links : SUBSET Claims,
          contested : BOOLEAN, cycles : 0 .. StabilityCycles, clean : 0 .. 1]

SourceNode(s) == <<"source", s>>
ClaimNode(c) == <<"claim", c>>
ExampleNode(c) == <<"example", c>>
AdapterNode(a) == <<"adapter", a.generation, a.claims, a.others>>

Present == DOMAIN claims
Behavioural(c) == TypeOf[c] \in {"style", "procedure"}
SourcesOf(anchors) == {a.source : a \in anchors}
Verified(anchors) == {a \in anchors : a.verified}

\* A source and its human source, which is always "self".
IndependentSources(anchors) == SourcesOf(Verified(anchors))

Unverify(anchors) == {[a EXCEPT !.verified = FALSE] : a \in anchors}

-----------------------------------------------------------------------------
(* Policy *)

AllowsType(rule, type) ==
    /\ ~rule.reference_only
    /\ \/ type = "style" /\ rule.learn_style /\ rule.authored_by_user
       \/ type = "procedure" /\ rule.learn_procedure

PolicyAllows(p, c, anchors) ==
    /\ Behavioural(c)
    /\ anchors # {}
    /\ \A s \in SourcesOf(anchors) : AllowsType(p[s], TypeOf[c])

-----------------------------------------------------------------------------
(* Regressions and advances of one claim *)

AnchorLost(r) ==
    [r EXCEPT !.anchors = Unverify(@), !.maturity = IF @ > DIGESTED THEN DIGESTED ELSE @]

Contradiction(r) ==
    [r EXCEPT !.maturity = IF @ > CONNECTED THEN CONNECTED ELSE @,
              !.contested = TRUE, !.clean = 0]

\* The condition to leave maturity m for the next one.
MayLeave(c, r, m) ==
    \/ m = DIGESTED /\ Verified(r.anchors) # {}
    \/ m = ANCHORED /\ r.links # {}
    \/ m = CONNECTED /\ ~Behavioural(c) /\ Cardinality(IndependentSources(r.anchors)) >= 2
    \/ m = CONNECTED /\ Behavioural(c) /\ r.cycles >= StabilityCycles
    \/ m = CORROBORATED /\ ~r.contested /\ r.clean >= 1
    \/ m = CONSOLIDATED /\ PolicyAllows(policy, c, r.anchors)

\* Where the loop over advance() stops.
Advanced(c, r) ==
    CHOOSE m \in r.maturity .. TRAINABLE :
        /\ \A k \in r.maturity .. m - 1 : MayLeave(c, r, k)
        /\ m = TRAINABLE \/ ~MayLeave(c, r, m)

-----------------------------------------------------------------------------
(* Digestion *)

\* The bound on what the user does.
UserEvent == events < MaxEvents /\ events' = events + 1

\* The user saves another content.
Edit(s) ==
    /\ UserEvent
    /\ \E h \in Hashes \ {file[s]} : file' = [file EXCEPT ![s] = h]
    /\ UNCHANGED <<digesting, sources, claims, policy, graph, manager>>

Changed(s) == s \in DOMAIN sources /\ sources[s] # file[s]

\* digest_source starts: the file's hash is registered; a changed hash marks
\* every descendant stale and takes the anchors of the newly stale claims.
RegisterSource(s) ==
    /\ digesting = Nobody
    /\ LET known == AddNode(graph, SourceNode(s))
           lost == IF Changed(s) THEN Newly(known, SourceNode(s)) ELSE {}
       IN  /\ graph' = IF Changed(s) THEN Invalidate(known, SourceNode(s)) ELSE known
           /\ claims' = [c \in Present |-> IF ClaimNode(c) \in lost THEN AnchorLost(claims[c])
                                           ELSE claims[c]]
    /\ digesting' = s
    /\ sources' = [t \in DOMAIN sources \union {s} |-> IF t = s THEN file[s] ELSE sources[t]]
    /\ UNCHANGED <<file, policy, manager, events>>

\* Mutant: a claim proposed RAW is stored as it came.
NewClaimRaw(anchor) ==
    [maturity |-> 0, anchors |-> {anchor}, links |-> {}, contested |-> FALSE,
     cycles |-> 0, clean |-> 0]

NewClaim(anchor) ==
    [maturity |-> DIGESTED, anchors |-> {anchor}, links |-> {}, contested |-> FALSE,
     cycles |-> 0, clean |-> 0]

\* Wiki.add of an existing claim: an anchor on a known span is dropped.
Merged(r, anchor) ==
    IF \E a \in r.anchors : a.source = anchor.source /\ a.span = anchor.span
    THEN r ELSE [r EXCEPT !.anchors = @ \union {anchor}]

\* Mutant: an existing claim gets the anchor without the edge from its source.
EdgeOfNew(s, c) == IF c \in Present THEN {} ELSE {<<SourceNode(s), ClaimNode(c)>>}

AnchorEdge(s, c) == {<<SourceNode(s), ClaimNode(c)>>}

\* Mutant: the file is not hashed again before the support is judged.
NotHashedAgain(s) == TRUE

\* verify_anchor hashes the file again: it may have been edited since it was
\* registered.
SameHash(s) == file[s] = sources[s]

\* digest_span proposes a claim: the anchor carries the registered hash and is
\* verified only if the file still has it and the span supports the claim.
DigestSpan(s) ==
    /\ digesting = s
    /\ policy[s].wiki
    /\ \E c \in Claims, span \in Spans, ok \in BOOLEAN :
         LET anchor == [source |-> s, span |-> span, hash |-> sources[s], seen |-> file[s],
                        verified |-> ok]
         IN  /\ TypeOf[c] = "experience" => policy[s].retain_episodic
             /\ ok => SameHash(s)
             /\ claims' = [d \in Present \union {c} |->
                             IF d # c THEN claims[d]
                             ELSE IF c \in Present THEN Merged(claims[c], anchor)
                             ELSE NewClaim(anchor)]
             /\ graph' = AddEdges(graph, AnchorEdge(s, c))
    /\ UNCHANGED <<file, digesting, sources, policy, manager, events>>

\* The last span of the source is done.
DigestDone ==
    /\ digesting # Nobody
    /\ digesting' = Nobody
    /\ UNCHANGED <<file, sources, claims, policy, graph, manager, events>>

-----------------------------------------------------------------------------
(* The other operations of the wiki *)

Link(c, d) ==
    /\ digesting = Nobody
    /\ {c, d} \subseteq Present
    /\ c # d /\ d \notin claims[c].links
    /\ claims' = [claims EXCEPT ![c].links = @ \union {d}, ![d].links = @ \union {c}]
    /\ UNCHANGED <<file, digesting, sources, policy, graph, manager, events>>

Contest(c) ==
    /\ UserEvent
    /\ digesting = Nobody
    /\ c \in Present
    /\ claims' = [claims EXCEPT ![c] = Contradiction(@)]
    /\ UNCHANGED <<file, digesting, sources, policy, graph, manager>>

\* Every claim advances as far as its conditions allow.
ConsolidationCycle ==
    /\ digesting = Nobody
    /\ claims' = [c \in Present |->
          LET r == claims[c]
              seen == [r EXCEPT
                        !.cycles = IF Behavioural(c) /\ Verified(r.anchors) # {} /\ @ < StabilityCycles
                                   THEN @ + 1 ELSE @,
                        !.clean = IF ~r.contested /\ r.maturity >= CORROBORATED THEN 1 ELSE @]
          IN  [seen EXCEPT !.maturity = Advanced(c, seen)]]
    /\ affectedFor' = IF affectedFor = Nobody \/ affectedFor = ForgetMaxCycles THEN affectedFor
                      ELSE affectedFor + 1
    /\ UNCHANGED <<file, digesting, sources, policy, graph, current, generation, events>>

RuleChanged(p, c) == \E s \in SourcesOf(claims[c].anchors) : policy[s] # p[s]

\* set_policy: claims under a changed rule, and what depends on them, are stale.
SetPolicy(p) ==
    /\ UserEvent
    /\ digesting = Nobody
    /\ p # policy
    /\ LET changed == {c \in Present : RuleChanged(p, c)}
       IN  /\ graph' = [graph EXCEPT !.stale = @ \union
                  UNION {{ClaimNode(c)} \union Descendants(graph, ClaimNode(c)) : c \in changed}]
           /\ claims' = [c \in Present |->
                IF c \in changed /\ claims[c].maturity = TRAINABLE
                   /\ ~PolicyAllows(p, c, claims[c].anchors)
                THEN [claims[c] EXCEPT !.maturity = CONSOLIDATED] ELSE claims[c]]
    /\ policy' = p
    /\ UNCHANGED <<file, digesting, sources, manager>>

\* Mutant: a fact that loses a source keeps its maturity.
ForgetKeepingMaturity(c, left) == [claims[c] EXCEPT !.anchors = left]

\* A claim that keeps anchors in other sources.
Kept(c, left) ==
    LET r == claims[c]
        weak == /\ left # r.anchors /\ r.maturity > ANCHORED
                /\ TypeOf[c] = "fact" /\ Cardinality(IndependentSources(left)) < 2
    IN  [r EXCEPT !.anchors = left, !.maturity = IF weak THEN CONNECTED ELSE @]

\* forget_source: the source goes, with every claim anchored only to it.
ForgetSource(s) ==
    /\ UserEvent
    /\ digesting = Nobody
    /\ s \in DOMAIN sources
    /\ LET left(c) == {a \in claims[c].anchors : a.source # s}
           gone == {c \in Present : left(c) = {}}
           without == Remove(graph, SourceNode(s))
           dead == {ClaimNode(c) : c \in gone}
       IN  /\ claims' = [c \in Present \ gone |-> Kept(c, left(c))]
           /\ graph' = [nodes |-> without.nodes \ dead,
                        edges |-> {e \in without.edges : {e[1], e[2]} \cap dead = {}},
                        stale |-> (without.stale \union UNION {Descendants(without, n) : n \in dead}) \ dead]
    /\ sources' = [t \in DOMAIN sources \ {s} |-> sources[t]]
    /\ UNCHANGED <<file, digesting, policy, manager>>

-----------------------------------------------------------------------------
(* Save and load *)

\* The edges that load() rebuilds: a source to every claim with an anchor in it.
LoadedEdges ==
    UNION {{<<SourceNode(a.source), ClaimNode(c)>> : a \in claims[c].anchors} : c \in Present}

LoadedNodes == [EmptyGraph EXCEPT !.nodes = {SourceNode(s) : s \in DOMAIN sources}]

\* Mutant: the stale marks are not saved.
LoadedUnmarked == AddEdges(LoadedNodes, LoadedEdges)

\* The graph that load() rebuilds: sources, claims and the edges of the
\* anchors; the stale marks as saved, those of examples and adapters too.
Loaded == [AddEdges(LoadedNodes, LoadedEdges) EXCEPT !.stale = graph.stale]

\* One command ends, the next one starts under the policy file of that moment.
\* add() refuses an experience whose source no longer retains them: load fails.
Reload(p) ==
    /\ IF p = policy THEN UNCHANGED events ELSE UserEvent
    /\ digesting = Nobody
    /\ \A c \in Present : TypeOf[c] = "experience" =>
            \A s \in SourcesOf(claims[c].anchors) : p[s].retain_episodic
    /\ graph' = Loaded
    /\ policy' = p
    /\ current' = Nobody
    /\ generation' = 0
    /\ affectedFor' = Nobody
    /\ UNCHANGED <<file, digesting, sources, claims>>

-----------------------------------------------------------------------------
(* Training *)

Trainable == {c \in Present : claims[c].maturity = TRAINABLE /\ ~IsStale(graph, ClaimNode(c))}

\* Mutant: an example that was eligible when it was built stays so.
EligibleWhenBuilt(c) == c \in Present /\ Behavioural(c)

\* eligible() of an example made from claim c, at the moment of the training.
Eligible(c) ==
    /\ c \in Trainable
    /\ Behavioural(c)
    /\ \A s \in SourcesOf(claims[c].anchors) :
          ~policy[s].reference_only /\ (TypeOf[c] = "style" => policy[s].authored_by_user)

Basis(c) == {<<s, sources[s], policy[s]>> : s \in SourcesOf(claims[c].anchors)}

\* Mutant: the examples are registered without the edges from their claims.
ExampleEdges(own, adapter) == {<<ExampleNode(c), AdapterNode(adapter)>> : c \in own}

TrainingEdges(own, adapter) ==
    UNION {{<<ClaimNode(c), ExampleNode(c)>>, <<ExampleNode(c), AdapterNode(adapter)>>} : c \in own}

\* A winner is trained on the new examples that are still eligible, on replayed
\* examples of any claim there ever was, which nothing checks, and on eligible
\* examples of peers; only the new ones are linked to their claims.
Train(new, replayed, social) ==
    LET own == {c \in new : Eligible(c)}
        adapter == [generation |-> generation + 1, claims |-> own,
                    others |-> replayed \union social,
                    basis |-> UNION {Basis(c) : c \in own}]
    IN  /\ own # {}
        /\ current' = adapter
        /\ graph' = AddEdges(graph, TrainingEdges(own, adapter))

\* run_generation over examples that were built at any earlier moment: there may
\* be none that is still eligible, or no winner.
RunGeneration(new) ==
    /\ digesting = Nobody
    /\ generation < MaxGenerations
    /\ generation' = generation + 1
    /\ \/ /\ \E replayed \in SUBSET Claims, social \in SUBSET {c \in Claims : Eligible(c)} :
                Train(new, replayed, social)
          /\ affectedFor' = Nobody
       \/ UNCHANGED <<graph, current, affectedFor>>
    /\ UNCHANGED <<file, digesting, sources, claims, policy, events>>

Affected == current # Nobody /\ IsStale(graph, AdapterNode(current))

EnforceForgetting ==
    /\ digesting = Nobody
    /\ LET age == IF affectedFor = Nobody THEN 0 ELSE affectedFor
           retire == Affected /\ age >= ForgetMaxCycles - 1
       IN  /\ affectedFor' = IF Affected THEN age ELSE Nobody
           /\ current' = IF retire THEN Nobody ELSE current
           /\ graph' = IF retire THEN Remove(graph, AdapterNode(current)) ELSE graph
    /\ UNCHANGED <<file, digesting, sources, claims, policy, generation, events>>

-----------------------------------------------------------------------------

Init ==
    /\ file = [s \in Sources |-> CHOOSE h \in Hashes : TRUE]
    /\ digesting = Nobody
    /\ sources = <<>>
    /\ claims = <<>>
    /\ policy \in Policies
    /\ graph = EmptyGraph
    /\ current = Nobody
    /\ generation = 0
    /\ affectedFor = Nobody
    /\ events = 0

Next ==
    \/ \E s \in Sources : Edit(s) \/ RegisterSource(s) \/ DigestSpan(s) \/ ForgetSource(s)
    \/ DigestDone
    \/ \E c, d \in Claims : Link(c, d)
    \/ \E c \in Claims : Contest(c)
    \/ ConsolidationCycle
    \/ \E p \in Policies : SetPolicy(p) \/ Reload(p)
    \/ \E new \in SUBSET Claims \ {{}} : RunGeneration(new)
    \/ EnforceForgetting

Spec == Init /\ [][Next]_vars

-----------------------------------------------------------------------------
(* Properties *)

Adapter == [generation : 1 .. MaxGenerations, claims : SUBSET Claims, others : SUBSET Claims,
            basis : SUBSET (Sources \X Hashes \X Rules)]

\* Types: the wiki's maps are partial functions over sources and claims, and
\* a claim in the wiki always has an anchor (claims.py:107-133, wiki.py:44-52).
TypeOK ==
    /\ file \in [Sources -> Hashes]
    /\ digesting \in Sources \union {Nobody}
    /\ DOMAIN sources \subseteq Sources /\ sources \in [DOMAIN sources -> Hashes]
    /\ Present \subseteq Claims /\ claims \in [Present -> Claim]
    /\ \A c \in Present : claims[c].anchors # {}
    /\ policy \in Policies
    /\ current \in Adapter \union {Nobody}
    /\ generation \in 0 .. MaxGenerations
    /\ affectedFor \in 0 .. ForgetMaxCycles \union {Nobody}
    /\ events \in 0 .. MaxEvents

\* The dependency graph knows what every claim rests on, through merges,
\* withdrawals and reloads: each anchor's source is registered and has an edge
\* to the claim, and no edge leads from a source that holds no anchor of it.
GraphFollowsAnchors ==
    \A c \in Claims, s \in Sources :
        <<SourceNode(s), ClaimNode(c)>> \in graph.edges <=>
            c \in Present /\ s \in DOMAIN sources /\ s \in SourcesOf(claims[c].anchors)

\* What is not stale is up to date: a verified anchor of a claim that is not
\* stale was judged on the content its source was last registered with, although
\* the file may change in the middle of a digestion, between commands and after.
FreshAnchors ==
    \A c \in Present : ~IsStale(graph, ClaimNode(c)) =>
        \A a \in Verified(claims[c].anchors) :
            a.source \in DOMAIN sources /\ a.hash = sources[a.source] /\ a.seen = a.hash

\* Whatever may be trained on still rests on verified evidence: no sequence of
\* edits, withdrawals, merges and reloads leaves a claim trainable after its
\* last verified anchor went.
TrainableHasEvidence ==
    \A c \in Trainable : Behavioural(c) /\ Verified(claims[c].anchors) # {}

\* The sources whose text was seen to support claim c; those of a claim that is
\* not stale are still registered with that text.
Supporters(c) ==
    SourcesOf({a \in Verified(claims[c].anchors) :
        /\ a.seen = a.hash
        /\ IsStale(graph, ClaimNode(c)) \/ (a.source \in DOMAIN sources /\ a.hash = sources[a.source])})

\* A fact that counts as corroborated has two sources that supported it and that,
\* unless the fact is marked stale, still hold the text that does: forgetting
\* one of them, or a change of one, takes the maturity back.  A fact that is
\* stale already (its policy changed) keeps its maturity when a source changes
\* afterwards: register_source regresses only what becomes stale
\* (wiki.py:66-70), although a withdrawn anchor returns a claim to DIGESTED by
\* SPEC_LCE_EN.md:226.
FactsCorroborated ==
    \A c \in Present : TypeOf[c] = "fact" /\ claims[c].maturity >= CORROBORATED =>
        Cardinality(Supporters(c)) >= 2

\* The adapter in use knows when what it learned from its new examples must go:
\* once the content or the policy of a source behind one of them differs from
\* what it was trained on, or their claim is withdrawn or goes stale, be it
\* between the building of the example and the training, it is marked affected.
\* What it learned through replayed or social examples (current.others) is not
\* covered: _register links the new examples only (training.py:375-389), although
\* SPEC_LCE_EN.md:241 speaks of the whole training set.
AffectedIsKnown ==
    current # Nobody =>
        \/ Affected
        \/ /\ \A c \in current.claims : c \in Present /\ ~IsStale(graph, ClaimNode(c))
           /\ \A b \in current.basis :
                 b[1] \in DOMAIN sources /\ sources[b[1]] = b[2] /\ policy[b[1]] = b[3]

\* A mark is never lost: what is stale stays stale as long as it is in the graph,
\* through further edits, retraining, and saving and loading.
MarksStay ==
    [][\A n \in graph.stale : n \in graph.nodes \cap graph'.nodes => n \in graph'.stale]_vars

\* SPEC 6.3.3 and 6.5: a claim without a verified anchor is DIGESTED and no more.
\* forget_source keeps the maturity of a claim whose remaining anchors are all
\* unverified, so this does not hold.
UnverifiedIsDigested ==
    \A c \in Present : Verified(claims[c].anchors) = {} => claims[c].maturity = DIGESTED

=============================================================================
