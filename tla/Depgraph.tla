------------------------------ MODULE Depgraph ------------------------------
(***************************************************************************)
(* The dependency graph of the Local Cognitive Extension                   *)
(* (swarmbly_lce/depgraph.py): typed nodes, edges from a dependency to     *)
(* what depends on it, and the set of nodes marked stale.  A graph is a    *)
(* record, an operation is an operator from graphs to graphs.              *)
(*                                                                         *)
(* A node is a tuple whose first element is its kind.  Nodes of kind       *)
(* "policy" and "concept" are left out: nothing ever invalidates or reads  *)
(* them.  The cycle test of add_edge is left out too: the edges the        *)
(* program adds go from a source to a claim, from a claim to an example    *)
(* and from an example to an adapter, so none closes a cycle, and no path  *)
(* is longer than three edges.                                             *)
(***************************************************************************)
EmptyGraph == [nodes |-> {}, edges |-> {}, stale |-> {}]

AddNode(g, n) == [g EXCEPT !.nodes = @ \union {n}]

AddEdges(g, es) ==
    [g EXCEPT !.nodes = @ \union {e[1] : e \in es} \union {e[2] : e \in es},
              !.edges = @ \union es]

Children(g, ns) == {e[2] : e \in {f \in g.edges : f[1] \in ns}}

Descendants(g, n) ==
    LET first == Children(g, {n})
        second == Children(g, first)
    IN  first \union second \union Children(g, second)

\* The nodes that invalidate(n) newly marks stale.
Newly(g, n) == Descendants(g, n) \ g.stale

Invalidate(g, n) == [g EXCEPT !.stale = @ \union Descendants(g, n)]

\* Mutant: the node goes without its dependents being marked.
RemoveQuietly(g, n) ==
    [nodes |-> g.nodes \ {n},
     edges |-> {e \in g.edges : n \notin {e[1], e[2]}},
     stale |-> g.stale \ {n}]

Remove(g, n) ==
    [nodes |-> g.nodes \ {n},
     edges |-> {e \in g.edges : n \notin {e[1], e[2]}},
     stale |-> (g.stale \union Descendants(g, n)) \ {n}]

IsStale(g, n) == n \in g.stale

=============================================================================
