------------------------------ MODULE UnionFind ------------------------------
(***************************************************************************)
(* The algorithm of analyzeConnectivity, as the progressive collapse driver *)
(* calls it: the active elements are united one after another, in the       *)
(* storage order of the caller's members and shells, in a disjoint-set      *)
(* forest with path halving and no ranks, and the roots then group the      *)
(* attached nodes into components.                                          *)
(***************************************************************************)
EXTENDS Collapse, Sequences, SequencesExt

CONSTANTS
  Corners,   \* the nodes of an element, in the order of its definition
  Orders     \* the storage orders of the elements

ASSUME UnionFindAssumption ==
  /\ \A e \in Elements : Corners[e] \in Seq(Nodes) /\ NodesOf[e] = ToSet(Corners[e])
  /\ \A o \in Orders : o \in Seq(Elements) /\ ToSet(o) = Elements

\* Seeded fault of Edges: a facet joins its corners two by two.
EdgesOpenRing(c) ==
  [k \in 1..(Len(c) \div 2) |-> <<c[2 * k - 1], c[2 * k]>>]

\* A member is an edge, a shell facet the ring of its corners.
Edges(c) ==
  IF Len(c) = 2 THEN <<c>>
  ELSE [k \in 1..Len(c) |-> <<c[k], c[(k % Len(c)) + 1]>>]

\* A walk is at node n of the forest p.  A turn of the loop halves the path.
Walks == [p : [Nodes -> Nodes], n : Nodes]

Halve(w) ==
  LET up == w.p[w.p[w.n]] IN [p |-> [w.p EXCEPT ![w.n] = up], n |-> up]

\* UnionFind::find: where the walk ends, and the forest it leaves.
find[w \in Walks] == IF w.p[w.n] = w.n THEN w ELSE find[Halve(w)]

\* UnionFind::unite.
unite(f, e) ==
  LET a == find[[p |-> f, n |-> e[1]]]
      b == find[[p |-> a.p, n |-> e[2]]]
  IN IF a.n = b.n THEN b.p ELSE [b.p EXCEPT ![b.n] = a.n]

\* The corners of an active element are united, and so one element after another, in
\* the order they are stored, from the forest in which each node is alone.
uniteCorners(f, c) == FoldLeft(unite, f, Edges(c))
uniteElement(act, f, e) == IF e \in act THEN uniteCorners(f, Corners[e]) ELSE f

Alone == [n \in Nodes |-> n]
Forest(act, order) == FoldLeft(LAMBDA f, e : uniteElement(act, f, e), Alone, order)

Root(f, n) == find[[p |-> f, n |-> n]].n

\* The debris elements: those whose first node has an ungrounded root.
DetachedByRoot(f, act, fixed) ==
  LET grounded == {Root(f, n) : n \in Attached(act) \cap fixed}
  IN {e \in act : Root(f, Corners[e][1]) \notin grounded}

-------------------------------------------------------------------------------
\* Two nodes have one root exactly when the active elements connect them, and
\* the debris is what no support reaches, in every storage order and with every
\* path halved on the way.
FindsComponents(act) ==
  LET components == {Component(act, n) : n \in Nodes} IN
  \A o \in Orders : LET f == Forest(act, o) IN
    {{b \in Nodes : Root(f, b) = r} : r \in {Root(f, a) : a \in Nodes}} = components

FindsDebris(act, fixed) ==
  LET debris == Detached(act, fixed) IN
  \A o \in Orders : DetachedByRoot(Forest(act, o), act, fixed) = debris

\* On every model the driver analyses, the disjoint-set forest has the
\* components of the active elements as its roots, and what it calls debris is
\* what the driver has to drop, with the supports and the nodes pinned so far as
\* grounds, whatever the order in which members and shells are stored.
ForestFindsDebris ==
  phase = "cleanup" => FindsComponents(active) /\ FindsDebris(active, Fixed)
==============================================================================
