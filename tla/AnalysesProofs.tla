--------------------------- MODULE AnalysesProofs ---------------------------
(***************************************************************************)
(* Proofs about the analyses that solve one model again and again: the      *)
(* progressive collapse driver, for every frame, scenario and order of      *)
(* events, with the disjoint-set forest that finds its debris; the          *)
(* tension-only fixed point, the dynamic collapse driver and the sizing of  *)
(* members, each for every model, every table and every answer of the       *)
(* mechanics.                                                               *)
(***************************************************************************)
EXTENDS UnionFind, TensionOnly, DynamicCollapse, Sizing, FoldLemmas, FiniteSetTheorems,
        WellFoundedInduction, TLAPS

\* What analyzeConnectivity promises: to be connected is an equivalence of the nodes.
LEMMA ClosedComplement ==
  ASSUME NEW act \in SUBSET Elements, NEW S \in SUBSET Nodes, Closed(act, S)
  PROVE  Closed(act, Nodes \ S)
BY ConnectivityAssumption DEF Closed

LEMMA ConnectedReflexive ==
  ASSUME NEW act \in SUBSET Elements, NEW a \in Nodes
  PROVE  Connected(act, a, a)
BY DEF Connected

LEMMA ConnectedSymmetric ==
  ASSUME NEW act \in SUBSET Elements, NEW a \in Nodes, NEW b \in Nodes, Connected(act, a, b)
  PROVE  Connected(act, b, a)
<1> SUFFICES ASSUME NEW S \in SUBSET Nodes, b \in S, Closed(act, S), a \notin S
             PROVE  FALSE
  BY DEF Connected
<1>1. Closed(act, Nodes \ S)
  BY ClosedComplement
<1> QED
  BY <1>1 DEF Connected

LEMMA ConnectedTransitive ==
  ASSUME NEW act \in SUBSET Elements,
         NEW a \in Nodes, NEW b \in Nodes, NEW c \in Nodes,
         Connected(act, a, b), Connected(act, b, c)
  PROVE  Connected(act, a, c)
BY DEF Connected

\* Two nodes of one element are connected.
LEMMA ElementConnects ==
  ASSUME NEW act \in SUBSET Elements, NEW e \in act,
         NEW a \in NodesOf[e], NEW b \in NodesOf[e]
  PROVE  Connected(act, a, b)
<1> SUFFICES ASSUME NEW S \in SUBSET Nodes, a \in S, Closed(act, S)
             PROVE  b \in S
  BY DEF Connected
<1>1. NodesOf[e] \subseteq S
  BY DEF Closed
<1> QED
  BY <1>1

\* What is connected to a node of some element is itself a node of some
\* element.
LEMMA ConnectedAttached ==
  ASSUME NEW act \in SUBSET Elements, NEW a \in Attached(act), NEW b \in Nodes,
         Connected(act, a, b)
  PROVE  b \in Attached(act)
<1>1. Attached(act) \in SUBSET Nodes
  BY ConnectivityAssumption DEF Attached
<1>2. Closed(act, Attached(act))
  BY DEF Closed, Attached
<1> QED
  BY <1>1, <1>2 DEF Connected

\* Division of integers.
LEMMA DivisionWithRest ==
  ASSUME NEW n \in Int, NEW d \in Nat, d > 0
  PROVE  n = d * (n \div d) + (n % d)
BY Z3

LEMMA RestIsUnique ==
  ASSUME NEW n \in Nat, NEW d \in Nat \ {0}, NEW q \in Nat, NEW r \in 0..(d - 1),
         n = q * d + r
  PROVE  n % d = r
OBVIOUS

-------------------------------------------------------------------------------
(***************************************************************************)
(* analyzeConnectivity.  A ghost function says of each node where its path  *)
(* ends, and a rank grows along the paths, so that every walk comes to an   *)
(* end: halving a path changes neither, and a union joins two classes.      *)
(***************************************************************************)
IsForest(f, root, rank, top) ==
  /\ f \in [Nodes -> Nodes] /\ root \in [Nodes -> Nodes] /\ rank \in [Nodes -> 0..top]
  /\ \A n \in Nodes :
       /\ root[f[n]] = root[n] /\ f[root[n]] = root[n]
       /\ f[n] = n => root[n] = n
       /\ f[n] # n => rank[n] < rank[f[n]]

HasRoots(f, root) ==
  \E top \in Nat : \E rank \in [Nodes -> 0..top] : IsForest(f, root, rank, top)

Forests == {f \in [Nodes -> Nodes] : \E root \in [Nodes -> Nodes] : HasRoots(f, root)}

\* UnionFind::find is its loop.
LEMMA FindUnfolds ==
  \A w \in Walks : find[w] = IF w.p[w.n] = w.n THEN w ELSE find[Halve(w)]
<1> DEFINE ended == {w \in Walks : w.p[w.n] = w.n}
           turn == [w \in Walks |-> Halve(w)]
           self == [w \in Walks |-> w]
           body(g) == [w \in Walks |-> IF w.p[w.n] = w.n THEN w ELSE g[Halve(w)]]
<1>1. \A w \in Walks : Halve(w) \in Walks
  BY DEF Halve, Walks
<1> DEFINE D == Walks
<1>2. ended \in SUBSET D /\ turn \in [D -> D] /\ self \in [D -> D]
  BY <1>1
<1> HIDE DEF ended, turn, self, D
<1>3. PICK g : IsLoop(g, D, D, ended, turn, self)
  BY <1>2, LoopExists
<1>4. g = body(g)
  <2>1. DOMAIN g = Walks /\ g = [w \in Walks |-> g[w]]
    BY <1>3 DEF D, IsLoop
  <2>2. \A w \in Walks : g[w] = IF w.p[w.n] = w.n THEN w ELSE g[Halve(w)]
    BY <1>3 DEF D, ended, turn, self, IsLoop
  <2> QED
    BY <2>1, <2>2
<1>5. find = CHOOSE h : h = body(h)
  BY DEF find
<1> DEFINE chosen == CHOOSE h : h = body(h)
<1>6. chosen = body(chosen)
  <2> HIDE DEF body
  <2> QED
    BY <1>4
<1> HIDE DEF chosen
<1>7. \A w \in Walks : chosen[w] = IF w.p[w.n] = w.n THEN w ELSE chosen[Halve(w)]
  BY <1>6
<1>8. find = chosen
  BY <1>5 DEF chosen
<1> QED
  BY <1>7, <1>8

\* Halving a path leaves the roots where they are, and the walk goes up.
LEMMA HalvingKeepsRoots ==
  ASSUME NEW w \in Walks, NEW root, NEW top \in Nat, NEW rank,
         IsForest(w.p, root, rank, top), w.p[w.n] # w.n
  PROVE  /\ Halve(w) \in Walks /\ IsForest(Halve(w).p, root, rank, top)
         /\ root[Halve(w).n] = root[w.n] /\ rank[w.n] < rank[Halve(w).n]
<1> DEFINE f == w.p
           a == w.n
           b == f[a]
           c == f[b]
           h == [f EXCEPT ![a] = c]
<1>1. f \in [Nodes -> Nodes] /\ a \in Nodes
  BY DEF Walks
<1>2. b \in Nodes /\ c \in Nodes /\ Halve(w) = [p |-> h, n |-> c]
  BY <1>1 DEF Halve
<1>3. root \in [Nodes -> Nodes] /\ rank \in [Nodes -> 0..top]
  BY DEF IsForest
<1>4. \A n \in Nodes : /\ root[f[n]] = root[n] /\ f[root[n]] = root[n]
                       /\ f[n] = n => root[n] = n
                       /\ f[n] # n => rank[n] < rank[f[n]]
  BY DEF IsForest
<1>5. b # a
  OBVIOUS
<1> HIDE DEF f, a
<1>6. rank[a] < rank[b] /\ (c = b \/ rank[b] < rank[c])
  <2>1. f[a] # a => rank[a] < rank[f[a]]
    BY <1>1, <1>4
  <2>2. f[b] # b => rank[b] < rank[f[b]]
    BY <1>2, <1>4
  <2> QED
    BY <1>5, <2>1, <2>2
<1>7. rank[a] < rank[c] /\ c # a
  <2>1. rank[a] \in 0..top /\ rank[b] \in 0..top /\ rank[c] \in 0..top
    BY <1>1, <1>2, <1>3
  <2> HIDE DEF b, c
  <2> QED
    BY <1>6, <2>1
<1>8. root[c] = root[a]
  BY <1>1, <1>2, <1>4
<1>9. \A n \in Nodes : h[n] = IF n = a THEN c ELSE f[n]
  BY <1>1
<1>10. h \in [Nodes -> Nodes]
  BY <1>1, <1>2
<1>11. \A n \in Nodes : root[n] # a
  BY <1>1, <1>4, <1>5
<1> HIDE DEF b, c, h
<1>12. ASSUME NEW n \in Nodes
       PROVE  /\ root[h[n]] = root[n] /\ h[root[n]] = root[n]
              /\ h[n] = n => root[n] = n
              /\ h[n] # n => rank[n] < rank[h[n]]
  <2>1. root[n] \in Nodes
    BY <1>3
  <2> QED
    BY <2>1, <1>4, <1>7, <1>8, <1>9, <1>11
<1>13. IsForest(h, root, rank, top)
  BY <1>3, <1>10, <1>12 DEF IsForest
<1>14. Halve(w) \in Walks
  BY <1>2, <1>10 DEF Walks
<1> QED
  BY <1>2, <1>7, <1>8, <1>13, <1>14 DEF a

\* A walk in a forest ends at the root of its node.
LEMMA FindEndsAtRoot ==
  ASSUME NEW f, NEW root, HasRoots(f, root), NEW m \in Nodes
  PROVE  LET w == find[[p |-> f, n |-> m]] IN
           w \in Walks /\ w.n = root[m] /\ HasRoots(w.p, root)
<1>0. PICK top \in Nat : \E rank \in [Nodes -> 0..top] : IsForest(f, root, rank, top)
  BY DEF HasRoots
<1>1. PICK rank \in [Nodes -> 0..top] : IsForest(f, root, rank, top)
  BY <1>0
<1> DEFINE Ends(w) == /\ find[w] \in Walks /\ find[w].n = root[w.n]
                      /\ IsForest(find[w].p, root, rank, top)
           P == {k \in Nat : \A w \in Walks :
                   IsForest(w.p, root, rank, top) /\ top - rank[w.n] <= k => Ends(w)}
<1>2. ASSUME NEW w \in Walks, IsForest(w.p, root, rank, top), w.p[w.n] = w.n PROVE Ends(w)
  <2>1. find[w] = w
    BY <1>2, FindUnfolds
  <2>2. root[w.n] = w.n
    BY <1>2 DEF IsForest, Walks
  <2> QED
    BY <1>2, <2>1, <2>2
<1>3. ASSUME NEW w \in Walks, IsForest(w.p, root, rank, top), w.p[w.n] # w.n, Ends(Halve(w))
      PROVE  Ends(w)
  <2>1. find[w] = find[Halve(w)]
    BY <1>3, FindUnfolds
  <2>2. root[Halve(w).n] = root[w.n]
    BY <1>3, HalvingKeepsRoots
  <2> QED
    BY <1>3, <2>1, <2>2
<1>4. \A w \in Walks : w.n \in Nodes /\ rank[w.n] \in 0..top
  BY DEF Walks
<1>5. ASSUME NEW w \in Walks, IsForest(w.p, root, rank, top), w.p[w.n] # w.n
      PROVE  /\ Halve(w) \in Walks /\ IsForest(Halve(w).p, root, rank, top)
             /\ rank[w.n] < rank[Halve(w).n]
  BY <1>5, HalvingKeepsRoots
<1> HIDE DEF Ends
<1>6. 0 \in P
  <2> SUFFICES ASSUME NEW w \in Walks, IsForest(w.p, root, rank, top), top - rank[w.n] <= 0
               PROVE  Ends(w)
    OBVIOUS
  <2>1. ASSUME w.p[w.n] # w.n PROVE FALSE
    <3>1. rank[w.n] < rank[Halve(w).n] /\ Halve(w) \in Walks
      BY <1>5, <2>1
    <3>2. rank[w.n] \in 0..top /\ rank[Halve(w).n] \in 0..top
      BY <1>4, <3>1
    <3> QED
      BY <3>1, <3>2
  <2> QED
    BY <1>2, <2>1
<1>7. ASSUME NEW k \in 1..top, k - 1 \in P PROVE k \in P
  <2> SUFFICES ASSUME NEW w \in Walks, IsForest(w.p, root, rank, top), top - rank[w.n] <= k
               PROVE  Ends(w)
    OBVIOUS
  <2>1. ASSUME w.p[w.n] # w.n PROVE Ends(w)
    <3>1. /\ rank[w.n] < rank[Halve(w).n] /\ Halve(w) \in Walks
          /\ IsForest(Halve(w).p, root, rank, top)
      BY <1>5, <2>1
    <3>2. rank[w.n] \in 0..top /\ rank[Halve(w).n] \in 0..top
      BY <1>4, <3>1
    <3>3. top - rank[Halve(w).n] <= k - 1
      BY <3>1, <3>2
    <3>4. Ends(Halve(w))
      BY <1>7, <3>1, <3>3
    <3> QED
      BY <1>3, <2>1, <3>4
  <2> QED
    BY <1>2, <2>1
<1>8. 0..top \subseteq P
  <2> HIDE DEF P
  <2> QED
    BY <1>6, <1>7, Ascent
<1> DEFINE start == [p |-> f, n |-> m]
<1>9. start \in Walks /\ start.p = f /\ start.n = m
  BY <1>1 DEF IsForest, Walks
<1>10. top - rank[start.n] \in 0..top
  BY <1>4, <1>9
<1> HIDE DEF start
<1>11. Ends(start)
  BY <1>1, <1>8, <1>9, <1>10
<1>12. find[start] \in Walks /\ find[start].n = root[m] /\ HasRoots(find[start].p, root)
  BY <1>9, <1>11 DEF Ends, HasRoots
<1> QED
  BY <1>12 DEF start

\* UnionFind::unite: the classes of the two nodes become one, the others stay.
Joined(root, a, b) == [n \in Nodes |-> IF root[n] = root[b] THEN root[a] ELSE root[n]]

LEMMA UniteJoins ==
  ASSUME NEW f, NEW root, HasRoots(f, root), NEW a \in Nodes, NEW b \in Nodes
  PROVE  HasRoots(unite(f, <<a, b>>), Joined(root, a, b))
<1> DEFINE u == find[[p |-> f, n |-> a]]
           v == find[[p |-> u.p, n |-> b]]
           h == v.p
           ra == u.n
           rb == v.n
<1>1. u.n = root[a] /\ HasRoots(u.p, root)
  BY FindEndsAtRoot
<1>2. v.n = root[b] /\ HasRoots(v.p, root)
  <2> HIDE DEF u
  <2> QED
    BY <1>1, FindEndsAtRoot
<1>3. unite(f, <<a, b>>) = IF ra = rb THEN h ELSE [h EXCEPT ![rb] = ra]
  <2>1. <<a, b>>[1] = a /\ <<a, b>>[2] = b
    OBVIOUS
  <2> QED
    BY <2>1 DEF unite
<1>4. PICK top \in Nat : \E rank \in [Nodes -> 0..top] : IsForest(h, root, rank, top)
  BY <1>2 DEF HasRoots
<1>5. PICK rank \in [Nodes -> 0..top] : IsForest(h, root, rank, top)
  BY <1>4
<1> HIDE DEF h, ra, rb
<1>6. ra = root[a] /\ rb = root[b]
  BY <1>1, <1>2 DEF ra, rb
<1>7. h \in [Nodes -> Nodes] /\ root \in [Nodes -> Nodes]
  BY <1>5 DEF IsForest
<1>8. \A n \in Nodes : /\ root[h[n]] = root[n] /\ h[root[n]] = root[n]
                       /\ h[n] = n => root[n] = n
                       /\ h[n] # n => rank[n] < rank[h[n]]
  BY <1>5 DEF IsForest
<1>9. CASE ra = rb
  <2>1. Joined(root, a, b) = root
    BY <1>6, <1>7, <1>9 DEF Joined
  <2> QED
    BY <1>2, <1>3, <1>9, <2>1 DEF h
<1>10. CASE ra # rb
  <2> DEFINE g == [h EXCEPT ![rb] = ra]
             class == Joined(root, a, b)
             high == 2 * top + 1
             order == [n \in Nodes |-> IF root[n] = ra THEN rank[n] + top + 1 ELSE rank[n]]
  <2>1. ra \in Nodes /\ rb \in Nodes /\ root[ra] = ra /\ root[rb] = rb
    BY <1>6, <1>7, <1>8
  <2>2. g \in [Nodes -> Nodes] /\ \A n \in Nodes : g[n] = IF n = rb THEN ra ELSE h[n]
    BY <1>7, <2>1
  <2>3. /\ class \in [Nodes -> Nodes]
        /\ \A n \in Nodes : class[n] = IF root[n] = rb THEN ra ELSE root[n]
    BY <1>6, <1>7, <2>1 DEF Joined
  <2>4. \A n \in Nodes : rank[n] \in 0..top
    OBVIOUS
  <2>5. high \in Nat /\ order \in [Nodes -> 0..high]
        /\ \A n \in Nodes : order[n] = IF root[n] = ra THEN rank[n] + top + 1 ELSE rank[n]
    BY <2>4
  <2> HIDE DEF g, class, order, high
  <2>6. ASSUME NEW n \in Nodes
        PROVE  /\ class[g[n]] = class[n] /\ g[class[n]] = class[n]
               /\ g[n] = n => class[n] = n
               /\ g[n] # n => order[n] < order[g[n]]
    <3>1. h[n] \in Nodes /\ root[n] \in Nodes
      BY <1>7
    <3>2. class[g[n]] = class[n]
      BY <1>8, <1>10, <2>1, <2>2, <2>3, <3>1
    <3>3. g[class[n]] = class[n]
      BY <1>8, <1>10, <2>1, <2>2, <2>3, <3>1
    <3>4. g[n] = n => class[n] = n
      BY <1>8, <1>10, <2>1, <2>2, <2>3
    <3>5. CASE n = rb
      <4>1. order[n] = rank[n] /\ order[ra] = rank[ra] + top + 1
        BY <1>10, <2>1, <2>5, <3>5
      <4>2. order[n] < order[ra]
        <5>1. rank[n] \in 0..top /\ rank[ra] \in 0..top
          BY <2>1, <2>4
        <5> QED
          BY <4>1, <5>1
      <4> QED
        BY <2>2, <3>2, <3>3, <3>4, <3>5, <4>2
    <3>6. CASE n # rb
      <4>1. g[n] = h[n] /\ root[h[n]] = root[n]
        BY <1>8, <2>2, <3>6
      <4>2. order[n] - rank[n] = order[h[n]] - rank[h[n]]
        <5>1. rank[n] \in 0..top /\ rank[h[n]] \in 0..top
          BY <2>4, <3>1
        <5> QED
          BY <2>5, <3>1, <4>1, <5>1
      <4>3. g[n] # n => order[n] < order[g[n]]
        <5>1. g[n] # n => rank[n] < rank[h[n]]
          BY <1>8, <4>1
        <5>2. rank[n] \in 0..top /\ rank[h[n]] \in 0..top
          BY <2>4, <3>1
        <5>3. order[n] \in 0..high /\ order[h[n]] \in 0..high
          BY <2>5, <3>1
        <5> QED
          BY <2>5, <4>1, <4>2, <5>1, <5>2, <5>3
      <4> QED
        BY <3>2, <3>3, <3>4, <4>3
    <3> QED
      BY <3>5, <3>6
  <2>7. IsForest(g, class, order, high)
    BY <2>2, <2>3, <2>5, <2>6 DEF IsForest
  <2>8. HasRoots(g, class)
    BY <2>5, <2>7 DEF HasRoots
  <2> QED
    BY <1>3, <1>10, <2>8 DEF g, class
<1> QED
  BY <1>9, <1>10

\* Each node of the forest is connected to its root by the elements of act.
Sound(act, root) == \A n \in Nodes : Connected(act, n, root[n])

\* What has one root keeps one.
Coarser(root, class) ==
  \A a, b \in Nodes : root[a] = root[b] => class[a] = class[b]

LEMMA JoiningIsSound ==
  ASSUME NEW act \in SUBSET Elements, NEW root \in [Nodes -> Nodes], Sound(act, root),
         NEW a \in Nodes, NEW b \in Nodes, Connected(act, a, b)
  PROVE  /\ Joined(root, a, b) \in [Nodes -> Nodes] /\ Sound(act, Joined(root, a, b))
         /\ Coarser(root, Joined(root, a, b)) /\ Joined(root, a, b)[a] = Joined(root, a, b)[b]
<1> DEFINE class == Joined(root, a, b)
<1>1. /\ class \in [Nodes -> Nodes]
      /\ \A n \in Nodes : class[n] = IF root[n] = root[b] THEN root[a] ELSE root[n]
  BY DEF Joined
<1> HIDE DEF class
<1>2. Sound(act, class)
  <2> SUFFICES ASSUME NEW n \in Nodes PROVE Connected(act, n, class[n])
    BY DEF Sound
  <2>1. CASE root[n] = root[b]
    <3>1. Connected(act, n, root[b]) /\ Connected(act, b, root[b]) /\ Connected(act, a, root[a])
      BY <2>1 DEF Sound
    <3>2. root[a] \in Nodes /\ root[b] \in Nodes
      OBVIOUS
    <3>3. Connected(act, root[b], b) /\ Connected(act, b, a)
      BY <3>1, <3>2, ConnectedSymmetric
    <3>4. Connected(act, n, b)
      BY <3>1, <3>2, <3>3, ConnectedTransitive
    <3>5. Connected(act, n, a)
      BY <3>3, <3>4, ConnectedTransitive
    <3>6. Connected(act, n, root[a])
      BY <3>1, <3>2, <3>5, ConnectedTransitive
    <3> QED
      BY <1>1, <2>1, <3>6
  <2>2. CASE root[n] # root[b]
    BY <1>1, <2>2 DEF Sound
  <2> QED
    BY <2>1, <2>2
<1>3. Coarser(root, class)
  BY <1>1 DEF Coarser
<1>4. class[a] = class[b]
  BY <1>1
<1> QED
  BY <1>1, <1>2, <1>3, <1>4 DEF class

LEMMA UniteStays ==
  ASSUME NEW f \in Forests, NEW e \in Nodes \X Nodes
  PROVE  unite(f, e) \in Forests
<1>1. PICK root \in [Nodes -> Nodes] : HasRoots(f, root)
  BY DEF Forests
<1>2. e = <<e[1], e[2]>> /\ e[1] \in Nodes /\ e[2] \in Nodes
  OBVIOUS
<1> DEFINE class == Joined(root, e[1], e[2])
           g == unite(f, e)
<1>3. HasRoots(g, class)
  BY <1>1, <1>2, UniteJoins
<1>4. class \in [Nodes -> Nodes]
  BY <1>2 DEF Joined
<1> HIDE DEF class, g
<1>5. g \in [Nodes -> Nodes]
  BY <1>3 DEF HasRoots, IsForest
<1> QED
  BY <1>3, <1>4, <1>5 DEF Forests, g

\* The edges of an element are united one after another.
CornersByOne(after, n, f, c) ==
  /\ after \in [0..n -> Forests] /\ after[0] = f
  /\ \A k \in 1..n : after[k] = unite(after[k - 1], Edges(c)[k])
  /\ uniteCorners(f, c) = after[n]

LEMMA EdgesByOne ==
  ASSUME NEW f \in Forests, NEW c, NEW n \in Nat,
         Edges(c) \in [1..n -> Nodes \X Nodes]
  PROVE  \E after : CornersByOne(after, n, f, c)
<1> DEFINE D == Forests
           edges == Edges(c)
           body(iter) == [S \in SUBSET DOMAIN edges |->
                            IF S = {} THEN f
                            ELSE unite(iter[S \ {Max(S)}], edges[Max(S)])]
           stride == [x \in D \X (1..n) |-> unite(x[1], edges[x[2]])]
           chosen == CHOOSE iter : iter = body(iter)
<1>1. n \in Nat /\ DOMAIN edges = 1..n /\ \A k \in 1..n : edges[k] \in Nodes \X Nodes
  OBVIOUS
<1>2. /\ stride \in StepsIn(n, D)
      /\ \A x \in D, k \in 1..n : stride[<<x, k>>] = unite(x, edges[k])
  <2>1. ASSUME NEW x \in D \X (1..n) PROVE unite(x[1], edges[x[2]]) \in D
    <3>1. x[1] \in D /\ edges[x[2]] \in Nodes \X Nodes
      BY <1>1
    <3> HIDE DEF edges
    <3> QED
      BY <3>1, UniteStays
  <2> QED
    BY <2>1 DEF StepsIn
<1>3. \A S \in SUBSET (1..n) : S # {} => Max(S) \in S /\ Max(S) \in 1..n
  BY <1>1, LastOf
<1>4. uniteCorners(f, c) = chosen[1..n]
  BY <1>1 DEF uniteCorners, FoldLeft, MapThenFoldSet
<1>5. f \in D
  OBVIOUS
<1> HIDE DEF stride, D, edges
<1>6. chosen = body(chosen)
  <2>1. PICK iter : IsFold(iter, n, D, f, stride)
    BY <1>1, <1>2, <1>5, FoldExists
  <2>2. iter = body(iter)
    BY <1>1, <1>2, <1>3, <2>1 DEF IsFold
  <2> HIDE DEF body
  <2> QED
    BY <2>2
<1> HIDE DEF chosen
<1>7. PICK after : ValuesOf(after, n, D, f, stride) /\ after[n] = chosen[1..n]
  <2>1. chosen[{}] = f
    BY <1>1, <1>6
  <2>2. \A S \in SUBSET (1..n) :
          S # {} /\ chosen[S \ {Max(S)}] \in D =>
            chosen[S] = stride[<<chosen[S \ {Max(S)}], Max(S)>>]
    <3> SUFFICES ASSUME NEW S \in SUBSET (1..n), S # {}, chosen[S \ {Max(S)}] \in D
                 PROVE  chosen[S] = stride[<<chosen[S \ {Max(S)}], Max(S)>>]
      OBVIOUS
    <3>1. chosen[S] = unite(chosen[S \ {Max(S)}], edges[Max(S)])
      BY <1>1, <1>6
    <3> QED
      BY <1>2, <1>3, <3>1
  <2>3. FoldsOn(chosen, n, D, f, stride)
    BY <2>1, <2>2 DEF FoldsOn
  <2> QED
    BY <1>1, <1>2, <1>5, <2>3, FoldInOrder
<1>8. \A k \in 1..n : after[k] = unite(after[k - 1], edges[k])
  <2> SUFFICES ASSUME NEW k \in 1..n PROVE after[k] = unite(after[k - 1], edges[k])
    OBVIOUS
  <2>1. after[k - 1] \in D /\ after[k] = stride[<<after[k - 1], k>>]
    BY <1>1, <1>7 DEF ValuesOf
  <2> QED
    BY <1>2, <2>1
<1>9. after \in [0..n -> D] /\ after[0] = f /\ uniteCorners(f, c) = after[n]
  BY <1>4, <1>7 DEF ValuesOf
<1> QED
  BY <1>8, <1>9 DEF D, edges, CornersByOne

\* The edges of corners, and what they join.
LEMMA EdgesTyped ==
  ASSUME NEW c \in Seq(Nodes)
  PROVE  \E n \in Nat : Edges(c) \in [1..n -> Nodes \X Nodes]
<1> DEFINE m == Len(c)
<1>1. m \in Nat /\ c \in [1..m -> Nodes]
  OBVIOUS
<1>2. CASE m = 2
  <2>1. Edges(c) = <<c>> /\ c = <<c[1], c[2]>> /\ c[1] \in Nodes /\ c[2] \in Nodes
    BY <1>1, <1>2 DEF Edges
  <2>2. Edges(c) \in [1..1 -> Nodes \X Nodes]
    BY <2>1
  <2> QED
    BY <2>2
<1>3. CASE m # 2
  <2> DEFINE ring == [k \in 1..m |-> <<c[k], c[(k % m) + 1]>>]
  <2>1. \A k \in 1..m : (k % m) + 1 \in 1..m
    BY <1>1
  <2>2. \A k \in 1..m : <<c[k], c[(k % m) + 1]>> \in Nodes \X Nodes
    BY <1>1, <2>1
  <2>3. ring \in [1..m -> Nodes \X Nodes]
    BY <2>2
  <2>4. Edges(c) = ring
    BY <1>3 DEF Edges
  <2> QED
    BY <1>1, <2>3, <2>4
<1> QED
  BY <1>2, <1>3

LEMMA SameInterval ==
  ASSUME NEW n \in Nat, NEW m \in Nat, 1..n = 1..m
  PROVE  n = m
<1>1. n # 0 => n \in 1..n
  OBVIOUS
<1>2. m # 0 => m \in 1..m
  OBVIOUS
<1>3. n # 0 => n <= m /\ 1 <= n
  BY <1>1
<1>4. m # 0 => m <= n /\ 1 <= m
  BY <1>2
<1> QED
  BY <1>3, <1>4

LEMMA EdgesConnect ==
  ASSUME NEW c \in Seq(Nodes), NEW n \in Nat, Edges(c) \in [1..n -> Nodes \X Nodes]
  PROVE  /\ \A k \in 1..n : Edges(c)[k][1] \in ToSet(c) /\ Edges(c)[k][2] \in ToSet(c)
         /\ \A class \in [Nodes -> Nodes] :
              (\A k \in 1..n : class[Edges(c)[k][1]] = class[Edges(c)[k][2]]) =>
                \A a, b \in ToSet(c) : class[a] = class[b]
<1> DEFINE m == Len(c)
           edges == Edges(c)
<1>1. m \in Nat /\ c \in [1..m -> Nodes] /\ ToSet(c) = {c[k] : k \in 1..m}
  BY DEF ToSet
<1>2. DOMAIN edges = 1..n
  OBVIOUS
<1>3. CASE m = 2
  <2>1. edges = <<c>> /\ edges[1] = c
    BY <1>3 DEF Edges
  <2>2. 1 \in 1..n /\ \A k \in 1..n : k = 1
    <3>1. DOMAIN edges = 1..1
      BY <2>1
    <3>2. n = 1
      BY <1>2, <3>1, SameInterval
    <3> QED
      BY <3>2
  <2>3. ToSet(c) = {c[1], c[2]}
    BY <1>1, <1>3
  <2> HIDE DEF edges
  <2> QED
    BY <2>1, <2>2, <2>3 DEF edges
<1>4. CASE m # 2
  <2>1. edges = [k \in 1..m |-> <<c[k], c[(k % m) + 1]>>]
    BY <1>4 DEF Edges
  <2>2. n = m
    <3>1. DOMAIN edges = 1..m
      BY <2>1
    <3> QED
      BY <1>1, <1>2, <3>1, SameInterval
  <2>3. ASSUME NEW k \in 1..m PROVE (k % m) + 1 \in 1..m /\ (k < m => k % m = k)
    <3>1. (k % m) + 1 \in 1..m
      BY <1>1
    <3>2. ASSUME k < m PROVE k % m = k
      <4>1. k \in Nat /\ m \in Nat \ {0} /\ 0 \in Nat /\ k \in 0..(m - 1) /\ k = 0 * m + k
        BY <1>1, <3>2
      <4> QED
        BY <4>1, RestIsUnique
    <3> QED
      BY <3>1, <3>2
  <2>4. \A k \in 1..m : edges[k][1] = c[k] /\ edges[k][2] = c[(k % m) + 1]
    BY <2>1
  <2>5. \A k \in 1..n : edges[k][1] \in ToSet(c) /\ edges[k][2] \in ToSet(c)
    BY <1>1, <2>2, <2>3, <2>4
  <2>6. ASSUME NEW class \in [Nodes -> Nodes],
               \A k \in 1..n : class[edges[k][1]] = class[edges[k][2]]
        PROVE  \A a, b \in ToSet(c) : class[a] = class[b]
    <3> DEFINE P == {k \in Nat : \A j \in 1..m : j - 1 <= k => class[c[j]] = class[c[1]]}
    <3>1. 0 \in P
      BY <1>1
    <3>2. ASSUME NEW k \in 1..m, k - 1 \in P PROVE k \in P
      <4> SUFFICES ASSUME NEW j \in 1..m, j - 1 <= k PROVE class[c[j]] = class[c[1]]
        OBVIOUS
      <4>1. CASE j - 1 <= k - 1
        BY <3>2, <4>1
      <4>2. CASE j - 1 = k
        <5>1. k \in 1..m /\ k < m /\ k - 1 <= k - 1 /\ (k % m) + 1 = j
          <6>1. k \in 1..m /\ k < m /\ k + 1 = j
            BY <1>1, <4>2
          <6>2. k % m = k
            BY <2>3, <6>1
          <6> QED
            BY <6>1, <6>2
        <5>2. class[c[k]] = class[c[1]]
          BY <3>2, <5>1
        <5>3. class[c[k]] = class[c[j]]
          BY <2>2, <2>4, <2>6, <5>1
        <5> QED
          BY <5>2, <5>3
      <4> QED
        BY <1>1, <4>1, <4>2
    <3>3. m \in P
      <4> HIDE DEF P, m
      <4>1. m \in Nat /\ 0..m \subseteq P
        BY <1>1, <3>1, <3>2, Ascent
      <4> QED
        BY <4>1
    <3>4. \A j \in 1..m : class[c[j]] = class[c[1]]
      BY <1>1, <3>3
    <3> QED
      BY <1>1, <3>4
  <2> QED
    BY <2>5, <2>6
<1> QED
  BY <1>1, <1>3, <1>4

\* After an element all its nodes have one root, and nothing is apart that was not.
LEMMA CornersUnited ==
  ASSUME NEW act \in SUBSET Elements, NEW e \in act,
         NEW f \in Forests, NEW root \in [Nodes -> Nodes], HasRoots(f, root), Sound(act, root)
  PROVE  \E class \in [Nodes -> Nodes] :
           /\ HasRoots(uniteCorners(f, Corners[e]), class) /\ Sound(act, class)
           /\ Coarser(root, class)
           /\ \A a, b \in NodesOf[e] : class[a] = class[b]
<1> DEFINE c == Corners[e]
           edges == Edges(c)
<1>1. c \in Seq(Nodes) /\ NodesOf[e] = ToSet(c)
  BY UnionFindAssumption
<1> HIDE DEF c
<1>2. PICK n \in Nat : edges \in [1..n -> Nodes \X Nodes]
  BY <1>1, EdgesTyped
<1>0. PICK after : CornersByOne(after, n, f, c)
  BY <1>2, EdgesByOne
<1>3. /\ after \in [0..n -> Forests] /\ after[0] = f
      /\ \A k \in 1..n : after[k] = unite(after[k - 1], edges[k])
      /\ uniteCorners(f, c) = after[n]
  BY <1>0 DEF CornersByOne
<1>4. /\ \A k \in 1..n : edges[k][1] \in ToSet(c) /\ edges[k][2] \in ToSet(c)
      /\ \A class \in [Nodes -> Nodes] :
           (\A k \in 1..n : class[edges[k][1]] = class[edges[k][2]]) =>
             \A a, b \in ToSet(c) : class[a] = class[b]
  BY <1>1, <1>2, EdgesConnect
<1> HIDE DEF edges
<1> DEFINE Good(k, class) ==
             /\ HasRoots(after[k], class) /\ Sound(act, class) /\ Coarser(root, class)
             /\ \A j \in 1..n : j <= k => class[edges[j][1]] = class[edges[j][2]]
           P == {k \in 0..n : \E class \in [Nodes -> Nodes] : Good(k, class)}
<1>5. 0 \in P
  <2>1. Good(0, root)
    BY <1>3 DEF Coarser
  <2> HIDE DEF Good
  <2> QED
    BY <2>1
<1>6. ASSUME NEW k \in 1..n, k - 1 \in P PROVE k \in P
  <2>1. PICK class \in [Nodes -> Nodes] : Good(k - 1, class)
    <3> HIDE DEF Good
    <3> QED
      BY <1>6
  <2> DEFINE a == edges[k][1]
             b == edges[k][2]
             next == Joined(class, a, b)
  <2>2. a \in Nodes /\ b \in Nodes /\ edges[k] = <<a, b>> /\ a \in NodesOf[e] /\ b \in NodesOf[e]
    BY <1>1, <1>2, <1>4
  <2>3. HasRoots(after[k], next)
    <3>1. after[k] = unite(after[k - 1], <<a, b>>)
      BY <1>3, <2>2
    <3> HIDE DEF a, b
    <3>2. HasRoots(after[k - 1], class) /\ a \in Nodes /\ b \in Nodes
      BY <2>1, <2>2
    <3> DEFINE g == after[k - 1]
    <3> HIDE DEF g
    <3>3. HasRoots(unite(g, <<a, b>>), Joined(class, a, b))
      BY <3>2, UniteJoins DEF g
    <3> QED
      BY <3>1, <3>3 DEF g
  <2>4. Connected(act, a, b)
    BY <2>2, ElementConnects
  <2>5. /\ next \in [Nodes -> Nodes] /\ Sound(act, next)
        /\ Coarser(class, next) /\ next[a] = next[b]
    <3> HIDE DEF a, b
    <3> QED
      BY <2>1, <2>2, <2>4, JoiningIsSound
  <2>6. Coarser(root, next)
    <3> HIDE DEF next
    <3> QED
      BY <2>1, <2>5 DEF Coarser
  <2>7. ASSUME NEW j \in 1..n, j <= k PROVE next[edges[j][1]] = next[edges[j][2]]
    <3>1. CASE j = k
      BY <2>5, <3>1
    <3>2. CASE j # k
      <4>1. j <= k - 1
        BY <1>2, <2>7, <3>2
      <4>2. class[edges[j][1]] = class[edges[j][2]]
        BY <2>1, <4>1
      <4>3. edges[j][1] \in Nodes /\ edges[j][2] \in Nodes
        BY <1>2
      <4> HIDE DEF next
      <4> QED
        BY <2>5, <4>2, <4>3 DEF Coarser
    <3> QED
      BY <3>1, <3>2
  <2>8. Good(k, next)
    BY <2>3, <2>5, <2>6, <2>7
  <2> HIDE DEF Good, next
  <2> QED
    BY <2>5, <2>8
<1>7. n \in P
  <2> HIDE DEF P
  <2>1. 0..n \subseteq P
    BY <1>5, <1>6, Ascent
  <2> QED
    BY <2>1
<1>8. PICK class \in [Nodes -> Nodes] : Good(n, class)
  <2> HIDE DEF Good
  <2> QED
    BY <1>7
<1>9. \A a, b \in NodesOf[e] : class[a] = class[b]
  BY <1>1, <1>4, <1>8
<1> QED
  BY <1>3, <1>8, <1>9 DEF c

\* The elements are united one after another.
ActiveByOne(after, act, order) ==
  /\ after \in [0..Len(order) -> Forests] /\ after[0] = Alone
  /\ \A k \in 1..Len(order) : after[k] = uniteElement(act, after[k - 1], order[k])
  /\ Forest(act, order) = after[Len(order)]

LEMMA UniteElementStays ==
  ASSUME NEW act, NEW f \in Forests, NEW e \in Elements
  PROVE  uniteElement(act, f, e) \in Forests
<1> DEFINE c == Corners[e]
           edges == Edges(c)
<1>1. c \in Seq(Nodes)
  BY UnionFindAssumption
<1> HIDE DEF c
<1>2. PICK n \in Nat : edges \in [1..n -> Nodes \X Nodes]
  BY <1>1, EdgesTyped
<1>3. PICK after : CornersByOne(after, n, f, c)
  BY <1>2, EdgesByOne
<1>4. uniteCorners(f, c) \in Forests
  BY <1>3 DEF CornersByOne
<1> QED
  BY <1>4 DEF uniteElement, c

LEMMA ElementsByOne ==
  ASSUME NEW act \in SUBSET Elements, NEW order \in Seq(Elements),
         NEW f \in Forests, f = Alone
  PROVE  \E after : ActiveByOne(after, act, order)
<1> DEFINE n == Len(order)
           D == Forests
           body(iter) == [S \in SUBSET DOMAIN order |->
                            IF S = {} THEN f
                            ELSE uniteElement(act, iter[S \ {Max(S)}], order[Max(S)])]
           stride == [x \in D \X (1..n) |-> uniteElement(act, x[1], order[x[2]])]
           chosen == CHOOSE iter : iter = body(iter)
<1>1. n \in Nat /\ DOMAIN order = 1..n /\ \A k \in 1..n : order[k] \in Elements
  OBVIOUS
<1>2. /\ stride \in StepsIn(n, D)
      /\ \A x \in D, k \in 1..n : stride[<<x, k>>] = uniteElement(act, x, order[k])
  <2>1. ASSUME NEW x \in D \X (1..n) PROVE uniteElement(act, x[1], order[x[2]]) \in D
    <3>1. x[1] \in D /\ order[x[2]] \in Elements
      BY <1>1
    <3> QED
      BY <3>1, UniteElementStays
  <2> QED
    BY <2>1 DEF StepsIn
<1>3. \A S \in SUBSET (1..n) : S # {} => Max(S) \in S /\ Max(S) \in 1..n
  BY <1>1, LastOf
<1>4. Forest(act, order) = chosen[1..n]
  BY <1>1 DEF Forest, FoldLeft, MapThenFoldSet
<1>5. f \in D
  OBVIOUS
<1> HIDE DEF stride, D, n
<1>6. chosen = body(chosen)
  <2>1. PICK iter : IsFold(iter, n, D, f, stride)
    BY <1>1, <1>2, <1>5, FoldExists
  <2>2. iter = body(iter)
    BY <1>1, <1>2, <1>3, <2>1 DEF IsFold
  <2> HIDE DEF body
  <2> QED
    BY <2>2
<1> HIDE DEF chosen
<1>7. PICK after : ValuesOf(after, n, D, f, stride) /\ after[n] = chosen[1..n]
  <2>1. chosen[{}] = f
    BY <1>1, <1>6
  <2>2. \A S \in SUBSET (1..n) :
          S # {} /\ chosen[S \ {Max(S)}] \in D =>
            chosen[S] = stride[<<chosen[S \ {Max(S)}], Max(S)>>]
    <3> SUFFICES ASSUME NEW S \in SUBSET (1..n), S # {}, chosen[S \ {Max(S)}] \in D
                 PROVE  chosen[S] = stride[<<chosen[S \ {Max(S)}], Max(S)>>]
      OBVIOUS
    <3>1. chosen[S] = uniteElement(act, chosen[S \ {Max(S)}], order[Max(S)])
      BY <1>1, <1>6
    <3> QED
      BY <1>2, <1>3, <3>1
  <2>3. FoldsOn(chosen, n, D, f, stride)
    BY <2>1, <2>2 DEF FoldsOn
  <2> QED
    BY <1>1, <1>2, <1>5, <2>3, FoldInOrder
<1>8. \A k \in 1..n : after[k] = uniteElement(act, after[k - 1], order[k])
  <2> SUFFICES ASSUME NEW k \in 1..n PROVE after[k] = uniteElement(act, after[k - 1], order[k])
    OBVIOUS
  <2>1. after[k - 1] \in D /\ after[k] = stride[<<after[k - 1], k>>]
    BY <1>1, <1>7 DEF ValuesOf
  <2> QED
    BY <1>2, <2>1
<1>9. after \in [0..n -> D] /\ after[0] = f /\ Forest(act, order) = after[n]
  BY <1>4, <1>7 DEF ValuesOf
<1> QED
  BY <1>8, <1>9 DEF D, n, ActiveByOne

LEMMA AloneIsForest == HasRoots(Alone, Alone) /\ Alone \in Forests /\ Alone \in [Nodes -> Nodes]
<1> DEFINE rank == [n \in Nodes |-> 0]
<1>1. Alone \in [Nodes -> Nodes] /\ \A n \in Nodes : Alone[n] = n
  BY DEF Alone
<1>2. 0 \in Nat /\ rank \in [Nodes -> 0..0]
  OBVIOUS
<1>3. IsForest(Alone, Alone, rank, 0)
  <2> HIDE DEF rank
  <2> QED
    BY <1>1, <1>2 DEF IsForest
<1>4. HasRoots(Alone, Alone)
  <2> HIDE DEF rank
  <2> QED
    BY <1>2, <1>3 DEF HasRoots
<1> QED
  BY <1>1, <1>4 DEF Forests

\* Two nodes have one root exactly when the active elements connect them.
LEMMA ForestConnects ==
  ASSUME NEW act \in SUBSET Elements, NEW order \in Orders
  PROVE  \E root \in [Nodes -> Nodes] :
           /\ HasRoots(Forest(act, order), root)
           /\ \A a, b \in Nodes : root[a] = root[b] <=> Connected(act, a, b)
<1> DEFINE n == Len(order)
<1>1. order \in Seq(Elements) /\ ToSet(order) = Elements
  BY UnionFindAssumption
<1>2. n \in Nat /\ order \in [1..n -> Elements] /\ Elements = {order[k] : k \in 1..n}
  BY <1>1 DEF ToSet
<1>3. PICK after : ActiveByOne(after, act, order)
  BY <1>1, AloneIsForest, ElementsByOne
<1>4. /\ after \in [0..n -> Forests] /\ after[0] = Alone
      /\ \A k \in 1..n : after[k] = uniteElement(act, after[k - 1], order[k])
      /\ Forest(act, order) = after[n]
  BY <1>3 DEF ActiveByOne
<1> HIDE DEF n
<1> DEFINE Good(k, root) ==
             /\ HasRoots(after[k], root) /\ Sound(act, root)
             /\ \A j \in 1..n : j <= k /\ order[j] \in act =>
                  \A a, b \in NodesOf[order[j]] : root[a] = root[b]
           P == {k \in 0..n : \E root \in [Nodes -> Nodes] : Good(k, root)}
<1>5. 0 \in P
  <2>1. Sound(act, Alone)
    BY ConnectedReflexive DEF Sound, Alone
  <2>2. Good(0, Alone)
    BY <1>2, <1>4, <2>1, AloneIsForest
  <2> HIDE DEF Good
  <2> QED
    BY <1>2, <2>2, AloneIsForest
<1>6. ASSUME NEW k \in 1..n, k - 1 \in P PROVE k \in P
  <2>1. PICK root \in [Nodes -> Nodes] : Good(k - 1, root)
    <3> HIDE DEF Good
    <3> QED
      BY <1>6
  <2> DEFINE e == order[k]
             f == after[k - 1]
  <2>2. e \in Elements /\ f \in Forests /\ after[k] = uniteElement(act, f, e)
    BY <1>2, <1>4
  <2>3. CASE e \in act
    <3>1. HasRoots(f, root) /\ Sound(act, root)
      BY <2>1
    <3>2. PICK class \in [Nodes -> Nodes] :
            /\ HasRoots(uniteCorners(f, Corners[e]), class) /\ Sound(act, class)
            /\ Coarser(root, class)
            /\ \A a, b \in NodesOf[e] : class[a] = class[b]
      <4> HIDE DEF f, e
      <4> QED
        BY <2>2, <2>3, <3>1, CornersUnited
    <3>3. HasRoots(after[k], class)
      BY <2>2, <2>3, <3>2 DEF uniteElement
    <3>4. ASSUME NEW j \in 1..n, j <= k, order[j] \in act,
                 NEW a \in NodesOf[order[j]], NEW b \in NodesOf[order[j]]
          PROVE  class[a] = class[b]
      <4>1. CASE j = k
        BY <3>2, <3>4, <4>1
      <4>2. CASE j # k
        <5>1. j <= k - 1
          BY <1>2, <3>4, <4>2
        <5>2. root[a] = root[b]
          BY <2>1, <3>4, <5>1
        <5>3. a \in Nodes /\ b \in Nodes
          BY <1>2, <3>4, ConnectivityAssumption
        <5> QED
          BY <3>2, <5>2, <5>3 DEF Coarser
      <4> QED
        BY <4>1, <4>2
    <3>5. Good(k, class)
      BY <3>2, <3>3, <3>4
    <3> HIDE DEF Good
    <3> QED
      BY <3>5
  <2>4. CASE e \notin act
    <3>1. after[k] = after[k - 1]
      BY <2>2, <2>4 DEF uniteElement
    <3>2. \A j \in 1..n : j <= k /\ order[j] \in act => j <= k - 1
      BY <1>2, <2>4
    <3>3. Good(k, root)
      BY <2>1, <3>1, <3>2
    <3> HIDE DEF Good
    <3> QED
      BY <3>3
  <2> QED
    BY <2>3, <2>4
<1>7. n \in P
  <2> HIDE DEF P
  <2>1. 0..n \subseteq P
    BY <1>2, <1>5, <1>6, Ascent
  <2> QED
    BY <1>2, <2>1
<1>8. PICK root \in [Nodes -> Nodes] : Good(n, root)
  <2> HIDE DEF Good
  <2> QED
    BY <1>7
<1>9. ASSUME NEW e \in act PROVE \A a, b \in NodesOf[e] : root[a] = root[b]
  <2>1. PICK k \in 1..n : order[k] = e
    BY <1>2
  <2>2. k <= n
    BY <1>2
  <2> QED
    BY <1>8, <2>1, <2>2
<1>10. ASSUME NEW a \in Nodes, NEW b \in Nodes
       PROVE  root[a] = root[b] <=> Connected(act, a, b)
  <2>1. ASSUME root[a] = root[b] PROVE Connected(act, a, b)
    <3>1. Connected(act, a, root[a]) /\ Connected(act, b, root[b])
      BY <1>8 DEF Sound
    <3>2. Connected(act, root[b], b) /\ root[b] \in Nodes
      BY <3>1, ConnectedSymmetric
    <3> QED
      BY <2>1, <3>1, <3>2, ConnectedTransitive
  <2>2. ASSUME Connected(act, a, b) PROVE root[a] = root[b]
    <3> DEFINE S == {m \in Nodes : root[m] = root[a]}
    <3>1. Closed(act, S)
      <4> SUFFICES ASSUME NEW e \in act, NEW m \in NodesOf[e], m \in S, NEW p \in NodesOf[e]
                   PROVE  p \in S
        BY DEF Closed
      <4>1. root[p] = root[m] /\ p \in Nodes
        BY <1>9, ConnectivityAssumption
      <4> QED
        BY <4>1
    <3>2. S \in SUBSET Nodes /\ a \in S
      OBVIOUS
    <3>3. b \in S
      <4> HIDE DEF S
      <4> QED
        BY <2>2, <3>1, <3>2 DEF Connected
    <3> QED
      BY <3>3
  <2> QED
    BY <2>1, <2>2
<1> QED
  BY <1>4, <1>8, <1>10

LEMMA RootsAreComponents ==
  ASSUME NEW act \in SUBSET Elements
  PROVE  FindsComponents(act)
<1> SUFFICES ASSUME NEW order \in Orders
             PROVE  LET f == Forest(act, order) IN
                      {{b \in Nodes : Root(f, b) = r} : r \in {Root(f, a) : a \in Nodes}}
                        = {Component(act, m) : m \in Nodes}
  BY DEF FindsComponents
<1> DEFINE f == Forest(act, order)
<1>1. PICK root \in [Nodes -> Nodes] :
        /\ HasRoots(f, root)
        /\ \A a, b \in Nodes : root[a] = root[b] <=> Connected(act, a, b)
  BY ForestConnects
<1> HIDE DEF f
<1>2. \A a \in Nodes : Root(f, a) = root[a]
  BY <1>1, FindEndsAtRoot DEF Root
<1>3. ASSUME NEW a \in Nodes
      PROVE  {b \in Nodes : Root(f, b) = Root(f, a)} = Component(act, a)
  BY <1>1, <1>2 DEF Component
<1>4. {{b \in Nodes : Root(f, b) = r} : r \in {Root(f, a) : a \in Nodes}}
        = {Component(act, m) : m \in Nodes}
  <2> DEFINE class(r) == {b \in Nodes : Root(f, b) = r}
  <2>1. \A a \in Nodes : class(Root(f, a)) = Component(act, a)
    BY <1>3
  <2> HIDE DEF class
  <2>2. {class(r) : r \in {Root(f, a) : a \in Nodes}} = {Component(act, m) : m \in Nodes}
    BY <2>1
  <2> QED
    BY <2>2 DEF class
<1> QED
  BY <1>4 DEF f

LEMMA RootsTellDebris ==
  ASSUME NEW act \in SUBSET Elements, NEW fixed \in SUBSET Nodes
  PROVE  FindsDebris(act, fixed)
<1> SUFFICES ASSUME NEW order \in Orders
             PROVE  DetachedByRoot(Forest(act, order), act, fixed) = Detached(act, fixed)
  BY DEF FindsDebris
<1> DEFINE f == Forest(act, order)
           grounded == {Root(f, n) : n \in Attached(act) \cap fixed}
<1>1. PICK root \in [Nodes -> Nodes] :
        /\ HasRoots(f, root)
        /\ \A a, b \in Nodes : root[a] = root[b] <=> Connected(act, a, b)
  BY ForestConnects
<1> HIDE DEF f
<1>2. \A a \in Nodes : Root(f, a) = root[a]
  BY <1>1, FindEndsAtRoot DEF Root
<1>3. ASSUME NEW e \in act
      PROVE  Root(f, Corners[e][1]) \in grounded <=> e \in Grounded(act, fixed)
  <2> DEFINE c == Corners[e][1]
  <2>1. c \in NodesOf[e] /\ NodesOf[e] \subseteq Nodes
    <3>1. Corners[e] \in Seq(Nodes) /\ NodesOf[e] = ToSet(Corners[e])
      BY UnionFindAssumption
    <3>2. NodesOf[e] # {} /\ NodesOf[e] \subseteq Nodes
      BY ConnectivityAssumption
    <3> DEFINE corners == Corners[e]
    <3>3. corners \in Seq(Nodes) /\ ToSet(corners) # {}
      BY <3>1, <3>2
    <3> HIDE DEF corners
    <3>4. corners[1] \in ToSet(corners)
      <4>1. Len(corners) # 0
        BY <3>3 DEF ToSet
      <4>2. 1 \in DOMAIN corners
        BY <3>3, <4>1
      <4> QED
        BY <4>2 DEF ToSet
    <3> QED
      BY <3>1, <3>2, <3>4 DEF corners
  <2> HIDE DEF c
  <2>2. Attached(act) \subseteq Nodes
    BY ConnectivityAssumption DEF Attached
  <2>3. c \in Attached(act) /\ c \in Nodes
    BY <2>1 DEF Attached
  <2>4. ASSUME Root(f, c) \in grounded PROVE e \in Grounded(act, fixed)
    <3>1. PICK b \in Attached(act) \cap fixed : Root(f, c) = Root(f, b)
      BY <2>4
    <3>2. b \in Nodes /\ Connected(act, c, b)
      BY <1>1, <1>2, <2>2, <2>3, <3>1
    <3>3. ASSUME NEW n \in NodesOf[e] PROVE b \in Component(act, n)
      <4>1. n \in Nodes /\ Connected(act, n, c)
        BY <2>1, ElementConnects
      <4>2. Connected(act, n, b)
        BY <2>3, <3>2, <4>1, ConnectedTransitive
      <4> QED
        BY <3>2, <4>2 DEF Component
    <3> QED
      BY <3>1, <3>3 DEF Grounded
  <2>5. ASSUME e \in Grounded(act, fixed) PROVE Root(f, c) \in grounded
    <3>1. PICK b \in Nodes : b \in fixed /\ Connected(act, c, b)
      BY <2>1, <2>5 DEF Grounded, Component
    <3>2. b \in Attached(act)
      BY <2>3, <3>1, ConnectedAttached
    <3>3. Root(f, c) = Root(f, b)
      BY <1>1, <1>2, <2>3, <3>1
    <3> QED
      BY <3>1, <3>2, <3>3
  <2> QED
    BY <2>4, <2>5 DEF c
<1>4. DetachedByRoot(f, act, fixed) = {e \in act : Root(f, Corners[e][1]) \notin grounded}
  BY DEF DetachedByRoot
<1> HIDE DEF grounded
<1>5. DetachedByRoot(f, act, fixed) = act \ Grounded(act, fixed)
  <2>1. Grounded(act, fixed) \subseteq act
    BY DEF Grounded
  <2> QED
    BY <1>3, <1>4, <2>1
<1> QED
  BY <1>5 DEF Detached, f

-------------------------------------------------------------------------------
(***************************************************************************)
(* runTensionOnly.  A monotone run only ever loses cables, so every set it  *)
(* has seen contains the active one: no set comes back, and each iteration  *)
(* costs a cable.                                                           *)
(***************************************************************************)
MonotoneRun ==
  /\ pass = "fallback" => ~react
  /\ ~react /\ pass # "done" =>
       /\ \A S \in seen : taut \subseteq S
       /\ it + Cardinality(taut) <= Cardinality(Cables)

\* While the loop goes on it has iterations left.
TurnsLeft == pass # "done" => it < MaxIter

TensionInv ==
  TensionTypeOK /\ TurnsLeft /\ MonotoneRun /\ ConvergedIsEquilibrium /\ MonotoneTerminates

USE TensionOnlyAssumption

\* The analysis starts from the cables of the caller's model, none solved yet.
LEMMA TensionStarts == TensionInit => TensionInv
<1> SUFFICES ASSUME TensionInit PROVE TensionInv
  OBVIOUS
<1>1. TensionTypeOK
  BY DEF TensionInit, TensionTypeOK, NoResult
<1>2. Cardinality(braces) \in Nat /\ Cardinality(braces) <= Cardinality(Cables)
  BY FS_Subset, FS_CardinalityType DEF TensionInit
<1>3. MonotoneRun /\ TurnsLeft
  BY <1>2 DEF TensionInit, MonotoneRun, TurnsLeft
<1> QED
  BY <1>1, <1>3 DEF TensionInit, TensionInv, ConvergedIsEquilibrium, MonotoneTerminates, Done

\* What a solve of a set may answer keeps apart what it compresses and what it pulls.
LEMMA AnswerShape ==
  ASSUME TensionTypeOK, NEW a \in {Mechanism} \cup Solved(taut), a # Mechanism
  PROVE  /\ a.compressed \subseteq taut /\ a.pulled \subseteq Cables \ taut
         /\ Flipped(a) \subseteq Cables
         /\ Settled(a) => a.compressed = {} /\ (react => a.pulled = {})
         /\ ~react => Flipped(a) \subseteq taut
BY DEF TensionTypeOK, Solved, Flipped, Settled

\* One turn of the loop, with the answer of the active set, preserves the invariant.
LEMMA TurnKeepsInv ==
  ASSUME TensionInv, pass # "done", taut \in DOMAIN answers',
         NEW a \in {Mechanism} \cup Solved(taut), answers'[taut] = a,
         DOMAIN answers' \subseteq SUBSET Cables,
         \A S \in DOMAIN answers' : answers'[S] \in {Mechanism} \cup Solved(S),
         Iterate(a), UNCHANGED braces
  PROVE  TensionInv'
<1> DEFINE next == Flipped(a)
<1> USE DEF TensionInv
<1>1. CASE a = Mechanism
  <2>1. FoundSingular /\ it' = it + 1 /\ pass' = "done"
    BY <1>1 DEF Iterate, FoundSingular, Report
  <2>2. ~result'.converged /\ result'.singular /\ result'.final = taut /\ result'.slack = {}
    BY <2>1 DEF FoundSingular, Report
  <2>3. UNCHANGED <<taut, seen, react>>
    BY <2>1 DEF FoundSingular, Report
  <2> QED
    BY <2>1, <2>2, <2>3 DEF TensionTypeOK, TurnsLeft, MonotoneRun, ConvergedIsEquilibrium,
                            MonotoneTerminates
<1>2. CASE a # Mechanism /\ Settled(a)
  <2>1. Converged /\ it' = it + 1 /\ pass' = "done"
    BY <1>2 DEF Iterate, Converged, Report
  <2>2. /\ result'.converged /\ result'.final = taut /\ result'.slack = Cables \ taut
    BY <2>1 DEF Converged, Report
  <2>3. UNCHANGED <<taut, seen, react>>
    BY <2>1 DEF Converged, Report
  <2>4. ConvergedIsEquilibrium'
    BY <1>2, <2>2, <2>3, AnswerShape DEF ConvergedIsEquilibrium, Answer
  <2> QED
    BY <2>1, <2>2, <2>3, <2>4 DEF TensionTypeOK, TurnsLeft, MonotoneRun, MonotoneTerminates
<1>3. CASE a # Mechanism /\ ~Settled(a) /\ next \in seen
  <2>1. Cycle
    BY <1>3 DEF Iterate
  <2>2. /\ taut' = braces /\ seen' = {braces} /\ react' = FALSE /\ pass' = "fallback"
        /\ UNCHANGED result
    BY <2>1 DEF Cycle, StartAgain
  <2>3. react
    \* a monotone run only shrinks, and what it has seen contains the active set
    <3>1. SUFFICES ASSUME ~react PROVE FALSE
      OBVIOUS
    <3>2. taut \subseteq next
      BY <1>3, <3>1 DEF MonotoneRun
    <3>3. next \subseteq taut
      BY <1>3, <3>1, AnswerShape
    <3> QED
      BY <1>3, <3>2, <3>3 DEF Settled
  <2>4. it' = 0
    BY <1>3, <2>2, <2>3 DEF Iterate, MonotoneRun, TensionTypeOK
  <2>5. Cardinality(braces) \in Nat /\ Cardinality(braces) <= Cardinality(Cables)
    BY FS_Subset, FS_CardinalityType DEF TensionTypeOK
  <2>6. TensionTypeOK'
    <3>1. it' \in 0..MaxIter
      BY <2>4
    <3> QED
      BY <2>2, <3>1 DEF TensionTypeOK
  <2>7. MonotoneRun' /\ TurnsLeft'
    BY <2>2, <2>4, <2>5 DEF TurnsLeft, MonotoneRun
  <2> QED
    BY <2>2, <2>6, <2>7 DEF ConvergedIsEquilibrium, MonotoneTerminates, Done
<1>4. CASE a # Mechanism /\ ~Settled(a) /\ next \notin seen
  <2>1. it' = it + 1 /\ IF LastTurn THEN Exhausted(next) ELSE Continue(next)
    BY <1>4 DEF Iterate, LastTurn, Exhausted, Continue, Report
  <2>2. next \subseteq Cables /\ (~react => next \subseteq taut /\ next # taut)
    BY <1>4, AnswerShape DEF Settled
  <2>3. /\ IsFiniteSet(taut) /\ IsFiniteSet(next)
        /\ Cardinality(taut) \in Nat /\ Cardinality(next) \in Nat /\ Cardinality(Cables) \in Nat
    BY <2>2, FS_Subset, FS_CardinalityType DEF TensionTypeOK
  <2>4. ~react => Cardinality(next) + 1 <= Cardinality(taut)
    BY <2>2, <2>3, FS_Subset
  <2>5. CASE LastTurn
    <3>1. Exhausted(next) /\ pass' = "done"
      BY <2>1, <2>5 DEF Exhausted, Report
    <3>2. ~result'.converged /\ result'.final = taut /\ result'.slack = Cables \ next
      BY <3>1 DEF Exhausted, Report
    <3>3. UNCHANGED <<taut, seen, react>>
      BY <3>1 DEF Exhausted, Report
    <3>4. ~react => MaxIter <= Cardinality(Cables)
      BY <2>3, <2>4, <2>5 DEF LastTurn, MonotoneRun, TensionTypeOK
    <3> QED
      BY <2>1, <2>3, <3>1, <3>2, <3>3, <3>4
         DEF TensionTypeOK, TurnsLeft, MonotoneRun, ConvergedIsEquilibrium,
             MonotoneTerminates
  <2>6. CASE ~LastTurn
    <3>1. Continue(next)
      BY <2>1, <2>6
    <3>2. /\ taut' = next /\ seen' = seen \cup {next}
          /\ UNCHANGED <<react, pass, result>>
      BY <3>1 DEF Continue
    <3>3. it' \in 0..MaxIter /\ it' < MaxIter
      BY <2>1, <2>6 DEF LastTurn, TensionTypeOK, TurnsLeft
    <3>4. TensionTypeOK'
      BY <2>2, <3>2, <3>3 DEF TensionTypeOK
    <3>5. MonotoneRun'
      BY <2>1, <2>2, <2>3, <2>4, <3>2 DEF MonotoneRun, TensionTypeOK
    <3> QED
      BY <3>2, <3>3, <3>4, <3>5 DEF TurnsLeft, ConvergedIsEquilibrium, MonotoneTerminates, Done
  <2> QED
    BY <2>5, <2>6
<1> QED
  BY <1>1, <1>2, <1>3, <1>4

LEMMA TensionStep == TensionInv /\ [TensionNext]_tensionVars => TensionInv'
<1> SUFFICES ASSUME TensionInv, [TensionNext]_tensionVars PROVE TensionInv'
  OBVIOUS
<1>1. CASE SolveSet
  <2>1. CASE taut \in DOMAIN answers
    <3>1. answers[taut] \in {Mechanism} \cup Solved(taut) /\ UNCHANGED answers
      BY <1>1, <2>1 DEF SolveSet, TensionInv, TensionTypeOK
    <3> QED
      BY <1>1, <2>1, <3>1, TurnKeepsInv DEF SolveSet, TensionInv, TensionTypeOK
  <2>2. CASE taut \notin DOMAIN answers
    <3>1. PICK a \in {Mechanism} \cup Solved(taut) :
            /\ answers' = [S \in DOMAIN answers \cup {taut} |->
                             IF S = taut THEN a ELSE answers[S]]
            /\ Iterate(a)
      BY <1>1, <2>2 DEF SolveSet
    <3>2. /\ DOMAIN answers' = DOMAIN answers \cup {taut} /\ answers'[taut] = a
          /\ \A S \in DOMAIN answers : S # taut => answers'[S] = answers[S]
      BY <3>1
    <3>3. /\ DOMAIN answers' \subseteq SUBSET Cables
          /\ \A S \in DOMAIN answers' : answers'[S] \in {Mechanism} \cup Solved(S)
      BY <3>2 DEF TensionInv, TensionTypeOK
    <3> QED
      BY <1>1, <3>1, <3>2, <3>3, TurnKeepsInv DEF SolveSet
  <2> QED
    BY <2>1, <2>2
<1>2. CASE UNCHANGED tensionVars
  BY <1>2 DEF tensionVars, TensionInv, TensionTypeOK, TurnsLeft, MonotoneRun,
              ConvergedIsEquilibrium, MonotoneTerminates, Done, Answer
<1> QED
  BY <1>1, <1>2 DEF TensionNext

LEMMA TensionInvariant == TensionSpec => []TensionInv
BY TensionStarts, TensionStep, PTL DEF TensionSpec

\* A converged result of runTensionOnly is an equilibrium of the set it reports,
\* for every number of cables and every answer of the mechanics.
THEOREM ConvergedStatesBalance == TensionSpec => []ConvergedIsEquilibrium
BY TensionInvariant, PTL DEF TensionInv

\* With more iterations than cables the fallback of runTensionOnly always ends
\* in a verdict: it can neither cycle nor run out of iterations.
THEOREM FallbackTerminates == TensionSpec => []MonotoneTerminates
BY TensionInvariant, PTL DEF TensionInv

-------------------------------------------------------------------------------
(***************************************************************************)
(* runDynamicCollapse.  Between the loss of elements and its event the      *)
(* account is kept by the event at hand, which names nothing twice and      *)
(* nothing that stands.  The delay of a cancellation is at most the steps   *)
(* since the last frame, where the caller would have been asked.            *)
(***************************************************************************)
EventAtHand ==
  /\ stage = "start" => standing = before /\ \A e \in Elements : emitted[e] = 0
  /\ stage = "rebuild" =>
       \A e \in Elements :
         /\ e \in event => emitted[e] = 0 /\ e \notin standing
         /\ emitted[e] <= 1
         /\ e \in before => (emitted[e] = 0 <=> e \in standing \cup event)

EventsLeft == stage # "done" => events <= MaxEvents

SinceLastFrame == cancelled /\ stage # "done" => t - asked <= t % FrameStride

DynamicInv ==
  DynamicTypeOK /\ EventsLeft /\ EventAtHand /\ LossesReported /\ SinceLastFrame

USE ConnectivityAssumption, DynamicCollapseAssumption

\* The rest grows by one until it is zero again.
LEMMA RestGrows ==
  ASSUME NEW n \in Nat, NEW d \in Nat \ {0}, (n + 1) % d # 0
  PROVE  (n + 1) % d = (n % d) + 1
<1> DEFINE q == n \div d
           r == n % d
<1>1. q \in Nat /\ r \in 0..(d - 1)
  BY Z3
<1>2. n = d * q + r
  BY DivisionWithRest
<1> HIDE DEF q, r
<1>3. CASE r = d - 1
  <2>1. n + 1 = (q + 1) * d + 0 /\ q + 1 \in Nat /\ 0 \in 0..(d - 1)
    BY <1>1, <1>2, <1>3, Z3
  <2>2. (n + 1) % d = 0
    BY <2>1, RestIsUnique
  <2> QED
    BY <2>2
<1>4. CASE r # d - 1
  <2> DEFINE s == r + 1
  <2>1. n + 1 = q * d + s /\ s \in 0..(d - 1) /\ n + 1 \in Nat
    BY <1>1, <1>2, <1>4, Z3
  <2> HIDE DEF s
  <2>2. (n + 1) % d = s
    BY <1>1, <2>1, RestIsUnique
  <2> QED
    BY <2>2 DEF r, s
<1> QED
  BY <1>3, <1>4

LEMMA DynamicStarts == DynamicInit => DynamicInv
<1> SUFFICES ASSUME DynamicInit PROVE DynamicInv
  OBVIOUS
<1>1. DynamicTypeOK
  <2>1. t \in 0..Horizon /\ asked \in 0..t /\ events \in 0..(MaxEvents + 1)
    BY DEF DynamicInit
  <2> QED
    BY <2>1 DEF DynamicInit, DynamicTypeOK
<1> QED
  BY <1>1 DEF DynamicInit, DynamicInv, EventsLeft, EventAtHand, LossesReported, SinceLastFrame

\* What goes: the elements the event names and the debris, nothing that stands on.
LEMMA LoseShape ==
  ASSUME DynamicTypeOK, NEW gone \in SUBSET Elements, Lose(gone)
  PROVE  /\ standing' \subseteq standing \ gone /\ held' \in SUBSET Nodes
         /\ event' = gone \cup ((standing \ gone) \ standing')
         /\ stage' = "rebuild"
<1> DEFINE left == standing \ gone
<1>1. Detached(left, Held) \subseteq left
  BY DEF Detached
<1>2. DebrisNodes(left, Held) \subseteq Nodes
  BY <1>1 DEF DebrisNodes, Attached, DynamicTypeOK
<1> QED
  BY <1>1, <1>2 DEF Lose, Fragments, DynamicTypeOK

\* The scenario and the worst element of a screen leave an event to be told.
LEMMA LossIsPending ==
  ASSUME DynamicInv, NEW gone \in SUBSET Elements, Lose(gone),
         \/ stage = "start"
         \/ stage = "screen" /\ gone \subseteq standing,
         UNCHANGED <<before, emitted>>
  PROVE  /\ EventAtHand' /\ stage' = "rebuild"
         /\ standing' \in SUBSET before' /\ event' \in SUBSET Elements
         /\ held' \in SUBSET Nodes
<1> USE DEF DynamicInv, DynamicTypeOK
<1>1. /\ standing' \subseteq standing \ gone /\ held' \in SUBSET Nodes
      /\ event' = gone \cup ((standing \ gone) \ standing')
      /\ stage' = "rebuild"
  BY LoseShape
<1>2. \A e \in Elements : emitted[e] \in Nat
  OBVIOUS
<1>3. \A e \in Elements : (e \in standing \/ stage = "start") => emitted[e] = 0
  BY DEF EventAtHand, LossesReported
<1>4. \A e \in Elements : emitted[e] <= 1 /\ (e \in before => (emitted[e] = 0 <=> e \in standing))
  BY <1>2 DEF EventAtHand, LossesReported
<1>5. \A e \in Elements : e \in event' => emitted[e] = 0 /\ e \notin standing'
  BY <1>1, <1>3
<1>6. \A e \in Elements : e \in standing' \cup event' <=> e \in standing \cup gone
  BY <1>1
<1>7. EventAtHand'
  BY <1>1, <1>3, <1>4, <1>5, <1>6 DEF EventAtHand
<1> QED
  BY <1>1, <1>7

\* Telling the event settles the account.
LEMMA EmitSettles ==
  ASSUME DynamicInv, stage = "rebuild", Emit, UNCHANGED <<before, standing>>
  PROVE  LossesReported' /\ emitted' \in [Elements -> Nat]
<1> USE DEF DynamicInv, DynamicTypeOK
<1>1. \A e \in Elements : emitted[e] \in Nat /\ emitted'[e] = IF e \in event THEN emitted[e] + 1 ELSE emitted[e]
  BY DEF Emit
<1>2. emitted' \in [Elements -> Nat]
  BY DEF Emit
<1> QED
  BY <1>1, <1>2 DEF EventAtHand, LossesReported

LEMMA StartKeepsInv == DynamicInv /\ Start => DynamicInv'
<1> SUFFICES ASSUME DynamicInv, Start PROVE DynamicInv'
  OBVIOUS
<1>1. PICK gone \in SUBSET Elements : Lose(gone)
  BY DEF Start
<1>2. /\ EventAtHand' /\ stage' = "rebuild"
      /\ standing' \in SUBSET before' /\ event' \in SUBSET Elements /\ held' \in SUBSET Nodes
  BY <1>1, LossIsPending DEF Start
<1> QED
  BY <1>2 DEF Start, DynamicInv, DynamicTypeOK, EventsLeft, LossesReported, SinceLastFrame

LEMMA RebuildKeepsInv == DynamicInv /\ Rebuild => DynamicInv'
<1> SUFFICES ASSUME DynamicInv, Rebuild PROVE DynamicInv'
  OBVIOUS
<1> USE DEF DynamicInv, DynamicTypeOK
<1>1. Emit
  BY DEF Rebuild, NoConfiguration, Configuration, EmitLast
<1>2. LossesReported' /\ emitted' \in [Elements -> Nat]
  BY <1>1, EmitSettles DEF Rebuild
<1>3. CASE NoConfiguration
  <2>1. stage' = "done" /\ verdict' \in {"Collapsed", "Invalid"}
    BY <1>3 DEF NoConfiguration, EndRun, Rebuild
  <2> QED
    BY <1>2, <1>3, <2>1 DEF NoConfiguration, Rebuild, EventsLeft, EventAtHand, SinceLastFrame
<1>4. CASE Configuration
  <2>1. \/ stage' = "done" /\ verdict' \in {"Invalid", "MaxSteps"}
        \/ stage' = "integrate" /\ UNCHANGED verdict /\ events' <= MaxEvents
    BY <1>4 DEF Configuration, EndRun, Abort, Resume, Rebuild, EventsLeft
  <2>2. events' \in 0..(MaxEvents + 1)
    BY <1>4 DEF Configuration, EventsLeft, Rebuild
  <2>3. period' \in Periods /\ finite' \in BOOLEAN /\ quiet' = 0
    BY <1>4 DEF Configuration, Settle
  <2>4. DynamicTypeOK'
    BY <1>2, <2>1, <2>2, <2>3 DEF Rebuild
  <2> QED
    BY <1>2, <2>1, <2>4 DEF Rebuild, EventsLeft, EventAtHand, SinceLastFrame
<1> QED
  BY <1>3, <1>4 DEF Rebuild

LEMMA IntegrateKeepsInv == DynamicInv /\ Integrate => DynamicInv'
<1> SUFFICES ASSUME DynamicInv, Integrate PROVE DynamicInv'
  OBVIOUS
<1> USE DEF DynamicInv, DynamicTypeOK
<1>1. /\ stage' \in {"done", "integrate", "screen"}
      /\ verdict' \in {"Invalid", "Stable", "Collapsed", "MaxSteps"}
  BY DEF Integrate, EndRun, Abort
<1>2. t' \in 0..Horizon /\ asked' \in 0..t' /\ finite' \in BOOLEAN
  BY DEF Integrate
<1>3. LossesReported'
  BY <1>1 DEF LossesReported, Integrate, dynModel
<1>4. SinceLastFrame'
  <2>1. SUFFICES ASSUME cancelled', stage' # "done"
                 PROVE  t' - asked' <= t' % FrameStride
    BY DEF SinceLastFrame
  <2>2. t' = t + 1 /\ t' % FrameStride # 0
    <3>1. t < Horizon /\ t' = t + 1 /\ cancelled
      BY <2>1 DEF Integrate, EndRun
    <3> QED
      BY <2>1, <3>1 DEF Integrate, EndRun, Abort, Polls
  <2>3. t' % FrameStride = (t % FrameStride) + 1 /\ t % FrameStride \in 0..(FrameStride - 1)
    <3> HIDE DEF DynamicInv
    <3>1. t \in Nat /\ (t + 1) % FrameStride # 0
      BY <2>2 DEF DynamicInv
    <3>2. (t + 1) % FrameStride = (t % FrameStride) + 1
      BY <3>1, RestGrows
    <3> QED
      BY <2>2, <3>1, <3>2
  <2>4. t - asked <= t % FrameStride
    BY <2>1 DEF SinceLastFrame, Integrate
  <2> QED
    BY <2>2, <2>3, <2>4 DEF Integrate
<1>5. DynamicTypeOK'
  BY <1>1, <1>2 DEF Integrate, dynModel
<1> QED
  BY <1>1, <1>3, <1>4, <1>5 DEF Integrate, EventsLeft, EventAtHand

LEMMA ScreenKeepsInv == DynamicInv /\ Screen => DynamicInv'
<1> SUFFICES ASSUME DynamicInv, Screen PROVE DynamicInv'
  OBVIOUS
<1> USE DEF DynamicInv, DynamicTypeOK
<1>1. CASE Calm
  <2>1. /\ stage' \in {"done", "integrate"} /\ quiet' \in Nat
        /\ verdict' \in {"Invalid", "Stable", "Collapsed", "MaxSteps"}
    BY <1>1 DEF Calm, EndRun, Resume
  <2>2. LossesReported'
    BY <1>1, <2>1 DEF LossesReported, Screen, Calm
  <2> QED
    BY <1>1, <2>1, <2>2 DEF Screen, Calm, EventsLeft, EventAtHand, SinceLastFrame
<1>2. CASE Condemn
  <2>1. PICK e \in standing : Lose({e})
    BY <1>2 DEF Condemn
  <2>2. /\ EventAtHand' /\ stage' = "rebuild"
        /\ standing' \in SUBSET before' /\ event' \in SUBSET Elements /\ held' \in SUBSET Nodes
    <3>1. {e} \in SUBSET Elements /\ {e} \subseteq standing
      OBVIOUS
    <3> QED
      BY <2>1, <3>1, LossIsPending DEF Screen
  <2> QED
    BY <1>2, <2>2 DEF Screen, Condemn, EventsLeft, LossesReported, SinceLastFrame
<1> QED
  BY <1>1, <1>2 DEF Screen

LEMMA CancelKeepsInv == DynamicInv /\ Cancel => DynamicInv'
BY DEF Cancel, dynModel, DynamicInv, DynamicTypeOK, EventsLeft, EventAtHand, LossesReported,
       SinceLastFrame

LEMMA DynamicStep == DynamicInv /\ [DynamicNext]_dynamicVars => DynamicInv'
<1>1. DynamicInv /\ UNCHANGED dynamicVars => DynamicInv'
  BY DEF dynamicVars, DynamicInv, DynamicTypeOK, EventsLeft, EventAtHand, LossesReported,
         SinceLastFrame
<1> QED
  BY <1>1, StartKeepsInv, RebuildKeepsInv, IntegrateKeepsInv, ScreenKeepsInv, CancelKeepsInv
     DEF DynamicNext

LEMMA DynamicInvariant == DynamicSpec => []DynamicInv
BY DynamicStarts, DynamicStep, PTL DEF DynamicSpec

\* runDynamicCollapse tells every loss in exactly one event, whatever breaks
\* and whichever way the run ends.
THEOREM EveryLossIsToldOnce == DynamicSpec => []LossesReported
BY DynamicInvariant, PTL DEF DynamicInv

\* Whoever cancels runDynamicCollapse waits less than frameStride steps.
THEOREM CancelIsHeard == DynamicSpec => []CancelIsNoticed
<1>1. DynamicInv => CancelIsNoticed
  BY DEF DynamicInv, DynamicTypeOK, SinceLastFrame, CancelIsNoticed
<1> QED
  BY <1>1, DynamicInvariant, PTL

-------------------------------------------------------------------------------
(***************************************************************************)
(* runSizeOptimization.  While the loop goes on, everything solved has been *)
(* rated and changed by its rating; each iteration but the last adds areas  *)
(* to those seen, all of them from the table.                               *)
(***************************************************************************)
SizingTypeOK ==
  /\ sized \in SUBSET Members
  /\ sizings \in Nat
  /\ sizes \in SUBSET [sized -> Table]

SizedOn ==
  sizing = "iterate" =>
    /\ sizings < MaxSizings /\ Cardinality(sizes) = sizings
    /\ \A v \in DOMAIN ratios : ratios[v].says = "ratios" /\ Resized(ratios[v].wants) # v
    /\ sizes \subseteq DOMAIN ratios \cup {area}

SizingInv == SizingTypeOK /\ SizedOn /\ SizingSettles

USE SizingAssumption

\* The element with the fewest above it has none above it.
LEMMA GreatestNatural ==
  ASSUME NEW S \in SUBSET Nat, S # {}, IsFiniteSet(S)
  PROVE  \E x \in S : \A y \in S : x >= y
<1> DEFINE above == [x \in S |-> {y \in S : y > x}]
           count == [x \in S |-> Cardinality(above[x])]
<1>1. \A x \in S : above[x] = {y \in S : y > x}
  OBVIOUS
<1>2. ASSUME NEW x \in S, NEW y \in S, y > x
      PROVE  y \in above[x] /\ y \notin above[y] /\ above[y] \subseteq above[x]
  <2>1. x \in Nat /\ y \in Nat
    OBVIOUS
  <2> HIDE DEF above
  <2>2. y \in above[x] /\ y \notin above[y]
    BY <1>1, <1>2, <2>1
  <2>3. ASSUME NEW z \in above[y] PROVE z \in above[x]
    <3>1. z \in S /\ z \in Nat /\ z > y
      BY <1>1
    <3> QED
      BY <1>1, <1>2, <2>1, <3>1
  <2> QED
    BY <2>2, <2>3
<1> HIDE DEF above
<1>3. \A x \in S : IsFiniteSet(above[x]) /\ Cardinality(above[x]) \in Nat
  BY <1>1, FS_Subset, FS_CardinalityType
<1>4. count \in [S -> Nat] /\ \A x \in S : count[x] = Cardinality(above[x])
  BY <1>3
<1> HIDE DEF count
<1>5. PICK x \in S : \A y \in S : count[x] <= count[y]
  <2> DEFINE counts == {count[x] : x \in S}
  <2>1. counts \in SUBSET Nat /\ counts # {}
    BY <1>4
  <2>2. \E n \in counts : \A k \in counts : n <= k
    <3> HIDE DEF counts
    <3> QED
      BY <2>1, LeastNatural
  <2> QED
    BY <2>2
<1>6. ASSUME NEW y \in S, y > x PROVE FALSE
  <2>1. y \in above[x] /\ y \notin above[y] /\ above[y] \in SUBSET above[x]
    BY <1>2, <1>6
  <2>2. /\ Cardinality(above[y]) <= Cardinality(above[x])
        /\ Cardinality(above[y]) # Cardinality(above[x])
    BY <1>3, <2>1, FS_Subset
  <2>3. Cardinality(above[x]) <= Cardinality(above[y])
    BY <1>4, <1>5
  <2>4. Cardinality(above[x]) \in Nat /\ Cardinality(above[y]) \in Nat
    BY <1>3
  <2> QED
    BY <2>2, <2>3, <2>4
<1>7. \A y \in S : x >= y
  BY <1>6
<1> QED
  BY <1>7

\* Rounding up always ends in the table.
LEMMA SnapUpInTable == ASSUME NEW a PROVE SnapUp(a) \in Table
<1>1. ASSUME \E s \in Table : s >= a PROVE Min({s \in Table : s >= a}) \in Table
  <2> DEFINE S == {s \in Table : s >= a}
  <2>1. S \in SUBSET Nat /\ S # {} /\ S \subseteq Table
    BY <1>1
  <2>2. \E x \in S : \A y \in S : x <= y
    BY <2>1, LeastNatural
  <2>3. Min(S) \in S
    BY <2>2 DEF Min
  <2> QED
    BY <2>3
<1>2. Max(Table) \in Table
  <2>1. \E x \in Table : \A y \in Table : x >= y
    BY GreatestNatural
  <2> QED
    BY <2>1 DEF Max
<1> QED
  BY <1>1, <1>2 DEF SnapUp

LEMMA ResizedFromTable == ASSUME NEW wants PROVE Resized(wants) \in [sized -> Table]
BY SnapUpInTable DEF Resized

\* The graphs of the functions between finite sets are subsets of a finite product.
LEMMA FunctionsFinite ==
  ASSUME NEW S, NEW T, IsFiniteSet(S), IsFiniteSet(T)
  PROVE  IsFiniteSet([S -> T])
<1> DEFINE graph == [f \in [S -> T] |-> {<<x, f[x]>> : x \in S}]
<1>1. IsFiniteSet(SUBSET (S \X T))
  BY FS_Product, FS_SUBSET
<1>2. graph \in [[S -> T] -> SUBSET (S \X T)]
  OBVIOUS
<1>3. ASSUME NEW f \in [S -> T], NEW g \in [S -> T], graph[f] = graph[g]
      PROVE  f = g
  <2>1. ASSUME NEW x \in S PROVE f[x] = g[x]
    <3>1. <<x, f[x]>> \in graph[f]
      OBVIOUS
    <3>2. <<x, f[x]>> \in graph[g]
      BY <1>3, <3>1
    <3>3. PICK z \in S : <<x, f[x]>> = <<z, g[z]>>
      BY <3>2
    <3> QED
      BY <3>3
  <2> QED
    BY <2>1
<1>4. graph \in Injection([S -> T], SUBSET (S \X T))
  <2> HIDE DEF graph
  <2> QED
    BY <1>2, <1>3 DEF Injection, IsInjective
<1> QED
  <2> HIDE DEF graph
  <2> QED
    BY <1>1, <1>4, FS_Injection

\* There are no more areas to see than ways to choose from the table.
LEMMA SizesBounded ==
  ASSUME sized \in SUBSET Members, NEW S \in SUBSET [sized -> Table]
  PROVE  /\ IsFiniteSet(S) /\ Cardinality(S) \in Nat
         /\ Cardinality([sized -> Table]) \in Nat
         /\ Cardinality(S) <= Cardinality([sized -> Table])
<1>1. IsFiniteSet(sized)
  BY FS_Subset
<1>2. IsFiniteSet([sized -> Table])
  BY <1>1, FunctionsFinite
<1> QED
  BY <1>2, FS_Subset, FS_CardinalityType

\* Sizing starts with nothing solved, or with nothing to do.
LEMMA SizingStarts == SizingInit => SizingInv
<1> SUFFICES ASSUME SizingInit PROVE SizingInv
  OBVIOUS
<1>1. SizingTypeOK
  BY DEF SizingInit, SizingTypeOK
<1>2. SizedOn
  BY FS_EmptySet DEF SizingInit, SizedOn
<1>3. SizingSettles
  <2>1. SUFFICES ASSUME sizing = "done", sized # {} PROVE MaxSizings = 0 /\ flags = {}
    <3>1. Cardinality([sized -> Table]) \in Nat
      BY SizesBounded DEF SizingInit
    <3> QED
      BY <3>1 DEF SizingSettles
  <2> QED
    BY <2>1 DEF SizingInit
<1> QED
  BY <1>1, <1>2, <1>3 DEF SizingInv

\* One turn of the loop, with the answer of the areas.
LEMMA SizeOnceKeepsInv ==
  ASSUME SizingInv, sizing = "iterate", UNCHANGED sized,
         NEW a, a.says \in {"ratios", "singular", "invalidDemand"},
         DOMAIN ratios' = DOMAIN ratios \cup {area}, ratios'[area] = a,
         \A v \in DOMAIN ratios : ratios'[v] = ratios[v],
         SizeOnce(a)
  PROVE  SizingInv'
<1> DEFINE new == Resized(a.wants)
<1> USE DEF SizingInv, SizingTypeOK
<1>1. new \in [sized -> Table] /\ sizings' = sizings + 1
  BY ResizedFromTable DEF SizeOnce
<1>2. \A w : Resized(w)' = Resized(w)
  BY DEF Resized
<1>3. CASE a.says # "ratios"
  <2>1. sizing' = "done" /\ flags' = {a.says} /\ UNCHANGED <<area, sizes>>
    BY <1>3 DEF SizeOnce, Stop
  <2> QED
    BY <1>1, <1>3, <2>1 DEF SizedOn, SizingSettles
<1>4. CASE a.says = "ratios" /\ new = area
  <2>1. area' = area /\ sizing' = "done" /\ flags' = {"converged"} /\ UNCHANGED sizes
    BY <1>4 DEF SizeOnce, Resize, Stop
  <2>2. Rated' /\ ratios'[area'] = a
    BY <1>4, <2>1 DEF Rated
  <2>3. Resized(ratios[area].wants)' = area'
    BY <1>2, <1>4, <2>1, <2>2
  <2> QED
    BY <1>1, <2>1, <2>2, <2>3 DEF SizedOn, SizingSettles
<1>5. CASE a.says = "ratios" /\ new # area
  <2>1. area' = new /\ sizes' = sizes \cup {new}
    BY <1>5 DEF SizeOnce, Resize
  <2>2. \A v \in DOMAIN ratios' : ratios'[v].says = "ratios" /\ Resized(ratios'[v].wants) # v
    BY <1>5 DEF SizedOn
  <2>3. SizingTypeOK'
    BY <1>1, <2>1
  <2>4. CASE new \in sizes
    <3>1. sizing' = "done" /\ flags' = {"converged", "cycled"}
      BY <1>5, <2>1, <2>4 DEF SizeOnce, Resize, Stop, Cycled
    <3>2. new \in DOMAIN ratios'
      BY <2>4 DEF SizedOn
    <3>3. Rated' /\ Resized(ratios[area].wants)' # area'
      BY <1>2, <2>1, <2>2, <3>2 DEF Rated
    <3> QED
      BY <2>3, <3>1, <3>3 DEF SizedOn, SizingSettles
  <2>5. CASE new \notin sizes
    <3>1. GoOn
      BY <1>5, <2>1, <2>5 DEF SizeOnce, Resize, Cycled
    <3>2. /\ Cardinality(sizes') = sizings' /\ Cardinality([sized -> Table]) \in Nat
          /\ Cardinality(sizes') <= Cardinality([sized -> Table])
      <4>1. IsFiniteSet(sizes)
        BY SizesBounded
      <4>2. Cardinality(sizes') = Cardinality(sizes) + 1
        BY <2>1, <2>5, <4>1, FS_AddElement
      <4>3. sizes' \in SUBSET [sized -> Table]
        BY <1>1, <2>1
      <4> QED
        BY <1>1, <4>2, <4>3, SizesBounded DEF SizedOn
    <3>3. CASE sizings' < MaxSizings
      <4>1. sizing' = "iterate"
        BY <3>1, <3>3 DEF GoOn
      <4>2. sizes' \subseteq DOMAIN ratios' \cup {area'}
        BY <2>1 DEF SizedOn
      <4>3. SizedOn'
        BY <1>2, <2>2, <3>2, <3>3, <4>2 DEF SizedOn
      <4> QED
        BY <2>3, <4>1, <4>3 DEF SizingSettles
    <3>4. CASE ~ (sizings' < MaxSizings)
      <4>1. sizing' = "done" /\ flags' = {}
        BY <3>1, <3>4 DEF GoOn, Stop
      <4>2. ~ (MaxSizings > Cardinality([sized -> Table]))
        BY <1>1, <3>2, <3>4
      <4> QED
        BY <2>3, <4>1, <4>2 DEF SizedOn, SizingSettles
    <3> QED
      BY <3>3, <3>4
  <2> QED
    BY <2>4, <2>5
<1> QED
  BY <1>3, <1>4, <1>5

LEMMA SizingStep == SizingInv /\ [SizingNext]_sizingVars => SizingInv'
<1> SUFFICES ASSUME SizingInv, [SizingNext]_sizingVars PROVE SizingInv'
  OBVIOUS
<1>1. CASE SolveAreas /\ area \in DOMAIN ratios
  <2>1. ratios[area].says = "ratios"
    BY <1>1 DEF SolveAreas, SizingInv, SizedOn
  <2> QED
    BY <1>1, <2>1, SizeOnceKeepsInv DEF SolveAreas
<1>2. CASE SolveAreas /\ area \notin DOMAIN ratios
  <2>1. PICK a \in Answers :
          /\ ratios' = [v \in DOMAIN ratios \cup {area} |-> IF v = area THEN a ELSE ratios[v]]
          /\ SizeOnce(a)
    BY <1>2 DEF SolveAreas
  <2>2. a.says \in {"ratios", "singular", "invalidDemand"}
    BY DEF Answers
  <2>3. /\ DOMAIN ratios' = DOMAIN ratios \cup {area} /\ ratios'[area] = a
        /\ \A v \in DOMAIN ratios : ratios'[v] = ratios[v]
    BY <1>2, <2>1
  <2> QED
    BY <1>2, <2>1, <2>2, <2>3, SizeOnceKeepsInv DEF SolveAreas
<1>3. CASE UNCHANGED sizingVars
  <2>1. \A w : Resized(w)' = Resized(w)
    BY <1>3 DEF Resized, sizingVars
  <2> QED
    BY <1>3, <2>1 DEF sizingVars, SizingInv, SizingTypeOK, SizedOn, SizingSettles, Rated
<1> QED
  BY <1>1, <1>2, <1>3 DEF SizingNext, SolveAreas

LEMMA SizingInvariant == SizingSpec => []SizingInv
BY SizingStarts, SizingStep, PTL DEF SizingSpec

\* The flags of runSizeOptimization tell truly what the sizes it reports are, and
\* with more iterations than there are sizes it always ends in one of them.
THEOREM SizingTellsItsEnd == SizingSpec => []SizingSettles
BY SizingInvariant, PTL DEF SizingInv

-------------------------------------------------------------------------------
(***************************************************************************)
(* runProgressiveCollapse.  The first part is about connectivity: the       *)
(* components of the grounded remainder are those of the whole.             *)
(***************************************************************************)
USE CollapseAssumption

\* A grounded element reaches its support without leaving grounded elements.
LEMMA GroundedConnects ==
  ASSUME NEW act \in SUBSET Elements, NEW fixed \in SUBSET Nodes,
         NEW n \in Nodes, NEW b \in fixed, Connected(act, n, b)
  PROVE  Connected(Grounded(act, fixed), n, b)
<1> DEFINE C == Component(act, n)
<1> SUFFICES ASSUME NEW S \in SUBSET Nodes, n \in S, Closed(Grounded(act, fixed), S)
             PROVE  b \in S
  BY DEF Connected
<1>1. n \in C
  BY ConnectedReflexive DEF Component
<1>2. ASSUME NEW e \in act, NEW m \in NodesOf[e], m \in S, m \in C
      PROVE  NodesOf[e] \subseteq S \cap C
  <2>1. ASSUME NEW k \in NodesOf[e]
        PROVE  k \in C /\ Component(act, k) \cap fixed # {}
    <3>1. k \in Nodes /\ m \in Nodes /\ Connected(act, n, m)
      BY <1>2 DEF Component
    <3>2. Connected(act, m, k)
      BY ElementConnects
    <3>3. Connected(act, n, k)
      BY <3>1, <3>2, ConnectedTransitive
    <3>4. Connected(act, k, b)
      BY <3>1, <3>3, ConnectedSymmetric, ConnectedTransitive
    <3> QED
      BY <3>1, <3>3, <3>4 DEF Component
  <2>2. e \in Grounded(act, fixed)
    BY <2>1 DEF Grounded
  <2>3. NodesOf[e] \subseteq S
    BY <1>2, <2>2 DEF Closed
  <2> QED
    BY <2>1, <2>3
<1>3. Closed(act, S \cap C)
  BY <1>2 DEF Closed
<1>4. S \cap C \in SUBSET Nodes
  OBVIOUS
<1>5. b \in S \cap C
  <2> HIDE DEF C
  <2> QED BY <1>1, <1>3, <1>4 DEF Connected
<1> QED
  BY <1>5

\* No node belongs both to debris and to a grounded element.
LEMMA DebrisApart ==
  ASSUME NEW act \in SUBSET Elements, NEW fixed \in SUBSET Nodes
  PROVE  DebrisNodes(act, fixed) \cap Attached(Grounded(act, fixed)) = {}
<1> SUFFICES ASSUME NEW n \in DebrisNodes(act, fixed), n \in Attached(Grounded(act, fixed))
             PROVE  FALSE
  OBVIOUS
<1>1. PICK e \in act : n \in NodesOf[e] /\ e \notin Grounded(act, fixed)
  BY DEF DebrisNodes, Attached, Detached
<1>2. PICK f \in Grounded(act, fixed) : n \in NodesOf[f]
  BY DEF Attached
<1>3. PICK b \in fixed : Connected(act, n, b)
  BY <1>2 DEF Grounded, Component
<1>4. ASSUME NEW k \in NodesOf[e]
      PROVE  Component(act, k) \cap fixed # {}
  <2>1. Connected(act, k, n) /\ k \in Nodes /\ n \in Nodes
    BY <1>1, ElementConnects
  <2>2. Connected(act, k, b)
    BY <1>3, <2>1, ConnectedTransitive
  <2> QED
    BY <2>2 DEF Component
<1> QED
  BY <1>1, <1>4 DEF Grounded

-------------------------------------------------------------------------------
(***************************************************************************)
(* The inductive invariant.  It adds to the properties what holds between   *)
(* the phases of a step: an event names something that stands, no event is  *)
(* pending while a step is under way, and the moments match the hinges at   *)
(* every phase and not only when they are solved.                           *)
(***************************************************************************)
EventStands ==
  /\ \A e \in pending : removed[e] + detached[e] = 0
  /\ step > 0 => pending \subseteq active
  /\ \A h \in forming : h \notin hinges /\ MemberOf[h] \in active
  /\ forming = {} \/ pending = {}

PhaseOrder ==
  /\ phase # "apply" => pending = {} /\ forming = {} /\ step > 0
  /\ phase = "apply" /\ step > 0 =>
       (\E e \in active : pending = {e}) \/ (\E h \in Hinges : forming = {h})
  /\ step = 0 => hinges = {} /\ forming = {}

PinnedBare == pinned \cap Attached(active) = {}

MomentsExact ==
  \A h \in Hinges : moments[h] = IF h \in hinges /\ MemberOf[h] \in active THEN 1 ELSE 0

IInv ==
  /\ TypeOK
  /\ EventStands
  /\ PhaseOrder
  /\ PinnedBare
  /\ phase = "solve" => Nodes = Attached(active) \cup FullyFixed \cup pinned
  /\ StandsOnSupports
  /\ MomentsExact
  /\ ReportedOnce
  /\ StepsBounded

LEMMA IInvInit == Init => IInv
<1> SUFFICES ASSUME Init PROVE IInv
  OBVIOUS
<1> USE DEF Init
<1>1. TypeOK
  BY DEF TypeOK
<1>2. EventStands /\ PhaseOrder /\ PinnedBare /\ MomentsExact
  BY DEF EventStands, PhaseOrder, PinnedBare, MomentsExact
<1>3. StandsOnSupports /\ phase # "solve"
  BY DEF StandsOnSupports
<1>4. ReportedOnce
  BY DEF ReportedOnce
<1>5. StepsBounded
  <2>1. given \ active = {} /\ hinges = {}
    OBVIOUS
  <2>2. Cardinality(given \ active) = 0 /\ Cardinality(hinges) = 0
    BY <2>1, FS_EmptySet
  <2>3. step = 0
    OBVIOUS
  <2> QED
    BY <2>2, <2>3 DEF StepsBounded
<1> QED
  BY <1>1, <1>2, <1>3, <1>4, <1>5 DEF IInv

LEMMA ApplyKeeps == IInv /\ Apply => IInv'
<1> SUFFICES ASSUME IInv, Apply PROVE IInv'
  OBVIOUS
<1> USE DEF IInv
<1>0. /\ phase = "apply" /\ phase' = "cleanup" /\ step' = step + 1
      /\ active' = active \ pending /\ hinges' = hinges \cup forming
      /\ pending' = {} /\ forming' = {}
      /\ pinned' = pinned /\ given' = given /\ detached' = detached /\ outcome' = outcome
  BY DEF Apply
<1>t. /\ step \in Nat /\ pending \in SUBSET Elements /\ active \in SUBSET given
      /\ given \in SUBSET Elements /\ removed \in [Elements -> Nat]
      /\ detached \in [Elements -> Nat] /\ moments \in [Hinges -> Int]
      /\ hinges \in SUBSET Hinges /\ forming \in SUBSET Hinges
  BY DEF TypeOK
<1>r. removed' = [e \in Elements |-> removed[e] + (IF e \in pending THEN 1 ELSE 0)]
  BY DEF Apply, Counted
<1>m. moments' = [h \in Hinges |->
                    moments[h] - (IF h \in hinges /\ MemberOf[h] \in pending THEN 1 ELSE 0)
                               + (IF h \in forming THEN 1 ELSE 0)]
  BY DEF Apply, Moments
<1>1. TypeOK'
  <2>1. removed' \in [Elements -> Nat]
    BY <1>t, <1>r
  <2>2. moments' \in [Hinges -> Int]
    BY <1>t, <1>m
  <2> QED
    BY <1>0, <2>1, <2>2 DEF TypeOK
<1>2. EventStands' /\ PhaseOrder'
  BY <1>0, <1>t DEF EventStands, PhaseOrder
<1>3. PinnedBare'
  BY <1>0 DEF PinnedBare, Attached
<1>4. StandsOnSupports' /\ phase' # "solve"
  BY <1>0 DEF StandsOnSupports
<1>5. MomentsExact'
  <2> SUFFICES ASSUME NEW h \in Hinges
               PROVE  moments'[h] =
                        IF h \in hinges' /\ MemberOf[h] \in active' THEN 1 ELSE 0
    BY DEF MomentsExact
  <2>1. moments[h] = IF h \in hinges /\ MemberOf[h] \in active THEN 1 ELSE 0
    BY DEF MomentsExact
  <2>2. moments'[h] = moments[h] - (IF h \in hinges /\ MemberOf[h] \in pending THEN 1 ELSE 0)
                                 + (IF h \in forming THEN 1 ELSE 0)
    BY <1>m
  <2>3. CASE h \in forming
    <3>1. h \notin hinges /\ MemberOf[h] \in active /\ pending = {}
      BY <2>3 DEF EventStands
    <3> QED
      BY <1>0, <2>1, <2>2, <2>3, <3>1
  <2>4. CASE h \notin forming /\ h \in hinges
    <3>1. pending \subseteq active
      BY <1>t, <2>4 DEF EventStands, PhaseOrder
    <3> QED
      BY <1>0, <2>1, <2>2, <2>4, <3>1
  <2>5. CASE h \notin forming /\ h \notin hinges
    BY <1>0, <2>1, <2>2, <2>5
  <2> QED
    BY <2>3, <2>4, <2>5
<1>6. ReportedOnce'
  <2> SUFFICES ASSUME NEW e \in Elements
               PROVE  /\ removed'[e] + detached[e] <= 1
                      /\ e \in given => (removed'[e] + detached[e] = 0 <=> e \in active')
    BY <1>0 DEF ReportedOnce
  <2>1. /\ removed[e] \in Nat /\ detached[e] \in Nat
        /\ removed[e] + detached[e] <= 1
        /\ e \in given => (removed[e] + detached[e] = 0 <=> e \in active)
        /\ removed'[e] = removed[e] + (IF e \in pending THEN 1 ELSE 0)
    BY <1>t, <1>r DEF ReportedOnce
  <2>2. e \in pending => removed[e] + detached[e] = 0
    BY DEF EventStands
  <2> QED
    BY <1>0, <2>1, <2>2
<1>7. StepsBounded'
  <2> DEFINE G == given \ active
             G2 == given' \ active'
  <2>1. /\ IsFiniteSet(G) /\ IsFiniteSet(G2) /\ IsFiniteSet(hinges) /\ IsFiniteSet(hinges')
        /\ G \subseteq G2 /\ hinges \subseteq hinges'
    BY <1>0, <1>t, FS_Subset
  <2>2. /\ Cardinality(G) \in Nat /\ Cardinality(G2) \in Nat
        /\ Cardinality(hinges) \in Nat /\ Cardinality(hinges') \in Nat
        /\ Cardinality(G) <= Cardinality(G2) /\ Cardinality(hinges) <= Cardinality(hinges')
    BY <2>1, FS_CardinalityType, FS_Subset
  <2>3. step <= 1 + Cardinality(G) + Cardinality(hinges)
    BY DEF StepsBounded
  <2>4. CASE step = 0
    <3>1. 1 <= 1 + Cardinality(G2) + Cardinality(hinges')
      BY <2>2
    <3> QED
      BY <1>0, <2>4, <3>1 DEF StepsBounded
  <2>5. CASE step > 0 /\ \E e \in active : pending = {e}
    <3>1. PICK e \in active : pending = {e}
      BY <2>5
    <3>2. G2 = G \cup {e} /\ e \notin G
      BY <1>0, <1>t, <3>1
    <3>3. Cardinality(G2) = Cardinality(G) + 1
      BY <2>1, <3>2, FS_AddElement
    <3>4. step + 1 <= 1 + Cardinality(G2) + Cardinality(hinges')
      BY <1>t, <2>2, <2>3, <3>3
    <3> QED
      BY <1>0, <3>4 DEF StepsBounded
  <2>6. CASE step > 0 /\ \E h \in Hinges : forming = {h}
    <3>1. PICK h \in Hinges : forming = {h}
      BY <2>6
    <3>2. hinges' = hinges \cup {h} /\ h \notin hinges
      BY <1>0, <3>1 DEF EventStands
    <3>3. Cardinality(hinges') = Cardinality(hinges) + 1
      BY <2>1, <3>2, FS_AddElement
    <3>4. step + 1 <= 1 + Cardinality(G2) + Cardinality(hinges')
      BY <1>t, <2>2, <2>3, <3>3
    <3> QED
      BY <1>0, <3>4 DEF StepsBounded
  <2> QED
    BY <1>0, <1>t, <2>4, <2>5, <2>6 DEF PhaseOrder
<1> QED
  BY <1>1, <1>2, <1>3, <1>4, <1>5, <1>6, <1>7

LEMMA CleanupKeeps == IInv /\ Cleanup => IInv'
<1> SUFFICES ASSUME IInv, Cleanup PROVE IInv'
  OBVIOUS
<1> USE DEF IInv
<1> DEFINE debris == Detached(active, Fixed)
           rest   == Grounded(active, Fixed)
           pins   == DebrisNodes(active, Fixed) \cup Loose(active, Full)
<1>t. /\ step \in Nat /\ active \in SUBSET given /\ given \in SUBSET Elements
      /\ active \in SUBSET Elements /\ pinned \in SUBSET Nodes
      /\ removed \in [Elements -> Nat] /\ detached \in [Elements -> Nat]
      /\ moments \in [Hinges -> Int] /\ hinges \in SUBSET Hinges
  BY DEF TypeOK
<1>f. Fixed \in SUBSET Nodes
  BY <1>t DEF Fixed
<1>d. debris \subseteq active /\ rest \subseteq active /\ active \ debris = rest
      /\ rest = active \ debris
  BY DEF Detached, Grounded
<1>p. pins \in SUBSET Nodes
  BY <1>t DEF DebrisNodes, Attached, Detached, Loose
<1>0. /\ phase = "cleanup" /\ phase' \in {"solve", "done"}
      /\ active' = rest /\ pinned' = pinned \cup pins
      /\ outcome' \in {outcome, "Collapsed"}
      /\ detached' = Counted(detached, debris) /\ moments' = Erased(pins)
      /\ hinges' = hinges /\ pending' = pending /\ forming' = forming
      /\ step' = step /\ given' = given /\ removed' = removed
  BY <1>d DEF Cleanup, Remainder, Pins
<1>c. detached' = [e \in Elements |-> detached[e] + (IF e \in debris THEN 1 ELSE 0)]
  BY <1>0 DEF Counted
<1>m. moments' = [h \in Hinges |-> IF JointOf[h] \in pins THEN 0 ELSE moments[h]]
  BY <1>0 DEF Erased
<1>e. pending = {} /\ forming = {} /\ step > 0
  BY <1>0 DEF PhaseOrder
<1>a. pins \cap Attached(rest) = {}
  <2>1. DebrisNodes(active, Fixed) \cap Attached(rest) = {}
    BY <1>t, <1>f, DebrisApart
  <2>2. Loose(active, Full) \cap Attached(active) = {}
    BY DEF Loose
  <2>3. Attached(rest) \subseteq Attached(active)
    BY <1>d DEF Attached
  <2> QED
    BY <2>1, <2>2, <2>3
<1> HIDE DEF debris, rest, pins
<1>1. TypeOK'
  <2>1. detached' \in [Elements -> Nat]
    BY <1>t, <1>c
  <2>2. moments' \in [Hinges -> Int]
    BY <1>t, <1>m
  <2>3. active' \in SUBSET given /\ pinned' \in SUBSET Nodes
    BY <1>0, <1>t, <1>d, <1>p
  <2>4. phase' \in {"apply", "cleanup", "solve", "done"}
        /\ outcome' \in {"Invalid", "Stable", "Collapsed", "MaxSteps"}
    BY <1>0 DEF TypeOK
  <2> QED
    BY <1>0, <1>t, <1>e, <2>1, <2>2, <2>3, <2>4 DEF TypeOK
<1>2. EventStands' /\ PhaseOrder'
  BY <1>0, <1>e, <1>t DEF EventStands, PhaseOrder
<1>3. PinnedBare'
  <2>1. Attached(rest) \subseteq Attached(active)
    BY <1>d DEF Attached
  <2> QED
    BY <1>0, <1>a, <2>1 DEF PinnedBare
<1>4. Nodes = Attached(rest) \cup FullyFixed \cup pinned'
  <2>1. ASSUME NEW n \in Nodes, n \notin Attached(rest), n \notin FullyFixed, n \notin pinned
        PROVE  n \in pins
    <3>1. CASE n \in Attached(active)
      <4>1. PICK e \in active : n \in NodesOf[e]
        BY <3>1 DEF Attached
      <4>2. e \in debris
        BY <1>d, <2>1, <4>1 DEF Attached
      <4> QED
        BY <4>1, <4>2 DEF pins, debris, DebrisNodes, Attached
    <3>2. CASE n \notin Attached(active)
      BY <2>1, <3>2 DEF pins, Loose, Full
    <3> QED
      BY <3>1, <3>2
  <2>2. Attached(rest) \subseteq Nodes
    BY <1>t, <1>d DEF Attached
  <2> QED
    BY <1>0, <1>t, <1>p, <2>1, <2>2
<1>5. StandsOnSupports'
  <2> SUFFICES ASSUME NEW e \in rest, NEW n \in NodesOf[e]
               PROVE  Component(rest, n) \cap Supported # {}
    BY <1>0 DEF StandsOnSupports
  <2>1. n \in Nodes /\ n \in Attached(active)
    BY <1>t, <1>d DEF Attached
  <2>2. PICK b \in Fixed : b \in Nodes /\ Connected(active, n, b)
    BY DEF rest, Grounded, Component
  <2>3. b \in Attached(active)
    BY <1>t, <2>1, <2>2, ConnectedAttached
  <2>4. b \in Supported
    BY <2>2, <2>3 DEF Fixed, PinnedBare
  <2>5. Connected(rest, n, b)
    BY <1>t, <1>f, <2>1, <2>2, GroundedConnects DEF rest
  <2> QED
    BY <2>2, <2>4, <2>5 DEF Component
<1>6. MomentsExact'
  <2> SUFFICES ASSUME NEW h \in Hinges
               PROVE  moments'[h] =
                        IF h \in hinges /\ MemberOf[h] \in rest THEN 1 ELSE 0
    BY <1>0 DEF MomentsExact
  <2>1. moments[h] = IF h \in hinges /\ MemberOf[h] \in active THEN 1 ELSE 0
    BY DEF MomentsExact
  <2>2. moments'[h] = IF JointOf[h] \in pins THEN 0 ELSE moments[h]
    BY <1>m
  <2>3. CASE JointOf[h] \in pins
    <3>1. MemberOf[h] \notin rest
      BY <1>a, <2>3 DEF Attached
    <3> QED
      BY <2>2, <2>3, <3>1
  <2>4. CASE JointOf[h] \notin pins
    <3>1. MemberOf[h] \notin debris
      BY <2>4 DEF pins, debris, DebrisNodes, Attached
    <3>2. MemberOf[h] \in active <=> MemberOf[h] \in rest
      BY <1>d, <3>1
    <3> QED
      BY <2>1, <2>2, <2>4, <3>2
  <2> QED
    BY <2>3, <2>4
<1>7. ReportedOnce'
  <2> SUFFICES ASSUME NEW e \in Elements
               PROVE  /\ removed[e] + detached'[e] <= 1
                      /\ e \in given => (removed[e] + detached'[e] = 0 <=> e \in rest)
    BY <1>0 DEF ReportedOnce
  <2>1. /\ removed[e] \in Nat /\ detached[e] \in Nat
        /\ removed[e] + detached[e] <= 1
        /\ e \in given => (removed[e] + detached[e] = 0 <=> e \in active)
        /\ detached'[e] = detached[e] + (IF e \in debris THEN 1 ELSE 0)
    BY <1>t, <1>c DEF ReportedOnce
  <2>2. e \in debris => e \in given /\ e \in active
    BY <1>t, <1>d
  <2>3. e \in rest <=> e \in active /\ e \notin debris
    BY <1>d
  <2> QED
    BY <2>1, <2>2, <2>3
<1>8. StepsBounded'
  <2> DEFINE G == given \ active
             G2 == given \ rest
  <2>1. IsFiniteSet(G) /\ IsFiniteSet(G2) /\ G \subseteq G2
    BY <1>t, <1>d, FS_Subset
  <2>2. /\ Cardinality(G) \in Nat /\ Cardinality(G2) \in Nat
        /\ Cardinality(G) <= Cardinality(G2)
    BY <2>1, FS_CardinalityType, FS_Subset
  <2>3. Cardinality(hinges) \in Nat
    BY <1>t, FS_Subset, FS_CardinalityType
  <2>4. step <= 1 + Cardinality(G) + Cardinality(hinges)
    BY DEF StepsBounded
  <2>5. step <= 1 + Cardinality(G2) + Cardinality(hinges)
    BY <1>t, <2>2, <2>3, <2>4
  <2> QED
    BY <1>0, <2>5 DEF StepsBounded
<1> QED
  BY <1>0, <1>1, <1>2, <1>3, <1>4, <1>5, <1>6, <1>7, <1>8

LEMMA SolveKeeps == IInv /\ Solve => IInv'
<1> SUFFICES ASSUME IInv, Solve PROVE IInv'
  OBVIOUS
<1> USE DEF IInv
<1>0. /\ phase = "solve" /\ phase' \in {"apply", "done"}
      /\ active' = active /\ pinned' = pinned /\ hinges' = hinges /\ moments' = moments
      /\ step' = step /\ given' = given /\ removed' = removed /\ detached' = detached
  BY DEF Solve, Singular, Quiet, Event, Finish
<1>e. pending = {} /\ forming = {} /\ step > 0
  BY <1>0 DEF PhaseOrder
<1>1. \/ phase' = "done" /\ pending' = {} /\ forming' = {}
      \/ phase' = "apply" /\ (\E e \in active : pending' = {e}) /\ forming' = {}
      \/ phase' = "apply" /\ (\E h \in Yielding : forming' = {h}) /\ pending' = {}
  BY <1>e DEF Solve, Singular, Quiet, Event, Finish, Screened
<1>2. outcome' \in {outcome, "Stable", "Collapsed", "MaxSteps"}
  BY DEF Solve, Singular, Quiet, Event, Finish
<1>3. active \in SUBSET Elements /\ Yielding \in SUBSET Hinges
  BY DEF TypeOK, Yielding
<1>4. TypeOK'
  BY <1>0, <1>1, <1>2, <1>3 DEF TypeOK
<1>5. EventStands'
  <2>1. \A e \in active : removed[e] + detached[e] = 0
    BY DEF ReportedOnce, TypeOK
  <2> QED
    BY <1>0, <1>1, <2>1 DEF EventStands, Yielding
<1>6. PhaseOrder'
  BY <1>0, <1>1, <1>e, <1>3 DEF PhaseOrder
<1>7. PinnedBare' /\ MomentsExact' /\ ReportedOnce' /\ StepsBounded'
  BY <1>0 DEF PinnedBare, MomentsExact, ReportedOnce, StepsBounded
<1>8. StandsOnSupports' /\ phase' # "solve"
  BY <1>0 DEF StandsOnSupports
<1> QED
  BY <1>4, <1>5, <1>6, <1>7, <1>8

\* The invariant holds of every step the driver takes.
THEOREM Inductive == Spec => []IInv
<1>1. IInv /\ [Next]_vars => IInv'
  <2> SUFFICES ASSUME IInv, [Next]_vars PROVE IInv'
    OBVIOUS
  <2>1. CASE Apply
    BY <2>1, ApplyKeeps
  <2>2. CASE Cleanup
    BY <2>2, CleanupKeeps
  <2>3. CASE Solve
    BY <2>3, SolveKeeps
  <2>4. CASE UNCHANGED vars
    BY <2>4 DEF IInv, vars, TypeOK, EventStands, PhaseOrder, PinnedBare, StandsOnSupports,
                MomentsExact, ReportedOnce, StepsBounded
  <2> QED
    BY <2>1, <2>2, <2>3, <2>4 DEF Next
<1> QED
  BY IInvInit, <1>1, PTL DEF Spec

\* The working copy keeps its shape.
THEOREM TypeCorrect == Spec => []TypeOK
<1>1. IInv => TypeOK
  BY DEF IInv
<1> QED
  BY Inductive, <1>1, PTL

\* Whatever breaks in whatever order, what analyzeConnectivity leaves to be
\* solved is held by the caller's supports and by no node the driver pinned.
THEOREM StandsOnItsSupports == Spec => []StandsOnSupports
<1>1. IInv => StandsOnSupports
  BY DEF IInv
<1> QED
  BY Inductive, <1>1, PTL

\* pinNode leaves no free node bare, and never touches a node that carries
\* something.
THEOREM NothingBare == Spec => []NoBareFreedom
<1>1. IInv => NoBareFreedom
  BY DEF IInv, NoBareFreedom, PinnedBare
<1> QED
  BY Inductive, <1>1, PTL

\* The joint moments among the nodal loads are those of the hinges of standing
\* members.
THEOREM MomentsFollowHinges == Spec => []MomentsMatchHinges
<1>1. IInv => MomentsMatchHinges
  BY DEF IInv, MomentsMatchHinges, MomentsExact
<1> QED
  BY Inductive, <1>1, PTL

\* The steps of the history report every lost element exactly once.
THEOREM EveryLossReportedOnce == Spec => []ReportedOnce
<1>1. IInv => ReportedOnce
  BY DEF IInv
<1> QED
  BY Inductive, <1>1, PTL

\* The run ends within one step per element and hinge.
THEOREM StepsAreBounded == Spec => []StepsBounded
<1>1. IInv => StepsBounded
  BY DEF IInv
<1> QED
  BY Inductive, <1>1, PTL

\* Connectivity.h, "component analysis of the ACTIVE element graph": on every model the
\* driver analyses, path halving and the storage order change nothing of what the roots
\* say: they are the components, and the debris is what no support reaches.
THEOREM ForestFindsAllDebris == Spec => []ForestFindsDebris
<1>1. TypeOK => ForestFindsDebris
  <2> SUFFICES ASSUME TypeOK PROVE FindsComponents(active) /\ FindsDebris(active, Fixed)
    BY DEF ForestFindsDebris
  <2>1. active \in SUBSET Elements /\ Fixed \in SUBSET Nodes
    BY ConnectivityAssumption DEF TypeOK, Fixed
  <2> QED
    BY <2>1, RootsAreComponents, RootsTellDebris
<1> QED
  BY <1>1, TypeCorrect, PTL
==============================================================================
