------------------------------ MODULE SnSymbolic ------------------------------
(***************************************************************************)
(* sn_chol.h, the part that looks at no value: the elimination tree, the    *)
(* pattern of L, the supernodes with their panels, who updates whom, and    *)
(* the levels of the parallel factorization.  A symmetric matrix is the set *)
(* of its off-diagonal entries, pairs of columns in the order they came in; *)
(* a panel goes by its first column.                                        *)
(***************************************************************************)
EXTENDS Integers, FiniteSets, SequencesExt

CONSTANTS
  N,           \* number of columns
  AmalgMaxCol  \* widest supernode that amalgamation makes

ASSUME SnSymbolicAssumption == N \in Nat \ {0} /\ AmalgMaxCol \in Nat

Cols == 0 .. N - 1
InTurn == [k \in 1..N |-> k - 1]

\* permuteFull: the entries in the order of elimination.  The order itself comes
\* from METIS, or is the natural one.
Permuted(entries, iperm) == {{iperm[i] : i \in e} : e \in entries}

\* The rows of column j, its diagonal among them.
RowsOf(entries, j) == {i \in Cols : i = j \/ {i, j} \in entries}

\* Seeded fault: the first entry of a row decides the parent, without the climb.
EtreeUnclimbed(entries) ==
  [j \in Cols |-> LET later == {i \in RowsOf(entries, j) : i > j}
                  IN  IF later = {} THEN -1 ELSE CHOOSE i \in later : \A o \in later : i <= o]

\* etree: from each entry of column k climb the ancestors known so far, which all
\* have k for ancestor from now on; one without an ancestor gets k for its parent.
Climbs == [anc : [Cols -> Cols \cup {-1}], parent : [Cols -> Cols \cup {-1}],
           i : Cols \cup {-1}, k : Cols]

Climb(c) ==
  [anc    |-> [c.anc EXCEPT ![c.i] = c.k],
   parent |-> IF c.anc[c.i] = -1 THEN [c.parent EXCEPT ![c.i] = c.k] ELSE c.parent,
   i      |-> c.anc[c.i],
   k      |-> c.k]

climbed[c \in Climbs] == IF c.i = -1 \/ c.i >= c.k THEN c ELSE climbed[Climb(c)]

ClimbRow(entries, c, i, k) ==
  IF i \in RowsOf(entries, k) THEN climbed[[c EXCEPT !.i = i, !.k = k]] ELSE c

ClimbRows(entries, c, k) == FoldLeft(LAMBDA d, i : ClimbRow(entries, d, i, k), c, InTurn)

Orphans == LET orphan == [j \in Cols |-> -1]
           IN  [anc |-> orphan, parent |-> orphan, i |-> -1, k |-> 0]

Etree(entries) == FoldLeft(LAMBDA c, k : ClimbRows(entries, c, k), Orphans, InTurn).parent

\* symbolic: L(:,j) is A(j:,j) and what the children of j hand on.
Pattern(entries) ==
  LET parent == Etree(entries)
      lpat[j \in Cols] ==
        {i \in RowsOf(entries, j) : i >= j}
        \cup UNION {{i \in lpat[c] : i >= j} : c \in {c \in 0 .. j - 1 : parent[c] = j}}
  IN  lpat

-------------------------------------------------------------------------------
\* buildSuperStructure.

\* Fundamental supernodes: j goes on from j - 1 when L(:,j-1) is L(:,j) and row j - 1.
Fundamental(lpat) ==
  {j \in Cols : j = 0 \/ lpat[j - 1] # {j - 1} \cup lpat[j]}

\* The column after a supernode.
EndOf(starts, j) ==
  CHOOSE e \in starts \cup {N} : e > j /\ \A o \in starts \cup {N} : o > j => e <= o

\* Amalgamation: the next fundamental supernode joins the current one while it adds
\* few rows and the whole stays narrow.  A relaxation of 0 leaves all as they are.
Amalgamate(lpat, relax, m, j) ==
  LET starts == Fundamental(lpat)
      rows   == m.rows \cup lpat[j]
  IN  IF j = 0 \/ j \notin starts THEN m
      ELSE IF /\ EndOf(starts, j) - m.last <= AmalgMaxCol
              /\ Cardinality(rows) - Cardinality(m.rows) <= relax
           THEN [m EXCEPT !.rows = rows]
           ELSE [starts |-> m.starts \cup {j}, last |-> j, rows |-> lpat[j]]

Amalgamated(lpat, relax) ==
  IF relax = 0 THEN Fundamental(lpat)
  ELSE FoldLeft(LAMBDA m, j : Amalgamate(lpat, relax, m, j),
                [starts |-> {0}, last |-> 0, rows |-> lpat[0]], InTurn).starts

\* Supernode K updates J when a row of its panel below its pivots is a pivot of J.
Updaters(cols, rows) ==
  [J \in DOMAIN cols |-> {K \in DOMAIN cols : (rows[K] \ cols[K]) \cap cols[J] # {}}]

\* Seeded fault: the updater that comes last decides.
LevelOfLast(updaters) ==
  LET level[J \in DOMAIN updaters] ==
        IF updaters[J] = {} THEN 0 ELSE 1 + level[Max(updaters[J])]
  IN  level

\* level[J] is one more than the highest level of those that update J.
LevelOf(updaters) ==
  LET level[J \in DOMAIN updaters] ==
        IF updaters[J] = {} THEN 0 ELSE 1 + Max({level[K] : K \in updaters[J]})
  IN  level

\* The panels of a set, in their order.
Ascending(panels) ==
  FoldLeft(LAMBDA s, J : IF J \in panels THEN Append(s, J) ELSE s, <<>>, InTurn)

\* The panels, their updaters and levelSets of a matrix in elimination order.
Super(entries, relax) ==
  LET lpat   == Pattern(entries)
      starts == Amalgamated(lpat, relax)
      cols   == [J \in starts |-> J .. EndOf(starts, J) - 1]
      rows   == [J \in starts |-> UNION {lpat[c] : c \in cols[J]}]
      level  == LevelOf(Updaters(cols, rows))
  IN  [entries |-> entries, cols |-> cols, rows |-> rows, updaters |-> Updaters(cols, rows),
       levels |-> [l \in 1 .. Max({level[J] : J \in starts}) + 1 |->
                     Ascending({J \in starts : level[J] = l - 1})]]

-------------------------------------------------------------------------------
\* What the structure is for.  L(i,j) fills in exactly when i can be reached from j
\* over columns eliminated before j.
Reaches(entries, j, C) ==
  j \in C /\ \A m \in C, i \in Cols : m <= j /\ {m, i} \in entries => i \in C

Fill(entries, j) ==
  LET reaching == {C \in SUBSET Cols : Reaches(entries, j, C)}
  IN  {i \in Cols : i >= j /\ \A C \in reaching : i \in C}

\* The panels of S hold the fill of their columns, and where a column k of K < J fills
\* a pivot row of J, K is among the updaters of J and J's panel has a row for all that
\* k fills from there on: what processSupernode skips for want of a row is zero.
HoldsFill(S) ==
  \A J \in DOMAIN S.cols :
    /\ \A j \in S.cols[J] : Fill(S.entries, j) \subseteq S.rows[J]
    /\ \A K \in DOMAIN S.cols : K < J => \A k \in S.cols[K] :
         LET below == {i \in Fill(S.entries, k) : \E j \in S.cols[J] : i >= j}
         IN  below \cap S.cols[J] # {} => K \in S.updaters[J] /\ below \subseteq S.rows[J]
==============================================================================
