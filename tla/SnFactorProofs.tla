---------------------------- MODULE SnFactorProofs ----------------------------
(***************************************************************************)
(* Proofs about the supernodal factorization, for every matrix, order of    *)
(* elimination, amalgamation and number of workers: the pattern of L that   *)
(* is found over the elimination tree is its fill, the panels drop nothing  *)
(* of it, and no panel is factored before those it reads.                   *)
(***************************************************************************)
EXTENDS SnFactor, FoldLemmas, FiniteSetTheorems, WellFoundedInduction, TLAPS

USE SnSymbolicAssumption

(***************************************************************************)
(* The graph of the columns before k: what is connected in it, and what a   *)
(* column fills in above itself.                                            *)
(***************************************************************************)
Shut(entries, k, C) ==
  \A a \in C, b \in 0 .. k - 1 : {a, b} \in entries => b \in C

Conn(entries, k, a, b) ==
  \A C \in SUBSET (0 .. k - 1) : a \in C /\ Shut(entries, k, C) => b \in C

Class(entries, k, a) == {b \in 0 .. k - 1 : Conn(entries, k, a, b)}

Higher(entries, j) ==
  {i \in Cols : i > j /\ \E m \in Class(entries, j + 1, j) : {m, i} \in entries}

LEMMA ConnReflexive ==
  ASSUME NEW entries, NEW k, NEW a
  PROVE  Conn(entries, k, a, a)
BY DEF Conn

LEMMA ConnTransitive ==
  ASSUME NEW entries, NEW k, NEW a, NEW b, NEW c,
         Conn(entries, k, a, b), Conn(entries, k, b, c)
  PROVE  Conn(entries, k, a, c)
BY DEF Conn

LEMMA ConnSymmetric ==
  ASSUME NEW entries, NEW k, NEW a \in 0 .. k - 1, NEW b \in 0 .. k - 1,
         Conn(entries, k, a, b)
  PROVE  Conn(entries, k, b, a)
<1> DEFINE before == 0 .. k - 1
<1> SUFFICES ASSUME NEW C \in SUBSET before, b \in C, Shut(entries, k, C), a \notin C
             PROVE  FALSE
  BY DEF Conn
<1>1. Shut(entries, k, before \ C)
  <2> SUFFICES ASSUME NEW x \in before \ C, NEW y \in before, {x, y} \in entries, y \in C
               PROVE  FALSE
    BY DEF Shut
  <2>1. {y, x} = {x, y}
    OBVIOUS
  <2>2. x \in C
    BY <2>1 DEF Shut
  <2> QED
    BY <2>2
<1>2. before \ C \in SUBSET before /\ a \in before \ C
  OBVIOUS
<1>3. b \in before \ C
  <2> HIDE DEF before
  <2> QED
    BY <1>1, <1>2 DEF Conn, before
<1> QED
  BY <1>3

LEMMA ConnAdjacent ==
  ASSUME NEW entries, NEW k, NEW a \in 0 .. k - 1, NEW b \in 0 .. k - 1, {a, b} \in entries
  PROVE  Conn(entries, k, a, b)
BY DEF Conn, Shut

LEMMA ConnGrows ==
  ASSUME NEW entries, NEW k \in Int, NEW l \in Int, k <= l, NEW a \in 0 .. k - 1, NEW b,
         Conn(entries, k, a, b)
  PROVE  Conn(entries, l, a, b)
<1> SUFFICES ASSUME NEW C \in SUBSET (0 .. l - 1), a \in C, Shut(entries, l, C)
             PROVE  b \in C
  BY DEF Conn
<1> DEFINE before == 0 .. k - 1
           first == C \cap before
<1>1. before \subseteq 0 .. l - 1
  OBVIOUS
<1>2. Shut(entries, k, first)
  BY <1>1 DEF Shut
<1>3. first \in SUBSET before /\ a \in first
  OBVIOUS
<1>4. b \in first
  <2> HIDE DEF first
  <2> QED
    BY <1>2, <1>3 DEF Conn
<1> QED
  BY <1>4

LEMMA ClassShut ==
  ASSUME NEW entries, NEW k, NEW a
  PROVE  Shut(entries, k, Class(entries, k, a))
<1> SUFFICES ASSUME NEW x \in Class(entries, k, a), NEW y \in 0 .. k - 1, {x, y} \in entries
             PROVE  y \in Class(entries, k, a)
  BY DEF Shut
<1>1. Conn(entries, k, a, x) /\ x \in 0 .. k - 1
  BY DEF Class
<1>2. Conn(entries, k, x, y)
  BY <1>1, ConnAdjacent
<1>3. Conn(entries, k, a, y)
  BY <1>1, <1>2, ConnTransitive
<1> QED
  BY <1>3 DEF Class

\* Where a fills nothing before k, its class among the columns up to a is its class
\* among those before k.
LEMMA Sealed ==
  ASSUME NEW entries, NEW k \in 0..N, NEW a \in 0 .. k - 1, NEW x \in 0 .. k - 1,
         \A y \in Higher(entries, a) : y >= k, Conn(entries, k, a, x)
  PROVE  x <= a /\ Conn(entries, a + 1, a, x)
<1> DEFINE class == Class(entries, a + 1, a)
<1>1. a \in class /\ class \subseteq 0 .. a /\ 0..a \subseteq 0 .. k - 1 /\ a \in Int /\ k \in Int
  BY ConnReflexive DEF Class
<1>2. ASSUME NEW m \in class, NEW y \in 0 .. k - 1, {m, y} \in entries PROVE y \in class
  <2>1. CASE y <= a
    <3>1. y \in 0 .. (a + 1) - 1
      BY <1>1, <2>1
    <3> QED
      BY <1>2, <3>1, ClassShut DEF Shut
  <2>2. CASE y > a
    <3>1. y \in Cols /\ y > a
      BY <2>2 DEF Cols
    <3>2. y \in Higher(entries, a)
      BY <1>2, <3>1 DEF Higher
    <3> QED
      BY <3>2
  <2> QED
    BY <1>1, <2>1, <2>2
<1> HIDE DEF class
<1>3. Shut(entries, k, class)
  BY <1>2 DEF Shut
<1>4. class \in SUBSET (0 .. k - 1)
  BY <1>1
<1>5. x \in class
  BY <1>1, <1>3, <1>4 DEF Conn
<1> QED
  BY <1>1, <1>5 DEF class, Class

\* Fill is a column itself and what it fills above.
LEMMA FillIsHigher ==
  ASSUME NEW entries, NEW j \in Cols
  PROVE  Fill(entries, j) = {j} \cup Higher(entries, j)
<1> DEFINE class == Class(entries, j + 1, j)
           reached == class \cup Higher(entries, j)
<1>1. j \in Int /\ j >= 0 /\ (j + 1) - 1 = j
  BY DEF Cols
<1>2. j \in class /\ class \subseteq 0..j /\ 0..j \subseteq Cols
  BY <1>1, ConnReflexive DEF Class, Cols
<1>3. ASSUME NEW C \in SUBSET Cols, Reaches(entries, j, C)
      PROVE  {j} \cup Higher(entries, j) \subseteq C
  <2> DEFINE first == C \cap 0..j
  <2>1. j \in C /\ \A m \in C, i \in Cols : m <= j /\ {m, i} \in entries => i \in C
    BY <1>3 DEF Reaches
  <2>2. Shut(entries, j + 1, first)
    BY <1>1, <1>2, <2>1 DEF Shut
  <2>3. first \in SUBSET (0 .. (j + 1) - 1) /\ j \in first
    BY <1>1, <1>2, <2>1
  <2> HIDE DEF first
  <2>4. class \subseteq first
    BY <2>2, <2>3 DEF Class, Conn
  <2>5. class \subseteq C
    BY <2>4 DEF first
  <2>6. ASSUME NEW i \in Higher(entries, j) PROVE i \in C
    <3>1. i \in Cols /\ \E m \in class : {m, i} \in entries
      BY DEF Higher
    <3> HIDE DEF class
    <3>2. PICK m \in class : {m, i} \in entries
      BY <3>1
    <3>3. m \in C /\ m <= j
      BY <1>2, <2>5
    <3> QED
      BY <2>1, <3>1, <3>2, <3>3
  <2> QED
    BY <2>1, <2>6
<1>4. Reaches(entries, j, reached)
  <2> SUFFICES ASSUME NEW m \in reached, NEW i \in Cols, m <= j, {m, i} \in entries
               PROVE  i \in reached
    BY <1>2 DEF Reaches
  <2>1. m \in class
    <3>1. \A y \in Higher(entries, j) : y \in Cols /\ y > j
      BY DEF Higher
    <3>2. m \notin Higher(entries, j)
      BY <1>1, <3>1 DEF Cols
    <3> QED
      BY <3>2
  <2>2. CASE i <= j
    <3>1. i \in 0 .. (j + 1) - 1
      BY <1>1, <2>2 DEF Cols
    <3> QED
      BY <2>1, <3>1, ClassShut DEF Shut
  <2>3. CASE i > j
    BY <2>1, <2>3 DEF Higher
  <2> QED
    BY <1>1, <2>2, <2>3 DEF Cols
<1>5. reached \in SUBSET Cols
  BY <1>2 DEF Higher
<1>6. ASSUME NEW i \in Fill(entries, j) PROVE i \in {j} \cup Higher(entries, j)
  <2>1. i \in reached /\ i \in Cols /\ i >= j
    <3> HIDE DEF reached
    <3> QED
      BY <1>4, <1>5 DEF Fill
  <2>2. i \in class => i <= j
    BY <1>1, <1>2
  <2> QED
    BY <1>1, <2>1, <2>2 DEF Cols
<1>7. ASSUME NEW i \in {j} \cup Higher(entries, j) PROVE i \in Fill(entries, j)
  <2>1. i \in Cols /\ i >= j
    BY <1>1 DEF Higher
  <2> QED
    BY <1>3, <2>1 DEF Fill
<1> QED
  BY <1>6, <1>7

\* What k fills from one of its own fills on, that column fills.
LEMMA FillClimbs ==
  ASSUME NEW entries, NEW k \in Cols, NEW j \in Higher(entries, k),
         NEW i \in Higher(entries, k), i > j
  PROVE  i \in Higher(entries, j)
<1>1. k \in Int /\ j \in Int /\ i \in Cols /\ j \in Cols /\ j > k /\ k >= 0
  BY DEF Higher, Cols
<1>2. PICK m \in Class(entries, k + 1, k) : {m, i} \in entries
  BY DEF Higher
<1>3. PICK o \in Class(entries, k + 1, k) : {o, j} \in entries
  BY DEF Higher
<1>4. m \in 0..k /\ o \in 0..k /\ Conn(entries, k + 1, k, m) /\ Conn(entries, k + 1, k, o)
  BY <1>1 DEF Class
<1>5. Conn(entries, j + 1, k, m) /\ Conn(entries, j + 1, k, o)
  <2>1. k \in 0 .. (k + 1) - 1 /\ k + 1 <= j + 1 /\ k + 1 \in Int /\ j + 1 \in Int
    BY <1>1
  <2> QED
    BY <1>4, <2>1, ConnGrows
<1>6. m \in 0 .. (j + 1) - 1 /\ o \in 0 .. (j + 1) - 1 /\ j \in 0 .. (j + 1) - 1
      /\ k \in 0 .. (j + 1) - 1
  BY <1>1, <1>4
<1>7. Conn(entries, j + 1, j, o)
  <2>1. {j, o} = {o, j}
    OBVIOUS
  <2> QED
    BY <1>3, <1>6, <2>1, ConnAdjacent
<1>8. Conn(entries, j + 1, o, k)
  BY <1>5, <1>6, ConnSymmetric
<1>9. Conn(entries, j + 1, j, m)
  BY <1>5, <1>7, <1>8, ConnTransitive
<1>10. m \in Class(entries, j + 1, j)
  BY <1>6, <1>9 DEF Class
<1> QED
  BY <1>1, <1>2, <1>10 DEF Higher

\* A connected column below j lies under a child of j: a column that fills nothing
\* before j.
LEMMA ChildOver ==
  ASSUME NEW entries, NEW j \in Cols, NEW m \in Class(entries, j + 1, j), m # j
  PROVE  \E c \in 0 .. j - 1 : /\ m \in Class(entries, c + 1, c)
                               /\ j \in Higher(entries, c)
                               /\ \A y \in Higher(entries, c) : y >= j
<1> DEFINE class == Class(entries, j, m)
           depth == {j - x : x \in class}
<1>1. j \in Int /\ m \in Int /\ j >= 0 /\ m >= 0 /\ m < j /\ j <= N /\ j \in Nat
      /\ Conn(entries, j + 1, j, m)
  BY DEF Class, Cols
<1>2. class \subseteq 0 .. j - 1 /\ m \in class
  BY <1>1, ConnReflexive DEF Class
<1>3. depth \in SUBSET Nat /\ depth # {}
  BY <1>1, <1>2
<1>4. PICK d \in depth : \A e \in depth : d <= e
  <2> HIDE DEF depth
  <2> QED
    BY <1>3, LeastNatural
<1>5. PICK c \in class : d = j - c
  BY <1>4
<1>6. \A x \in class : x <= c
  <2> SUFFICES ASSUME NEW x \in class PROVE x <= c
    OBVIOUS
  <2>1. j - c <= j - x
    BY <1>4, <1>5
  <2>2. x \in 0 .. j - 1 /\ c \in 0 .. j - 1
    BY <1>2
  <2> QED
    BY <1>1, <2>1, <2>2
<1>7. c \in 0 .. j - 1 /\ c \in Int
  BY <1>2
<1>8. \A x \in Class(entries, c + 1, c) : x \in class
  <2> SUFFICES ASSUME NEW x \in Class(entries, c + 1, c) PROVE x \in class
    OBVIOUS
  <2>1. x \in 0 .. c /\ Conn(entries, c + 1, c, x)
    BY <1>7 DEF Class
  <2>2. Conn(entries, j, c, x)
    BY <1>1, <1>7, <2>1, ConnGrows
  <2>3. Conn(entries, j, m, c)
    BY DEF Class
  <2>4. Conn(entries, j, m, x) /\ x \in 0 .. j - 1
    BY <1>1, <1>7, <2>1, <2>2, <2>3, ConnTransitive
  <2> QED
    BY <2>4 DEF Class
<1>9. \A y \in Higher(entries, c) : y >= j
  <2> SUFFICES ASSUME NEW y \in Higher(entries, c), y < j PROVE FALSE
    <3>1. \A y \in Higher(entries, c) : y \in Int
      BY DEF Higher, Cols
    <3> QED
      BY <1>1, <3>1
  <2>1. PICK x \in Class(entries, c + 1, c) : {x, y} \in entries
    BY DEF Higher
  <2>2. y > c /\ y \in 0 .. j - 1
    BY <1>1 DEF Higher, Cols
  <2>3. y \in class
    BY <1>8, <2>1, <2>2, ClassShut DEF Shut
  <2> QED
    BY <1>6, <1>7, <2>2, <2>3
<1>10. m \in Class(entries, c + 1, c)
  <2>1. Conn(entries, j, m, c)
    BY DEF Class
  <2>2. m \in 0 .. j - 1
    BY <1>1
  <2>3. Conn(entries, j, c, m)
    BY <1>7, <2>1, <2>2, ConnSymmetric
  <2>4. j \in 0..N
    BY <1>1
  <2>5. m <= c /\ Conn(entries, c + 1, c, m)
    BY <1>7, <1>9, <2>2, <2>3, <2>4, Sealed
  <2> QED
    BY <1>1, <1>7, <2>5 DEF Class
<1>11. j \in Higher(entries, c)
  <2>1. ASSUME \A x \in class : {x, j} \notin entries PROVE FALSE
    <3>1. Shut(entries, j + 1, class)
      <4> SUFFICES ASSUME NEW x \in class, NEW y \in 0 .. (j + 1) - 1, {x, y} \in entries
                   PROVE  y \in class
        BY DEF Shut
      <4>1. y # j
        BY <2>1
      <4>2. y \in 0 .. j - 1
        BY <1>1, <4>1
      <4> QED
        BY <4>2, ClassShut DEF Shut
    <3>2. class \in SUBSET (0 .. (j + 1) - 1)
      BY <1>1, <1>2
    <3>3. Conn(entries, j + 1, m, j)
      <4>1. j \in 0 .. (j + 1) - 1 /\ m \in 0 .. (j + 1) - 1
        BY <1>1
      <4> QED
        BY <1>1, <4>1, ConnSymmetric
    <3> HIDE DEF class
    <3>4. j \in class
      BY <1>2, <3>1, <3>2, <3>3 DEF Conn
    <3>5. j \in 0 .. j - 1
      BY <1>2, <3>4
    <3> QED
      BY <1>1, <3>5
  <2>2. PICK x \in class : {x, j} \in entries
    BY <2>1
  <2>3. Conn(entries, j, m, x) /\ Conn(entries, j, m, c) /\ x \in 0 .. j - 1 /\ m \in 0 .. j - 1
    BY <1>1 DEF Class
  <2>4. Conn(entries, j, c, x)
    BY <1>7, <2>3, ConnSymmetric, ConnTransitive
  <2>5. j \in 0..N
    BY <1>1
  <2>6. x <= c /\ Conn(entries, c + 1, c, x)
    BY <1>7, <1>9, <2>3, <2>4, <2>5, Sealed
  <2>7. x \in Class(entries, c + 1, c)
    BY <1>7, <2>3, <2>6 DEF Class
  <2>8. j > c
    BY <1>1, <1>7
  <2> QED
    BY <2>2, <2>7, <2>8 DEF Higher
<1> QED
  BY <1>7, <1>9, <1>10, <1>11

-------------------------------------------------------------------------------
(***************************************************************************)
(* etree.  What is known of the tree when the columns before k are done:    *)
(* a parent is the first column that is filled, a column without one fills  *)
(* nothing so far, and an ancestor is connected with what it is one of.     *)
(***************************************************************************)
IsFirstFill(entries, a, p) ==
  p \in Higher(entries, a) /\ \A y \in Higher(entries, a) : y >= p

IsTree(entries, parent) ==
  \A a \in Cols : /\ parent[a] # -1 => IsFirstFill(entries, a, parent[a])
                  /\ parent[a] = -1 => Higher(entries, a) = {}

Known(entries, c, k) ==
  /\ c.anc \in [Cols -> Cols \cup {-1}] /\ c.parent \in [Cols -> Cols \cup {-1}]
  /\ \A a \in Cols :
       /\ c.anc[a] = -1 <=> c.parent[a] = -1
       /\ c.parent[a] # -1 => IsFirstFill(entries, a, c.parent[a])
       /\ c.parent[a] = -1 => \A y \in Higher(entries, a) : y >= k
       /\ c.anc[a] # -1 => /\ a < c.anc[a] /\ c.anc[a] <= k
                           /\ Conn(entries, c.anc[a] + 1, a, c.anc[a])

\* z is connected with a child of k.
Met(entries, c, k, z) == \E r \in 0 .. k - 1 : Conn(entries, k, z, r) /\ c.parent[r] = k

\* What has k for ancestor is under a child of k, or under the column that is next.
MetSoFar(entries, c, k) == \A z \in Cols : c.anc[z] = k => Met(entries, c, k, z)
Meeting(entries, c) ==
  \A z \in Cols : c.anc[z] = c.k =>
    \/ Met(entries, c, c.k, z)
    \/ z < c.i /\ Conn(entries, c.k, z, c.i)

InClimb(entries, c, v) ==
  /\ c \in Climbs /\ c.i # -1 /\ c.i < c.k /\ Known(entries, c, c.k) /\ Meeting(entries, c)
  /\ v \in 0 .. c.k - 1 /\ {v, c.k} \in entries /\ Conn(entries, c.k, v, c.i)

KeepsParents(c, d) ==
  d.k = c.k /\ \A r \in Cols : c.parent[r] # -1 => d.parent[r] = c.parent[r]

Climbed(entries, c, v) ==
  /\ Known(entries, c, c.k) /\ MetSoFar(entries, c, c.k) /\ Met(entries, c, c.k, v)

LEMMA ClimbStays ==
  ASSUME NEW c \in Climbs, c.i # -1
  PROVE  /\ Climb(c) \in Climbs
         /\ c.i \in Cols /\ c.k \in Cols /\ Climb(c).k = c.k /\ Climb(c).i = c.anc[c.i]
         /\ \A z \in Cols : Climb(c).anc[z] = IF z = c.i THEN c.k ELSE c.anc[z]
         /\ \A z \in Cols : Climb(c).parent[z] =
                              IF z = c.i /\ c.anc[c.i] = -1 THEN c.k ELSE c.parent[z]
<1>1. /\ c.anc \in [Cols -> Cols \cup {-1}] /\ c.parent \in [Cols -> Cols \cup {-1}]
      /\ c.i \in Cols /\ c.k \in Cols
  BY DEF Climbs
<1>2. /\ [c.anc EXCEPT ![c.i] = c.k] \in [Cols -> Cols \cup {-1}]
      /\ [c.parent EXCEPT ![c.i] = c.k] \in [Cols -> Cols \cup {-1}]
      /\ c.anc[c.i] \in Cols \cup {-1}
  BY <1>1
<1>3. Climb(c) \in Climbs
  BY <1>1, <1>2 DEF Climb, Climbs
<1>4. \A z \in Cols : Climb(c).anc[z] = IF z = c.i THEN c.k ELSE c.anc[z]
  BY <1>1 DEF Climb
<1>5. \A z \in Cols : Climb(c).parent[z] =
                        IF z = c.i /\ c.anc[c.i] = -1 THEN c.k ELSE c.parent[z]
  BY <1>1 DEF Climb
<1> QED
  BY <1>1, <1>3, <1>4, <1>5 DEF Climb

\* The climbs whose ancestors come later than the columns they are of: they end.
Rising == {c \in Climbs : \A a \in Cols : c.anc[a] # -1 => c.anc[a] > a}

AtEnd(c) == c.i = -1 \/ c.i >= c.k

LEMMA RisingClimb ==
  ASSUME NEW c \in Rising, ~AtEnd(c)
  PROVE  Climb(c) \in Rising /\ (Climb(c).i # -1 => Climb(c).i > c.i)
<1>1. c \in Climbs /\ c.i # -1 /\ c.i < c.k /\ \A a \in Cols : c.anc[a] # -1 => c.anc[a] > a
  BY DEF Rising, AtEnd, Climbs, Cols
<1>2. /\ Climb(c) \in Climbs /\ c.i \in Cols /\ Climb(c).i = c.anc[c.i]
      /\ \A z \in Cols : Climb(c).anc[z] = IF z = c.i THEN c.k ELSE c.anc[z]
  BY <1>1, ClimbStays
<1>3. \A a \in Cols : Climb(c).anc[a] # -1 => Climb(c).anc[a] > a
  <2> SUFFICES ASSUME NEW a \in Cols, Climb(c).anc[a] # -1 PROVE Climb(c).anc[a] > a
    OBVIOUS
  <2>1. CASE a = c.i
    BY <1>1, <1>2, <2>1 DEF Climbs, Cols
  <2>2. CASE a # c.i
    BY <1>1, <1>2, <2>2
  <2> QED
    BY <2>1, <2>2
<1> QED
  BY <1>1, <1>2, <1>3 DEF Rising

LEMMA ClimbedUnfolds ==
  \A c \in Rising : climbed[c] = IF AtEnd(c) THEN c ELSE climbed[Climb(c)]
<1> DEFINE D == Climbs
           ended == {c \in D : AtEnd(c)}
           turn == [c \in D |-> IF AtEnd(c) THEN c ELSE Climb(c)]
           self == [c \in D |-> c]
           body(g) == [c \in Climbs |-> IF c.i = -1 \/ c.i >= c.k THEN c ELSE g[Climb(c)]]
<1>1. \A c \in D : ~AtEnd(c) => Climb(c) \in D
  BY ClimbStays DEF AtEnd
<1>2. ended \in SUBSET D /\ turn \in [D -> D] /\ self \in [D -> D]
  BY <1>1
<1> HIDE DEF ended, turn, self, D
<1>3. PICK g : IsLoop(g, D, D, ended, turn, self)
  BY <1>2, LoopExists
<1>4. g = body(g)
  <2>1. DOMAIN g = Climbs /\ g = [c \in Climbs |-> g[c]]
    BY <1>3 DEF D, IsLoop
  <2>2. \A c \in Climbs : g[c] = IF c.i = -1 \/ c.i >= c.k THEN c ELSE g[Climb(c)]
    BY <1>3 DEF D, ended, turn, self, IsLoop, AtEnd
  <2> QED
    BY <2>1, <2>2
<1>5. climbed = CHOOSE h : h = body(h)
  BY DEF climbed
<1> DEFINE chosen == CHOOSE h : h = body(h)
<1>6. chosen = body(chosen)
  <2> HIDE DEF body
  <2> QED
    BY <1>4
<1> HIDE DEF chosen
<1>7. \A c \in Climbs : chosen[c] = IF c.i = -1 \/ c.i >= c.k THEN c ELSE chosen[Climb(c)]
  BY <1>6
<1>8. climbed = chosen
  BY <1>5 DEF chosen
<1> QED
  BY <1>7, <1>8 DEF AtEnd, Rising

\* What a climb must keep for its end to have it.
LEMMA ClimbInduction ==
  ASSUME NEW Kept \in SUBSET Rising,
         \A c \in Kept : ~AtEnd(c) => Climb(c) \in Kept,
         NEW c \in Kept
  PROVE  climbed[c] \in Kept /\ AtEnd(climbed[c])
<1> DEFINE P == {m \in Nat : \A d \in Kept : AtEnd(d) \/ d.k - d.i <= m =>
                               climbed[d] \in Kept /\ AtEnd(climbed[d])}
<1>1. ASSUME NEW d \in Kept PROVE d \in Rising /\ d.k \in Cols /\ d.i \in Cols \cup {-1}
  BY DEF Rising, Climbs
<1>2. ASSUME NEW d \in Kept, AtEnd(d) PROVE climbed[d] \in Kept /\ AtEnd(climbed[d])
  BY <1>1, <1>2, ClimbedUnfolds
<1>3. 0 \in P
  <2> SUFFICES ASSUME NEW d \in Kept, ~AtEnd(d), d.k - d.i <= 0 PROVE FALSE
    BY <1>2
  <2> QED
    BY <1>1 DEF AtEnd, Cols
<1>4. ASSUME NEW m \in 1..N, m - 1 \in P PROVE m \in P
  <2> SUFFICES ASSUME NEW d \in Kept, ~AtEnd(d), d.k - d.i <= m
               PROVE  climbed[d] \in Kept /\ AtEnd(climbed[d])
    BY <1>2
  <2> DEFINE up == Climb(d)
  <2>1. up \in Kept /\ (up.i # -1 => up.i > d.i) /\ climbed[d] = climbed[up]
    BY <1>1, RisingClimb, ClimbedUnfolds
  <2>2. up.k = d.k
    BY DEF Climb
  <2> HIDE DEF up
  <2>3. AtEnd(up) \/ up.k - up.i <= m - 1
    BY <1>1, <2>1, <2>2 DEF AtEnd, Cols
  <2> QED
    BY <1>4, <2>1, <2>3
<1>5. 0..N \subseteq P
  <2>1. N \in Nat
    OBVIOUS
  <2> HIDE DEF P
  <2> QED
    BY <1>3, <1>4, <2>1, Ascent
<1>6. AtEnd(c) \/ c.k - c.i \in 0..N
  BY <1>1 DEF AtEnd, Cols
<1> HIDE DEF P
<1>7. CASE AtEnd(c)
  BY <1>2, <1>7
<1>8. CASE ~AtEnd(c)
  <2>1. c.k - c.i \in P /\ c.k - c.i <= c.k - c.i
    BY <1>1, <1>5, <1>6, <1>8 DEF Cols
  <2> QED
    BY <2>1 DEF P
<1> QED
  BY <1>7, <1>8

LEMMA ClimbStep ==
  ASSUME NEW entries, NEW c, NEW v, InClimb(entries, c, v)
  PROVE  /\ Climb(c) \in Climbs /\ KeepsParents(c, Climb(c))
         /\ AtEnd(Climb(c)) => Climbed(entries, Climb(c), v)
         /\ ~AtEnd(Climb(c)) => InClimb(entries, Climb(c), v)
<1> DEFINE d == Climb(c)
           i == c.i
           k == c.k
           b == c.anc[i]
<1>1. /\ d \in Climbs /\ i \in Cols /\ k \in Cols /\ d.k = k /\ d.i = b
      /\ \A z \in Cols : d.anc[z] = IF z = i THEN k ELSE c.anc[z]
      /\ \A z \in Cols : d.parent[z] = IF z = i /\ b = -1 THEN k ELSE c.parent[z]
  BY ClimbStays DEF InClimb
<1>2. /\ i < k /\ v \in 0 .. k - 1 /\ {v, k} \in entries /\ Conn(entries, k, v, i)
      /\ Known(entries, c, k) /\ Meeting(entries, c)
  BY DEF InClimb
<1>3. /\ c.anc \in [Cols -> Cols \cup {-1}] /\ c.parent \in [Cols -> Cols \cup {-1}]
      /\ d.anc \in [Cols -> Cols \cup {-1}] /\ d.parent \in [Cols -> Cols \cup {-1}]
  BY <1>1, <1>2 DEF Climbs, Known
<1>4. \A a \in Cols :
        /\ (c.anc[a] = -1 <=> c.parent[a] = -1)
        /\ (c.parent[a] # -1 => IsFirstFill(entries, a, c.parent[a]))
        /\ (c.parent[a] = -1 => \A y \in Higher(entries, a) : y >= k)
        /\ (c.anc[a] # -1 => /\ a < c.anc[a] /\ c.anc[a] <= k
                             /\ Conn(entries, c.anc[a] + 1, a, c.anc[a]))
  BY <1>2 DEF Known
<1>5. \A z \in Cols : c.anc[z] = k =>
        Met(entries, c, k, z) \/ (z < i /\ Conn(entries, k, z, i))
  BY <1>2 DEF Meeting
<1>6. b \in Cols \cup {-1} /\ b # i /\ (b = -1 <=> c.parent[i] = -1)
      /\ (b # -1 => i < b /\ b <= k /\ Conn(entries, b + 1, i, b))
  <2>1. b # -1 => i < b
    BY <1>1, <1>4
  <2>2. b # i
    BY <1>1, <2>1 DEF Cols
  <2> QED
    BY <1>1, <1>3, <1>4, <2>2
<1> HIDE DEF d, i, k, b
<1>7. i \in 0 .. k - 1 /\ k \in 0..N /\ k \in Int /\ v \in 0 .. k - 1 /\ v \in Cols
      /\ i \in Int /\ k < N
  BY <1>1, <1>2 DEF Cols
<1>8. Conn(entries, k, i, v)
  BY <1>2, <1>7, ConnSymmetric
<1>9. Conn(entries, k + 1, i, k)
  <2>1. Conn(entries, k + 1, i, v)
    <3>1. k + 1 \in Int /\ k <= k + 1
      BY <1>7
    <3> QED
      BY <1>7, <1>8, <3>1, ConnGrows
  <2>2. Conn(entries, k + 1, v, k)
    <3>1. v \in 0 .. (k + 1) - 1 /\ k \in 0 .. (k + 1) - 1
      BY <1>7
    <3> QED
      BY <1>2, <3>1, ConnAdjacent
  <2> QED
    BY <2>1, <2>2, ConnTransitive
\* The parent that is set is the first fill.
<1>10. ASSUME b = -1 PROVE IsFirstFill(entries, i, k)
  <2>1. \A y \in Higher(entries, i) : y >= k
    BY <1>1, <1>4, <1>6, <1>10
  <2>2. v <= i /\ Conn(entries, i + 1, i, v)
    BY <1>7, <1>8, <2>1, Sealed
  <2>3. v \in Class(entries, i + 1, i)
    BY <1>7, <2>2 DEF Class
  <2>4. k \in Higher(entries, i)
    BY <1>1, <1>2, <2>3 DEF Higher
  <2> QED
    BY <2>1, <2>4 DEF IsFirstFill
<1>11. Known(entries, d, k)
  <2> SUFFICES ASSUME NEW a \in Cols
               PROVE  /\ (d.anc[a] = -1 <=> d.parent[a] = -1)
                      /\ (d.parent[a] # -1 => IsFirstFill(entries, a, d.parent[a]))
                      /\ (d.parent[a] = -1 => \A y \in Higher(entries, a) : y >= k)
                      /\ (d.anc[a] # -1 => /\ a < d.anc[a] /\ d.anc[a] <= k
                                           /\ Conn(entries, d.anc[a] + 1, a, d.anc[a]))
    BY <1>3 DEF Known
  <2>1. CASE a # i
    <3>1. d.anc[a] = c.anc[a] /\ d.parent[a] = c.parent[a]
      BY <1>1, <2>1
    <3> QED
      BY <1>4, <3>1
  <2>2. CASE a = i
    <3>1. d.anc[a] = k /\ k # -1
      BY <1>1, <1>7, <2>2
    <3>2. a < k /\ k <= k /\ Conn(entries, k + 1, a, k)
      BY <1>7, <1>9, <2>2
    <3>3. d.parent[a] # -1 /\ IsFirstFill(entries, a, d.parent[a])
      <4>1. CASE b = -1
        BY <1>1, <1>10, <2>2, <3>1, <4>1
      <4>2. CASE b # -1
        BY <1>1, <1>4, <1>6, <2>2, <4>2
      <4> QED
        BY <4>1, <4>2
    <3> QED
      BY <3>1, <3>2, <3>3
  <2> QED
    BY <2>1, <2>2
<1>12. ASSUME NEW z, Met(entries, c, k, z) PROVE Met(entries, d, k, z)
  <2>1. PICK r \in 0 .. k - 1 : Conn(entries, k, z, r) /\ c.parent[r] = k
    BY <1>12 DEF Met
  <2>2. r \in Cols /\ k # -1
    BY <1>7 DEF Cols
  <2>3. d.parent[r] = k
    BY <1>1, <2>1, <2>2
  <2> QED
    BY <2>1, <2>3 DEF Met
<1>13. KeepsParents(c, d)
  <2>1. \A r \in Cols : c.parent[r] # -1 => d.parent[r] = c.parent[r]
    BY <1>1, <1>6
  <2> QED
    BY <1>1, <2>1 DEF KeepsParents, k
<1>14. CASE b # -1 /\ b < k
  <2>1. ~AtEnd(d) /\ d.i # -1 /\ d.i < d.k
    BY <1>1, <1>6, <1>7, <1>14 DEF AtEnd, Cols
  <2>2. Conn(entries, k, i, b)
    <3>1. i \in 0 .. (b + 1) - 1 /\ b + 1 <= k /\ b + 1 \in Int
      BY <1>6, <1>7, <1>14 DEF Cols
    <3> QED
      BY <1>6, <1>7, <1>14, <3>1, ConnGrows
  <2>3. Conn(entries, k, v, b)
    BY <1>2, <2>2, ConnTransitive
  <2>4. Meeting(entries, d)
    <3> SUFFICES ASSUME NEW z \in Cols, d.anc[z] = k, ~Met(entries, d, k, z)
                 PROVE  z < b /\ Conn(entries, k, z, b)
      BY <1>1 DEF Meeting
    <3>1. CASE z = i
      BY <1>6, <1>14, <2>2, <3>1
    <3>2. CASE z # i
      <4>1. z < i /\ Conn(entries, k, z, i)
        BY <1>1, <1>5, <1>12, <3>2
      <4>2. z < b
        BY <1>6, <1>7, <1>14, <4>1 DEF Cols
      <4> QED
        BY <2>2, <4>1, <4>2, ConnTransitive
    <3> QED
      BY <3>1, <3>2
  <2>5. InClimb(entries, d, v)
    BY <1>1, <1>2, <1>11, <2>1, <2>3, <2>4 DEF InClimb
  <2> QED
    BY <1>1, <1>13, <2>1, <2>5 DEF d
<1>15. CASE b = -1 \/ b = k
  <2>1. AtEnd(d)
    BY <1>1, <1>7, <1>15 DEF AtEnd
  <2>2. Met(entries, d, k, i)
    <3>1. CASE b = -1
      <4>1. d.parent[i] = k /\ Conn(entries, k, i, i)
        BY <1>1, <3>1, ConnReflexive
      <4> QED
        BY <1>7, <4>1 DEF Met
    <3>2. CASE b = k
      <4>1. c.anc[i] = k /\ ~(i < i)
        BY <1>7, <3>2 DEF b
      <4>2. Met(entries, c, k, i)
        BY <1>1, <1>5, <4>1
      <4> QED
        BY <1>12, <4>2
    <3> QED
      BY <1>15, <3>1, <3>2
  <2>3. ASSUME NEW z, Conn(entries, k, z, i) PROVE Met(entries, d, k, z)
    <3>1. PICK r \in 0 .. k - 1 : Conn(entries, k, i, r) /\ d.parent[r] = k
      BY <2>2 DEF Met
    <3> QED
      BY <2>3, <3>1, ConnTransitive DEF Met
  <2>4. MetSoFar(entries, d, k)
    <3> SUFFICES ASSUME NEW z \in Cols, d.anc[z] = k PROVE Met(entries, d, k, z)
      BY DEF MetSoFar
    <3>1. CASE z = i
      BY <2>2, <3>1
    <3>2. CASE z # i
      BY <1>1, <1>5, <1>12, <2>3, <3>2
    <3> QED
      BY <3>1, <3>2
  <2>5. Climbed(entries, d, v)
    BY <1>1, <1>2, <1>11, <2>3, <2>4 DEF Climbed
  <2> QED
    BY <1>1, <1>13, <2>1, <2>5 DEF d
<1>16. b = -1 \/ b = k \/ (b # -1 /\ b < k)
  BY <1>6, <1>7 DEF Cols
<1> QED
  BY <1>14, <1>15, <1>16

LEMMA ClimbMeets ==
  ASSUME NEW entries, NEW c, NEW v, InClimb(entries, c, v)
  PROVE  climbed[c] \in Climbs /\ KeepsParents(c, climbed[c]) /\ Climbed(entries, climbed[c], v)
<1> DEFINE Kept == {d \in Rising : /\ KeepsParents(c, d)
                                   /\ AtEnd(d) => Climbed(entries, d, v)
                                   /\ ~AtEnd(d) => InClimb(entries, d, v)}
<1>1. ASSUME NEW d \in Climbs, Known(entries, d, d.k) PROVE d \in Rising
  <2>1. \A a \in Cols : d.anc[a] # -1 => a < d.anc[a]
    BY <1>1 DEF Known
  <2>2. \A a \in Cols : d.anc[a] \in Cols \cup {-1}
    BY DEF Climbs
  <2>3. \A a \in Cols : d.anc[a] # -1 => d.anc[a] > a
    BY <2>1, <2>2 DEF Cols
  <2> QED
    BY <2>3 DEF Rising
<1>2. c \in Kept
  <2>1. c \in Climbs /\ Known(entries, c, c.k) /\ c.i # -1 /\ c.i < c.k
    BY DEF InClimb
  <2>2. c \in Rising
    BY <1>1, <2>1
  <2>3. ~AtEnd(c)
    BY <2>1 DEF AtEnd, Climbs, Cols
  <2> QED
    BY <2>2, <2>3 DEF KeepsParents
<1>3. ASSUME NEW d \in Kept, ~AtEnd(d) PROVE Climb(d) \in Kept
  <2> DEFINE e == Climb(d)
  <2>1. InClimb(entries, d, v)
    BY <1>3
  <2>2. /\ e \in Climbs /\ KeepsParents(d, e)
        /\ AtEnd(e) => Climbed(entries, e, v)
        /\ ~AtEnd(e) => InClimb(entries, e, v)
    BY <2>1, ClimbStep
  <2> HIDE DEF e
  <2>3. Known(entries, e, e.k)
    BY <2>2 DEF Climbed, InClimb
  <2>4. e \in Rising
    BY <1>1, <2>2, <2>3
  <2>5. KeepsParents(c, e)
    BY <2>2 DEF KeepsParents
  <2>6. e \in Kept
    BY <2>2, <2>4, <2>5
  <2> QED
    BY <2>6 DEF e
<1>4. Kept \in SUBSET Rising
  OBVIOUS
<1> HIDE DEF Kept
<1>5. climbed[c] \in Kept /\ AtEnd(climbed[c])
  BY <1>2, <1>3, <1>4, ClimbInduction
<1> QED
  BY <1>5 DEF Kept, Rising

LEMMA ClimbRowStays ==
  ASSUME NEW entries, NEW c \in Rising, NEW i \in Cols, NEW k \in Cols
  PROVE  ClimbRow(entries, c, i, k) \in Rising
<1> DEFINE d == [c EXCEPT !.i = i, !.k = k]
           all == Rising
<1>1. d \in all
  BY DEF Rising, Climbs
<1> HIDE DEF d
<1>2. all \in SUBSET Rising /\ \A e \in all : ~AtEnd(e) => Climb(e) \in all
  BY RisingClimb
<1> HIDE DEF all
<1>3. climbed[d] \in all
  BY <1>1, <1>2, ClimbInduction
<1>4. climbed[d] \in Rising
  BY <1>3 DEF all
<1> QED
  BY <1>4 DEF ClimbRow, d

\* The rows of a column are climbed one after another.
RowsAfter(after, entries, c, k) ==
  /\ after \in [0..N -> Rising] /\ after[0] = c
  /\ \A j \in 1..N : after[j] = ClimbRow(entries, after[j - 1], j - 1, k)
  /\ ClimbRows(entries, c, k) = after[N]

LEMMA RowsByOne ==
  ASSUME NEW entries, NEW c \in Rising, NEW k \in Cols
  PROVE  \E after : RowsAfter(after, entries, c, k)
<1> DEFINE D == Rising
           start == c
           body(iter) == [T \in SUBSET DOMAIN InTurn |->
                            IF T = {} THEN start
                            ELSE ClimbRow(entries, iter[T \ {Max(T)}], InTurn[Max(T)], k)]
           stride == [x \in D \X (1..N) |-> ClimbRow(entries, x[1], x[2] - 1, k)]
           chosen == CHOOSE iter : iter = body(iter)
<1>1. N \in Nat /\ DOMAIN InTurn = 1..N /\ \A j \in 1..N : InTurn[j] = j - 1 /\ j - 1 \in Cols
  BY DEF InTurn, Cols
<1>2. /\ stride \in StepsIn(N, D)
      /\ \A x \in D, j \in 1..N : stride[<<x, j>>] = ClimbRow(entries, x, j - 1, k)
  <2>1. ASSUME NEW x \in D \X (1..N) PROVE ClimbRow(entries, x[1], x[2] - 1, k) \in D
    <3>1. x[1] \in D /\ x[2] - 1 \in Cols
      BY <1>1
    <3> QED
      BY <3>1, ClimbRowStays
  <2> QED
    BY <2>1 DEF StepsIn
<1>3. \A T \in SUBSET (1..N) : T # {} => Max(T) \in T /\ Max(T) \in 1..N
  BY <1>1, LastOf
<1>4. ClimbRows(entries, c, k) = chosen[1..N]
  BY <1>1 DEF ClimbRows, FoldLeft, MapThenFoldSet
<1>5. start \in D
  OBVIOUS
<1> HIDE DEF stride, D, start
<1>6. chosen = body(chosen)
  <2>1. PICK iter : IsFold(iter, N, D, start, stride)
    BY <1>1, <1>2, <1>5, FoldExists
  <2>2. ASSUME NEW T \in SUBSET (1..N), T # {}
        PROVE  iter[T] = ClimbRow(entries, iter[T \ {Max(T)}], InTurn[Max(T)], k)
    <3>1. iter[T] = stride[<<iter[T \ {Max(T)}], Max(T)>>] /\ iter[T \ {Max(T)}] \in D
      BY <1>3, <2>1, <2>2 DEF IsFold
    <3>2. Max(T) \in 1..N /\ InTurn[Max(T)] = Max(T) - 1
      BY <1>1, <1>3, <2>2
    <3> QED
      BY <1>2, <3>1, <3>2
  <2>3. iter[{}] = start /\ iter = [T \in SUBSET DOMAIN InTurn |-> iter[T]]
    BY <1>1, <2>1 DEF IsFold
  <2>4. iter = body(iter)
    BY <1>1, <2>2, <2>3
  <2> HIDE DEF body
  <2> QED
    BY <2>4
<1> HIDE DEF chosen
<1>7. PICK after : ValuesOf(after, N, D, start, stride) /\ after[N] = chosen[1..N]
  <2>1. chosen[{}] = start
    BY <1>1, <1>6
  <2>2. ASSUME NEW T \in SUBSET (1..N), T # {}, chosen[T \ {Max(T)}] \in D
        PROVE  chosen[T] = stride[<<chosen[T \ {Max(T)}], Max(T)>>]
    <3>1. chosen[T] = ClimbRow(entries, chosen[T \ {Max(T)}], InTurn[Max(T)], k)
      BY <1>1, <1>6, <2>2
    <3>2. Max(T) \in 1..N /\ InTurn[Max(T)] = Max(T) - 1
      BY <1>1, <1>3, <2>2
    <3> QED
      BY <1>2, <2>2, <3>1, <3>2
  <2>3. FoldsOn(chosen, N, D, start, stride)
    BY <2>1, <2>2 DEF FoldsOn
  <2> QED
    BY <1>1, <1>2, <1>5, <2>3, FoldInOrder
<1>8. ASSUME NEW j \in 1..N PROVE after[j] = ClimbRow(entries, after[j - 1], j - 1, k)
  <2>1. after[j - 1] \in D /\ after[j] = stride[<<after[j - 1], j>>]
    BY <1>1, <1>7 DEF ValuesOf
  <2> QED
    BY <1>2, <2>1
<1>9. after \in [0..N -> D] /\ after[0] = start /\ ClimbRows(entries, c, k) = after[N]
  BY <1>4, <1>7 DEF ValuesOf
<1>10. D = Rising /\ start = c
  BY DEF D, start
<1> QED
  BY <1>8, <1>9, <1>10 DEF RowsAfter

LEMMA ClimbRowsStay ==
  ASSUME NEW entries, NEW c \in Rising, NEW k \in Cols
  PROVE  ClimbRows(entries, c, k) \in Rising
<1>1. PICK after : RowsAfter(after, entries, c, k)
  BY RowsByOne
<1>2. N \in 0..N
  OBVIOUS
<1> QED
  BY <1>1, <1>2 DEF RowsAfter

LEMMA OrphansRise ==
  Orphans \in Rising
BY DEF Orphans, Rising, Climbs, Cols

\* And so are the columns.
ColumnsAfter(after, entries) ==
  /\ after \in [0..N -> Rising] /\ after[0] = Orphans
  /\ \A j \in 1..N : after[j] = ClimbRows(entries, after[j - 1], j - 1)
  /\ Etree(entries) = after[N].parent

LEMMA ColumnsByOne ==
  ASSUME NEW entries
  PROVE  \E after : ColumnsAfter(after, entries)
<1> DEFINE D == Rising
           start == Orphans
           body(iter) == [T \in SUBSET DOMAIN InTurn |->
                            IF T = {} THEN start
                            ELSE ClimbRows(entries, iter[T \ {Max(T)}], InTurn[Max(T)])]
           stride == [x \in D \X (1..N) |-> ClimbRows(entries, x[1], x[2] - 1)]
           chosen == CHOOSE iter : iter = body(iter)
<1>1. N \in Nat /\ DOMAIN InTurn = 1..N /\ \A j \in 1..N : InTurn[j] = j - 1 /\ j - 1 \in Cols
  BY DEF InTurn, Cols
<1>2. /\ stride \in StepsIn(N, D)
      /\ \A x \in D, j \in 1..N : stride[<<x, j>>] = ClimbRows(entries, x, j - 1)
  <2>1. ASSUME NEW x \in D \X (1..N) PROVE ClimbRows(entries, x[1], x[2] - 1) \in D
    <3>1. x[1] \in D /\ x[2] - 1 \in Cols
      BY <1>1
    <3> QED
      BY <3>1, ClimbRowsStay
  <2> QED
    BY <2>1 DEF StepsIn
<1>3. \A T \in SUBSET (1..N) : T # {} => Max(T) \in T /\ Max(T) \in 1..N
  BY <1>1, LastOf
<1>4. Etree(entries) = chosen[1..N].parent
  BY <1>1 DEF Etree, FoldLeft, MapThenFoldSet
<1>5. start \in D
  BY OrphansRise
<1> HIDE DEF stride, D, start
<1>6. chosen = body(chosen)
  <2>1. PICK iter : IsFold(iter, N, D, start, stride)
    BY <1>1, <1>2, <1>5, FoldExists
  <2>2. ASSUME NEW T \in SUBSET (1..N), T # {}
        PROVE  iter[T] = ClimbRows(entries, iter[T \ {Max(T)}], InTurn[Max(T)])
    <3>1. iter[T] = stride[<<iter[T \ {Max(T)}], Max(T)>>] /\ iter[T \ {Max(T)}] \in D
      BY <1>3, <2>1, <2>2 DEF IsFold
    <3>2. Max(T) \in 1..N /\ InTurn[Max(T)] = Max(T) - 1
      BY <1>1, <1>3, <2>2
    <3> QED
      BY <1>2, <3>1, <3>2
  <2>3. iter[{}] = start /\ iter = [T \in SUBSET DOMAIN InTurn |-> iter[T]]
    BY <1>1, <2>1 DEF IsFold
  <2>4. iter = body(iter)
    BY <1>1, <2>2, <2>3
  <2> HIDE DEF body
  <2> QED
    BY <2>4
<1> HIDE DEF chosen
<1>7. PICK after : ValuesOf(after, N, D, start, stride) /\ after[N] = chosen[1..N]
  <2>1. chosen[{}] = start
    BY <1>1, <1>6
  <2>2. ASSUME NEW T \in SUBSET (1..N), T # {}, chosen[T \ {Max(T)}] \in D
        PROVE  chosen[T] = stride[<<chosen[T \ {Max(T)}], Max(T)>>]
    <3>1. chosen[T] = ClimbRows(entries, chosen[T \ {Max(T)}], InTurn[Max(T)])
      BY <1>1, <1>6, <2>2
    <3>2. Max(T) \in 1..N /\ InTurn[Max(T)] = Max(T) - 1
      BY <1>1, <1>3, <2>2
    <3> QED
      BY <1>2, <2>2, <3>1, <3>2
  <2>3. FoldsOn(chosen, N, D, start, stride)
    BY <2>1, <2>2 DEF FoldsOn
  <2> QED
    BY <1>1, <1>2, <1>5, <2>3, FoldInOrder
<1>8. ASSUME NEW j \in 1..N PROVE after[j] = ClimbRows(entries, after[j - 1], j - 1)
  <2>1. after[j - 1] \in D /\ after[j] = stride[<<after[j - 1], j>>]
    BY <1>1, <1>7 DEF ValuesOf
  <2> QED
    BY <1>2, <2>1
<1>9. after \in [0..N -> D] /\ after[0] = start /\ Etree(entries) = after[N].parent
  BY <1>4, <1>7 DEF ValuesOf
<1>10. D = Rising /\ start = Orphans
  BY DEF D, start
<1> QED
  BY <1>8, <1>9, <1>10 DEF ColumnsAfter

LEMMA HigherTyped ==
  ASSUME NEW entries, NEW a
  PROVE  \A y \in Higher(entries, a) : y \in Cols /\ y \in Int /\ y > a
BY DEF Higher, Cols

\* Between two rows of column k.
Between(entries, c, k) == c \in Rising /\ Known(entries, c, k) /\ MetSoFar(entries, c, k)

LEMMA RowMeets ==
  ASSUME NEW entries, NEW k \in Cols, NEW i \in Cols, NEW c, Between(entries, c, k)
  PROVE  /\ Between(entries, ClimbRow(entries, c, i, k), k)
         /\ \A r \in Cols : c.parent[r] # -1 =>
              ClimbRow(entries, c, i, k).parent[r] = c.parent[r]
         /\ i < k /\ {i, k} \in entries => Met(entries, ClimbRow(entries, c, i, k), k, i)
<1> DEFINE d == ClimbRow(entries, c, i, k)
           e == [c EXCEPT !.i = i, !.k = k]
<1>1. c \in Rising /\ Known(entries, c, k) /\ MetSoFar(entries, c, k)
  BY DEF Between
<1>2. /\ e \in Rising /\ e \in Climbs /\ e.i = i /\ e.k = k
      /\ e.anc = c.anc /\ e.parent = c.parent
  BY <1>1 DEF Rising, Climbs
<1>3. i \in Int /\ k \in Int /\ i >= 0 /\ k >= 0 /\ i # -1 /\ k # -1
  BY DEF Cols
<1>4. /\ d \in Rising
      /\ i \in RowsOf(entries, k) => d = climbed[e]
      /\ i \notin RowsOf(entries, k) => d = c
  BY <1>1, ClimbRowStays DEF ClimbRow
<1>5. i \in RowsOf(entries, k) <=> i = k \/ {i, k} \in entries
  BY DEF RowsOf
<1> HIDE DEF e, d
<1>6. CASE i \notin RowsOf(entries, k)
  <2>1. d = c /\ ~ ({i, k} \in entries)
    BY <1>4, <1>5, <1>6
  <2>2. Between(entries, d, k)
    BY <1>1, <2>1 DEF Between
  <2>3. \A r \in Cols : c.parent[r] # -1 => d.parent[r] = c.parent[r]
    BY <2>1
  <2> QED
    BY <2>1, <2>2, <2>3 DEF d
<1>7. CASE i \in RowsOf(entries, k) /\ i >= k
  <2>1. d = e
    BY <1>2, <1>4, <1>7, ClimbedUnfolds DEF AtEnd
  <2>2. Known(entries, d, k)
    BY <1>1, <1>2, <2>1 DEF Known
  <2>3. MetSoFar(entries, d, k)
    BY <1>1, <1>2, <2>1 DEF MetSoFar, Met
  <2>4. ~(i < k)
    BY <1>3, <1>7
  <2>5. Between(entries, d, k) /\ \A r \in Cols : c.parent[r] # -1 => d.parent[r] = c.parent[r]
    BY <1>2, <1>4, <2>1, <2>2, <2>3 DEF Between
  <2> QED
    BY <2>4, <2>5 DEF d
<1>8. CASE i \in RowsOf(entries, k) /\ i < k
  <2>1. {i, k} \in entries /\ i \in 0 .. k - 1
    BY <1>3, <1>5, <1>8
  <2>2. Known(entries, e, k)
    BY <1>1, <1>2 DEF Known
  <2>3. MetSoFar(entries, e, k)
    BY <1>1, <1>2 DEF MetSoFar, Met
  <2>4. Meeting(entries, e)
    BY <1>2, <2>3 DEF Meeting, MetSoFar
  <2>5. InClimb(entries, e, i)
    BY <1>2, <1>3, <1>8, <2>1, <2>2, <2>4, ConnReflexive DEF InClimb
  <2>6. KeepsParents(e, d) /\ Climbed(entries, d, i)
    BY <1>4, <1>8, <2>5, ClimbMeets
  <2>7. d.k = k /\ \A r \in Cols : c.parent[r] # -1 => d.parent[r] = c.parent[r]
    BY <1>2, <2>6 DEF KeepsParents
  <2>8. Between(entries, d, k) /\ Met(entries, d, k, i)
    BY <1>4, <2>6, <2>7 DEF Between, Climbed
  <2> QED
    BY <2>7, <2>8 DEF d
<1>9. i >= k \/ i < k
  BY <1>3
<1> QED
  BY <1>6, <1>7, <1>8, <1>9

\* All rows of a column have met a child of it when its turn is over.
LEMMA RowsMeet ==
  ASSUME NEW entries, NEW k \in Cols, NEW c, Between(entries, c, k)
  PROVE  /\ Between(entries, ClimbRows(entries, c, k), k)
         /\ \A i \in 0 .. k - 1 : {i, k} \in entries => Met(entries, ClimbRows(entries, c, k), k, i)
<1>1. c \in Rising
  BY DEF Between
<1>2. PICK after : RowsAfter(after, entries, c, k)
  BY <1>1, RowsByOne
<1> DEFINE Good(j) == /\ Between(entries, after[j], k)
                      /\ \A i \in Cols : i < j /\ i < k /\ {i, k} \in entries =>
                           Met(entries, after[j], k, i)
           P == {j \in 0..N : Good(j)}
<1>3. 0 \in P
  <2>1. after[0] = c /\ 0 \in 0..N /\ \A i \in Cols : ~(i < 0)
    BY <1>2 DEF RowsAfter, Cols
  <2> QED
    BY <2>1
<1>4. ASSUME NEW j \in 1..N, j - 1 \in P PROVE j \in P
  <2> DEFINE d == after[j - 1]
             e == after[j]
             row == j - 1
  <2>1. e = ClimbRow(entries, d, row, k) /\ row \in Cols /\ j \in 0..N /\ j \in Int
    BY <1>2 DEF RowsAfter, Cols
  <2>2. Between(entries, d, k) /\ \A i \in Cols : i < row /\ i < k /\ {i, k} \in entries =>
                                    Met(entries, d, k, i)
    BY <1>4
  <2> HIDE DEF d, e
  <2>3. /\ Between(entries, e, k)
        /\ \A r \in Cols : d.parent[r] # -1 => e.parent[r] = d.parent[r]
        /\ row < k /\ {row, k} \in entries => Met(entries, e, k, row)
    <3> HIDE DEF row
    <3>1. row \in Cols /\ k \in Cols /\ Between(entries, d, k)
      BY <2>1, <2>2
    <3>2. /\ Between(entries, ClimbRow(entries, d, row, k), k)
          /\ \A r \in Cols : d.parent[r] # -1 =>
               ClimbRow(entries, d, row, k).parent[r] = d.parent[r]
          /\ row < k /\ {row, k} \in entries => Met(entries, ClimbRow(entries, d, row, k), k, row)
      BY ONLY <3>1, RowMeets
    <3> QED
      BY <2>1, <3>2
  <2>4. ASSUME NEW i \in Cols, Met(entries, d, k, i) PROVE Met(entries, e, k, i)
    <3>1. PICK r \in 0 .. k - 1 : Conn(entries, k, i, r) /\ d.parent[r] = k
      BY <2>4 DEF Met
    <3>2. r \in Cols /\ k # -1
      BY DEF Cols
    <3> QED
      BY <2>3, <3>1, <3>2 DEF Met
  <2>5. ASSUME NEW i \in Cols, i < j, i < k, {i, k} \in entries PROVE Met(entries, e, k, i)
    <3>1. i < row \/ i = row
      BY <2>1, <2>5 DEF Cols
    <3> QED
      BY <2>2, <2>3, <2>4, <2>5, <3>1
  <2>6. Good(j)
    BY <2>3, <2>5 DEF e
  <2> QED
    BY <2>1, <2>6
<1>5. N \in P
  <2>1. N \in Nat /\ N \in 0..N
    OBVIOUS
  <2> HIDE DEF P
  <2> QED
    BY <1>3, <1>4, <2>1, Ascent
<1>6. Good(N) /\ ClimbRows(entries, c, k) = after[N]
  BY <1>2, <1>5 DEF RowsAfter
<1>7. \A i \in 0 .. k - 1 : i \in Cols /\ i < N /\ i < k
  BY DEF Cols
<1> QED
  BY <1>6, <1>7

LEMMA ColumnDone ==
  ASSUME NEW entries, NEW k \in Cols, NEW c, Known(entries, c, k),
         \A i \in 0 .. k - 1 : {i, k} \in entries => Met(entries, c, k, i)
  PROVE  Known(entries, c, k + 1) /\ MetSoFar(entries, c, k + 1)
<1>1. /\ c.anc \in [Cols -> Cols \cup {-1}] /\ c.parent \in [Cols -> Cols \cup {-1}]
      /\ k \in Int /\ k >= 0 /\ k \in 0..N
  BY DEF Known, Cols
<1>2. \A a \in Cols :
        /\ (c.anc[a] = -1 <=> c.parent[a] = -1)
        /\ (c.parent[a] # -1 => IsFirstFill(entries, a, c.parent[a]))
        /\ (c.parent[a] = -1 => \A y \in Higher(entries, a) : y >= k)
        /\ (c.anc[a] # -1 => /\ a < c.anc[a] /\ c.anc[a] <= k
                             /\ Conn(entries, c.anc[a] + 1, a, c.anc[a]))
  BY DEF Known
<1>3. ASSUME NEW a \in Cols, c.parent[a] = -1, k \in Higher(entries, a) PROVE FALSE
  <2>1. /\ a < k /\ a \in 0 .. k - 1 /\ a \in Int
        /\ \A y \in Higher(entries, a) : y >= k
    <3>1. a < k /\ \A y \in Higher(entries, a) : y >= k
      BY <1>2, <1>3, HigherTyped
    <3> QED
      BY <1>1, <3>1 DEF Cols
  <2>2. PICK m \in Class(entries, a + 1, a) : {m, k} \in entries
    BY <1>3 DEF Higher
  <2>3. m \in 0..a /\ Conn(entries, a + 1, a, m) /\ m \in 0 .. k - 1
    BY <2>1 DEF Class
  <2>4. Met(entries, c, k, m)
    BY <2>2, <2>3
  <2>5. PICK r \in 0 .. k - 1 : Conn(entries, k, m, r) /\ c.parent[r] = k
    BY <2>4 DEF Met
  <2>6. Conn(entries, k, a, m)
    <3>1. a \in 0 .. (a + 1) - 1 /\ a + 1 <= k /\ a + 1 \in Int
      BY <2>1
    <3> QED
      BY <1>1, <2>3, <3>1, ConnGrows
  <2>7. r <= a /\ Conn(entries, a + 1, a, r)
    <3>1. Conn(entries, k, a, r)
      BY <2>5, <2>6, ConnTransitive
    <3> QED
      BY <1>1, <2>1, <3>1, Sealed
  <2>8. r # a /\ r \in Cols /\ k # -1 /\ r \in Int
    BY <1>1, <1>3, <2>5 DEF Cols
  <2>9. IsFirstFill(entries, r, k)
    BY <1>2, <2>5, <2>8
  <2>10. \A y \in Higher(entries, r) : y >= a + 1
    <3>1. \A y \in Higher(entries, r) : y >= k /\ y \in Int
      BY <2>9, HigherTyped DEF IsFirstFill
    <3> QED
      BY <1>1, <2>1, <3>1
  <2>11. Conn(entries, a + 1, r, a) /\ a + 1 \in 0..N /\ r \in 0 .. (a + 1) - 1
         /\ a \in 0 .. (a + 1) - 1
    <3>1. r \in 0 .. (a + 1) - 1 /\ a \in 0 .. (a + 1) - 1 /\ a + 1 \in 0..N
      BY <2>1, <2>7 DEF Cols
    <3> QED
      BY <2>7, <3>1, ConnSymmetric
  <2>12. a <= r
    BY <2>10, <2>11, Sealed
  <2> QED
    BY <2>1, <2>7, <2>8, <2>12
<1>4. ASSUME NEW a \in Cols, c.parent[a] = -1, NEW y \in Higher(entries, a) PROVE y >= k + 1
  <2>1. y >= k /\ y # k /\ y \in Int
    BY <1>2, <1>3, <1>4, HigherTyped
  <2> QED
    BY <1>1, <2>1
<1>5. \A a \in Cols : c.anc[a] # -1 => c.anc[a] <= k + 1 /\ c.anc[a] # k + 1
  <2> SUFFICES ASSUME NEW a \in Cols, c.anc[a] # -1
               PROVE  c.anc[a] <= k + 1 /\ c.anc[a] # k + 1
    OBVIOUS
  <2>1. c.anc[a] <= k /\ c.anc[a] \in Int
    BY <1>1, <1>2 DEF Cols
  <2> QED
    BY <1>1, <2>1
<1>6. k + 1 # -1
  BY <1>1
<1> QED
  BY <1>1, <1>2, <1>4, <1>5, <1>6 DEF Known, MetSoFar

\* etree: the parent of a column is the first column it fills.
LEMMA EtreeIsTree ==
  ASSUME NEW entries
  PROVE  Etree(entries) \in [Cols -> Cols \cup {-1}] /\ IsTree(entries, Etree(entries))
<1>1. PICK after : ColumnsAfter(after, entries)
  BY ColumnsByOne
<1> DEFINE P == {j \in 0..N : Between(entries, after[j], j)}
<1>2. 0 \in P
  <2>1. after[0] = Orphans /\ Orphans \in Rising /\ 0 \in 0..N
    BY <1>1, OrphansRise DEF ColumnsAfter
  <2>2. \A a \in Cols : \A y \in Higher(entries, a) : y >= 0
    BY HigherTyped DEF Cols
  <2>3. Known(entries, Orphans, 0) /\ MetSoFar(entries, Orphans, 0)
    BY <2>2 DEF Known, MetSoFar, Orphans
  <2> QED
    BY <2>1, <2>3 DEF Between
<1>3. ASSUME NEW j \in 1..N, j - 1 \in P PROVE j \in P
  <2> DEFINE c == after[j - 1]
             d == after[j]
             k == j - 1
  <2>1. d = ClimbRows(entries, c, k) /\ k \in Cols /\ j \in 0..N /\ k + 1 = j
    BY <1>1 DEF ColumnsAfter, Cols
  <2>2. Between(entries, c, k)
    BY <1>3
  <2> HIDE DEF c, d, k
  <2>3. /\ Between(entries, d, k)
        /\ \A i \in 0 .. k - 1 : {i, k} \in entries => Met(entries, d, k, i)
    BY <2>1, <2>2, RowsMeet
  <2>4. Known(entries, d, k + 1) /\ MetSoFar(entries, d, k + 1)
    BY <2>1, <2>3, ColumnDone DEF Between
  <2>5. Between(entries, d, j)
    BY <2>1, <2>3, <2>4 DEF Between
  <2> QED
    BY <2>1, <2>5 DEF d
<1>4. N \in P
  <2>1. N \in Nat /\ N \in 0..N
    OBVIOUS
  <2> HIDE DEF P
  <2> QED
    BY <1>2, <1>3, <2>1, Ascent
<1> DEFINE c == after[N]
<1>5. Known(entries, c, N) /\ Etree(entries) = c.parent
  BY <1>1, <1>4 DEF Between, ColumnsAfter
<1> HIDE DEF c
<1>6. \A a \in Cols : c.parent[a] = -1 => Higher(entries, a) = {}
  <2> SUFFICES ASSUME NEW a \in Cols, c.parent[a] = -1, NEW y \in Higher(entries, a) PROVE FALSE
    OBVIOUS
  <2>1. y >= N /\ y \in Cols
    BY <1>5, HigherTyped DEF Known
  <2> QED
    BY <2>1 DEF Cols
<1> QED
  BY <1>5, <1>6 DEF Known, IsTree

-------------------------------------------------------------------------------
(***************************************************************************)
(* symbolic: the pattern of L is its fill.                                  *)
(***************************************************************************)
Handed(entries, j, lpat) ==
  {i \in RowsOf(entries, j) : i >= j}
  \cup UNION {{i \in lpat[c] : i >= j} : c \in {c \in 0 .. j - 1 : Etree(entries)[c] = j}}

LEMMA PatternUnfolds ==
  ASSUME NEW entries
  PROVE  \E lpat : /\ lpat = Pattern(entries)
                   /\ lpat = [j \in Cols |-> lpat[j]]
                   /\ \A j \in Cols : lpat[j] = Handed(entries, j, lpat)
<1> DEFINE parent == Etree(entries)
           D == SUBSET Cols
           cols == Cols
           step == [x \in cols \X [cols -> D] |-> Handed(entries, x[1], x[2])]
           body(f) == [j \in Cols |->
                         {i \in RowsOf(entries, j) : i >= j}
                         \cup UNION {{i \in f[c] : i >= j} : c \in {c \in 0 .. j - 1 : parent[c] = j}}]
           chosen == CHOOSE f : f = body(f)
<1>1. \A f : body(f) = [j \in Cols |-> Handed(entries, j, f)]
  BY DEF Handed
<1>2. ASSUME NEW j \in cols, NEW f \in [cols -> D] PROVE Handed(entries, j, f) \in D
  <2>1. \A c \in 0 .. j - 1 : c \in Cols
    BY DEF Cols
  <2> QED
    BY <2>1 DEF Handed, RowsOf
<1>3. ASSUME NEW j \in cols, NEW f, NEW g, \A c \in cols : c < j => f[c] = g[c]
      PROVE  Handed(entries, j, f) = Handed(entries, j, g)
  <2>1. \A c \in 0 .. j - 1 : c \in Cols /\ c < j
    BY DEF Cols
  <2>2. \A c \in 0 .. j - 1 : f[c] = g[c]
    BY <1>3, <2>1
  <2> QED
    BY <2>2 DEF Handed
<1>4. /\ step \in [cols \X [cols -> D] -> D]
      /\ \A j \in cols : \A f \in [cols -> D] : step[<<j, f>>] = Handed(entries, j, f)
  <2> HIDE DEF D, cols
  <2> QED
    BY <1>2
<1>5. N \in Nat /\ cols \in SUBSET (0..N) /\ {} \in D
  BY DEF Cols
<1> HIDE DEF D, step
<1>6. step \in Steps(cols, D) /\ LooksBack(cols, D, step)
  <2> HIDE DEF cols
  <2> QED
    BY <1>3, <1>4 DEF Steps, LooksBack
<1>7. PICK f : IsCourse(f, cols, D, step)
  <2> DEFINE nothing == {}
  <2>1. nothing \in D
    BY <1>5
  <2> HIDE DEF cols, nothing
  <2> QED
    BY <1>5, <1>6, <2>1, CourseExists
<1>8. f = body(f)
  <2>1. f \in [Cols -> D] /\ \A j \in Cols : f[j] = Handed(entries, j, f)
    BY <1>4, <1>7 DEF IsCourse
  <2>2. f = [j \in Cols |-> Handed(entries, j, f)]
    BY <2>1
  <2> HIDE DEF body
  <2> QED
    BY <1>1, <2>2
<1>9. Pattern(entries) = chosen
  BY DEF Pattern
<1>10. chosen = body(chosen)
  <2> HIDE DEF body
  <2> QED
    BY <1>8
<1> HIDE DEF chosen
<1>11. chosen = [j \in Cols |-> Handed(entries, j, chosen)]
  <2>1. body(chosen) = [j \in Cols |-> Handed(entries, j, chosen)]
    BY <1>1
  <2> HIDE DEF body
  <2> QED
    BY <1>10, <2>1
<1>12. \A j \in Cols : chosen[j] = Handed(entries, j, chosen)
  BY <1>11
<1>13. chosen = [j \in Cols |-> chosen[j]]
  BY <1>11
<1> QED
  BY <1>9, <1>12, <1>13

\* Whatever a child of j fills from j on, j fills.
LEMMA HandedIsFill ==
  ASSUME NEW entries, NEW j \in Cols, NEW lpat,
         \A c \in 0 .. j - 1 : lpat[c] = Fill(entries, c)
  PROVE  Handed(entries, j, lpat) = Fill(entries, j)
<1> DEFINE parent == Etree(entries)
<1>1. /\ parent \in [Cols -> Cols \cup {-1}]
      /\ \A a \in Cols : /\ parent[a] # -1 => IsFirstFill(entries, a, parent[a])
                         /\ parent[a] = -1 => Higher(entries, a) = {}
  BY EtreeIsTree DEF IsTree
<1>2. j \in Int /\ j >= 0 /\ j # -1 /\ \A c \in 0 .. j - 1 : c \in Cols
  BY DEF Cols
<1> HIDE DEF parent
<1>3. \A i : i \in Handed(entries, j, lpat) <=>
        \/ i \in RowsOf(entries, j) /\ i >= j
        \/ \E c \in 0 .. j - 1 : parent[c] = j /\ i \in lpat[c] /\ i >= j
  BY DEF Handed, parent
<1>4. ASSUME NEW i \in Handed(entries, j, lpat) PROVE i \in {j} \cup Higher(entries, j)
  <2>1. CASE i \in RowsOf(entries, j) /\ i >= j
    <3>1. i \in Cols /\ (i = j \/ {i, j} \in entries)
      BY <2>1 DEF RowsOf
    <3>2. ASSUME i # j PROVE i \in Higher(entries, j)
      <4>1. i > j /\ {j, i} \in entries
        <5>1. {j, i} = {i, j}
          OBVIOUS
        <5> QED
          BY <1>2, <2>1, <3>1, <3>2, <5>1 DEF Cols
      <4>2. j \in Class(entries, j + 1, j)
        BY <1>2, ConnReflexive DEF Class
      <4> QED
        BY <3>1, <4>1, <4>2 DEF Higher
    <3> QED
      BY <3>2
  <2>2. ASSUME NEW c \in 0 .. j - 1, parent[c] = j, i \in lpat[c], i >= j
        PROVE  i \in {j} \cup Higher(entries, j)
    <3>1. c \in Cols /\ j \in Higher(entries, c)
      BY <1>1, <1>2, <2>2 DEF IsFirstFill
    <3>2. i \in {c} \cup Higher(entries, c)
      BY <2>2, <3>1, FillIsHigher
    <3>3. i = j \/ (i > j /\ i \in Higher(entries, c))
      BY <1>2, <2>2, <3>1, <3>2, HigherTyped DEF Cols
    <3> QED
      BY <3>1, <3>3, FillClimbs
  <2> QED
    BY <1>3, <2>1, <2>2
<1>5. ASSUME NEW i \in {j} \cup Higher(entries, j) PROVE i \in Handed(entries, j, lpat)
  <2>1. CASE i = j
    <3>1. j \in RowsOf(entries, j) /\ j >= j
      BY <1>2 DEF RowsOf
    <3> QED
      BY <1>3, <2>1, <3>1
  <2>2. CASE i \in Higher(entries, j)
    <3>1. PICK m \in Class(entries, j + 1, j) : {m, i} \in entries
      BY <2>2 DEF Higher
    <3>2. i \in Cols /\ i > j /\ i >= j
      BY <1>2, <2>2, HigherTyped
    <3>3. CASE m = j
      <4>1. {i, j} = {j, i}
        OBVIOUS
      <4>2. i \in RowsOf(entries, j)
        BY <3>1, <3>2, <3>3, <4>1 DEF RowsOf
      <4> QED
        BY <1>3, <3>2, <4>2
    <3>4. CASE m # j
      <4>1. PICK c \in 0 .. j - 1 : /\ m \in Class(entries, c + 1, c)
                                    /\ j \in Higher(entries, c)
                                    /\ \A y \in Higher(entries, c) : y >= j
        BY <3>4, ChildOver
      <4>2. c \in Cols /\ i > c
        BY <1>2, <3>2 DEF Cols
      <4>3. i \in Higher(entries, c)
        BY <3>1, <3>2, <4>1, <4>2 DEF Higher
      <4>4. parent[c] = j
        <5>1. parent[c] # -1
          BY <1>1, <4>1, <4>2
        <5>2. parent[c] \in Higher(entries, c) /\ \A y \in Higher(entries, c) : y >= parent[c]
          BY <1>1, <4>2, <5>1 DEF IsFirstFill
        <5>3. parent[c] >= j /\ j >= parent[c] /\ parent[c] \in Int
          BY <4>1, <5>2, HigherTyped
        <5> QED
          BY <1>2, <5>3
      <4>5. i \in lpat[c]
        <5>1. lpat[c] = {c} \cup Higher(entries, c)
          BY <4>2, FillIsHigher
        <5> QED
          BY <4>3, <5>1
      <4> QED
        BY <1>3, <3>2, <4>4, <4>5
    <3> QED
      BY <3>3, <3>4
  <2> QED
    BY <2>1, <2>2
<1>6. Handed(entries, j, lpat) = {j} \cup Higher(entries, j)
  BY <1>4, <1>5
<1> QED
  BY <1>6, FillIsHigher

LEMMA PatternIsFill ==
  ASSUME NEW entries
  PROVE  Pattern(entries) = [j \in Cols |-> Fill(entries, j)]
<1>1. PICK lpat : /\ lpat = Pattern(entries)
                  /\ lpat = [j \in Cols |-> lpat[j]]
                  /\ \A j \in Cols : lpat[j] = Handed(entries, j, lpat)
  BY PatternUnfolds
<1> DEFINE P == {j \in 0..N : \A c \in Cols : c < j => lpat[c] = Fill(entries, c)}
<1>2. 0 \in P
  BY DEF Cols
<1>3. ASSUME NEW j \in 1..N, j - 1 \in P PROVE j \in P
  <2> DEFINE last == j - 1
  <2>1. last \in Cols /\ j \in 0..N /\ \A c \in Cols : c < j => c < last \/ c = last
    BY DEF Cols
  <2>2. \A c \in Cols : c < last => lpat[c] = Fill(entries, c)
    BY <1>3
  <2>3. \A c \in 0 .. last - 1 : c \in Cols /\ c < last
    BY DEF Cols
  <2> HIDE DEF last
  <2>4. lpat[last] = Fill(entries, last)
    BY <1>1, <2>1, <2>2, <2>3, HandedIsFill
  <2> QED
    BY <2>1, <2>2, <2>4
<1>4. N \in P
  <2>1. N \in Nat /\ N \in 0..N
    OBVIOUS
  <2> HIDE DEF P
  <2> QED
    BY <1>2, <1>3, <2>1, Ascent
<1>5. \A c \in Cols : lpat[c] = Fill(entries, c)
  BY <1>4 DEF Cols
<1> QED
  BY <1>1, <1>5

-------------------------------------------------------------------------------
(***************************************************************************)
(* buildSuperStructure: however supernodes are amalgamated, the panels are  *)
(* intervals that follow one another, and drop nothing of the fill.         *)
(***************************************************************************)
Starts == {T \in SUBSET Cols : 0 \in T}
Amalgams == [starts : Starts, last : Cols, rows : SUBSET Cols]

LEMMA FundamentalStarts ==
  ASSUME NEW lpat
  PROVE  Fundamental(lpat) \in Starts
BY DEF Fundamental, Starts, Cols

LEMMA AmalgamateStays ==
  ASSUME NEW lpat \in [Cols -> SUBSET Cols], NEW relax, NEW m \in Amalgams, NEW j \in Cols
  PROVE  Amalgamate(lpat, relax, m, j) \in Amalgams
<1> DEFINE rows == m.rows \cup lpat[j]
           joined == [m EXCEPT !.rows = rows]
           apart == [starts |-> m.starts \cup {j}, last |-> j, rows |-> lpat[j]]
<1>1. m.starts \in Starts /\ m.last \in Cols /\ m.rows \in SUBSET Cols
  BY DEF Amalgams
<1>2. joined \in Amalgams
  BY <1>1 DEF Amalgams
<1>3. apart \in Amalgams
  BY <1>1 DEF Amalgams, Starts
<1>4. Amalgamate(lpat, relax, m, j) \in {m, joined, apart}
  <2> DEFINE starts == Fundamental(lpat)
             narrow == EndOf(starts, j) - m.last <= AmalgMaxCol
             alike == Cardinality(rows) - Cardinality(m.rows) <= relax
  <2>1. Amalgamate(lpat, relax, m, j) =
          IF j = 0 \/ j \notin starts THEN m ELSE IF narrow /\ alike THEN joined ELSE apart
    BY DEF Amalgamate
  <2> HIDE DEF starts, narrow, alike, joined, apart
  <2> QED
    BY <2>1
<1> HIDE DEF joined, apart
<1> QED
  BY <1>2, <1>3, <1>4

\* Fundamental supernodes are looked at one after another.
SupernodesAfter(after, lpat, relax) ==
  /\ after \in [0..N -> Amalgams] /\ after[0] = [starts |-> {0}, last |-> 0, rows |-> lpat[0]]
  /\ \A j \in 1..N : after[j] = Amalgamate(lpat, relax, after[j - 1], j - 1)
  /\ Amalgamated(lpat, relax) = after[N].starts

LEMMA SupernodesByOne ==
  ASSUME NEW lpat \in [Cols -> SUBSET Cols], NEW relax, relax # 0
  PROVE  \E after : SupernodesAfter(after, lpat, relax)
<1> DEFINE D == Amalgams
           start == [starts |-> {0}, last |-> 0, rows |-> lpat[0]]
           body(iter) == [T \in SUBSET DOMAIN InTurn |->
                            IF T = {} THEN start
                            ELSE Amalgamate(lpat, relax, iter[T \ {Max(T)}], InTurn[Max(T)])]
           stride == [x \in D \X (1..N) |-> Amalgamate(lpat, relax, x[1], x[2] - 1)]
           chosen == CHOOSE iter : iter = body(iter)
<1>1. N \in Nat /\ DOMAIN InTurn = 1..N /\ \A j \in 1..N : InTurn[j] = j - 1 /\ j - 1 \in Cols
  BY DEF InTurn, Cols
<1>2. /\ stride \in StepsIn(N, D)
      /\ \A x \in D, j \in 1..N : stride[<<x, j>>] = Amalgamate(lpat, relax, x, j - 1)
  <2>1. ASSUME NEW x \in D \X (1..N) PROVE Amalgamate(lpat, relax, x[1], x[2] - 1) \in D
    <3>1. x[1] \in D /\ x[2] - 1 \in Cols
      BY <1>1
    <3> QED
      BY <3>1, AmalgamateStays
  <2> QED
    BY <2>1 DEF StepsIn
<1>3. \A T \in SUBSET (1..N) : T # {} => Max(T) \in T /\ Max(T) \in 1..N
  BY <1>1, LastOf
<1>4. Amalgamated(lpat, relax) = chosen[1..N].starts
  <2>1. Amalgamated(lpat, relax) =
          FoldLeft(LAMBDA m, j : Amalgamate(lpat, relax, m, j), start, InTurn).starts
    BY DEF Amalgamated
  <2>2. FoldLeft(LAMBDA m, j : Amalgamate(lpat, relax, m, j), start, InTurn) = chosen[1..N]
    BY <1>1 DEF FoldLeft, MapThenFoldSet
  <2> QED
    BY <2>1, <2>2
<1>5. start \in D
  BY DEF Amalgams, Starts, Cols
<1> HIDE DEF stride, D, start
<1>6. chosen = body(chosen)
  <2>1. PICK iter : IsFold(iter, N, D, start, stride)
    BY <1>1, <1>2, <1>5, FoldExists
  <2>2. ASSUME NEW T \in SUBSET (1..N), T # {}
        PROVE  iter[T] = Amalgamate(lpat, relax, iter[T \ {Max(T)}], InTurn[Max(T)])
    <3>1. iter[T] = stride[<<iter[T \ {Max(T)}], Max(T)>>] /\ iter[T \ {Max(T)}] \in D
      BY <1>3, <2>1, <2>2 DEF IsFold
    <3>2. Max(T) \in 1..N /\ InTurn[Max(T)] = Max(T) - 1
      BY <1>1, <1>3, <2>2
    <3> QED
      BY <1>2, <3>1, <3>2
  <2>3. iter[{}] = start /\ iter = [T \in SUBSET DOMAIN InTurn |-> iter[T]]
    BY <1>1, <2>1 DEF IsFold
  <2>4. iter = body(iter)
    BY <1>1, <2>2, <2>3
  <2> HIDE DEF body
  <2> QED
    BY <2>4
<1> HIDE DEF chosen
<1>7. PICK after : ValuesOf(after, N, D, start, stride) /\ after[N] = chosen[1..N]
  <2>1. chosen[{}] = start
    BY <1>1, <1>6
  <2>2. ASSUME NEW T \in SUBSET (1..N), T # {}, chosen[T \ {Max(T)}] \in D
        PROVE  chosen[T] = stride[<<chosen[T \ {Max(T)}], Max(T)>>]
    <3>1. chosen[T] = Amalgamate(lpat, relax, chosen[T \ {Max(T)}], InTurn[Max(T)])
      BY <1>1, <1>6, <2>2
    <3>2. Max(T) \in 1..N /\ InTurn[Max(T)] = Max(T) - 1
      BY <1>1, <1>3, <2>2
    <3> QED
      BY <1>2, <2>2, <3>1, <3>2
  <2>3. FoldsOn(chosen, N, D, start, stride)
    BY <2>1, <2>2 DEF FoldsOn
  <2> QED
    BY <1>1, <1>2, <1>5, <2>3, FoldInOrder
<1>8. ASSUME NEW j \in 1..N PROVE after[j] = Amalgamate(lpat, relax, after[j - 1], j - 1)
  <2>1. after[j - 1] \in D /\ after[j] = stride[<<after[j - 1], j>>]
    BY <1>1, <1>7 DEF ValuesOf
  <2> QED
    BY <1>2, <2>1
<1>9. after \in [0..N -> D] /\ after[0] = start /\ Amalgamated(lpat, relax) = after[N].starts
  BY <1>4, <1>7 DEF ValuesOf
<1>10. D = Amalgams /\ start = [starts |-> {0}, last |-> 0, rows |-> lpat[0]]
  BY DEF D, start
<1> QED
  BY <1>8, <1>9, <1>10 DEF SupernodesAfter

LEMMA AmalgamatedStarts ==
  ASSUME NEW lpat \in [Cols -> SUBSET Cols], NEW relax
  PROVE  Amalgamated(lpat, relax) \in Starts
<1>1. CASE relax = 0
  BY <1>1, FundamentalStarts DEF Amalgamated
<1>2. CASE relax # 0
  <2>1. PICK after : SupernodesAfter(after, lpat, relax)
    BY <1>2, SupernodesByOne
  <2>2. N \in 0..N
    OBVIOUS
  <2>3. after[N] \in Amalgams /\ Amalgamated(lpat, relax) = after[N].starts
    BY <2>1, <2>2 DEF SupernodesAfter
  <2> QED
    BY <2>3 DEF Amalgams
<1> QED
  BY <1>1, <1>2

LEMMA EndIsNext ==
  ASSUME NEW starts \in Starts, NEW j \in Cols
  PROVE  /\ EndOf(starts, j) \in starts \cup {N} /\ EndOf(starts, j) > j
         /\ EndOf(starts, j) \in Int /\ EndOf(starts, j) <= N
         /\ \A o \in starts : o > j => EndOf(starts, j) <= o
<1> DEFINE later == {o \in starts \cup {N} : o > j}
<1>1. starts \subseteq Cols /\ j \in Int /\ N \in Nat /\ j < N /\ \A c \in Cols : c \in Nat /\ c < N
  BY DEF Starts, Cols
<1>2. later \in SUBSET Nat /\ later # {}
  BY <1>1
<1>3. PICK e \in later : \A o \in later : e <= o
  <2> HIDE DEF later
  <2> QED
    BY <1>2, LeastNatural
<1>4. e \in starts \cup {N} /\ e > j /\ \A o \in starts \cup {N} : o > j => e <= o
  BY <1>3
<1> DEFINE next == EndOf(starts, j)
<1>5. next \in starts \cup {N} /\ next > j /\ \A o \in starts \cup {N} : o > j => next <= o
  BY <1>4 DEF EndOf
<1> HIDE DEF next
<1>6. next \in Int /\ next <= N
  BY <1>1, <1>5
<1> QED
  BY <1>5, <1>6 DEF next

\* The panels of starts over a pattern that is the fill of entries.
ColsOf(starts) == [J \in starts |-> J .. EndOf(starts, J) - 1]
RowsOver(entries, starts) ==
  [J \in starts |-> UNION {Fill(entries, c) : c \in ColsOf(starts)[J]}]

LEMMA PanelsAreApart ==
  ASSUME NEW starts \in Starts
  PROVE  /\ \A J \in starts : J \in Cols /\ J \in ColsOf(starts)[J] /\ ColsOf(starts)[J] \subseteq Cols
         /\ \A J \in starts : \A j \in ColsOf(starts)[J] : j >= J
         /\ \A K, J \in starts : K < J =>
              \A k \in ColsOf(starts)[K], j \in ColsOf(starts)[J] : k < j /\ k < J
<1>0. starts \subseteq Cols /\ \A c \in Cols : c \in Int /\ c >= 0 /\ c < N
  BY DEF Starts, Cols
<1>1. ASSUME NEW J \in starts
      PROVE  /\ J \in Int /\ J >= 0 /\ EndOf(starts, J) \in Int /\ EndOf(starts, J) > J
             /\ EndOf(starts, J) <= N
             /\ \A o \in starts : o > J => EndOf(starts, J) <= o
             /\ ColsOf(starts)[J] = J .. EndOf(starts, J) - 1
  BY <1>0, EndIsNext DEF ColsOf
<1>2. ASSUME NEW J \in starts
      PROVE  /\ J \in Cols /\ J \in ColsOf(starts)[J] /\ ColsOf(starts)[J] \subseteq Cols
             /\ \A j \in ColsOf(starts)[J] : j >= J
  <2> DEFINE e == EndOf(starts, J)
  <2>1. /\ J \in Int /\ J >= 0 /\ e \in Int /\ e > J /\ e <= N /\ ColsOf(starts)[J] = J .. e - 1
    BY <1>1
  <2> HIDE DEF e
  <2> QED
    BY <2>1 DEF Cols
<1>3. ASSUME NEW K \in starts, NEW J \in starts, K < J,
             NEW k \in ColsOf(starts)[K], NEW j \in ColsOf(starts)[J]
      PROVE  k < j /\ k < J
  <2> DEFINE e == EndOf(starts, K)
             f == EndOf(starts, J)
  <2>1. /\ J \in Int /\ K \in Int /\ e \in Int /\ e <= J /\ f \in Int
        /\ k \in K .. e - 1 /\ j \in J .. f - 1
    BY <1>1, <1>3
  <2> HIDE DEF e, f
  <2> QED
    BY <2>1
<1> QED
  BY <1>2, <1>3

LEMMA PanelsHold ==
  ASSUME NEW entries, NEW starts \in Starts, NEW s,
         s.entries = entries, s.cols = ColsOf(starts), s.rows = RowsOver(entries, starts),
         s.updaters = Updaters(s.cols, s.rows)
  PROVE  HoldsFill(s)
<1> DEFINE cols == ColsOf(starts)
           rows == RowsOver(entries, starts)
<1>1. DOMAIN cols = starts /\ DOMAIN rows = starts
      /\ \A J \in starts : rows[J] = UNION {Fill(entries, c) : c \in cols[J]}
  BY DEF ColsOf, RowsOver
<1>2. /\ \A J \in starts : J \in Cols /\ J \in cols[J] /\ cols[J] \subseteq Cols
      /\ \A J \in starts : \A j \in cols[J] : j >= J
      /\ \A K, J \in starts : K < J => \A k \in cols[K], j \in cols[J] : k < j /\ k < J
  BY PanelsAreApart
<1> HIDE DEF cols, rows
<1>3. ASSUME NEW J \in starts, NEW j \in cols[J] PROVE Fill(entries, j) \subseteq rows[J]
  BY <1>1
<1>4. ASSUME NEW J \in starts, NEW K \in starts, K < J, NEW k \in cols[K],
             NEW i0 \in Fill(entries, k), i0 \in cols[J]
      PROVE  /\ K \in s.updaters[J]
             /\ \A i \in Fill(entries, k) : (\E j \in cols[J] : i >= j) => i \in rows[J]
  <2>1. k \in Cols /\ i0 \in Cols /\ i0 > k /\ Fill(entries, k) = {k} \cup Higher(entries, k)
    <3>1. k \in Cols /\ k < i0 /\ i0 \in Cols
      BY <1>2, <1>4
    <3> QED
      BY <3>1, FillIsHigher DEF Cols
  <2>2. i0 \in Higher(entries, k)
    <3>1. i0 # k
      BY <2>1 DEF Cols
    <3> QED
      BY <1>4, <2>1, <3>1
  <2>3. K \in s.updaters[J]
    <3>1. i0 \in rows[K]
      BY <1>1, <1>4
    <3>2. i0 \notin cols[K]
      <4> SUFFICES ASSUME i0 \in cols[K] PROVE FALSE
        OBVIOUS
      <4>1. i0 < i0
        BY <1>2, <1>4
      <4> QED
        BY <2>1, <4>1 DEF Cols
    <3>3. s.updaters[J] = {L \in starts : (rows[L] \ cols[L]) \cap cols[J] # {}}
      BY <1>1 DEF Updaters, cols, rows
    <3> QED
      BY <1>4, <3>1, <3>2, <3>3
  <2>4. ASSUME NEW i \in Fill(entries, k), NEW j \in cols[J], i >= j PROVE i \in rows[J]
    <3>1. i \in {k} \cup Higher(entries, k) /\ i \in Cols /\ j \in Cols /\ k < j
      BY <1>2, <1>4, <2>1, HigherTyped
    <3>2. i # k
      BY <2>1, <2>4, <3>1 DEF Cols
    <3>3. CASE i > i0
      <4>1. i \in Higher(entries, i0)
        BY <2>1, <2>2, <3>1, <3>2, <3>3, FillClimbs
      <4>2. i \in Fill(entries, i0)
        BY <2>1, <4>1, FillIsHigher
      <4> QED
        BY <1>3, <1>4, <4>2
    <3>4. CASE i <= i0
      <4>1. i \in cols[J]
        <5> DEFINE e == EndOf(starts, J)
        <5>1. cols[J] = J .. e - 1
          BY DEF cols, ColsOf
        <5>2. j >= J /\ J \in Int
          BY <1>2 DEF Cols
        <5> HIDE DEF e
        <5>3. i0 <= e - 1 /\ i \in Int /\ i0 \in Int /\ j \in Int /\ e \in Int
          <6>1. e \in Int
            BY <1>2, EndIsNext DEF e
          <6> QED
            BY <1>4, <2>1, <3>1, <5>1, <6>1 DEF Cols
        <5>4. J <= i /\ i <= e - 1
          BY <2>4, <3>4, <5>2, <5>3
        <5> QED
          BY <5>1, <5>2, <5>3, <5>4
      <4>2. i \in Fill(entries, i)
        BY <3>1, FillIsHigher
      <4> QED
        BY <1>3, <4>1, <4>2
    <3> QED
      BY <2>1, <3>1, <3>3, <3>4 DEF Cols
  <2> QED
    BY <2>3, <2>4
<1>5. s.cols = cols /\ s.rows = rows /\ s.entries = entries
  BY DEF cols, rows
<1>6. \A J \in DOMAIN s.cols :
        /\ \A j \in s.cols[J] : Fill(s.entries, j) \subseteq s.rows[J]
        /\ \A K \in DOMAIN s.cols : K < J => \A k \in s.cols[K] :
             \A i0 \in Fill(s.entries, k) : i0 \in s.cols[J] =>
               /\ K \in s.updaters[J]
               /\ \A i \in Fill(s.entries, k) : (\E j \in s.cols[J] : i >= j) => i \in s.rows[J]
  BY <1>1, <1>3, <1>4, <1>5
<1> HIDE DEF cols, rows
<1>7. ASSUME NEW J \in DOMAIN s.cols, NEW K \in DOMAIN s.cols, K < J, NEW k \in s.cols[K],
             {i \in Fill(s.entries, k) : \E j \in s.cols[J] : i >= j} \cap s.cols[J] # {}
      PROVE  /\ K \in s.updaters[J]
             /\ {i \in Fill(s.entries, k) : \E j \in s.cols[J] : i >= j} \subseteq s.rows[J]
  <2>1. PICK i0 \in Fill(s.entries, k) : i0 \in s.cols[J]
    BY <1>7
  <2> QED
    BY <1>6, <1>7, <2>1
<1> QED
  BY <1>6, <1>7 DEF HoldsFill

\* What Super makes: its panels are those of some starts, over the fill.
IsSuper(s) ==
  \E starts \in Starts :
    /\ s.cols = ColsOf(starts) /\ s.rows = RowsOver(s.entries, starts)
    /\ s.updaters = Updaters(s.cols, s.rows)
    /\ s.levels = [l \in 1 .. Max({LevelOf(s.updaters)[J] : J \in starts}) + 1 |->
                     Ascending({J \in starts : LevelOf(s.updaters)[J] = l - 1})]

LEMMA SuperIsSuper ==
  ASSUME NEW entries, NEW relax
  PROVE  IsSuper(Super(entries, relax))
<1> DEFINE lpat == Pattern(entries)
           starts == Amalgamated(lpat, relax)
           cols == [J \in starts |-> J .. EndOf(starts, J) - 1]
           rows == [J \in starts |-> UNION {lpat[c] : c \in cols[J]}]
           level == LevelOf(Updaters(cols, rows))
           s == [entries |-> entries, cols |-> cols, rows |-> rows, updaters |-> Updaters(cols, rows),
                 levels |-> [l \in 1 .. Max({level[J] : J \in starts}) + 1 |->
                               Ascending({J \in starts : level[J] = l - 1})]]
<1>1. Super(entries, relax) = s
  BY DEF Super
<1>2. lpat = [j \in Cols |-> Fill(entries, j)]
  BY PatternIsFill
<1>3. lpat \in [Cols -> SUBSET Cols]
  <2>1. \A j \in Cols : Fill(entries, j) \in SUBSET Cols
    BY DEF Fill
  <2> HIDE DEF lpat
  <2> QED
    BY <1>2, <2>1
<1> HIDE DEF lpat
<1>4. starts \in Starts
  BY <1>3, AmalgamatedStarts
<1> HIDE DEF starts
<1>5. cols = ColsOf(starts)
  BY DEF ColsOf
<1>6. rows = RowsOver(entries, starts)
  <2>1. \A J \in starts : cols[J] \subseteq Cols
    BY <1>4, <1>5, PanelsAreApart
  <2> HIDE DEF cols
  <2>2. \A J \in starts : \A c \in cols[J] : lpat[c] = Fill(entries, c)
    BY <1>2, <2>1
  <2>3. \A J \in starts : UNION {lpat[c] : c \in cols[J]} = UNION {Fill(entries, c) : c \in cols[J]}
    BY <2>2
  <2> QED
    BY <1>5, <2>3 DEF RowsOver
<1>7. /\ s.entries = entries /\ s.cols = cols /\ s.rows = rows /\ s.updaters = Updaters(cols, rows)
      /\ s.levels = [l \in 1 .. Max({level[J] : J \in starts}) + 1 |->
                       Ascending({J \in starts : level[J] = l - 1})]
  <2> HIDE DEF cols, rows, level
  <2> QED
    OBVIOUS
<1> HIDE DEF cols, rows, s
<1>8. /\ s.cols = ColsOf(starts) /\ s.rows = RowsOver(s.entries, starts)
      /\ s.updaters = Updaters(s.cols, s.rows)
  BY <1>5, <1>6, <1>7
<1>9. s.levels = [l \in 1 .. Max({LevelOf(s.updaters)[J] : J \in starts}) + 1 |->
                    Ascending({J \in starts : LevelOf(s.updaters)[J] = l - 1})]
  <2>1. level = LevelOf(s.updaters)
    BY <1>7
  <2> HIDE DEF level
  <2> QED
    BY <1>7, <2>1
<1>10. IsSuper(s)
  BY <1>4, <1>8, <1>9 DEF IsSuper
<1> QED
  BY <1>1, <1>10

LEMMA SuperHolds ==
  ASSUME NEW s, IsSuper(s)
  PROVE  HoldsFill(s) /\ Pattern(s.entries) = [j \in Cols |-> Fill(s.entries, j)]
<1>1. PICK starts \in Starts :
        /\ s.cols = ColsOf(starts) /\ s.rows = RowsOver(s.entries, starts)
        /\ s.updaters = Updaters(s.cols, s.rows)
  BY DEF IsSuper
<1> DEFINE entries == s.entries
<1>2. s.entries = entries /\ s.rows = RowsOver(entries, starts)
  BY <1>1
<1> HIDE DEF entries
<1>3. HoldsFill(s)
  BY <1>1, <1>2, PanelsHold
<1> QED
  BY <1>3, PatternIsFill

LEMMA FactorsSuper ==
  FactorInit => IsSuper(S)
BY SuperIsSuper DEF FactorInit

LEMMA SuperStays ==
  [FactorNext]_snVars => S' = S
BY DEF FactorNext, MainStep, WorkerStep, MainFactors, MainFactored, NextLevel, Dispatch, LevelDone,
       StopWorkers, Join, Check, Claim, PanelFactored, Count, snVars

\* Whatever matrix is factored, in whatever order and however its supernodes are
\* amalgamated: the pattern found over the elimination tree is the fill, and the panels
\* and updaters drop nothing of it.
THEOREM PanelsHoldAllFill == FactorSpec => []PanelsHoldFill
<1>1. IsSuper(S) => PanelsHoldFill
  BY SuperHolds DEF PanelsHoldFill
<1>2. IsSuper(S) /\ [FactorNext]_snVars => IsSuper(S)'
  <2> SUFFICES ASSUME IsSuper(S), [FactorNext]_snVars PROVE IsSuper(S')
    BY DEF IsSuper
  <2> QED
    BY SuperStays
<1> QED
  BY <1>1, <1>2, FactorsSuper, PTL DEF FactorSpec

-------------------------------------------------------------------------------
(***************************************************************************)
(* levelSets: a panel is of a higher level than those that update it.       *)
(***************************************************************************)
NextPanel(panels, list, J) == IF J \in panels THEN Append(list, J) ELSE list

LEMMA NextPanelStays ==
  ASSUME NEW panels, NEW list \in Seq(Cols), NEW J \in Cols
  PROVE  NextPanel(panels, list, J) \in Seq(Cols)
BY DEF NextPanel

\* Panels are listed one after another.
PanelsAfter(after, panels) ==
  /\ after \in [0..N -> Seq(Cols)] /\ after[0] = <<>>
  /\ \A j \in 1..N : after[j] = NextPanel(panels, after[j - 1], j - 1)
  /\ Ascending(panels) = after[N]

LEMMA PanelsByOne ==
  ASSUME NEW panels
  PROVE  \E after : PanelsAfter(after, panels)
<1> DEFINE D == Seq(Cols)
           start == <<>>
           body(iter) == [T \in SUBSET DOMAIN InTurn |->
                            IF T = {} THEN start
                            ELSE NextPanel(panels, iter[T \ {Max(T)}], InTurn[Max(T)])]
           stride == [x \in D \X (1..N) |-> NextPanel(panels, x[1], x[2] - 1)]
           chosen == CHOOSE iter : iter = body(iter)
<1>1. N \in Nat /\ DOMAIN InTurn = 1..N /\ \A j \in 1..N : InTurn[j] = j - 1 /\ j - 1 \in Cols
  BY DEF InTurn, Cols
<1>2. /\ stride \in StepsIn(N, D)
      /\ \A x \in D, j \in 1..N : stride[<<x, j>>] = NextPanel(panels, x, j - 1)
  <2>1. ASSUME NEW x \in D \X (1..N) PROVE NextPanel(panels, x[1], x[2] - 1) \in D
    <3>1. x[1] \in D /\ x[2] - 1 \in Cols
      BY <1>1
    <3> QED
      BY <3>1, NextPanelStays
  <2> QED
    BY <2>1 DEF StepsIn
<1>3. \A T \in SUBSET (1..N) : T # {} => Max(T) \in T /\ Max(T) \in 1..N
  BY <1>1, LastOf
<1>4. Ascending(panels) = chosen[1..N]
  BY <1>1 DEF Ascending, FoldLeft, MapThenFoldSet, NextPanel
<1>5. start \in D
  OBVIOUS
<1> HIDE DEF stride, D, start
<1>6. chosen = body(chosen)
  <2>1. PICK iter : IsFold(iter, N, D, start, stride)
    BY <1>1, <1>2, <1>5, FoldExists
  <2>2. ASSUME NEW T \in SUBSET (1..N), T # {}
        PROVE  iter[T] = NextPanel(panels, iter[T \ {Max(T)}], InTurn[Max(T)])
    <3>1. iter[T] = stride[<<iter[T \ {Max(T)}], Max(T)>>] /\ iter[T \ {Max(T)}] \in D
      BY <1>3, <2>1, <2>2 DEF IsFold
    <3>2. Max(T) \in 1..N /\ InTurn[Max(T)] = Max(T) - 1
      BY <1>1, <1>3, <2>2
    <3> QED
      BY <1>2, <3>1, <3>2
  <2>3. iter[{}] = start /\ iter = [T \in SUBSET DOMAIN InTurn |-> iter[T]]
    BY <1>1, <2>1 DEF IsFold
  <2>4. iter = body(iter)
    BY <1>1, <2>2, <2>3
  <2> HIDE DEF body
  <2> QED
    BY <2>4
<1> HIDE DEF chosen
<1>7. PICK after : ValuesOf(after, N, D, start, stride) /\ after[N] = chosen[1..N]
  <2>1. chosen[{}] = start
    BY <1>1, <1>6
  <2>2. ASSUME NEW T \in SUBSET (1..N), T # {}, chosen[T \ {Max(T)}] \in D
        PROVE  chosen[T] = stride[<<chosen[T \ {Max(T)}], Max(T)>>]
    <3>1. chosen[T] = NextPanel(panels, chosen[T \ {Max(T)}], InTurn[Max(T)])
      BY <1>1, <1>6, <2>2
    <3>2. Max(T) \in 1..N /\ InTurn[Max(T)] = Max(T) - 1
      BY <1>1, <1>3, <2>2
    <3> QED
      BY <1>2, <2>2, <3>1, <3>2
  <2>3. FoldsOn(chosen, N, D, start, stride)
    BY <2>1, <2>2 DEF FoldsOn
  <2> QED
    BY <1>1, <1>2, <1>5, <2>3, FoldInOrder
<1>8. ASSUME NEW j \in 1..N PROVE after[j] = NextPanel(panels, after[j - 1], j - 1)
  <2>1. after[j - 1] \in D /\ after[j] = stride[<<after[j - 1], j>>]
    BY <1>1, <1>7 DEF ValuesOf
  <2> QED
    BY <1>2, <2>1
<1>9. after \in [0..N -> D] /\ after[0] = start /\ Ascending(panels) = after[N]
  BY <1>4, <1>7 DEF ValuesOf
<1>10. D = Seq(Cols) /\ start = <<>>
  BY DEF D, start
<1> QED
  BY <1>8, <1>9, <1>10 DEF PanelsAfter

LEMMA AscendingLists ==
  ASSUME NEW panels \in SUBSET Cols
  PROVE  LET list == Ascending(panels) IN
           /\ list \in Seq(Cols)
           /\ \A a \in 1 .. Len(list) : list[a] \in panels
           /\ \A J \in panels : \E a \in 1 .. Len(list) : list[a] = J
           /\ \A a, b \in 1 .. Len(list) : a < b => list[a] < list[b]
<1>1. PICK after : PanelsAfter(after, panels)
  BY PanelsByOne
<1> DEFINE Listed(list, k) ==
             /\ \A a \in 1 .. Len(list) : list[a] \in panels /\ list[a] < k
             /\ \A J \in panels : J < k => \E a \in 1 .. Len(list) : list[a] = J
             /\ \A a, b \in 1 .. Len(list) : a < b => list[a] < list[b]
           P == {k \in 0..N : Listed(after[k], k)}
<1>2. \A k \in 0..N : after[k] \in Seq(Cols)
  BY <1>1 DEF PanelsAfter
<1>3. 0 \in P
  <2>1. after[0] = <<>> /\ 0 \in 0..N
    BY <1>1 DEF PanelsAfter
  <2>2. Listed(<<>>, 0)
    BY DEF Cols
  <2> HIDE DEF Listed
  <2> QED
    BY <2>1, <2>2
<1>4. ASSUME NEW k \in 1..N, k - 1 \in P PROVE k \in P
  <2> DEFINE J == k - 1
             old == after[J]
             new == after[k]
  <2>1. J \in Cols /\ J \in 0..N /\ k \in 0..N /\ J \in Int /\ k = J + 1
    BY DEF Cols
  <2>2. new = NextPanel(panels, old, J) /\ old \in Seq(Cols) /\ Listed(old, J)
    BY <1>1, <1>2, <1>4, <2>1 DEF PanelsAfter
  <2> HIDE DEF J, old, new
  <2>3. CASE J \notin panels
    <3>1. new = old
      BY <2>2, <2>3 DEF NextPanel
    <3>2. \A a \in 1 .. Len(old) : old[a] \in panels /\ old[a] < k
      <4> SUFFICES ASSUME NEW a \in 1 .. Len(old) PROVE old[a] \in panels /\ old[a] < k
        OBVIOUS
      <4>1. old[a] \in panels /\ old[a] < J /\ old[a] \in Int
        BY <2>2 DEF Cols
      <4> QED
        BY <2>1, <4>1
    <3>3. \A I \in panels : I < k => I < J
      BY <2>1, <2>3 DEF Cols
    <3>4. Listed(old, k)
      BY <2>2, <3>2, <3>3
    <3> HIDE DEF Listed
    <3> QED
      BY <2>1, <3>1, <3>4 DEF new
  <2>4. CASE J \in panels
    <3> DEFINE n == Len(old)
    <3>1. /\ n \in Nat /\ new \in Seq(Cols) /\ Len(new) = n + 1 /\ new[n + 1] = J
          /\ \A a \in 1..n : new[a] = old[a]
      BY <2>1, <2>2, <2>4 DEF NextPanel
    <3>2. \A a \in 1..n : old[a] \in panels /\ old[a] < J /\ old[a] \in Int
      BY <2>2 DEF Cols
    <3>3. \A I \in panels : I < J => \E a \in 1..n : old[a] = I
      BY <2>2
    <3>4. \A a, b \in 1..n : a < b => old[a] < old[b]
      BY <2>2
    <3> HIDE DEF n, Listed
    <3>5. \A a \in 1 .. n + 1 : a = n + 1 \/ a \in 1..n
      BY <3>1
    <3>6. \A a \in 1 .. n + 1 : new[a] \in panels /\ new[a] < k
      <4> SUFFICES ASSUME NEW a \in 1 .. n + 1 PROVE new[a] \in panels /\ new[a] < k
        OBVIOUS
      <4>1. CASE a = n + 1
        BY <2>1, <2>4, <3>1, <4>1
      <4>2. CASE a \in 1..n
        <5>1. new[a] = old[a] /\ old[a] \in panels /\ old[a] < J /\ old[a] \in Int
          BY <3>1, <3>2, <4>2
        <5> QED
          BY <2>1, <5>1
      <4> QED
        BY <3>5, <4>1, <4>2
    <3>7. ASSUME NEW I \in panels, I < k PROVE \E a \in 1 .. n + 1 : new[a] = I
      <4>1. CASE I = J
        <5>1. n + 1 \in 1 .. n + 1
          BY <3>1
        <5> QED
          BY <3>1, <4>1, <5>1
      <4>2. CASE I # J
        <5>1. I < J
          BY <2>1, <3>7, <4>2 DEF Cols
        <5>2. PICK a \in 1..n : old[a] = I
          BY <3>3, <5>1
        <5>3. a \in 1 .. n + 1 /\ new[a] = I
          BY <3>1, <5>2
        <5> QED
          BY <5>3
      <4> QED
        BY <4>1, <4>2
    <3>8. ASSUME NEW a \in 1 .. n + 1, NEW b \in 1 .. n + 1, a < b PROVE new[a] < new[b]
      <4>1. a \in 1..n
        BY <3>1, <3>8
      <4>2. CASE b = n + 1
        BY <3>1, <3>2, <4>1, <4>2
      <4>3. CASE b \in 1..n
        BY <3>1, <3>4, <3>8, <4>1, <4>3
      <4> QED
        BY <3>5, <4>2, <4>3
    <3>9. Listed(new, k)
      BY <3>1, <3>6, <3>7, <3>8 DEF Listed
    <3> QED
      BY <2>1, <3>9 DEF new
  <2> QED
    BY <2>3, <2>4
<1>5. N \in P
  <2>1. N \in Nat /\ N \in 0..N
    OBVIOUS
  <2> HIDE DEF P
  <2> QED
    BY <1>3, <1>4, <2>1, Ascent
<1> DEFINE list == Ascending(panels)
<1>6. list = after[N] /\ Listed(list, N) /\ list \in Seq(Cols)
  BY <1>1, <1>2, <1>5 DEF PanelsAfter
<1>7. \A J \in panels : J < N
  BY DEF Cols
<1> HIDE DEF list
<1>8. /\ list \in Seq(Cols)
      /\ \A a \in 1 .. Len(list) : list[a] \in panels
      /\ \A J \in panels : \E a \in 1 .. Len(list) : list[a] = J
      /\ \A a, b \in 1 .. Len(list) : a < b => list[a] < list[b]
  BY <1>6, <1>7
<1> QED
  BY <1>8 DEF list

\* LevelOf, when panels are updated by earlier ones only.
LEMMA LevelsRise ==
  ASSUME NEW starts \in SUBSET Cols, NEW updaters \in [starts -> SUBSET starts],
         \A J \in starts : \A K \in updaters[J] : K < J
  PROVE  \A J \in starts : /\ LevelOf(updaters)[J] \in Nat
                           /\ \A K \in updaters[J] : LevelOf(updaters)[K] < LevelOf(updaters)[J]
<1> DEFINE Next1(J, f) == IF updaters[J] = {} THEN 0 ELSE 1 + Max({f[K] : K \in updaters[J]})
           D == Nat
           step == [x \in starts \X [starts -> D] |-> Next1(x[1], x[2])]
           body(f) == [J \in DOMAIN updaters |->
                         IF updaters[J] = {} THEN 0 ELSE 1 + Max({f[K] : K \in updaters[J]})]
           chosen == CHOOSE f : f = body(f)
<1>1. /\ N \in Nat /\ starts \in SUBSET (0..N) /\ DOMAIN updaters = starts
      /\ \A J \in starts : updaters[J] \in SUBSET (0..N) /\ updaters[J] \in SUBSET starts
  <2>1. Cols \subseteq 0..N
    BY DEF Cols
  <2> QED
    BY <2>1
<1>2. ASSUME NEW J \in starts, NEW f, \A K \in updaters[J] : f[K] \in Nat
      PROVE  Next1(J, f) \in Nat /\ \A K \in updaters[J] : f[K] < Next1(J, f)
  <2>1. CASE updaters[J] = {}
    BY <2>1
  <2>2. CASE updaters[J] # {}
    <3> DEFINE T == updaters[J]
               top == Max({f[K] : K \in T})
    <3>1. T \in SUBSET (0..N) /\ T # {} /\ \A K \in T : f[K] \in Nat
      BY <1>1, <1>2, <2>2
    <3> HIDE DEF T
    <3>2. top \in Nat /\ \A K \in T : f[K] <= top
      <4>1. N \in Nat
        OBVIOUS
      <4> QED
        BY ONLY <4>1, <3>1, GreatestValue
    <3>3. Next1(J, f) = 1 + top
      BY <2>2 DEF T
    <3> HIDE DEF top, Next1
    <3>4. \A K \in T : f[K] < Next1(J, f)
      BY <3>1, <3>2, <3>3
    <3> QED
      BY <3>2, <3>3, <3>4 DEF T
  <2> QED
    BY <2>1, <2>2
<1>3. ASSUME NEW J \in starts, NEW f, NEW g, \A c \in starts : c < J => f[c] = g[c]
      PROVE  Next1(J, f) = Next1(J, g)
  <2>1. \A K \in updaters[J] : f[K] = g[K]
    BY <1>1, <1>3
  <2>2. {f[K] : K \in updaters[J]} = {g[K] : K \in updaters[J]}
    BY <2>1
  <2> QED
    BY <2>2
<1>4. /\ step \in [starts \X [starts -> D] -> D]
      /\ \A J \in starts : \A f \in [starts -> D] : step[<<J, f>>] = Next1(J, f)
  <2>1. ASSUME NEW J \in starts, NEW f \in [starts -> D] PROVE Next1(J, f) \in D
    <3>1. \A K \in updaters[J] : f[K] \in Nat
      BY <1>1
    <3> HIDE DEF Next1
    <3> QED
      BY <1>2, <3>1
  <2> HIDE DEF Next1, D
  <2> QED
    BY <2>1
<1>5. 0 \in D
  OBVIOUS
<1>6. \A f : body(f) = [J \in starts |-> Next1(J, f)]
  BY <1>1
<1> HIDE DEF D, step, Next1
<1>7. step \in Steps(starts, D) /\ LooksBack(starts, D, step)
  BY <1>3, <1>4 DEF Steps, LooksBack
<1>8. PICK f : IsCourse(f, starts, D, step)
  <2> DEFINE zero == 0
  <2>1. zero \in D
    BY <1>5
  <2> HIDE DEF zero
  <2> QED
    BY <1>1, <1>7, <2>1, CourseExists
<1>9. f = body(f)
  <2>1. f \in [starts -> D] /\ \A J \in starts : f[J] = Next1(J, f)
    BY <1>4, <1>8 DEF IsCourse
  <2>2. f = [J \in starts |-> Next1(J, f)]
    BY <2>1
  <2> HIDE DEF body
  <2> QED
    BY <1>6, <2>2
<1>10. LevelOf(updaters) = chosen
  BY DEF LevelOf
<1>11. chosen = body(chosen)
  <2> HIDE DEF body
  <2> QED
    BY <1>9
<1> HIDE DEF chosen
<1>12. \A J \in starts : chosen[J] = Next1(J, chosen)
  <2>1. body(chosen) = [J \in starts |-> Next1(J, chosen)]
    BY <1>6
  <2>2. chosen = [J \in starts |-> Next1(J, chosen)]
    <3> HIDE DEF body
    <3> QED
      BY <1>11, <2>1
  <2> QED
    BY <2>2
<1> HIDE DEF body
<1> DEFINE P == {m \in 0..N : \A J \in starts : J < m => chosen[J] \in Nat}
<1>13. 0 \in P
  BY <1>1
<1>14. ASSUME NEW m \in 1..N, m - 1 \in P PROVE m \in P
  <2> SUFFICES ASSUME NEW J \in starts, J < m PROVE chosen[J] \in Nat
    OBVIOUS
  <2>1. \A K \in updaters[J] : K \in starts /\ K < J
    BY <1>1
  <2>2. \A K \in updaters[J] : K < m - 1
    <3> SUFFICES ASSUME NEW K \in updaters[J] PROVE K < m - 1
      OBVIOUS
    <3>1. K \in 0..N /\ J \in 0..N /\ K < J
      BY <1>1, <2>1
    <3> QED
      BY <3>1
  <2>3. \A K \in updaters[J] : chosen[K] \in Nat
    BY <1>14, <2>1, <2>2
  <2> QED
    BY <1>2, <1>12, <2>3
<1>15. N \in P
  <2>1. N \in 0..N
    OBVIOUS
  <2> HIDE DEF P
  <2> QED
    BY <1>1, <1>13, <1>14, <2>1, Ascent
<1>16. \A J \in starts : chosen[J] \in Nat
  <2>1. \A J \in starts : J < N
    BY DEF Cols
  <2> QED
    BY <1>15, <2>1
<1>17. ASSUME NEW J \in starts PROVE \A K \in updaters[J] : chosen[K] < chosen[J]
  <2>1. \A K \in updaters[J] : chosen[K] \in Nat
    BY <1>1, <1>16
  <2> QED
    BY <1>2, <1>12, <2>1
<1> QED
  BY <1>10, <1>16, <1>17

\* The updaters of a panel come before it.
LEMMA UpdatersAreEarlier ==
  ASSUME NEW entries, NEW starts \in Starts
  PROVE  LET updaters == Updaters(ColsOf(starts), RowsOver(entries, starts)) IN
           /\ updaters \in [starts -> SUBSET starts]
           /\ \A J \in starts : \A K \in updaters[J] : K < J
<1> DEFINE cols == ColsOf(starts)
           rows == RowsOver(entries, starts)
           updaters == Updaters(cols, rows)
<1>1. DOMAIN cols = starts /\ \A J \in starts : rows[J] = UNION {Fill(entries, c) : c \in cols[J]}
  BY DEF ColsOf, RowsOver
<1>2. /\ starts \subseteq Cols
      /\ \A J \in starts : J \in Cols /\ J \in cols[J] /\ cols[J] \subseteq Cols
      /\ \A J \in starts : \A j \in cols[J] : j >= J
      /\ \A K, J \in starts : K < J => \A k \in cols[K], j \in cols[J] : k < j /\ k < J
  BY PanelsAreApart DEF Starts
<1> HIDE DEF cols, rows
<1>3. updaters = [J \in starts |-> {K \in starts : (rows[K] \ cols[K]) \cap cols[J] # {}}]
  BY <1>1 DEF Updaters
<1>4. ASSUME NEW J \in starts, NEW K \in updaters[J] PROVE K < J
  <2>1. K \in starts /\ (rows[K] \ cols[K]) \cap cols[J] # {}
    BY <1>3
  <2>2. PICK i \in cols[J] : i \in rows[K] /\ i \notin cols[K]
    BY <2>1
  <2>3. PICK c \in cols[K] : i \in Fill(entries, c)
    BY <1>1, <2>1, <2>2
  <2>4. i >= c /\ i \in Int /\ c \in Int /\ K \in Int /\ J \in Int
    BY <1>2, <2>1, <2>2, <2>3 DEF Fill, Cols
  <2>5. K # J
    BY <2>2
  <2>6. ~(J < K)
    <3> SUFFICES ASSUME J < K PROVE FALSE
      OBVIOUS
    <3>1. i < c
      BY <1>2, <2>1, <2>2, <2>3
    <3> QED
      BY <2>4, <3>1
  <2> QED
    BY <2>4, <2>5, <2>6
<1>5. updaters \in [starts -> SUBSET starts]
  BY <1>3
<1> HIDE DEF updaters
<1>6. updaters \in [starts -> SUBSET starts] /\ \A J \in starts : \A K \in updaters[J] : K < J
  BY <1>4, <1>5
<1> QED
  BY <1>6 DEF updaters, cols, rows

\* The order in which panels are factored: each is listed once, after all that fill into
\* it; those of an earlier level, or without workers those earlier in the list.
Sooner(n, m, b, l, a) ==
  \/ m < l
  \/ n <= 1 /\ m = l /\ b < a
FillsIn(s, K, J) == \E k \in s.cols[K] : Fill(s.entries, k) \cap s.cols[J] # {}
IsOrder(sets, s, n) ==
  /\ Len(sets) \in Nat /\ DOMAIN sets = 1 .. Len(sets)
  /\ \A l \in 1 .. Len(sets) : sets[l] \in Seq(DOMAIN s.cols)
  /\ \A l, m \in 1 .. Len(sets) : \A a \in 1 .. Len(sets[l]), b \in 1 .. Len(sets[m]) :
       sets[l][a] = sets[m][b] => l = m /\ a = b
  /\ \A J \in DOMAIN s.cols : \E l \in 1 .. Len(sets) : \E a \in 1 .. Len(sets[l]) : sets[l][a] = J
  /\ \A l, m \in 1 .. Len(sets) : \A a \in 1 .. Len(sets[l]), b \in 1 .. Len(sets[m]) :
       sets[m][b] < sets[l][a] /\ FillsIn(s, sets[m][b], sets[l][a]) => Sooner(n, m, b, l, a)

Schedule(s, n) == IF n <= 1 THEN <<Ascending(DOMAIN s.cols)>> ELSE s.levels

LEMMA OneLevelOrder ==
  ASSUME NEW s, NEW n, DOMAIN s.cols \in SUBSET Cols, n <= 1
  PROVE  IsOrder(Schedule(s, n), s, n)
<1> DEFINE panels == DOMAIN s.cols
           list == Ascending(panels)
           sets == <<list>>
<1>1. /\ list \in Seq(Cols) /\ panels \subseteq Cols
      /\ \A a \in 1 .. Len(list) : list[a] \in panels
      /\ \A J \in panels : \E a \in 1 .. Len(list) : list[a] = J
      /\ \A a, b \in 1 .. Len(list) : a < b => list[a] < list[b]
  BY AscendingLists
<1> HIDE DEF list, panels
<1>2. sets = Schedule(s, n)
  BY DEF Schedule, list, panels
<1>3. /\ Len(sets) = 1 /\ DOMAIN sets = 1..1 /\ sets[1] = list
      /\ \A l \in 1 .. Len(sets) : l = 1
  OBVIOUS
<1> HIDE DEF sets
<1>4. Len(list) \in Nat /\ list \in [1 .. Len(list) -> Cols] /\ list \in Seq(panels)
  <2>1. Len(list) \in Nat /\ list \in [1 .. Len(list) -> Cols]
    BY <1>1
  <2>2. list \in [1 .. Len(list) -> panels]
    BY <1>1, <2>1
  <2> QED
    BY <2>1, <2>2
<1>5. ASSUME NEW a \in 1 .. Len(list), NEW b \in 1 .. Len(list), list[b] <= list[a]
      PROVE  b <= a
  <2> SUFFICES ASSUME a < b PROVE FALSE
    BY <1>4
  <2>1. list[a] < list[b] /\ list[a] \in Cols /\ list[b] \in Cols
    BY <1>1, <1>4
  <2> QED
    BY <1>5, <2>1 DEF Cols
<1>6. ASSUME NEW a \in 1 .. Len(list), NEW b \in 1 .. Len(list), list[b] < list[a]
      PROVE  b < a
  <2>1. list[a] \in Cols /\ list[b] \in Cols
    BY <1>4
  <2>2. list[b] <= list[a] /\ list[b] # list[a]
    BY <1>6, <2>1 DEF Cols
  <2>3. b <= a /\ b # a
    BY <1>5, <2>2
  <2> QED
    BY <1>4, <2>3
<1>7. ASSUME NEW a \in 1 .. Len(list), NEW b \in 1 .. Len(list), list[a] = list[b] PROVE a = b
  <2>1. list[a] <= list[b] /\ list[b] <= list[a]
    BY <1>4, <1>7 DEF Cols
  <2>2. b <= a /\ a <= b
    BY <1>5, <2>1
  <2> QED
    BY <1>4, <2>2
<1>8. /\ \A l \in 1 .. Len(sets) : sets[l] \in Seq(panels)
      /\ \A l, m \in 1 .. Len(sets) : \A a \in 1 .. Len(sets[l]), b \in 1 .. Len(sets[m]) :
           sets[l][a] = sets[m][b] => l = m /\ a = b
  BY <1>3, <1>4, <1>7
<1>9. \A J \in panels : \E l \in 1 .. Len(sets) : \E a \in 1 .. Len(sets[l]) : sets[l][a] = J
  <2>1. 1 \in 1 .. Len(sets)
    BY <1>3
  <2> QED
    BY <1>1, <1>3, <2>1
<1>10. \A l, m \in 1 .. Len(sets) : \A a \in 1 .. Len(sets[l]), b \in 1 .. Len(sets[m]) :
         sets[m][b] < sets[l][a] => Sooner(n, m, b, l, a)
  BY <1>3, <1>6 DEF Sooner
<1> QED
  BY <1>2, <1>3, <1>8, <1>9, <1>10 DEF IsOrder, panels

LEMMA LevelOrder ==
  ASSUME NEW s, IsSuper(s), NEW n, ~(n <= 1)
  PROVE  IsOrder(Schedule(s, n), s, n)
<1>1. PICK starts \in Starts :
        /\ s.cols = ColsOf(starts) /\ s.rows = RowsOver(s.entries, starts)
        /\ s.updaters = Updaters(s.cols, s.rows)
        /\ s.levels = [l \in 1 .. Max({LevelOf(s.updaters)[J] : J \in starts}) + 1 |->
                         Ascending({J \in starts : LevelOf(s.updaters)[J] = l - 1})]
  BY DEF IsSuper
<1> DEFINE updaters == s.updaters
           level == LevelOf(updaters)
           high == Max({level[J] : J \in starts})
           On(l) == {J \in starts : level[J] = l - 1}
           sets == s.levels
<1>2. starts \in SUBSET Cols /\ starts # {} /\ DOMAIN s.cols = starts
  BY <1>1 DEF Starts, ColsOf
<1>3. /\ updaters \in [starts -> SUBSET starts]
      /\ \A J \in starts : \A K \in updaters[J] : K < J
  BY <1>1, UpdatersAreEarlier
<1> HIDE DEF updaters
<1>4. \A J \in starts : level[J] \in Nat /\ \A K \in updaters[J] : level[K] < level[J]
  BY <1>2, <1>3, LevelsRise
<1> HIDE DEF level
<1>5. high \in Nat /\ \A J \in starts : level[J] <= high
  <2>1. N \in Nat /\ starts \in SUBSET (0..N)
    BY <1>2 DEF Cols
  <2> QED
    BY <1>2, <1>4, <2>1, GreatestValue
<1>6. sets = [l \in 1 .. high + 1 |-> Ascending(On(l))]
  BY <1>1 DEF level, updaters
<1> HIDE DEF high, sets
<1>7. Len(sets) = high + 1 /\ DOMAIN sets = 1 .. Len(sets)
      /\ \A l \in 1 .. Len(sets) : sets[l] = Ascending(On(l))
  BY <1>5, <1>6
<1>8. ASSUME NEW l \in 1 .. Len(sets)
      PROVE  /\ sets[l] \in Seq(Cols)
             /\ \A a \in 1 .. Len(sets[l]) : sets[l][a] \in On(l)
             /\ \A J \in On(l) : \E a \in 1 .. Len(sets[l]) : sets[l][a] = J
             /\ \A a, b \in 1 .. Len(sets[l]) : a < b => sets[l][a] < sets[l][b]
  <2>1. On(l) \in SUBSET Cols
    BY <1>2
  <2> HIDE DEF On
  <2> QED
    BY <1>7, <2>1, AscendingLists
<1>9. ASSUME NEW l \in 1 .. Len(sets) PROVE sets[l] \in Seq(starts)
  <2> DEFINE list == sets[l]
  <2>1. list \in Seq(Cols) /\ \A a \in 1 .. Len(list) : list[a] \in starts
    BY <1>8
  <2> HIDE DEF list
  <2>2. Len(list) \in Nat /\ list \in [1 .. Len(list) -> Cols]
    BY <2>1
  <2>3. list \in [1 .. Len(list) -> starts]
    BY <2>1, <2>2
  <2>4. list \in Seq(starts)
    BY <2>2, <2>3
  <2> QED
    BY <2>4 DEF list
<1>10. ASSUME NEW l \in 1 .. Len(sets), NEW m \in 1 .. Len(sets),
              NEW a \in 1 .. Len(sets[l]), NEW b \in 1 .. Len(sets[m]), sets[l][a] = sets[m][b]
       PROVE  l = m /\ a = b
  <2>1. sets[l][a] \in On(l) /\ sets[m][b] \in On(m)
    BY <1>8
  <2>2. l = m
    BY <1>7, <1>10, <2>1
  <2>3. /\ a \in 1 .. Len(sets[l]) /\ b \in 1 .. Len(sets[l])
        /\ a \in Int /\ b \in Int /\ sets[l][a] \in Int /\ sets[l][a] = sets[l][b]
    <3>1. sets[l][a] \in Cols
      BY <1>2, <2>1
    <3>2. sets[l] \in Seq(Cols)
      BY <1>8
    <3> QED
      BY <1>10, <2>2, <3>1 DEF Cols
  <2>4. ~(a < b)
    <3>1. a < b => sets[l][a] < sets[l][b]
      BY <1>8, <2>3
    <3> QED
      BY <2>3, <3>1
  <2>5. ~(b < a)
    <3>1. b < a => sets[l][b] < sets[l][a]
      BY <1>8, <2>3
    <3> QED
      BY <2>3, <3>1
  <2> QED
    BY <2>2, <2>3, <2>4, <2>5
<1>11. ASSUME NEW J \in starts
       PROVE  \E l \in 1 .. Len(sets) : \E a \in 1 .. Len(sets[l]) : sets[l][a] = J
  <2> DEFINE l == level[J] + 1
  <2>1. l \in 1 .. Len(sets) /\ J \in On(l)
    BY <1>4, <1>5, <1>7
  <2> HIDE DEF l, On
  <2> QED
    BY <1>8, <2>1
<1>12. ASSUME NEW l \in 1 .. Len(sets), NEW m \in 1 .. Len(sets),
              NEW a \in 1 .. Len(sets[l]), NEW b \in 1 .. Len(sets[m]),
              sets[m][b] < sets[l][a], FillsIn(s, sets[m][b], sets[l][a])
       PROVE  Sooner(n, m, b, l, a)
  <2> DEFINE J == sets[l][a]
             K == sets[m][b]
  <2>1. J \in On(l) /\ K \in On(m)
    BY <1>8
  <2>2. J \in starts /\ K \in starts /\ level[J] = l - 1 /\ level[K] = m - 1
    BY <2>1
  <2> HIDE DEF J, K
  <2>3. PICK k \in s.cols[K] : Fill(s.entries, k) \cap s.cols[J] # {}
    BY <1>12 DEF FillsIn, J, K
  <2>4. {i \in Fill(s.entries, k) : \E j \in s.cols[J] : i >= j} \cap s.cols[J] # {}
    <3>1. PICK i \in Fill(s.entries, k) : i \in s.cols[J]
      BY <2>3
    <3>2. i >= i
      BY <3>1 DEF Fill, Cols
    <3> QED
      BY <3>1, <3>2
  <2>5. HoldsFill(s)
    BY SuperHolds
  <2>6. K < J /\ J \in DOMAIN s.cols /\ K \in DOMAIN s.cols
    BY <1>2, <1>12, <2>2 DEF J, K
  <2>7. K \in updaters[J]
    BY <2>3, <2>4, <2>5, <2>6 DEF HoldsFill, updaters
  <2>8. level[K] < level[J]
    BY <1>4, <2>2, <2>7
  <2>9. m < l
    <3>1. l \in Int /\ m \in Int /\ level[J] = l - 1 /\ level[K] = m - 1
      BY <2>2
    <3> QED
      BY <2>8, <3>1
  <2> QED
    BY <2>9 DEF Sooner
<1>13. sets = Schedule(s, n)
  BY DEF Schedule, sets
<1>14. Len(sets) \in Nat
  BY <1>5, <1>7
<1> HIDE DEF sets
<1>15. IsOrder(sets, s, n)
  <2>1. \A l \in 1 .. Len(sets) : sets[l] \in Seq(DOMAIN s.cols)
    BY <1>2, <1>9
  <2>2. \A J \in DOMAIN s.cols :
          \E l \in 1 .. Len(sets) : \E a \in 1 .. Len(sets[l]) : sets[l][a] = J
    BY <1>2, <1>11
  <2> QED
    BY <1>7, <1>10, <1>12, <1>14, <2>1, <2>2 DEF IsOrder
<1> QED
  BY <1>13, <1>15

-------------------------------------------------------------------------------
(***************************************************************************)
(* factorizeSuperParallel: what holds at every step of main and its pool.   *)
(***************************************************************************)
Pooled == main \in {"asleep", "awake"}
Finished(w) == worker[w].seen = generation /\ worker[w].at \in {"check", "asleep", "ended"}
Working(w) == worker[w].seen = generation /\ worker[w].at \in {"claim", "factor", "count"}
Waiting(w) == worker[w].seen # generation /\ worker[w].at = "check"

PoolTyped ==
  /\ nt \in Nat /\ lv \in Nat \ {0} /\ lv <= Len(LevelSets) + 1
  /\ generation \in Nat /\ doneCount \in Nat /\ workIdx \in Nat /\ stop \in BOOLEAN
  /\ panel \in [DOMAIN S.cols -> {"raw", "busy", "factored"}]
  /\ main \in {"levels", "alone", "asleep", "awake", "join", "returned"}
  /\ worker \in [IF nt <= 1 THEN {} ELSE Workers ->
                   [at : {"check", "asleep", "claim", "factor", "count", "ended"},
                    seen : Nat, J : DOMAIN S.cols \cup {-1}]]

\* Earlier levels are factored, later ones untouched, and a level that main factors
\* alone is factored in its order.
InTheirTurn ==
  /\ \A l \in 1 .. Len(LevelSets) : \A a \in 1 .. Len(LevelSets[l]) :
       /\ l < lv => panel[LevelSets[l][a]] = "factored"
       /\ l > lv => panel[LevelSets[l][a]] = "raw"
  /\ lv <= Len(LevelSets) /\ ~Wide => \A a, b \in 1 .. Len(Level) :
       a < b /\ panel[Level[b]] # "raw" => panel[Level[a]] = "factored"

\* Where main is.
MainInPlace ==
  /\ main = "alone" => lv <= Len(LevelSets) /\ ~Wide
  /\ Pooled => lv <= Len(LevelSets) /\ Wide
  /\ main \in {"join", "returned"} => lv = Len(LevelSets) + 1
  /\ stop => main \in {"join", "returned"}
  /\ main # "alone" /\ ~Pooled => \A J \in DOMAIN panel : panel[J] # "busy"
  /\ main = "levels" /\ lv <= Len(LevelSets) /\ Wide =>
       \A a \in 1 .. Len(Level) : panel[Level[a]] = "raw"

\* The panels of a wide level are claimed one by one, each by one worker, and a worker
\* that finds none left has seen them all claimed.
SharedOut ==
  /\ \A w \in DOMAIN worker :
       /\ At(w, "factor") => \E a \in 1 .. Len(Level) : a <= workIdx /\ worker[w].J = Level[a]
       /\ ~At(w, "factor") => worker[w].J = -1
  /\ \A v, w \in DOMAIN worker :
       v # w /\ At(v, "factor") /\ At(w, "factor") => worker[v].J # worker[w].J
  /\ Pooled =>
       /\ \A a \in 1 .. Len(Level) :
            /\ panel[Level[a]] = "raw" <=> a > workIdx
            /\ panel[Level[a]] = "busy" =>
                 \E w \in DOMAIN worker : At(w, "factor") /\ worker[w].J = Level[a]
       /\ \A w \in DOMAIN worker : Finished(w) \/ At(w, "count") => workIdx >= Len(Level)

\* A level that is handed out has a generation of its own, and doneCount counts who is
\* through with it.
Counted ==
  /\ \A w \in DOMAIN worker : At(w, "ended") => stop
  /\ ~Pooled => \A w \in DOMAIN worker : Finished(w)
  /\ Pooled => /\ \A w \in DOMAIN worker : Finished(w) \/ Working(w) \/ Waiting(w)
               /\ doneCount = Cardinality({w \in DOMAIN worker : Finished(w)})

PoolInv ==
  /\ IsSuper(S) /\ IsOrder(LevelSets, S, nt)
  /\ PoolTyped /\ InTheirTurn /\ MainInPlace /\ SharedOut /\ Counted

LEMMA OrderIsSchedule == LevelSets = Schedule(S, nt)
BY DEF LevelSets, Schedule

LEMMA ScheduleOrders ==
  ASSUME NEW s, IsSuper(s), NEW n \in Int
  PROVE  IsOrder(Schedule(s, n), s, n)
<1>1. DOMAIN s.cols \in SUBSET Cols
  BY DEF IsSuper, Starts, ColsOf
<1> QED
  BY <1>1, OneLevelOrder, LevelOrder

LEMMA PanelPlaces ==
  ASSUME PoolInv
  PROVE  /\ DOMAIN panel = DOMAIN S.cols /\ -1 \notin DOMAIN panel /\ Len(LevelSets) \in Nat
         /\ \A l \in 1 .. Len(LevelSets) :
              /\ Len(LevelSets[l]) \in Nat
              /\ \A a \in 1 .. Len(LevelSets[l]) : LevelSets[l][a] \in DOMAIN panel
         /\ \A l, m \in 1 .. Len(LevelSets) :
              \A a \in 1 .. Len(LevelSets[l]), b \in 1 .. Len(LevelSets[m]) :
                LevelSets[l][a] = LevelSets[m][b] => l = m /\ a = b
         /\ \A J \in DOMAIN panel : \E l \in 1 .. Len(LevelSets) :
              \E a \in 1 .. Len(LevelSets[l]) : LevelSets[l][a] = J
<1> DEFINE sets == LevelSets
           panels == DOMAIN S.cols
<1>1. IsOrder(sets, S, nt) /\ DOMAIN panel = panels
  BY DEF PoolInv, PoolTyped
<1>2. -1 \notin panels
  BY DEF PoolInv, IsSuper, Starts, ColsOf, Cols
<1>3. \A l \in 1 .. Len(sets) : sets[l] \in Seq(panels)
  BY <1>1 DEF IsOrder
<1> HIDE DEF panels
<1>4. ASSUME NEW l \in 1 .. Len(sets)
      PROVE  Len(sets[l]) \in Nat /\ \A a \in 1 .. Len(sets[l]) : sets[l][a] \in panels
  <2> DEFINE list == sets[l]
  <2>1. list \in Seq(panels)
    BY <1>3
  <2> HIDE DEF list
  <2>2. Len(list) \in Nat /\ \A a \in 1 .. Len(list) : list[a] \in panels
    BY <2>1
  <2> QED
    BY <2>2 DEF list
<1> QED
  BY <1>1, <1>2, <1>4 DEF IsOrder, panels

\* The level main has come to.
LEMMA LevelPlaces ==
  ASSUME PoolInv, lv <= Len(LevelSets)
  PROVE  /\ lv \in 1 .. Len(LevelSets) /\ Level = LevelSets[lv] /\ Len(Level) \in Nat
         /\ \A a \in 1 .. Len(Level) : Level[a] \in DOMAIN panel /\ Level[a] # -1
         /\ \A a, b \in 1 .. Len(Level) : Level[a] = Level[b] => a = b
         /\ \A l \in 1 .. Len(LevelSets) : \A a \in 1 .. Len(LevelSets[l]) :
              l # lv => \A b \in 1 .. Len(Level) : LevelSets[l][a] # Level[b]
<1>1. lv \in 1 .. Len(LevelSets) /\ Level = LevelSets[lv]
  BY PanelPlaces DEF PoolInv, PoolTyped, Level
<1> QED
  BY <1>1, PanelPlaces

LEMMA SameOrder ==
  ASSUME PoolInv, S' = S, nt' = nt
  PROVE  /\ LevelSets' = LevelSets /\ IsSuper(S)' /\ IsOrder(LevelSets, S, nt)'
         /\ Workers' = Workers
         /\ lv' = lv => Level' = Level /\ Wide' = Wide
<1>1. LevelSets' = LevelSets
  BY DEF LevelSets
<1>2. IsSuper(S)'
  <2> SUFFICES IsSuper(S')
    BY DEF IsSuper
  <2> QED
    BY DEF PoolInv
<1>3. IsOrder(LevelSets, S, nt)'
  <2> SUFFICES IsOrder(LevelSets', S', nt')
    BY DEF IsOrder, FillsIn, Sooner, Fill, Reaches
  <2> QED
    BY <1>1 DEF PoolInv
<1>4. lv' = lv => Level' = Level
  BY <1>1 DEF Level
<1>5. lv' = lv => Wide' = Wide
  BY <1>4 DEF Wide
<1> QED
  BY <1>1, <1>2, <1>3, <1>4, <1>5 DEF Workers

\* Between levels all workers are finished, and stay so.
LEMMA StayFinished ==
  ASSUME PoolInv, ~Pooled, ~Pooled', stop => stop',
         DOMAIN worker' = DOMAIN worker,
         \A w \in DOMAIN worker : /\ Finished(w)' /\ worker'[w].J = worker[w].J
                                  /\ worker'[w].at = "ended" => worker[w].at = "ended"
  PROVE  SharedOut' /\ Counted'
<1>1. \A w \in DOMAIN worker : ~At(w, "factor") /\ worker[w].J = -1
  BY DEF PoolInv, Counted, SharedOut, Finished, At
<1>2. \A w \in DOMAIN worker : ~At(w, "factor")'
  BY DEF Finished, At
<1>3. \A w \in DOMAIN worker : worker'[w].J = -1
  BY <1>1
<1>4. SharedOut'
  BY <1>2, <1>3 DEF SharedOut
<1>5. \A w \in DOMAIN worker : At(w, "ended")' => stop'
  BY DEF PoolInv, Counted, At
<1> QED
  BY <1>4, <1>5 DEF Counted

LEMMA MainFactorsKeeps ==
  ASSUME PoolInv, MainFactors
  PROVE  PoolInv'
<1>1. /\ main = "levels" /\ lv <= Len(LevelSets) /\ ~Wide /\ main' = "alone"
      /\ S' = S /\ nt' = nt /\ lv' = lv /\ stop' = stop /\ worker' = worker
      /\ generation' = generation /\ doneCount' = doneCount /\ workIdx' = workIdx
  BY DEF MainFactors, LevelsLeft
<1>2. PICK k \in RawIn(Level) : /\ \A o \in RawIn(Level) : k <= o
                                /\ panel' = [panel EXCEPT ![Level[k]] = "busy"]
  BY DEF MainFactors
<1>3. /\ LevelSets' = LevelSets /\ IsSuper(S)' /\ IsOrder(LevelSets, S, nt)'
      /\ Workers' = Workers /\ Level' = Level /\ Wide' = Wide
  BY <1>1, SameOrder
<1>4. /\ lv \in 1 .. Len(LevelSets) /\ Level = LevelSets[lv] /\ Len(Level) \in Nat
      /\ \A a \in 1 .. Len(Level) : Level[a] \in DOMAIN panel
      /\ \A a, b \in 1 .. Len(Level) : Level[a] = Level[b] => a = b
      /\ \A l \in 1 .. Len(LevelSets) : \A a \in 1 .. Len(LevelSets[l]) :
           l # lv => \A b \in 1 .. Len(Level) : LevelSets[l][a] # Level[b]
  BY <1>1, LevelPlaces
<1>5. /\ PoolTyped /\ InTheirTurn /\ MainInPlace /\ SharedOut /\ Counted
      /\ ~Pooled /\ ~Pooled' /\ ~stop
  BY <1>1 DEF PoolInv, Pooled, MainInPlace
<1>6. DOMAIN Level = 1 .. Len(Level)
  <2>1. Level \in Seq(DOMAIN S.cols)
    BY <1>4 DEF PoolInv, IsOrder
  <2> QED
    BY <2>1
<1>7. k \in 1 .. Len(Level) /\ panel[Level[k]] = "raw"
      /\ \A o \in 1 .. Len(Level) : panel[Level[o]] = "raw" => k <= o
  BY <1>2, <1>6 DEF RawIn
<1>8. \A J \in DOMAIN panel : panel'[J] = IF J = Level[k] THEN "busy" ELSE panel[J]
  BY <1>2
<1>9. PoolTyped'
  BY <1>1, <1>2, <1>3, <1>4, <1>5, <1>7 DEF PoolTyped
<1>10. InTheirTurn'
  <2>1. ASSUME NEW l \in 1 .. Len(LevelSets), NEW a \in 1 .. Len(LevelSets[l])
        PROVE  /\ l < lv => panel'[LevelSets[l][a]] = "factored"
               /\ l > lv => panel'[LevelSets[l][a]] = "raw"
    <3>1. l # lv => panel'[LevelSets[l][a]] = panel[LevelSets[l][a]]
      BY <1>2, <1>4, <1>7
    <3>2. (l < lv \/ l > lv) => l # lv
      BY <1>4
    <3> QED
      BY <1>5, <3>1, <3>2 DEF InTheirTurn
  <2>2. ASSUME NEW a \in 1 .. Len(Level), NEW b \in 1 .. Len(Level), a < b, panel'[Level[b]] # "raw"
        PROVE  panel'[Level[a]] = "factored"
    <3>1. /\ \A x, y \in 1 .. Len(Level) :
               x < y /\ panel[Level[y]] # "raw" => panel[Level[x]] = "factored"
          /\ \A J \in DOMAIN panel : panel[J] # "busy" /\ panel[J] \in {"raw", "busy", "factored"}
      BY <1>1, <1>5 DEF InTheirTurn, MainInPlace, PoolTyped
    <3>2. panel[Level[a]] = "factored"
      <4>1. CASE b = k
        <5>1. panel[Level[a]] # "raw"
          BY <1>7, <2>2, <4>1
        <5> QED
          BY <1>4, <3>1, <5>1
      <4>2. CASE b # k
        BY <1>4, <1>7, <1>8, <2>2, <3>1, <4>2
      <4> QED
        BY <4>1, <4>2
    <3>3. Level[a] # Level[k]
      BY <1>7, <3>2
    <3> QED
      BY <1>4, <1>8, <3>2, <3>3
  <2> QED
    BY <1>1, <1>3, <2>1, <2>2 DEF InTheirTurn
<1>11. MainInPlace'
  BY <1>1, <1>3, <1>5 DEF MainInPlace, Pooled
<1>12. SharedOut' /\ Counted'
  <2>1. \A w \in DOMAIN worker : Finished(w)'
    BY <1>1, <1>5 DEF Counted, Finished
  <2> QED
    BY <1>1, <1>5, <2>1, StayFinished
<1> QED
  BY <1>3, <1>9, <1>10, <1>11, <1>12 DEF PoolInv

LEMMA MainFactoredKeeps ==
  ASSUME PoolInv, MainFactored
  PROVE  PoolInv'
<1>1. /\ main = "alone" /\ main' = "levels"
      /\ S' = S /\ nt' = nt /\ lv' = lv /\ stop' = stop /\ worker' = worker
      /\ generation' = generation /\ doneCount' = doneCount /\ workIdx' = workIdx
      /\ panel' = [J \in DOMAIN panel |-> IF panel[J] = "busy" THEN "factored" ELSE panel[J]]
  BY DEF MainFactored
<1>2. /\ PoolTyped /\ InTheirTurn /\ MainInPlace /\ SharedOut /\ Counted
      /\ ~Pooled /\ ~Pooled' /\ ~stop /\ lv <= Len(LevelSets) /\ ~Wide
  BY <1>1 DEF PoolInv, Pooled, MainInPlace
<1>3. /\ LevelSets' = LevelSets /\ IsSuper(S)' /\ IsOrder(LevelSets, S, nt)'
      /\ Workers' = Workers /\ Level' = Level /\ Wide' = Wide
  BY <1>1, SameOrder
<1>4. /\ \A a \in 1 .. Len(Level) : Level[a] \in DOMAIN panel
      /\ \A l \in 1 .. Len(LevelSets) :
           \A a \in 1 .. Len(LevelSets[l]) : LevelSets[l][a] \in DOMAIN panel
  BY <1>2, LevelPlaces, PanelPlaces
<1>5. \A J \in DOMAIN panel :
        panel'[J] = IF panel[J] = "busy" THEN "factored" ELSE panel[J]
  BY <1>1
<1>6. PoolTyped'
  <2>1. panel' \in [DOMAIN S.cols -> {"raw", "busy", "factored"}]
    BY <1>1, <1>2 DEF PoolTyped
  <2> QED
    BY <1>1, <1>2, <1>3, <2>1 DEF PoolTyped
<1>7. InTheirTurn'
  <2>1. ASSUME NEW l \in 1 .. Len(LevelSets), NEW a \in 1 .. Len(LevelSets[l])
        PROVE  /\ l < lv => panel'[LevelSets[l][a]] = "factored"
               /\ l > lv => panel'[LevelSets[l][a]] = "raw"
    BY <1>2, <1>4, <1>5 DEF InTheirTurn
  <2>2. ASSUME NEW a \in 1 .. Len(Level), NEW b \in 1 .. Len(Level), a < b, panel'[Level[b]] # "raw"
        PROVE  panel'[Level[a]] = "factored"
    <3>1. panel[Level[b]] # "raw"
      BY <1>4, <1>5, <2>2
    <3>2. panel[Level[a]] = "factored"
      BY <1>2, <2>2, <3>1 DEF InTheirTurn
    <3> QED
      BY <1>4, <1>5, <3>2
  <2> QED
    BY <1>1, <1>3, <2>1, <2>2 DEF InTheirTurn
<1>8. MainInPlace'
  <2>1. \A J \in DOMAIN panel' : panel'[J] # "busy"
    BY <1>1
  <2> QED
    BY <1>1, <1>2, <1>3, <2>1 DEF MainInPlace, Pooled
<1>9. SharedOut' /\ Counted'
  <2>1. \A w \in DOMAIN worker : Finished(w)'
    BY <1>1, <1>2 DEF Counted, Finished
  <2> QED
    BY <1>1, <1>2, <2>1, StayFinished
<1> QED
  BY <1>3, <1>6, <1>7, <1>8, <1>9 DEF PoolInv

\* A level whose panels are all factored is left behind.
LEMMA LevelBehind ==
  ASSUME PoolInv, lv <= Len(LevelSets), lv' = lv + 1, S' = S, nt' = nt, panel' = panel,
         \A a \in 1 .. Len(Level) : panel[Level[a]] = "factored"
  PROVE  /\ InTheirTurn' /\ lv' \in Nat \ {0} /\ lv' <= Len(LevelSets') + 1
         /\ \A J \in DOMAIN panel : panel[J] # "busy"
         /\ lv' <= Len(LevelSets') => \A a \in 1 .. Len(Level') : panel'[Level'[a]] = "raw"
<1>1. LevelSets' = LevelSets
  BY SameOrder
<1>2. /\ lv \in 1 .. Len(LevelSets) /\ Level = LevelSets[lv] /\ Len(LevelSets) \in Nat
      /\ \A J \in DOMAIN panel : \E l \in 1 .. Len(LevelSets) :
           \E a \in 1 .. Len(LevelSets[l]) : LevelSets[l][a] = J
  BY LevelPlaces, PanelPlaces
<1>3. \A l \in 1 .. Len(LevelSets) : \A a \in 1 .. Len(LevelSets[l]) :
        /\ l < lv => panel[LevelSets[l][a]] = "factored"
        /\ l > lv => panel[LevelSets[l][a]] = "raw"
  BY DEF PoolInv, InTheirTurn
<1>4. ASSUME NEW l \in 1 .. Len(LevelSets), NEW a \in 1 .. Len(LevelSets[l])
      PROVE  /\ l < lv + 1 => panel[LevelSets[l][a]] = "factored"
             /\ l >= lv + 1 => panel[LevelSets[l][a]] = "raw"
  <2>1. l < lv \/ l = lv \/ l > lv
    BY <1>2
  <2>2. l < lv + 1 => l < lv \/ l = lv
    BY <1>2
  <2>3. l >= lv + 1 => l > lv
    BY <1>2
  <2> QED
    BY <1>2, <1>3, <2>2, <2>3
<1>5. lv' <= Len(LevelSets) =>
        lv' \in 1 .. Len(LevelSets) /\ Level' = LevelSets[lv'] /\ lv' >= lv + 1
  BY <1>1, <1>2 DEF Level
<1>6. lv' <= Len(LevelSets) => \A a \in 1 .. Len(Level') : panel'[Level'[a]] = "raw"
  BY <1>4, <1>5
<1>7. ASSUME NEW l \in 1 .. Len(LevelSets), NEW a \in 1 .. Len(LevelSets[l])
      PROVE  /\ l < lv' => panel'[LevelSets[l][a]] = "factored"
             /\ l > lv' => panel'[LevelSets[l][a]] = "raw"
  <2>1. l > lv' => l >= lv + 1
    BY <1>2
  <2> QED
    BY <1>4, <2>1
<1>8. InTheirTurn'
  BY <1>1, <1>6, <1>7 DEF InTheirTurn
<1>9. \A J \in DOMAIN panel : panel[J] # "busy"
  <2> SUFFICES ASSUME NEW J \in DOMAIN panel PROVE panel[J] # "busy"
    OBVIOUS
  <2>1. PICK l \in 1 .. Len(LevelSets) : \E a \in 1 .. Len(LevelSets[l]) : LevelSets[l][a] = J
    BY <1>2
  <2>2. PICK a \in 1 .. Len(LevelSets[l]) : LevelSets[l][a] = J
    BY <2>1
  <2>3. l < lv + 1 \/ l >= lv + 1
    BY <1>2
  <2> QED
    BY <1>4, <2>2, <2>3
<1> QED
  BY <1>1, <1>2, <1>6, <1>8, <1>9

LEMMA NextLevelKeeps ==
  ASSUME PoolInv, NextLevel
  PROVE  PoolInv'
<1>1. /\ main = "levels" /\ lv <= Len(LevelSets) /\ ~Wide /\ main' = main /\ lv' = lv + 1
      /\ S' = S /\ nt' = nt /\ stop' = stop /\ worker' = worker /\ panel' = panel
      /\ generation' = generation /\ doneCount' = doneCount /\ workIdx' = workIdx
      /\ RawIn(Level) = {}
  BY DEF NextLevel, LevelsLeft
<1>2. /\ PoolTyped /\ InTheirTurn /\ MainInPlace /\ SharedOut /\ Counted
      /\ ~Pooled /\ ~Pooled' /\ ~stop
  BY <1>1 DEF PoolInv, Pooled, MainInPlace
<1>3. LevelSets' = LevelSets /\ IsSuper(S)' /\ IsOrder(LevelSets, S, nt)' /\ Workers' = Workers
  BY <1>1, SameOrder
<1>4. \A a \in 1 .. Len(Level) : panel[Level[a]] = "factored"
  <2>1. Level \in Seq(DOMAIN S.cols)
    BY <1>1, LevelPlaces DEF PoolInv, IsOrder
  <2>2. DOMAIN Level = 1 .. Len(Level)
    BY <2>1
  <2>3. \A a \in 1 .. Len(Level) : panel[Level[a]] # "raw"
    BY <1>1, <2>2 DEF RawIn
  <2>4. \A J \in DOMAIN panel : panel[J] # "busy" /\ panel[J] \in {"raw", "busy", "factored"}
    BY <1>1, <1>2 DEF MainInPlace, PoolTyped
  <2>5. \A a \in 1 .. Len(Level) : Level[a] \in DOMAIN panel
    BY <1>1, LevelPlaces
  <2> QED
    BY <2>3, <2>4, <2>5
<1>5. /\ InTheirTurn' /\ lv' \in Nat \ {0} /\ lv' <= Len(LevelSets') + 1
      /\ \A J \in DOMAIN panel : panel[J] # "busy"
      /\ lv' <= Len(LevelSets') => \A a \in 1 .. Len(Level') : panel'[Level'[a]] = "raw"
  BY <1>1, <1>4, LevelBehind
<1>6. PoolTyped'
  BY <1>1, <1>2, <1>3, <1>5 DEF PoolTyped
<1>7. MainInPlace'
  BY <1>1, <1>2, <1>5 DEF MainInPlace, Pooled
<1>8. SharedOut' /\ Counted'
  <2>1. \A w \in DOMAIN worker : Finished(w)'
    BY <1>1, <1>2 DEF Counted, Finished
  <2> QED
    BY <1>1, <1>2, <2>1, StayFinished
<1> QED
  BY <1>3, <1>5, <1>6, <1>7, <1>8 DEF PoolInv

LEMMA DispatchKeeps ==
  ASSUME PoolInv, Dispatch
  PROVE  PoolInv'
<1>1. /\ main = "levels" /\ lv <= Len(LevelSets) /\ Wide /\ main' = "asleep" /\ lv' = lv
      /\ S' = S /\ nt' = nt /\ stop' = stop /\ panel' = panel /\ worker' = NotifyAll
      /\ generation' = generation + 1 /\ doneCount' = 0 /\ workIdx' = 0
  BY DEF Dispatch, LevelsLeft
<1>2. /\ PoolTyped /\ InTheirTurn /\ MainInPlace /\ SharedOut /\ Counted
      /\ ~Pooled /\ Pooled' /\ ~stop
  BY <1>1 DEF PoolInv, Pooled, MainInPlace
<1>3. /\ LevelSets' = LevelSets /\ IsSuper(S)' /\ IsOrder(LevelSets, S, nt)'
      /\ Workers' = Workers /\ Level' = Level /\ Wide' = Wide
  BY <1>1, SameOrder
<1>4. DOMAIN worker = Workers /\ generation \in Nat /\ nt \in Nat
      /\ \A w \in Workers : /\ worker[w] \in [at : {"check", "asleep", "claim", "factor", "count", "ended"},
                                              seen : Nat, J : DOMAIN S.cols \cup {-1}]
                            /\ worker[w].seen = generation /\ worker[w].at \in {"check", "asleep"}
                            /\ worker[w].J = -1
  <2>1. ~(nt <= 1)
    BY <1>1, <1>2 DEF Wide, PoolTyped
  <2>2. /\ worker \in [Workers -> [at : {"check", "asleep", "claim", "factor", "count", "ended"},
                                   seen : Nat, J : DOMAIN S.cols \cup {-1}]]
        /\ generation \in Nat /\ nt \in Nat
    BY <1>2, <2>1 DEF PoolTyped
  <2>3. \A w \in DOMAIN worker : Finished(w) /\ worker[w].at # "ended" /\ worker[w].J = -1
    BY <1>2 DEF Counted, SharedOut, Finished, At
  <2> QED
    BY <2>2, <2>3 DEF Finished
<1>5. /\ DOMAIN worker' = Workers
      /\ worker' \in [Workers -> [at : {"check", "asleep", "claim", "factor", "count", "ended"},
                                  seen : Nat, J : DOMAIN S.cols \cup {-1}]]
      /\ \A w \in Workers : /\ worker'[w].at = "check" /\ worker'[w].seen = generation
                            /\ worker'[w].J = -1
  <2>1. worker' = [w \in Workers |-> IF At(w, "asleep") THEN [worker[w] EXCEPT !.at = "check"]
                                                        ELSE worker[w]]
    BY <1>1 DEF NotifyAll
  <2> QED
    BY <1>4, <2>1 DEF At
<1>6. PoolTyped'
  <2>1. ~(nt <= 1)
    BY <1>1, <1>2 DEF Wide, PoolTyped
  <2> QED
    BY <1>1, <1>2, <1>3, <1>5, <2>1 DEF PoolTyped
<1>7. InTheirTurn'
  BY <1>1, <1>2, <1>3 DEF InTheirTurn
<1>8. MainInPlace'
  BY <1>1, <1>2, <1>3 DEF MainInPlace, Pooled
<1>9. SharedOut'
  <2>1. \A a \in 1 .. Len(Level) : panel[Level[a]] = "raw" /\ a > 0
    BY <1>1, <1>2 DEF MainInPlace
  <2>2. \A w \in DOMAIN worker' : ~At(w, "factor")' /\ ~At(w, "count")' /\ worker'[w].J = -1
    BY <1>5 DEF At
  <2>3. \A w \in DOMAIN worker' : ~Finished(w)'
    BY <1>1, <1>4, <1>5 DEF Finished
  <2> QED
    BY <1>1, <1>3, <2>1, <2>2, <2>3 DEF SharedOut
<1>10. Counted'
  <2>1. \A w \in DOMAIN worker' : ~Finished(w)' /\ Waiting(w)' /\ ~At(w, "ended")'
    BY <1>1, <1>4, <1>5 DEF Finished, Waiting, At
  <2>2. {w \in DOMAIN worker' : Finished(w)'} = {}
    BY <2>1
  <2>3. doneCount' = Cardinality({w \in DOMAIN worker' : Finished(w)'})
    BY <1>1, <2>2, FS_EmptySet
  <2> QED
    BY <1>2, <2>1, <2>3 DEF Counted
<1> QED
  BY <1>3, <1>6, <1>7, <1>8, <1>9, <1>10 DEF PoolInv

\* All workers of a pool are done when as many as there are have been counted.
LEMMA AllCounted ==
  ASSUME PoolInv, Pooled, doneCount = nt
  PROVE  /\ \A w \in DOMAIN worker : Finished(w)
         /\ \A a \in 1 .. Len(Level) : panel[Level[a]] = "factored"
<1>1. /\ lv <= Len(LevelSets) /\ Wide /\ nt \in Nat /\ nt > 1 /\ DOMAIN worker = Workers
      /\ \A J \in DOMAIN panel : panel[J] \in {"raw", "busy", "factored"}
  BY DEF PoolInv, MainInPlace, Wide, PoolTyped
<1>2. /\ Len(Level) \in Nat /\ \A a \in 1 .. Len(Level) : Level[a] \in DOMAIN panel
  BY <1>1, LevelPlaces
<1> DEFINE through == {w \in DOMAIN worker : Finished(w)}
           all == Workers
<1>3. IsFiniteSet(all) /\ Cardinality(all) = nt
  BY <1>1, FS_Interval DEF Workers
<1>4. through \in SUBSET all /\ Cardinality(through) = nt
  BY <1>1 DEF PoolInv, Counted
<1> HIDE DEF through, all
<1>5. through = all
  BY <1>3, <1>4, FS_Subset
<1>6. \A w \in DOMAIN worker : Finished(w)
  BY <1>1, <1>5 DEF through, all
<1>7. workIdx >= Len(Level) /\ workIdx \in Nat
  <2>1. 1 \in DOMAIN worker
    BY <1>1 DEF Workers
  <2> QED
    BY <1>6, <2>1 DEF PoolInv, SharedOut, PoolTyped
<1>8. \A w \in DOMAIN worker : ~At(w, "factor")
  BY <1>6 DEF Finished, At
<1>9. \A a \in 1 .. Len(Level) : panel[Level[a]] # "raw" /\ panel[Level[a]] # "busy"
  <2>1. \A a \in 1 .. Len(Level) : ~(a > workIdx)
    BY <1>2, <1>7
  <2> QED
    BY <1>8, <2>1 DEF PoolInv, SharedOut
<1> QED
  BY <1>1, <1>2, <1>6, <1>9

LEMMA LevelDoneKeeps ==
  ASSUME PoolInv, LevelDone
  PROVE  PoolInv'
<1>1. /\ main = "awake"
      /\ S' = S /\ nt' = nt /\ stop' = stop /\ worker' = worker /\ panel' = panel
      /\ generation' = generation /\ doneCount' = doneCount /\ workIdx' = workIdx
      /\ doneCount = nt => lv' = lv + 1 /\ main' = "levels"
      /\ doneCount # nt => lv' = lv /\ main' = "asleep"
  BY DEF LevelDone
<1>2. /\ PoolTyped /\ InTheirTurn /\ MainInPlace /\ SharedOut /\ Counted
      /\ Pooled /\ ~stop /\ lv <= Len(LevelSets) /\ Wide
  BY <1>1 DEF PoolInv, Pooled, MainInPlace
<1>3. /\ LevelSets' = LevelSets /\ IsSuper(S)' /\ IsOrder(LevelSets, S, nt)' /\ Workers' = Workers
      /\ lv' = lv => Level' = Level /\ Wide' = Wide
  BY <1>1, SameOrder
<1>4. CASE doneCount = nt
  <2>1. /\ \A w \in DOMAIN worker : Finished(w)
        /\ \A a \in 1 .. Len(Level) : panel[Level[a]] = "factored"
    BY <1>2, <1>4, AllCounted
  <2>2. /\ InTheirTurn' /\ lv' \in Nat \ {0} /\ lv' <= Len(LevelSets') + 1
        /\ \A J \in DOMAIN panel : panel[J] # "busy"
        /\ lv' <= Len(LevelSets') => \A a \in 1 .. Len(Level') : panel'[Level'[a]] = "raw"
    BY <1>1, <1>2, <1>4, <2>1, LevelBehind
  <2>3. PoolTyped'
    BY <1>1, <1>2, <1>3, <1>4, <2>2 DEF PoolTyped
  <2>4. MainInPlace'
    BY <1>1, <1>2, <1>4, <2>2 DEF MainInPlace, Pooled
  <2>5. \A w \in DOMAIN worker : ~At(w, "factor")
    BY <2>1 DEF Finished, At
  <2>6. ~Pooled'
    BY <1>1, <1>4 DEF Pooled
  <2>7. SharedOut'
    BY <1>1, <1>2, <2>5, <2>6 DEF SharedOut, At
  <2>8. Counted'
    BY <1>1, <1>2, <2>1, <2>6 DEF Counted, Finished, At
  <2> QED
    BY <1>3, <2>2, <2>3, <2>4, <2>7, <2>8 DEF PoolInv
<1>5. CASE doneCount # nt
  <2>1. PoolTyped'
    BY <1>1, <1>2, <1>3, <1>5 DEF PoolTyped
  <2>2. InTheirTurn'
    BY <1>1, <1>2, <1>3, <1>5 DEF InTheirTurn
  <2>3. Pooled' /\ MainInPlace'
    BY <1>1, <1>2, <1>3, <1>5 DEF MainInPlace, Pooled
  <2>4. /\ \A w, p : At(w, p)' <=> At(w, p)
        /\ \A w : Finished(w)' <=> Finished(w)
        /\ \A w : Working(w)' <=> Working(w)
        /\ \A w : Waiting(w)' <=> Waiting(w)
    BY <1>1 DEF At, Finished, Working, Waiting
  <2>5. SharedOut'
    BY <1>1, <1>2, <1>3, <1>5, <2>3, <2>4 DEF SharedOut
  <2>6. Counted'
    <3>1. {w \in DOMAIN worker' : Finished(w)'} = {w \in DOMAIN worker : Finished(w)}
      BY <1>1, <2>4
    <3> QED
      BY <1>1, <1>2, <2>3, <2>4, <3>1 DEF Counted
  <2> QED
    BY <1>3, <2>1, <2>2, <2>3, <2>5, <2>6 DEF PoolInv
<1> QED
  BY <1>4, <1>5

LEMMA StopWorkersKeeps ==
  ASSUME PoolInv, StopWorkers
  PROVE  PoolInv'
<1>1. /\ main = "levels" /\ lv > Len(LevelSets) /\ main' = "join" /\ lv' = lv /\ stop' = TRUE
      /\ S' = S /\ nt' = nt /\ panel' = panel /\ worker' = [w \in DOMAIN worker |-> NotifyAll[w]]
      /\ generation' = generation /\ doneCount' = doneCount /\ workIdx' = workIdx
  BY DEF StopWorkers
<1>2. /\ PoolTyped /\ InTheirTurn /\ MainInPlace /\ SharedOut /\ Counted /\ ~Pooled /\ ~Pooled'
  BY <1>1 DEF PoolInv, Pooled
<1>3. /\ LevelSets' = LevelSets /\ IsSuper(S)' /\ IsOrder(LevelSets, S, nt)'
      /\ Workers' = Workers /\ Level' = Level /\ Wide' = Wide
  BY <1>1, SameOrder
<1>4. lv = Len(LevelSets) + 1 /\ ~(lv <= Len(LevelSets))
  BY <1>1, <1>2, PanelPlaces DEF PoolTyped
<1> DEFINE places == [at : {"check", "asleep", "claim", "factor", "count", "ended"},
                      seen : Nat, J : DOMAIN S.cols \cup {-1}]
           pool == IF nt <= 1 THEN {} ELSE Workers
<1>5. worker \in [pool -> places] /\ DOMAIN worker = pool /\ pool \subseteq Workers
  BY <1>2 DEF PoolTyped
<1> HIDE DEF places, pool
<1>6. \A w \in DOMAIN worker :
        worker'[w] = IF At(w, "asleep") THEN [worker[w] EXCEPT !.at = "check"] ELSE worker[w]
  BY <1>1, <1>5 DEF NotifyAll
<1>7. /\ DOMAIN worker' = DOMAIN worker /\ worker' \in [pool -> places]
      /\ \A w \in DOMAIN worker :
           /\ worker'[w].at = IF At(w, "asleep") THEN "check" ELSE worker[w].at
           /\ worker'[w].seen = worker[w].seen /\ worker'[w].J = worker[w].J
  <2>1. ASSUME NEW w \in DOMAIN worker
        PROVE  /\ worker'[w] \in places
               /\ worker'[w].at = IF At(w, "asleep") THEN "check" ELSE worker[w].at
               /\ worker'[w].seen = worker[w].seen /\ worker'[w].J = worker[w].J
    BY <1>5, <1>6 DEF places
  <2> QED
    BY <1>1, <1>5, <2>1
<1>8. PoolTyped'
  <2>1. worker' \in [IF nt' <= 1 THEN {} ELSE Workers' ->
                       [at : {"check", "asleep", "claim", "factor", "count", "ended"},
                        seen : Nat, J : DOMAIN S'.cols \cup {-1}]]
    BY <1>1, <1>3, <1>7 DEF pool, places
  <2> QED
    BY <1>1, <1>2, <1>3, <2>1 DEF PoolTyped
<1>9. InTheirTurn'
  BY <1>1, <1>2, <1>3 DEF InTheirTurn
<1>10. MainInPlace'
  BY <1>1, <1>2, <1>3, <1>4 DEF MainInPlace, Pooled
<1>11. SharedOut' /\ Counted'
  <2>1. \A w \in DOMAIN worker : Finished(w)'
    BY <1>1, <1>2, <1>7 DEF Counted, Finished
  <2>2. \A w \in DOMAIN worker : worker'[w].at = "ended" => worker[w].at = "ended"
    BY <1>7
  <2> QED
    BY <1>1, <1>2, <1>7, <2>1, <2>2, StayFinished
<1> QED
  BY <1>3, <1>8, <1>9, <1>10, <1>11 DEF PoolInv

LEMMA JoinKeeps ==
  ASSUME PoolInv, Join
  PROVE  PoolInv'
<1>1. /\ main = "join" /\ main' = "returned" /\ lv' = lv /\ stop' = stop
      /\ S' = S /\ nt' = nt /\ panel' = panel /\ worker' = worker
      /\ generation' = generation /\ doneCount' = doneCount /\ workIdx' = workIdx
  BY DEF Join
<1>2. /\ PoolTyped /\ InTheirTurn /\ MainInPlace /\ SharedOut /\ Counted /\ ~Pooled /\ ~Pooled'
  BY <1>1 DEF PoolInv, Pooled
<1>3. /\ LevelSets' = LevelSets /\ IsSuper(S)' /\ IsOrder(LevelSets, S, nt)'
      /\ Workers' = Workers /\ Level' = Level /\ Wide' = Wide
  BY <1>1, SameOrder
<1>4. PoolTyped' /\ InTheirTurn'
  BY <1>1, <1>2, <1>3 DEF PoolTyped, InTheirTurn
<1>5. MainInPlace'
  BY <1>1, <1>2, <1>3 DEF MainInPlace, Pooled
<1>6. SharedOut' /\ Counted'
  <2>1. \A w \in DOMAIN worker : Finished(w)'
    BY <1>1, <1>2 DEF Counted, Finished
  <2> QED
    BY <1>1, <1>2, <2>1, StayFinished
<1> QED
  BY <1>3, <1>4, <1>5, <1>6 DEF PoolInv

Places == [at : {"check", "asleep", "claim", "factor", "count", "ended"},
           seen : Nat, J : DOMAIN S.cols \cup {-1}]

\* One worker comes to another place.
LEMMA OneWorker ==
  ASSUME PoolInv, S' = S, nt' = nt, generation' = generation,
         NEW w \in DOMAIN worker, NEW r \in Places, worker' = [worker EXCEPT ![w] = r]
  PROVE  /\ DOMAIN worker' = DOMAIN worker /\ worker'[w] = r
         /\ worker' \in [IF nt' <= 1 THEN {} ELSE Workers' ->
                           [at : {"check", "asleep", "claim", "factor", "count", "ended"},
                            seen : Nat, J : DOMAIN S'.cols \cup {-1}]]
         /\ \A v \in DOMAIN worker : v # w =>
              /\ worker'[v] = worker[v]
              /\ \A p : At(v, p)' <=> At(v, p)
              /\ (Finished(v)' <=> Finished(v)) /\ (Working(v)' <=> Working(v))
              /\ (Waiting(v)' <=> Waiting(v))
<1> DEFINE pool == IF nt <= 1 THEN {} ELSE Workers
           pool1 == IF nt' <= 1 THEN {} ELSE Workers'
<1>1. worker \in [pool -> Places]
  BY DEF PoolInv, PoolTyped, Places
<1>2. pool1 = pool /\ Places' = Places
  BY SameOrder DEF Places
<1> HIDE DEF pool, pool1
<1>3. worker' \in [pool -> Places] /\ worker'[w] = r /\ DOMAIN worker' = DOMAIN worker
      /\ \A v \in DOMAIN worker : v # w => worker'[v] = worker[v]
  BY <1>1
<1>4. worker' \in [pool1 -> Places']
  BY <1>2, <1>3
<1>5. ASSUME NEW v \in DOMAIN worker, v # w
      PROVE  /\ \A p : At(v, p)' <=> At(v, p)
             /\ (Finished(v)' <=> Finished(v)) /\ (Working(v)' <=> Working(v))
             /\ (Waiting(v)' <=> Waiting(v))
  BY <1>3, <1>5 DEF At, Finished, Working, Waiting
<1> QED
  BY <1>3, <1>4, <1>5 DEF pool1, Places

\* The step of a worker leaves main's part as it is, when it leaves the panels alone.
LEMMA MainUndisturbed ==
  ASSUME PoolInv, S' = S, nt' = nt, lv' = lv, panel' = panel, stop' = stop,
         main' = main \/ (Pooled /\ Pooled')
  PROVE  InTheirTurn' /\ MainInPlace'
<1>1. /\ LevelSets' = LevelSets /\ Level' = Level /\ Wide' = Wide
  BY SameOrder
<1>2. InTheirTurn /\ MainInPlace
  BY DEF PoolInv
<1>3. InTheirTurn'
  BY <1>1, <1>2 DEF InTheirTurn
<1>4. MainInPlace'
  <2>1. CASE main' = main
    BY <1>1, <1>2, <2>1 DEF MainInPlace, Pooled
  <2>2. CASE Pooled /\ Pooled'
    BY <1>1, <1>2, <2>2 DEF MainInPlace, Pooled
  <2> QED
    BY <2>1, <2>2
<1> QED
  BY <1>3, <1>4

LEMMA CheckKeeps ==
  ASSUME PoolInv, NEW w \in DOMAIN worker, Check(w)
  PROVE  PoolInv'
<1>1. /\ worker[w].at = "check" /\ main' = main /\ lv' = lv /\ stop' = stop
      /\ S' = S /\ nt' = nt /\ panel' = panel
      /\ generation' = generation /\ doneCount' = doneCount /\ workIdx' = workIdx
  BY DEF Check, At
<1>2. /\ PoolTyped /\ SharedOut /\ Counted /\ (Pooled' <=> Pooled)
      /\ worker[w] \in Places /\ generation \in Nat /\ worker[w].J = -1
  <2>1. PoolTyped /\ SharedOut /\ Counted
    BY DEF PoolInv
  <2>2. worker[w] \in Places /\ generation \in Nat
    BY <2>1 DEF PoolTyped, Places
  <2>3. ~At(w, "factor")
    BY <1>1 DEF At
  <2> QED
    BY <1>1, <2>1, <2>2, <2>3 DEF SharedOut, Pooled
<1>3. /\ LevelSets' = LevelSets /\ IsSuper(S)' /\ IsOrder(LevelSets, S, nt)' /\ Workers' = Workers
      /\ Level' = Level /\ Wide' = Wide
  BY <1>1, SameOrder
<1>4. PICK r \in Places :
        /\ worker' = [worker EXCEPT ![w] = r] /\ r.J = -1
        /\ \/ stop /\ r.at = "ended" /\ r.seen = worker[w].seen
           \/ ~stop /\ generation = worker[w].seen /\ r.at = "asleep" /\ r.seen = worker[w].seen
           \/ ~stop /\ generation # worker[w].seen /\ r.at = "claim" /\ r.seen = generation
  <2>1. CASE stop /\ Move(w, "ended")
    <3> DEFINE r == [worker[w] EXCEPT !.at = "ended"]
    <3>1. r \in Places /\ r.J = -1 /\ r.at = "ended" /\ r.seen = worker[w].seen
      BY <1>2 DEF Places
    <3>2. worker' = [worker EXCEPT ![w] = r]
      BY <2>1 DEF Move
    <3> QED
      BY <2>1, <3>1, <3>2
  <2>2. CASE ~stop /\ generation = worker[w].seen /\ Move(w, "asleep")
    <3> DEFINE r == [worker[w] EXCEPT !.at = "asleep"]
    <3>1. r \in Places /\ r.J = -1 /\ r.at = "asleep" /\ r.seen = worker[w].seen
      BY <1>2 DEF Places
    <3>2. worker' = [worker EXCEPT ![w] = r]
      BY <2>2 DEF Move
    <3> QED
      BY <2>2, <3>1, <3>2
  <2>3. CASE /\ ~stop /\ generation # worker[w].seen
             /\ worker' = [worker EXCEPT ![w].at = "claim", ![w].seen = generation]
    <3> DEFINE r == [[worker[w] EXCEPT !.at = "claim"] EXCEPT !.seen = generation]
    <3>1. r \in Places /\ r.J = -1 /\ r.at = "claim" /\ r.seen = generation
      BY <1>2 DEF Places
    <3>2. worker' = [worker EXCEPT ![w] = r]
      BY <1>2, <2>3 DEF Places
    <3> QED
      BY <2>3, <3>1, <3>2
  <2> QED
    BY <2>1, <2>2, <2>3 DEF Check
<1>5. /\ DOMAIN worker' = DOMAIN worker /\ worker'[w] = r
      /\ worker' \in [IF nt' <= 1 THEN {} ELSE Workers' ->
                        [at : {"check", "asleep", "claim", "factor", "count", "ended"},
                         seen : Nat, J : DOMAIN S'.cols \cup {-1}]]
      /\ \A v \in DOMAIN worker : v # w =>
           /\ worker'[v] = worker[v]
           /\ \A p : At(v, p)' <=> At(v, p)
           /\ (Finished(v)' <=> Finished(v)) /\ (Working(v)' <=> Working(v))
           /\ (Waiting(v)' <=> Waiting(v))
  BY <1>1, <1>4, OneWorker
<1>6. PoolTyped'
  BY <1>1, <1>2, <1>3, <1>5 DEF PoolTyped
<1>7. InTheirTurn' /\ MainInPlace'
  BY <1>1, MainUndisturbed
<1>8. /\ Finished(w)' <=> Finished(w)
      /\ ~Finished(w) => Waiting(w) /\ Working(w)'
      /\ Finished(w) <=> worker[w].seen = generation
      /\ ~At(w, "factor")' /\ ~At(w, "factor") /\ ~At(w, "count")' /\ worker'[w].J = -1
      /\ ~Pooled => Finished(w)
      /\ At(w, "ended")' => stop
  <2>1. ~Pooled => Finished(w)
    BY <1>2 DEF Counted
  <2>2. stop => Finished(w)
    BY <2>1 DEF PoolInv, MainInPlace, Pooled
  <2>3. Finished(w) <=> worker[w].seen = generation
    BY <1>1 DEF Finished
  <2>4. CASE stop /\ r.at = "ended" /\ r.seen = worker[w].seen
    BY <1>1, <1>4, <1>5, <2>1, <2>2, <2>3, <2>4 DEF Finished, Working, Waiting, At
  <2>5. CASE ~stop /\ generation = worker[w].seen /\ r.at = "asleep" /\ r.seen = worker[w].seen
    BY <1>1, <1>4, <1>5, <2>1, <2>2, <2>3, <2>5 DEF Finished, Working, Waiting, At
  <2>6. CASE ~stop /\ generation # worker[w].seen /\ r.at = "claim" /\ r.seen = generation
    BY <1>1, <1>4, <1>5, <2>1, <2>2, <2>3, <2>6 DEF Finished, Working, Waiting, At
  <2> QED
    BY <1>4, <2>4, <2>5, <2>6
<1>9. SharedOut'
  <2>1. \A v \in DOMAIN worker : At(v, "factor")' <=> At(v, "factor")
    BY <1>5, <1>8
  <2>2. \A v \in DOMAIN worker : worker'[v].J = worker[v].J
    BY <1>2, <1>5, <1>8
  <2>3. \A v \in DOMAIN worker : Finished(v)' \/ At(v, "count")' => Finished(v) \/ At(v, "count")
    BY <1>5, <1>8
  <2> QED
    BY <1>1, <1>2, <1>3, <1>5, <2>1, <2>2, <2>3 DEF SharedOut
<1>10. Counted'
  <2>1. \A v \in DOMAIN worker : Finished(v)' <=> Finished(v)
    BY <1>5, <1>8
  <2>2. {v \in DOMAIN worker' : Finished(v)'} = {v \in DOMAIN worker : Finished(v)}
    BY <1>5, <2>1
  <2>3. \A v \in DOMAIN worker : At(v, "ended")' => stop
    BY <1>2, <1>5, <1>8 DEF Counted
  <2>4. ASSUME Pooled, NEW v \in DOMAIN worker
        PROVE  Finished(v)' \/ Working(v)' \/ Waiting(v)'
    BY <1>2, <1>5, <1>8, <2>4 DEF Counted
  <2> QED
    BY <1>1, <1>2, <1>5, <2>1, <2>2, <2>3, <2>4 DEF Counted
<1> QED
  BY <1>3, <1>6, <1>7, <1>9, <1>10 DEF PoolInv

\* A worker at a panel of a level, or between two of them.
LEMMA AtWork ==
  ASSUME PoolInv, NEW w \in DOMAIN worker, worker[w].at \in {"claim", "factor", "count"}
  PROVE  /\ Pooled /\ Working(w) /\ ~Finished(w) /\ ~stop /\ lv <= Len(LevelSets) /\ Wide
         /\ nt \in Nat /\ nt > 1 /\ DOMAIN worker = Workers
         /\ workIdx \in Nat /\ doneCount \in Nat /\ generation \in Nat
         /\ worker[w] \in Places /\ worker[w].seen = generation
         /\ doneCount = Cardinality({v \in DOMAIN worker : Finished(v)})
<1>1. PoolTyped /\ MainInPlace /\ Counted
  BY DEF PoolInv
<1>2. ~Finished(w) /\ ~Waiting(w)
  BY DEF Finished, Waiting
<1>3. Pooled
  BY <1>1, <1>2 DEF Counted
<1>4. Working(w) /\ doneCount = Cardinality({v \in DOMAIN worker : Finished(v)})
  BY <1>1, <1>2, <1>3 DEF Counted
<1>5. lv <= Len(LevelSets) /\ Wide /\ ~stop
  BY <1>1, <1>3 DEF MainInPlace, Pooled
<1>6. nt \in Nat /\ nt > 1 /\ workIdx \in Nat /\ doneCount \in Nat /\ generation \in Nat
  BY <1>1, <1>5 DEF PoolTyped, Wide
<1>7. DOMAIN worker = Workers /\ worker[w] \in Places
  <2>1. worker \in [Workers -> Places]
    BY <1>1, <1>6 DEF PoolTyped, Places
  <2> QED
    BY <2>1
<1> QED
  BY <1>2, <1>3, <1>4, <1>5, <1>6, <1>7 DEF Working

\* Who works before and after a step is not counted by it.
LEMMA NotCounted ==
  ASSUME PoolInv, NEW w \in DOMAIN worker, Pooled, Pooled', stop' = stop, doneCount' = doneCount,
         DOMAIN worker' = DOMAIN worker, Working(w), Working(w)',
         \A v \in DOMAIN worker : v # w =>
           /\ \A p : At(v, p)' <=> At(v, p)
           /\ (Finished(v)' <=> Finished(v)) /\ (Working(v)' <=> Working(v))
           /\ (Waiting(v)' <=> Waiting(v))
  PROVE  Counted'
<1>1. ~Finished(w) /\ ~Finished(w)' /\ ~At(w, "ended")'
  BY DEF Working, Finished, At
<1>2. {v \in DOMAIN worker' : Finished(v)'} = {v \in DOMAIN worker : Finished(v)}
  BY <1>1
<1>3. \A v \in DOMAIN worker : Finished(v)' \/ Working(v)' \/ Waiting(v)'
  BY DEF PoolInv, Counted
<1>4. \A v \in DOMAIN worker : At(v, "ended")' => stop'
  BY <1>1 DEF PoolInv, Counted
<1>5. doneCount' = Cardinality({v \in DOMAIN worker' : Finished(v)'})
  BY <1>2 DEF PoolInv, Counted
<1> QED
  BY <1>3, <1>4, <1>5 DEF Counted

LEMMA ClaimKeeps ==
  ASSUME PoolInv, NEW w \in DOMAIN worker, Claim(w)
  PROVE  PoolInv'
<1>1. /\ worker[w].at = "claim" /\ main' = main /\ lv' = lv /\ stop' = stop
      /\ S' = S /\ nt' = nt /\ generation' = generation /\ doneCount' = doneCount
      /\ workIdx' = workIdx + 1
  BY DEF Claim, At
<1>2. /\ Pooled /\ Pooled' /\ Working(w) /\ ~stop /\ lv <= Len(LevelSets) /\ Wide
      /\ workIdx \in Nat /\ worker[w] \in Places /\ worker[w].seen = generation
  BY <1>1, AtWork DEF Pooled
<1>3. /\ LevelSets' = LevelSets /\ IsSuper(S)' /\ IsOrder(LevelSets, S, nt)' /\ Workers' = Workers
      /\ Level' = Level /\ Wide' = Wide
  BY <1>1, SameOrder
<1>4. /\ PoolTyped /\ InTheirTurn /\ MainInPlace /\ SharedOut /\ Counted
      /\ \A v \in DOMAIN worker :
           At(v, "factor") => \E a \in 1 .. Len(Level) : a <= workIdx /\ worker[v].J = Level[a]
      /\ worker[w].J = -1 /\ ~At(w, "factor")
  <2>1. ~At(w, "factor")
    BY <1>1 DEF At
  <2> QED
    BY <2>1 DEF PoolInv, SharedOut
<1>5. /\ lv \in 1 .. Len(LevelSets) /\ Level = LevelSets[lv] /\ Len(Level) \in Nat
      /\ \A a \in 1 .. Len(Level) : Level[a] \in DOMAIN panel /\ Level[a] # -1
      /\ \A a, b \in 1 .. Len(Level) : Level[a] = Level[b] => a = b
      /\ \A l \in 1 .. Len(LevelSets) : \A a \in 1 .. Len(LevelSets[l]) :
           l # lv => \A b \in 1 .. Len(Level) : LevelSets[l][a] # Level[b]
  BY <1>2, LevelPlaces
<1>6. CASE workIdx < Len(Level)
  <2> DEFINE top == workIdx + 1
             K == Level[top]
             r == [[worker[w] EXCEPT !.at = "factor"] EXCEPT !.J = K]
  <2>1. top \in 1 .. Len(Level) /\ K \in DOMAIN panel
    BY <1>2, <1>5, <1>6
  <2>2. K \in DOMAIN S.cols
    BY <1>4, <2>1 DEF PoolTyped
  <2>3. /\ r \in Places /\ r.at = "factor" /\ r.J = K /\ r.seen = generation
    BY <1>2, <2>2 DEF Places
  <2>4. worker' = [worker EXCEPT ![w] = r] /\ panel' = [panel EXCEPT ![K] = "busy"]
    BY <1>2, <1>6 DEF Claim, Places
  <2> HIDE DEF r
  <2>5. /\ DOMAIN worker' = DOMAIN worker /\ worker'[w] = r
        /\ worker' \in [IF nt' <= 1 THEN {} ELSE Workers' ->
                          [at : {"check", "asleep", "claim", "factor", "count", "ended"},
                           seen : Nat, J : DOMAIN S'.cols \cup {-1}]]
        /\ \A v \in DOMAIN worker : v # w =>
             /\ worker'[v] = worker[v]
             /\ \A p : At(v, p)' <=> At(v, p)
             /\ (Finished(v)' <=> Finished(v)) /\ (Working(v)' <=> Working(v))
             /\ (Waiting(v)' <=> Waiting(v))
    BY <1>1, <2>3, <2>4, OneWorker
  <2>6. Working(w)' /\ At(w, "factor")' /\ ~At(w, "count")' /\ ~Finished(w)' /\ worker'[w].J = K
    BY <1>1, <2>3, <2>5 DEF Working, Finished, At
  <2>7. \A J \in DOMAIN panel : panel'[J] = IF J = K THEN "busy" ELSE panel[J]
    BY <2>4
  <2>8. DOMAIN panel' = DOMAIN panel /\ panel' \in [DOMAIN S.cols -> {"raw", "busy", "factored"}]
    BY <1>4, <2>4 DEF PoolTyped
  <2>9. \A a \in 1 .. Len(Level) :
          panel'[Level[a]] = IF a = top THEN "busy" ELSE panel[Level[a]]
    BY <1>5, <2>1, <2>7
  <2> HIDE DEF K, top
  <2>10. PoolTyped'
    BY <1>1, <1>2, <1>3, <1>4, <2>5, <2>8 DEF PoolTyped
  <2>11. InTheirTurn'
    <3>1. ASSUME NEW l \in 1 .. Len(LevelSets), NEW a \in 1 .. Len(LevelSets[l])
          PROVE  /\ l < lv => panel'[LevelSets[l][a]] = "factored"
                 /\ l > lv => panel'[LevelSets[l][a]] = "raw"
      <4>1. l # lv => panel'[LevelSets[l][a]] = panel[LevelSets[l][a]]
        BY <1>5, <2>1, <2>4 DEF K
      <4>2. (l < lv \/ l > lv) => l # lv
        BY <1>5
      <4> QED
        BY <1>4, <4>1, <4>2 DEF InTheirTurn
    <3> QED
      BY <1>1, <1>2, <1>3, <3>1 DEF InTheirTurn
  <2>12. MainInPlace'
    BY <1>1, <1>2, <1>3, <1>4 DEF MainInPlace, Pooled
  <2>13. SharedOut'
    <3>1. ASSUME NEW v \in DOMAIN worker
          PROVE  /\ At(v, "factor")' =>
                      \E a \in 1 .. Len(Level) : a <= workIdx' /\ worker'[v].J = Level[a]
                 /\ ~At(v, "factor")' => worker'[v].J = -1
      <4>1. CASE v = w
        BY <1>1, <1>2, <2>1, <2>6, <4>1 DEF K, top
      <4>2. CASE v # w
        <5>1. ~At(v, "factor")' => worker'[v].J = -1
          BY <1>4, <2>5, <4>2 DEF SharedOut
        <5>2. ASSUME At(v, "factor")'
              PROVE  \E a \in 1 .. Len(Level) : a <= workIdx' /\ worker'[v].J = Level[a]
          <6>1. PICK a \in 1 .. Len(Level) : a <= workIdx /\ worker[v].J = Level[a]
            BY <1>4, <2>5, <4>2, <5>2
          <6> QED
            BY <1>1, <1>2, <2>5, <4>2, <6>1
        <5> QED
          BY <5>1, <5>2
      <4> QED
        BY <4>1, <4>2
    <3>2. ASSUME NEW v \in DOMAIN worker, v # w, At(v, "factor")'
          PROVE  worker'[v].J # K
      <4>1. PICK a \in 1 .. Len(Level) : a <= workIdx /\ worker[v].J = Level[a]
        BY <1>4, <2>5, <3>2
      <4>2. a # top
        BY <1>2, <4>1 DEF top
      <4> QED
        BY <1>5, <2>1, <2>5, <3>2, <4>1, <4>2 DEF K
    <3>3. \A u, v \in DOMAIN worker :
            u # v /\ At(u, "factor")' /\ At(v, "factor")' => worker'[u].J # worker'[v].J
      <4>1. ASSUME NEW u \in DOMAIN worker, NEW v \in DOMAIN worker,
                   u # v, At(u, "factor")', At(v, "factor")'
            PROVE  worker'[u].J # worker'[v].J
        <5>1. CASE u = w
          BY <2>6, <3>2, <4>1, <5>1
        <5>2. CASE v = w
          BY <2>6, <3>2, <4>1, <5>2
        <5>3. CASE u # w /\ v # w
          BY <1>4, <2>5, <4>1, <5>3 DEF SharedOut
        <5> QED
          BY <5>1, <5>2, <5>3
      <4> QED
        BY <4>1
    <3>4. ASSUME NEW a \in 1 .. Len(Level)
          PROVE  /\ panel'[Level[a]] = "raw" <=> a > workIdx'
                 /\ panel'[Level[a]] = "busy" =>
                      \E v \in DOMAIN worker : At(v, "factor")' /\ worker'[v].J = Level[a]
      <4>1. CASE a = top
        <5>1. ~(a > workIdx') /\ panel'[Level[a]] = "busy"
          BY <1>1, <1>2, <2>9, <4>1 DEF top
        <5> QED
          BY <2>6, <4>1, <5>1 DEF K
      <4>2. CASE a # top
        <5>1. a > workIdx' <=> a > workIdx
          BY <1>1, <1>2, <4>2 DEF top
        <5>2. panel'[Level[a]] = panel[Level[a]]
          BY <2>9, <4>2
        <5>3. ASSUME panel[Level[a]] = "busy"
              PROVE  \E v \in DOMAIN worker : At(v, "factor")' /\ worker'[v].J = Level[a]
          <6>1. PICK v \in DOMAIN worker : At(v, "factor") /\ worker[v].J = Level[a]
            BY <1>2, <1>4, <5>3 DEF SharedOut
          <6>2. v # w
            BY <1>4, <6>1
          <6> QED
            BY <2>5, <6>1, <6>2
        <5> QED
          BY <1>2, <1>4, <5>1, <5>2, <5>3 DEF SharedOut
      <4> QED
        BY <4>1, <4>2
    <3>5. \A v \in DOMAIN worker : ~(Finished(v)' \/ At(v, "count")')
      <4>1. ~(workIdx >= Len(Level))
        BY <1>2, <1>5, <1>6
      <4>2. \A v \in DOMAIN worker : ~(Finished(v) \/ At(v, "count"))
        BY <1>2, <1>4, <4>1 DEF SharedOut
      <4> QED
        BY <2>5, <2>6, <4>2
    <3> QED
      BY <1>3, <2>5, <3>1, <3>3, <3>4, <3>5 DEF SharedOut
  <2>14. Counted'
    BY <1>1, <1>2, <2>5, <2>6, NotCounted
  <2> QED
    BY <1>3, <2>10, <2>11, <2>12, <2>13, <2>14 DEF PoolInv
<1>7. CASE ~(workIdx < Len(Level))
  <2> DEFINE r == [worker[w] EXCEPT !.at = "count"]
  <2>1. r \in Places /\ r.at = "count" /\ r.J = -1 /\ r.seen = generation
    BY <1>2, <1>4 DEF Places
  <2>2. worker' = [worker EXCEPT ![w] = r] /\ panel' = panel
    BY <1>7 DEF Claim, Move
  <2> HIDE DEF r
  <2>3. /\ DOMAIN worker' = DOMAIN worker /\ worker'[w] = r
        /\ worker' \in [IF nt' <= 1 THEN {} ELSE Workers' ->
                          [at : {"check", "asleep", "claim", "factor", "count", "ended"},
                           seen : Nat, J : DOMAIN S'.cols \cup {-1}]]
        /\ \A v \in DOMAIN worker : v # w =>
             /\ worker'[v] = worker[v]
             /\ \A p : At(v, p)' <=> At(v, p)
             /\ (Finished(v)' <=> Finished(v)) /\ (Working(v)' <=> Working(v))
             /\ (Waiting(v)' <=> Waiting(v))
    BY <1>1, <2>1, <2>2, OneWorker
  <2>4. Working(w)' /\ ~At(w, "factor")' /\ worker'[w].J = -1
    BY <1>1, <2>1, <2>3 DEF Working, At
  <2>5. PoolTyped'
    BY <1>1, <1>2, <1>3, <1>4, <2>2, <2>3 DEF PoolTyped
  <2>6. InTheirTurn' /\ MainInPlace'
    BY <1>1, <2>2, MainUndisturbed
  <2>7. SharedOut'
    <3>1. \A v \in DOMAIN worker : At(v, "factor")' <=> At(v, "factor")
      BY <1>4, <2>3, <2>4
    <3>2. \A v \in DOMAIN worker : worker'[v].J = worker[v].J
      BY <1>4, <2>3, <2>4
    <3>3. \A a \in 1 .. Len(Level) : a <= workIdx /\ a <= workIdx'
      BY <1>1, <1>2, <1>5, <1>7
    <3>4. workIdx' >= Len(Level)
      BY <1>1, <1>2, <1>5, <1>7
    <3>5. \A a \in 1 .. Len(Level) : ~(a > workIdx) /\ ~(a > workIdx')
      BY <1>1, <1>2, <1>5, <1>7
    <3>6. \A v \in DOMAIN worker :
            /\ At(v, "factor")' => \E a \in 1 .. Len(Level) : a <= workIdx' /\ worker'[v].J = Level[a]
            /\ ~At(v, "factor")' => worker'[v].J = -1
      BY <1>4, <3>1, <3>2, <3>3 DEF SharedOut
    <3>7. \A a \in 1 .. Len(Level) :
            /\ panel'[Level[a]] = "raw" <=> a > workIdx'
            /\ panel'[Level[a]] = "busy" =>
                 \E v \in DOMAIN worker : At(v, "factor")' /\ worker'[v].J = Level[a]
      BY <1>2, <1>4, <2>2, <3>1, <3>2, <3>5 DEF SharedOut
    <3>8. \A u, v \in DOMAIN worker :
            u # v /\ At(u, "factor")' /\ At(v, "factor")' => worker'[u].J # worker'[v].J
      BY <1>4, <3>1, <3>2 DEF SharedOut
    <3> QED
      BY <1>3, <2>3, <3>4, <3>6, <3>7, <3>8 DEF SharedOut
  <2>8. Counted'
    BY <1>1, <1>2, <2>3, <2>4, NotCounted
  <2> QED
    BY <1>3, <2>5, <2>6, <2>7, <2>8 DEF PoolInv
<1> QED
  BY <1>6, <1>7

LEMMA PanelFactoredKeeps ==
  ASSUME PoolInv, NEW w \in DOMAIN worker, PanelFactored(w)
  PROVE  PoolInv'
<1>1. /\ worker[w].at = "factor" /\ main' = main /\ lv' = lv /\ stop' = stop
      /\ S' = S /\ nt' = nt /\ generation' = generation /\ doneCount' = doneCount
      /\ workIdx' = workIdx /\ panel' = [panel EXCEPT ![worker[w].J] = "factored"]
      /\ worker' = [worker EXCEPT ![w].at = "claim", ![w].J = -1]
  BY DEF PanelFactored, At
<1>2. /\ Pooled /\ Pooled' /\ Working(w) /\ ~stop /\ lv <= Len(LevelSets) /\ Wide
      /\ workIdx \in Nat /\ worker[w] \in Places /\ worker[w].seen = generation
  BY <1>1, AtWork DEF Pooled
<1>3. /\ LevelSets' = LevelSets /\ IsSuper(S)' /\ IsOrder(LevelSets, S, nt)' /\ Workers' = Workers
      /\ Level' = Level /\ Wide' = Wide
  BY <1>1, SameOrder
<1>4. PoolTyped /\ InTheirTurn /\ MainInPlace /\ SharedOut /\ Counted /\ At(w, "factor")
  BY <1>1 DEF PoolInv, At
<1>5. /\ lv \in 1 .. Len(LevelSets) /\ Level = LevelSets[lv] /\ Len(Level) \in Nat
      /\ \A a \in 1 .. Len(Level) : Level[a] \in DOMAIN panel /\ Level[a] # -1
      /\ \A a, b \in 1 .. Len(Level) : Level[a] = Level[b] => a = b
      /\ \A l \in 1 .. Len(LevelSets) : \A a \in 1 .. Len(LevelSets[l]) :
           l # lv => \A b \in 1 .. Len(Level) : LevelSets[l][a] # Level[b]
  BY <1>2, LevelPlaces
<1>6. PICK k \in 1 .. Len(Level) : k <= workIdx /\ worker[w].J = Level[k]
  BY <1>4 DEF SharedOut
<1> DEFINE r == [[worker[w] EXCEPT !.at = "claim"] EXCEPT !.J = -1]
<1>7. r \in Places /\ r.at = "claim" /\ r.J = -1 /\ r.seen = generation
  BY <1>2 DEF Places
<1>8. worker' = [worker EXCEPT ![w] = r]
  BY <1>1, <1>2 DEF Places
<1> HIDE DEF r
<1>9. /\ DOMAIN worker' = DOMAIN worker /\ worker'[w] = r
      /\ worker' \in [IF nt' <= 1 THEN {} ELSE Workers' ->
                        [at : {"check", "asleep", "claim", "factor", "count", "ended"},
                         seen : Nat, J : DOMAIN S'.cols \cup {-1}]]
      /\ \A v \in DOMAIN worker : v # w =>
           /\ worker'[v] = worker[v]
           /\ \A p : At(v, p)' <=> At(v, p)
           /\ (Finished(v)' <=> Finished(v)) /\ (Working(v)' <=> Working(v))
           /\ (Waiting(v)' <=> Waiting(v))
  BY <1>1, <1>7, <1>8, OneWorker
<1>10. /\ Working(w)' /\ ~At(w, "factor")' /\ ~At(w, "count")' /\ ~Finished(w)'
       /\ worker'[w].J = -1
  BY <1>1, <1>7, <1>9 DEF Working, Finished, At
<1>11. /\ DOMAIN panel' = DOMAIN panel /\ panel' \in [DOMAIN S.cols -> {"raw", "busy", "factored"}]
       /\ \A J \in DOMAIN panel : panel'[J] = IF J = Level[k] THEN "factored" ELSE panel[J]
  BY <1>1, <1>4, <1>6 DEF PoolTyped
<1>12. \A a \in 1 .. Len(Level) :
         panel'[Level[a]] = IF a = k THEN "factored" ELSE panel[Level[a]]
  BY <1>5, <1>11
<1>13. PoolTyped'
  BY <1>1, <1>2, <1>3, <1>4, <1>9, <1>11 DEF PoolTyped
<1>14. InTheirTurn'
  <2>1. ASSUME NEW l \in 1 .. Len(LevelSets), NEW a \in 1 .. Len(LevelSets[l])
        PROVE  /\ l < lv => panel'[LevelSets[l][a]] = "factored"
               /\ l > lv => panel'[LevelSets[l][a]] = "raw"
    <3>1. l # lv => panel'[LevelSets[l][a]] = panel[LevelSets[l][a]]
      BY <1>1, <1>5, <1>6
    <3>2. (l < lv \/ l > lv) => l # lv
      BY <1>5
    <3> QED
      BY <1>4, <3>1, <3>2 DEF InTheirTurn
  <2> QED
    BY <1>1, <1>2, <1>3, <2>1 DEF InTheirTurn
<1>15. MainInPlace'
  BY <1>1, <1>2, <1>3, <1>4 DEF MainInPlace, Pooled
<1>16. SharedOut'
  <2>1. ASSUME NEW v \in DOMAIN worker
        PROVE  /\ At(v, "factor")' =>
                    \E a \in 1 .. Len(Level) : a <= workIdx' /\ worker'[v].J = Level[a]
               /\ ~At(v, "factor")' => worker'[v].J = -1
    BY <1>1, <1>4, <1>9, <1>10 DEF SharedOut
  <2>2. \A u, v \in DOMAIN worker :
          u # v /\ At(u, "factor")' /\ At(v, "factor")' => worker'[u].J # worker'[v].J
    BY <1>4, <1>9, <1>10 DEF SharedOut
  <2>3. ASSUME NEW a \in 1 .. Len(Level)
        PROVE  /\ panel'[Level[a]] = "raw" <=> a > workIdx'
               /\ panel'[Level[a]] = "busy" =>
                    \E v \in DOMAIN worker : At(v, "factor")' /\ worker'[v].J = Level[a]
    <3>1. CASE a = k
      <4>1. ~(a > workIdx') /\ panel'[Level[a]] = "factored"
        BY <1>1, <1>2, <1>6, <1>12, <3>1
      <4> QED
        BY <4>1
    <3>2. CASE a # k
      <4>1. panel'[Level[a]] = panel[Level[a]]
        BY <1>12, <3>2
      <4>2. ASSUME panel[Level[a]] = "busy"
            PROVE  \E v \in DOMAIN worker : At(v, "factor")' /\ worker'[v].J = Level[a]
        <5>1. PICK v \in DOMAIN worker : At(v, "factor") /\ worker[v].J = Level[a]
          BY <1>2, <1>4, <4>2 DEF SharedOut
        <5>2. v # w
          BY <1>5, <1>6, <3>2, <5>1
        <5> QED
          BY <1>9, <5>1, <5>2
      <4> QED
        BY <1>1, <1>2, <1>4, <4>1, <4>2 DEF SharedOut
    <3> QED
      BY <3>1, <3>2
  <2>4. \A v \in DOMAIN worker : Finished(v)' \/ At(v, "count")' => workIdx >= Len(Level)
    BY <1>2, <1>4, <1>9, <1>10 DEF SharedOut
  <2> QED
    BY <1>1, <1>3, <1>9, <2>1, <2>2, <2>3, <2>4 DEF SharedOut
<1>17. Counted'
  BY <1>1, <1>2, <1>9, <1>10, NotCounted
<1> QED
  BY <1>3, <1>13, <1>14, <1>15, <1>16, <1>17 DEF PoolInv

LEMMA CountKeeps ==
  ASSUME PoolInv, NEW w \in DOMAIN worker, Count(w)
  PROVE  PoolInv'
<1>1. /\ worker[w].at = "count" /\ lv' = lv /\ stop' = stop
      /\ S' = S /\ nt' = nt /\ generation' = generation /\ doneCount' = doneCount + 1
      /\ workIdx' = workIdx /\ panel' = panel /\ main' \in {main, "awake"}
      /\ worker' = [worker EXCEPT ![w].at = "check"]
  BY DEF Count, At, Move
<1>2. /\ Pooled /\ Pooled' /\ Working(w) /\ ~Finished(w) /\ ~stop /\ workIdx \in Nat
      /\ doneCount \in Nat /\ doneCount = Cardinality({v \in DOMAIN worker : Finished(v)})
      /\ worker[w] \in Places /\ worker[w].seen = generation /\ nt \in Nat /\ DOMAIN worker = Workers
  BY <1>1, AtWork DEF Pooled
<1>3. /\ LevelSets' = LevelSets /\ IsSuper(S)' /\ IsOrder(LevelSets, S, nt)' /\ Workers' = Workers
      /\ Level' = Level /\ Wide' = Wide
  BY <1>1, SameOrder
<1>4. /\ PoolTyped /\ SharedOut /\ Counted /\ worker[w].J = -1 /\ ~At(w, "factor")
      /\ workIdx >= Len(Level)
  <2>1. ~At(w, "factor") /\ At(w, "count")
    BY <1>1 DEF At
  <2> QED
    BY <1>2, <2>1 DEF PoolInv, SharedOut
<1> DEFINE r == [worker[w] EXCEPT !.at = "check"]
<1>5. r \in Places /\ r.at = "check" /\ r.J = -1 /\ r.seen = generation
  BY <1>2, <1>4 DEF Places
<1>6. worker' = [worker EXCEPT ![w] = r]
  BY <1>1
<1> HIDE DEF r
<1>7. /\ DOMAIN worker' = DOMAIN worker /\ worker'[w] = r
      /\ worker' \in [IF nt' <= 1 THEN {} ELSE Workers' ->
                        [at : {"check", "asleep", "claim", "factor", "count", "ended"},
                         seen : Nat, J : DOMAIN S'.cols \cup {-1}]]
      /\ \A v \in DOMAIN worker : v # w =>
           /\ worker'[v] = worker[v]
           /\ \A p : At(v, p)' <=> At(v, p)
           /\ (Finished(v)' <=> Finished(v)) /\ (Working(v)' <=> Working(v))
           /\ (Waiting(v)' <=> Waiting(v))
  BY <1>1, <1>5, <1>6, OneWorker
<1>8. Finished(w)' /\ ~At(w, "factor")' /\ ~At(w, "ended")' /\ worker'[w].J = -1
  BY <1>1, <1>5, <1>7 DEF Finished, At
<1>9. PoolTyped'
  <2>1. main' \in {"levels", "alone", "asleep", "awake", "join", "returned"}
    BY <1>1, <1>4 DEF PoolTyped
  <2>2. doneCount' \in Nat
    BY <1>1, <1>2
  <2> QED
    BY <1>1, <1>3, <1>4, <1>7, <2>1, <2>2 DEF PoolTyped
<1>10. InTheirTurn' /\ MainInPlace'
  BY <1>1, <1>2, MainUndisturbed
<1>11. SharedOut'
  <2>1. \A v \in DOMAIN worker : At(v, "factor")' <=> At(v, "factor")
    BY <1>4, <1>7, <1>8
  <2>2. \A v \in DOMAIN worker : worker'[v].J = worker[v].J
    BY <1>4, <1>7, <1>8
  <2> QED
    BY <1>1, <1>2, <1>3, <1>4, <1>7, <2>1, <2>2 DEF SharedOut
<1>12. Counted'
  <2> DEFINE through == {v \in DOMAIN worker : Finished(v)}
             through1 == {v \in DOMAIN worker' : Finished(v)'}
             all == Workers
  <2>1. through1 = through \cup {w}
    BY <1>7, <1>8
  <2>2. through \subseteq all /\ w \notin through
    BY <1>2
  <2>3. IsFiniteSet(all)
    BY <1>2, FS_Interval DEF Workers
  <2>4. doneCount = Cardinality(through)
    BY <1>2
  <2>5. \A v \in DOMAIN worker : At(v, "ended")' => stop'
    BY <1>1, <1>4, <1>7, <1>8 DEF Counted
  <2>6. \A v \in DOMAIN worker : Finished(v)' \/ Working(v)' \/ Waiting(v)'
    BY <1>2, <1>4, <1>7, <1>8 DEF Counted
  <2> HIDE DEF through, through1, all
  <2>7. IsFiniteSet(through)
    BY <2>2, <2>3, FS_Subset
  <2>8. Cardinality(through1) = Cardinality(through) + 1
    BY <2>1, <2>2, <2>7, FS_AddElement
  <2>9. doneCount' = Cardinality(through1)
    BY <1>1, <2>4, <2>8
  <2> QED
    BY <1>2, <1>7, <2>5, <2>6, <2>9 DEF Counted, through1
<1> QED
  BY <1>3, <1>9, <1>10, <1>11, <1>12 DEF PoolInv

LEMMA StutterKeeps ==
  ASSUME PoolInv, UNCHANGED snVars
  PROVE  PoolInv'
<1>1. /\ S' = S /\ nt' = nt /\ panel' = panel /\ main' = main /\ lv' = lv /\ stop' = stop
      /\ generation' = generation /\ doneCount' = doneCount /\ workIdx' = workIdx
      /\ worker' = worker
  BY DEF snVars
<1>2. /\ LevelSets' = LevelSets /\ IsSuper(S)' /\ IsOrder(LevelSets, S, nt)' /\ Workers' = Workers
      /\ Level' = Level /\ Wide' = Wide
  BY <1>1, SameOrder
<1>3. PoolTyped /\ SharedOut /\ Counted /\ (Pooled' <=> Pooled)
  BY <1>1 DEF PoolInv, Pooled
<1>4. PoolTyped'
  BY <1>1, <1>2, <1>3 DEF PoolTyped
<1>5. InTheirTurn' /\ MainInPlace'
  BY <1>1, MainUndisturbed
<1>6. /\ \A w, p : At(w, p)' <=> At(w, p)
      /\ \A w : Finished(w)' <=> Finished(w)
      /\ \A w : Working(w)' <=> Working(w)
      /\ \A w : Waiting(w)' <=> Waiting(w)
  BY <1>1 DEF At, Finished, Working, Waiting
<1>7. SharedOut'
  BY <1>1, <1>2, <1>3, <1>6 DEF SharedOut
<1>8. Counted'
  <2>1. {w \in DOMAIN worker' : Finished(w)'} = {w \in DOMAIN worker : Finished(w)}
    BY <1>1, <1>6
  <2> QED
    BY <1>1, <1>3, <1>6, <2>1 DEF Counted
<1> QED
  BY <1>2, <1>4, <1>5, <1>7, <1>8 DEF PoolInv

LEMMA WidestIsNatural ==
  ASSUME NEW s, IsSuper(s)
  PROVE  Widest(s) \in Nat
<1> DEFINE levels == s.levels
           T == DOMAIN levels
           f == [l \in T |-> Len(levels[l])]
<1>1. levels = Schedule(s, 2)
  BY DEF Schedule
<1>2. IsOrder(levels, s, 2)
  BY <1>1, ScheduleOrders
<1>3. 0 \in DOMAIN s.cols
  BY DEF IsSuper, Starts, ColsOf
<1> HIDE DEF levels
<1>4. /\ Len(levels) \in Nat /\ T = 1 .. Len(levels) /\ T # {}
      /\ \A l \in T : levels[l] \in Seq(DOMAIN s.cols)
  BY <1>2, <1>3 DEF IsOrder
<1>5. \A l \in T : f[l] \in Nat
  BY <1>4
<1>6. T \in SUBSET (0 .. Len(levels))
  BY <1>4
<1>7. {f[l] : l \in T} = {Len(levels[l]) : l \in T}
  OBVIOUS
<1> HIDE DEF f, T
<1>8. Max({f[l] : l \in T}) \in Nat
  BY <1>4, <1>5, <1>6, GreatestValue
<1> QED
  BY <1>7, <1>8 DEF Widest, T, levels

LEMMA FactorStarts ==
  ASSUME FactorInit
  PROVE  PoolInv
<1>1. IsSuper(S)
  BY FactorsSuper
<1>2. nt \in Nat
  BY <1>1, WidestIsNatural, SnFactorAssumption DEF FactorInit
<1>3. IsOrder(LevelSets, S, nt)
  BY <1>1, <1>2, ScheduleOrders, OrderIsSchedule
<1> DEFINE pool == IF nt <= 1 THEN {} ELSE Workers
<1>4. /\ panel = [J \in DOMAIN S.cols |-> "raw"] /\ main = "levels" /\ lv = 1
      /\ generation = 0 /\ doneCount = 0 /\ workIdx = 0 /\ stop = FALSE
      /\ worker = [w \in pool |-> [at |-> "check", seen |-> 0, J |-> -1]]
  BY DEF FactorInit
<1> HIDE DEF pool
<1>5. Len(LevelSets) \in Nat
      /\ \A l \in 1 .. Len(LevelSets) : \A a \in 1 .. Len(LevelSets[l]) :
           LevelSets[l][a] \in DOMAIN S.cols
  <2>1. Len(LevelSets) \in Nat /\ \A l \in 1 .. Len(LevelSets) : LevelSets[l] \in Seq(DOMAIN S.cols)
    BY <1>3 DEF IsOrder
  <2>2. ASSUME NEW l \in 1 .. Len(LevelSets)
        PROVE  \A a \in 1 .. Len(LevelSets[l]) : LevelSets[l][a] \in DOMAIN S.cols
    <3> DEFINE list == LevelSets[l]
    <3>1. list \in Seq(DOMAIN S.cols)
      BY <2>1
    <3> HIDE DEF list
    <3>2. \A a \in 1 .. Len(list) : list[a] \in DOMAIN S.cols
      BY <3>1
    <3> QED
      BY <3>2 DEF list
  <2> QED
    BY <2>1, <2>2
<1>6. PoolTyped
  <2>1. worker \in [IF nt <= 1 THEN {} ELSE Workers ->
                      [at : {"check", "asleep", "claim", "factor", "count", "ended"},
                       seen : Nat, J : DOMAIN S.cols \cup {-1}]]
    BY <1>4 DEF pool
  <2>2. panel \in [DOMAIN S.cols -> {"raw", "busy", "factored"}]
    BY <1>4
  <2>3. lv \in Nat \ {0} /\ lv <= Len(LevelSets) + 1
    BY <1>4, <1>5
  <2>4. /\ generation \in Nat /\ doneCount \in Nat /\ workIdx \in Nat /\ stop \in BOOLEAN
        /\ main \in {"levels", "alone", "asleep", "awake", "join", "returned"}
    BY <1>4
  <2> QED
    BY <1>2, <2>1, <2>2, <2>3, <2>4 DEF PoolTyped
<1>7. \A l \in 1 .. Len(LevelSets) : \A a \in 1 .. Len(LevelSets[l]) : panel[LevelSets[l][a]] = "raw"
  BY <1>4, <1>5
<1>8. lv <= Len(LevelSets) => \A a \in 1 .. Len(Level) : panel[Level[a]] = "raw"
  BY <1>4, <1>5, <1>7 DEF Level
<1>9. InTheirTurn
  <2>1. \A l \in 1 .. Len(LevelSets) : ~(l < lv)
    BY <1>4
  <2> QED
    BY <1>7, <1>8, <2>1 DEF InTheirTurn
<1>10. \A J \in DOMAIN panel : panel[J] # "busy"
  BY <1>4
<1>11. ~Pooled /\ MainInPlace
  BY <1>4, <1>8, <1>10 DEF MainInPlace, Pooled
<1>12. \A w \in DOMAIN worker : /\ Finished(w) /\ ~At(w, "factor") /\ ~At(w, "ended")
                                /\ worker[w].J = -1
  BY <1>4 DEF Finished, At
<1>13. SharedOut /\ Counted
  BY <1>11, <1>12 DEF SharedOut, Counted
<1> QED
  BY <1>1, <1>3, <1>6, <1>9, <1>11, <1>13 DEF PoolInv

LEMMA FactorKeeps ==
  ASSUME PoolInv, [FactorNext]_snVars
  PROVE  PoolInv'
<1>1. CASE MainStep
  BY <1>1, MainFactorsKeeps, MainFactoredKeeps, NextLevelKeeps, DispatchKeeps, LevelDoneKeeps,
     StopWorkersKeeps, JoinKeeps DEF MainStep
<1>2. CASE \E w \in DOMAIN worker : WorkerStep(w)
  BY <1>2, CheckKeeps, ClaimKeeps, PanelFactoredKeeps, CountKeeps DEF WorkerStep
<1>3. CASE UNCHANGED snVars
  BY <1>3, StutterKeeps
<1> QED
  BY <1>1, <1>2, <1>3 DEF FactorNext

\* What the invariant says of the panels.
LEMMA PoolIsReady ==
  ASSUME PoolInv
  PROVE  PanelsAreReady
<1>1. /\ -1 \notin DOMAIN panel /\ Len(LevelSets) \in Nat
      /\ \A l \in 1 .. Len(LevelSets) :
           \A a \in 1 .. Len(LevelSets[l]) : LevelSets[l][a] \in DOMAIN panel
      /\ \A J \in DOMAIN panel : \E l \in 1 .. Len(LevelSets) :
           \E a \in 1 .. Len(LevelSets[l]) : LevelSets[l][a] = J
  BY PanelPlaces
<1>2. PoolTyped /\ InTheirTurn /\ MainInPlace /\ SharedOut
  BY DEF PoolInv
<1>3. ASSUME NEW J \in DOMAIN panel, panel[J] = "busy", NEW K \in DOMAIN panel, K < J, Fills(K, J)
      PROVE  panel[K] = "factored"
  <2>1. PICK l \in 1 .. Len(LevelSets) : \E a \in 1 .. Len(LevelSets[l]) : LevelSets[l][a] = J
    BY <1>1
  <2>2. PICK a \in 1 .. Len(LevelSets[l]) : LevelSets[l][a] = J
    BY <2>1
  <2>3. PICK m \in 1 .. Len(LevelSets) : \E b \in 1 .. Len(LevelSets[m]) : LevelSets[m][b] = K
    BY <1>1
  <2>4. PICK b \in 1 .. Len(LevelSets[m]) : LevelSets[m][b] = K
    BY <2>3
  <2>5. l = lv
    <3>1. ~(l < lv) /\ ~(l > lv)
      BY <1>2, <1>3, <2>2 DEF InTheirTurn
    <3>2. l \in Int /\ lv \in Int
      BY <1>1, <1>2 DEF PoolTyped
    <3> QED
      BY <3>1, <3>2
  <2>6. FillsIn(S, K, J)
    BY <1>3 DEF Fills, FillsIn
  <2>7. Sooner(nt, m, b, l, a)
    <3>1. \A x, y \in 1 .. Len(LevelSets) :
            \A c \in 1 .. Len(LevelSets[x]), d \in 1 .. Len(LevelSets[y]) :
              LevelSets[y][d] < LevelSets[x][c] /\ FillsIn(S, LevelSets[y][d], LevelSets[x][c]) =>
                Sooner(nt, y, d, x, c)
      BY DEF PoolInv, IsOrder
    <3>2. LevelSets[m][b] < LevelSets[l][a] /\ FillsIn(S, LevelSets[m][b], LevelSets[l][a])
      BY <1>3, <2>2, <2>4, <2>6
    <3> HIDE DEF Sooner, FillsIn
    <3> QED
      BY <3>1, <3>2
  <2>8. CASE m < l
    BY <1>2, <2>4, <2>5, <2>8 DEF InTheirTurn
  <2>9. CASE nt <= 1 /\ m = l /\ b < a
    <3>1. ~Wide /\ lv <= Len(LevelSets)
      BY <1>1, <1>2, <2>5, <2>9 DEF Wide, PoolTyped
    <3>2. Level = LevelSets[lv] /\ a \in 1 .. Len(Level) /\ b \in 1 .. Len(Level)
      BY <2>5, <2>9 DEF Level
    <3>3. panel[Level[a]] # "raw" /\ Level[b] = K
      BY <1>3, <2>2, <2>4, <2>5, <2>9, <3>2
    <3> QED
      BY <1>2, <2>9, <3>1, <3>2, <3>3 DEF InTheirTurn
  <2> QED
    BY <2>7, <2>8, <2>9 DEF Sooner
<1>4. ASSUME NEW v \in DOMAIN worker, NEW w \in DOMAIN worker, v # w, At(v, "factor")
      PROVE  worker[v].J # worker[w].J
  <2>1. CASE At(w, "factor")
    BY <1>2, <1>4, <2>1 DEF SharedOut
  <2>2. CASE ~At(w, "factor")
    <3>1. lv <= Len(LevelSets)
      BY <1>4, AtWork DEF At
    <3>2. worker[v].J # -1
      BY <1>2, <1>4, <3>1, LevelPlaces DEF SharedOut
    <3> QED
      BY <1>2, <2>2, <3>2 DEF SharedOut
  <2> QED
    BY <2>1, <2>2
<1>5. ASSUME main = "returned", NEW J \in DOMAIN panel
      PROVE  panel[J] = "factored"
  <2>1. lv = Len(LevelSets) + 1
    BY <1>2, <1>5 DEF MainInPlace
  <2>2. PICK l \in 1 .. Len(LevelSets) : \E a \in 1 .. Len(LevelSets[l]) : LevelSets[l][a] = J
    BY <1>1
  <2>3. l < lv
    BY <1>1, <2>1
  <2> QED
    BY <1>2, <2>2, <2>3 DEF InTheirTurn
<1> QED
  BY <1>3, <1>4, <1>5 DEF PanelsAreReady

\* However main and the workers are interleaved, with any number of workers: what fills
\* into a panel is factored before the panel is begun, no two workers are ever at the same
\* panel, and no panel is left out when the factorization returns.
THEOREM PanelsAreAlwaysReady == FactorSpec => []PanelsAreReady
<1>1. FactorInit => PoolInv
  BY FactorStarts
<1>2. PoolInv /\ [FactorNext]_snVars => PoolInv'
  BY FactorKeeps
<1>3. PoolInv => PanelsAreReady
  BY PoolIsReady
<1> QED
  BY <1>1, <1>2, <1>3, PTL DEF FactorSpec
=============================================================================
