----------------------------- MODULE FoldLemmas -----------------------------
(***************************************************************************)
(* Folds over a list.  FoldLeft is defined on sets of places, each time     *)
(* through the greatest; what is used of it is the value after each place.  *)
(* Nothing here takes an operator as a parameter: a fold is given by a      *)
(* function of the value so far and the place.                              *)
(***************************************************************************)
EXTENDS Naturals, Sequences, SequencesExt, FiniteSetTheorems, WellFoundedInduction, TLAPS

LEMMA LeastNatural ==
  ASSUME NEW S \in SUBSET Nat, S # {}
  PROVE  \E x \in S : \A y \in S : x <= y
<1>1. PICK x \in S : \A y \in S : <<y, x>> \notin OpToRel(<, Nat)
  BY NatLessThanWellFounded, WFMin
<1>2. \A y \in S : ~ (y < x)
  BY <1>1 DEF OpToRel
<1> QED
  BY <1>2

\* A set of naturals that has 0 and, up to n, the successor of what it has.
LEMMA Ascent ==
  ASSUME NEW n \in Nat, NEW P, 0 \in P, \A k \in 1..n : k - 1 \in P => k \in P
  PROVE  0..n \subseteq P
<1> DEFINE missed == {k \in 0..n : k \notin P}
<1> SUFFICES ASSUME missed # {} PROVE FALSE
  OBVIOUS
<1>0. missed \in SUBSET Nat
  OBVIOUS
<1>1. PICK k \in missed : \A j \in missed : k <= j
  <2> HIDE DEF missed
  <2> QED
    BY <1>0, LeastNatural
<1>2. k \in 1..n /\ k - 1 \in 0..n /\ k - 1 \in Nat /\ k \in Nat /\ k - 1 < k
  OBVIOUS
<1>3. k - 1 \notin missed
  BY <1>1, <1>2
<1> QED
  BY <1>2, <1>3

\* The first k places without the last are the first k - 1.
LEMMA LastPlace ==
  ASSUME NEW k \in Nat \ {0}
  PROVE  Max(1..k) = k /\ (1..k) \ {k} = 1..(k - 1) /\ 1..k # {}
<1>1. k \in 1..k /\ \A y \in 1..k : k >= y
  OBVIOUS
<1>2. \A x \in 1..k : (\A y \in 1..k : x >= y) => x = k
  OBVIOUS
<1> QED
  BY <1>1, <1>2 DEF Max

LEMMA LastOf ==
  ASSUME NEW n \in Nat, NEW S \in SUBSET (1..n), S # {}
  PROVE  Max(S) \in S
<1> DEFINE P == {k \in Nat : \A T \in SUBSET (1..k) : T # {} => \E x \in T : \A y \in T : x >= y}
<1>1. 0 \in P
  <2>1. \A T \in SUBSET (1..0) : T = {}
    OBVIOUS
  <2> QED
    BY <2>1
<1>2. ASSUME NEW k \in 1..n, k - 1 \in P PROVE k \in P
  <2> SUFFICES ASSUME NEW T \in SUBSET (1..k), T # {} PROVE \E x \in T : \A y \in T : x >= y
    OBVIOUS
  <2>1. CASE k \in T
    BY <2>1
  <2>2. CASE k \notin T
    <3>1. T \in SUBSET (1..(k - 1))
      BY <2>2
    <3> QED
      BY <1>2, <3>1
  <2> QED
    BY <2>1, <2>2
<1> HIDE DEF P
<1>3. n \in P
  BY <1>1, <1>2, Ascent
<1> QED
  BY <1>3 DEF P, Max

\* A fold over n places in D: its value on each set of places.
StepsIn(n, D) == [D \X (1..n) -> D]
IsFold(iter, n, D, s, step) ==
  /\ iter \in [SUBSET (1..n) -> D]
  /\ \A S \in SUBSET (1..n) :
       iter[S] = IF S = {} THEN s ELSE step[<<iter[S \ {Max(S)}], Max(S)>>]

LEMMA FoldExists ==
  ASSUME NEW n \in Nat, NEW D, NEW s \in D, NEW step \in StepsIn(n, D)
  PROVE  \E iter : IsFold(iter, n, D, s, step)
<1>0. step \in [D \X (1..n) -> D]
  BY DEF StepsIn
<1> DEFINE Small(m) == {S \in SUBSET (1..n) : Cardinality(S) <= m}
           Good(g, m) == \A S \in Small(m) :
                           g[S] = IF S = {} THEN s ELSE step[<<g[S \ {Max(S)}], Max(S)>>]
           P == {m \in Nat : \E g \in [Small(m) -> D] : Good(g, m)}
<1>1. \A S \in SUBSET (1..n) :
        /\ IsFiniteSet(S) /\ Cardinality(S) \in 0..n
        /\ (S = {} <=> Cardinality(S) = 0)
  <2>1. IsFiniteSet(1..n) /\ Cardinality(1..n) = n
    BY FS_Interval
  <2> SUFFICES ASSUME NEW S \in SUBSET (1..n)
               PROVE  IsFiniteSet(S) /\ Cardinality(S) \in 0..n /\ (S = {} <=> Cardinality(S) = 0)
    OBVIOUS
  <2> DEFINE all == 1..n
  <2>2. IsFiniteSet(all) /\ Cardinality(all) = n /\ S \in SUBSET all
    BY <2>1
  <2> HIDE DEF all
  <2>3. IsFiniteSet(S) /\ Cardinality(S) <= Cardinality(all)
    BY <2>2, FS_Subset
  <2>4. Cardinality(S) \in Nat /\ (Cardinality(S) = 0 <=> S = {})
    BY <2>3, FS_CardinalityType, FS_EmptySet
  <2> QED
    BY <2>2, <2>3, <2>4
<1>2. \A S \in (SUBSET (1..n)) \ {{}} :
        Max(S) \in S /\ Cardinality(S \ {Max(S)}) = Cardinality(S) - 1
  <2> SUFFICES ASSUME NEW S \in (SUBSET (1..n)) \ {{}}
               PROVE  Max(S) \in S /\ Cardinality(S \ {Max(S)}) = Cardinality(S) - 1
    OBVIOUS
  <2>1. Max(S) \in S
    BY LastOf
  <2> QED
    BY <1>1, <2>1, FS_RemoveElement
<1>3. 0 \in P
  <2> DEFINE g == [S \in Small(0) |-> s]
  <2>1. \A S \in Small(0) : S = {}
    BY <1>1
  <2>2. g \in [Small(0) -> D] /\ Good(g, 0)
    BY <2>1
  <2> QED
    BY <2>2
<1>4. ASSUME NEW m \in 1..n, m - 1 \in P
      PROVE  m \in P
  <2>1. PICK g \in [Small(m - 1) -> D] : Good(g, m - 1)
    BY <1>4
  <2> DEFINE h == [S \in Small(m) |->
                     IF S = {} THEN s ELSE step[<<g[S \ {Max(S)}], Max(S)>>]]
  <2>2. \A S \in Small(m) \ {{}} :
          S \ {Max(S)} \in Small(m - 1) /\ <<g[S \ {Max(S)}], Max(S)>> \in D \X (1..n)
    <3> SUFFICES ASSUME NEW S \in Small(m) \ {{}}
                 PROVE  S \ {Max(S)} \in Small(m - 1) /\ Max(S) \in 1..n
      BY <2>1
    <3>1. /\ Max(S) \in S
          /\ Cardinality(S \ {Max(S)}) = Cardinality(S) - 1 /\ Cardinality(S) \in 0..n
      BY <1>1, <1>2
    <3>2. Cardinality(S) <= m /\ S \in SUBSET (1..n) /\ S # {}
      OBVIOUS
    <3>3. Cardinality(S \ {Max(S)}) <= m - 1
      BY <3>1, <3>2
    <3>4. S \ {Max(S)} \in SUBSET (1..n)
      BY <3>2
    <3> QED
      BY <3>1, <3>2, <3>3, <3>4
  <2>3. h \in [Small(m) -> D]
    BY <1>0, <2>2
  <2>4. \A S \in Small(m - 1) : S \in Small(m) /\ h[S] = g[S]
    <3> SUFFICES ASSUME NEW S \in Small(m - 1) PROVE S \in Small(m) /\ h[S] = g[S]
      OBVIOUS
    <3>1. S \in Small(m)
      BY <1>1
    <3>2. g[S] = IF S = {} THEN s ELSE step[<<g[S \ {Max(S)}], Max(S)>>]
      BY <2>1
    <3> QED
      BY <3>1, <3>2
  <2>5. Good(h, m)
    <3> SUFFICES ASSUME NEW S \in Small(m)
                 PROVE  h[S] = IF S = {} THEN s ELSE step[<<h[S \ {Max(S)}], Max(S)>>]
      OBVIOUS
    <3> HIDE DEF Small
    <3> QED
      BY <2>2, <2>4
  <2> HIDE DEF h, Good, Small
  <2> QED
    BY <2>3, <2>5
<1> HIDE DEF P
<1>5. n \in P
  BY <1>3, <1>4, Ascent
<1>6. PICK g \in [Small(n) -> D] : Good(g, n)
  BY <1>5 DEF P
<1>7. Small(n) = SUBSET (1..n)
  BY <1>1
<1> QED
  BY <1>6, <1>7 DEF IsFold

\* What is read off a fold: the value after each place.
ValuesOf(after, n, D, s, step) ==
  /\ after \in [0..n -> D]
  /\ after[0] = s
  /\ \A k \in 1..n : after[k] = step[<<after[k - 1], k>>]

\* A fold of an operator that is only known to agree with the steps on D.
FoldsOn(iter, n, D, s, step) ==
  /\ iter[{}] = s
  /\ \A S \in SUBSET (1..n) :
       S # {} /\ iter[S \ {Max(S)}] \in D =>
         iter[S] = step[<<iter[S \ {Max(S)}], Max(S)>>]

LEMMA FoldInOrder ==
  ASSUME NEW n \in Nat, NEW D, NEW s \in D, NEW step \in StepsIn(n, D), NEW iter,
         FoldsOn(iter, n, D, s, step)
  PROVE  \E after : ValuesOf(after, n, D, s, step) /\ after[n] = iter[1..n]
<1> DEFINE after == [k \in 0..n |-> iter[1..k]]
           P == {k \in 0..n : iter[1..k] \in D}
<1>1. /\ step \in [D \X (1..n) -> D] /\ 1..0 = {} /\ iter[{}] = s
      /\ \A S \in SUBSET (1..n) :
           S # {} /\ iter[S \ {Max(S)}] \in D =>
             iter[S] = step[<<iter[S \ {Max(S)}], Max(S)>>]
  BY DEF StepsIn, FoldsOn
<1>2. ASSUME NEW k \in 1..n, iter[1..(k - 1)] \in D
      PROVE  iter[1..k] = step[<<iter[1..(k - 1)], k>>] /\ iter[1..k] \in D
  <2>1. Max(1..k) = k /\ (1..k) \ {k} = 1..(k - 1) /\ 1..k # {} /\ 1..k \in SUBSET (1..n)
    <3>1. k \in Nat \ {0} /\ 1..k \in SUBSET (1..n)
      OBVIOUS
    <3> QED
      BY <3>1, LastPlace
  <2>2. iter[1..k] = step[<<iter[1..(k - 1)], k>>]
    <3> DEFINE places == 1..k
               before == 1..(k - 1)
    <3>1. places \in SUBSET (1..n) /\ places # {}
      BY <2>1
    <3>2. Max(places) = k /\ places \ {Max(places)} = before /\ iter[before] \in D
      BY <1>2, <2>1
    <3> HIDE DEF places, before
    <3>3. iter[places] = step[<<iter[before], k>>]
      BY <1>1, <3>1, <3>2
    <3> QED
      BY <3>3 DEF places, before
  <2> QED
    BY <1>1, <1>2, <2>2
<1>3. 0 \in P
  BY <1>1
<1>4. ASSUME NEW k \in 1..n, k - 1 \in P PROVE k \in P
  <2>1. iter[1..(k - 1)] \in D
    BY <1>4
  <2>2. iter[1..k] \in D
    BY <1>2, <2>1
  <2> QED
    BY <2>2
<1>5. 0..n \subseteq P
  <2> HIDE DEF P
  <2> QED
    BY <1>3, <1>4, Ascent
<1>6. ValuesOf(after, n, D, s, step) /\ after[n] = iter[1..n]
  BY <1>1, <1>2, <1>5 DEF ValuesOf
<1> QED
  BY <1>6
-------------------------------------------------------------------------------
\* A loop: from x it goes on at next[x] until it is in done.  A function that says
\* what it comes to exists, whether or not the loop ends everywhere.
IsLoop(g, D, R, done, next, result) ==
  /\ g \in [D -> R]
  /\ \A x \in D : g[x] = IF x \in done THEN result[x] ELSE g[next[x]]

LEMMA LoopExists ==
  ASSUME NEW D, NEW R, NEW done \in SUBSET D, NEW next \in [D -> D], NEW result \in [D -> R]
  PROVE  \E g : IsLoop(g, D, R, done, next, result)
<1> DEFINE Kept(T) ==
             /\ \A x \in done : <<x, result[x]>> \in T
             /\ \A x \in D \ done, r \in R : <<next[x], r>> \in T => <<x, r>> \in T
           least == {c \in D \X R : \A T \in SUBSET (D \X R) : Kept(T) => c \in T}
           Comes(x) == {r \in R : <<x, r>> \in least}
           g == [x \in D |-> IF Comes(x) = {} THEN CHOOSE r \in R : TRUE
                             ELSE CHOOSE r \in Comes(x) : TRUE]
<1>1. Kept(least)
  <2>1. \A x \in done : <<x, result[x]>> \in D \X R
    OBVIOUS
  <2>2. ASSUME NEW x \in D \ done, NEW r \in R, <<next[x], r>> \in least
        PROVE  <<x, r>> \in least
    <3>1. <<x, r>> \in D \X R
      OBVIOUS
    <3>2. \A T \in SUBSET (D \X R) : Kept(T) => <<next[x], r>> \in T
      BY <2>2
    <3>3. \A T \in SUBSET (D \X R) : Kept(T) => <<x, r>> \in T
      BY <3>2
    <3> HIDE DEF Kept
    <3> QED
      BY <3>1, <3>3
  <2>3. \A x \in done : <<x, result[x]>> \in least
    BY <2>1
  <2> HIDE DEF least
  <2> QED
    BY <2>2, <2>3
<1>2. ASSUME NEW x \in done, NEW r \in Comes(x) PROVE r = result[x]
  <2> SUFFICES ASSUME r # result[x] PROVE FALSE
    OBVIOUS
  <2> DEFINE fewer == least \ {<<x, r>>}
  <2>1. Kept(fewer)
    <3>1. \A y \in done : <<y, result[y]>> \in fewer
      <4> SUFFICES ASSUME NEW y \in done PROVE <<y, result[y]>> \in fewer
        OBVIOUS
      <4>1. <<y, result[y]>> \in least
        BY <1>1
      <4>2. <<y, result[y]>> # <<x, r>>
        OBVIOUS
      <4> HIDE DEF least
      <4> QED
        BY <4>1, <4>2
    <3>2. \A y \in D \ done, q \in R : <<next[y], q>> \in fewer => <<y, q>> \in fewer
      <4> SUFFICES ASSUME NEW y \in D \ done, NEW q \in R, <<next[y], q>> \in fewer
                   PROVE  <<y, q>> \in fewer
        OBVIOUS
      <4>1. <<next[y], q>> \in least
        OBVIOUS
      <4>2. <<y, q>> \in least
        <5> HIDE DEF least
        <5> QED
          BY <1>1, <4>1
      <4>3. <<y, q>> # <<x, r>>
        OBVIOUS
      <4> HIDE DEF least
      <4> QED
        BY <4>2, <4>3
    <3> HIDE DEF fewer
    <3> QED
      BY <3>1, <3>2
  <2>2. fewer \in SUBSET (D \X R)
    OBVIOUS
  <2>3. \A c \in least : c \in fewer
    <3> HIDE DEF Kept, fewer
    <3> QED
      BY <2>1, <2>2
  <2>4. <<x, r>> \in least
    OBVIOUS
  <2>5. <<x, r>> \notin fewer
    OBVIOUS
  <2> HIDE DEF least, fewer
  <2> QED
    BY <2>3, <2>4, <2>5
<1>3. ASSUME NEW x \in D \ done, NEW r \in Comes(x) PROVE r \in Comes(next[x])
  <2> SUFFICES ASSUME <<next[x], r>> \notin least PROVE FALSE
    OBVIOUS
  <2> DEFINE fewer == least \ {<<x, r>>}
  <2>1. Kept(fewer)
    <3>1. \A y \in done : <<y, result[y]>> \in fewer
      <4> SUFFICES ASSUME NEW y \in done PROVE <<y, result[y]>> \in fewer
        OBVIOUS
      <4>1. <<y, result[y]>> \in least
        BY <1>1
      <4>2. <<y, result[y]>> # <<x, r>>
        OBVIOUS
      <4> HIDE DEF least
      <4> QED
        BY <4>1, <4>2
    <3>2. \A y \in D \ done, q \in R : <<next[y], q>> \in fewer => <<y, q>> \in fewer
      <4> SUFFICES ASSUME NEW y \in D \ done, NEW q \in R, <<next[y], q>> \in fewer
                   PROVE  <<y, q>> \in fewer
        OBVIOUS
      <4>1. <<next[y], q>> \in least
        OBVIOUS
      <4>2. <<y, q>> \in least
        <5> HIDE DEF least
        <5> QED
          BY <1>1, <4>1
      <4>3. <<y, q>> # <<x, r>>
        <5> SUFFICES ASSUME y = x, q = r PROVE FALSE
          OBVIOUS
        <5> HIDE DEF least
        <5> QED
          BY <4>1
      <4> HIDE DEF least
      <4> QED
        BY <4>2, <4>3
    <3> HIDE DEF fewer
    <3> QED
      BY <3>1, <3>2
  <2>2. fewer \in SUBSET (D \X R)
    OBVIOUS
  <2>3. \A c \in least : c \in fewer
    <3> HIDE DEF Kept, fewer
    <3> QED
      BY <2>1, <2>2
  <2>4. <<x, r>> \in least
    OBVIOUS
  <2>5. <<x, r>> \notin fewer
    OBVIOUS
  <2> HIDE DEF least, fewer
  <2> QED
    BY <2>3, <2>4, <2>5
<1>4. \A x \in done : Comes(x) = {result[x]}
  <2>1. \A x \in done : result[x] \in Comes(x)
    <3> HIDE DEF least
    <3> QED
      BY <1>1
  <2> HIDE DEF Comes
  <2> QED
    BY <1>2, <2>1
<1>5. \A x \in D \ done : Comes(x) = Comes(next[x])
  <2>1. ASSUME NEW x \in D \ done, NEW r \in Comes(next[x]) PROVE r \in Comes(x)
    <3> HIDE DEF least
    <3> QED
      BY <1>1
  <2> HIDE DEF Comes
  <2> QED
    BY <1>3, <2>1
<1>6. \A x \in D : Comes(x) \subseteq R /\ R # {}
  OBVIOUS
<1> HIDE DEF Comes
<1>7. g \in [D -> R]
  <2>1. ASSUME NEW x \in D PROVE g[x] \in R
    BY <1>6
  <2> QED
    BY <2>1
<1>8. ASSUME NEW x \in done PROVE g[x] = result[x]
  <2>1. x \in D /\ Comes(x) = {result[x]}
    BY <1>4
  <2>2. g[x] = CHOOSE r \in {result[x]} : TRUE
    BY <2>1
  <2> QED
    BY <2>2
<1>9. ASSUME NEW x \in D \ done PROVE g[x] = g[next[x]]
  <2>1. x \in D /\ next[x] \in D /\ Comes(x) = Comes(next[x])
    BY <1>5
  <2> QED
    BY <2>1
<1> HIDE DEF g
<1> QED
  BY <1>7, <1>8, <1>9 DEF IsLoop
-------------------------------------------------------------------------------
\* A function on naturals whose value at j is a step from its values below j.
Steps(I, D) == [I \X [I -> D] -> D]
LooksBack(I, D, step) ==
  \A j \in I : \A f, g \in [I -> D] :
    (\A c \in I : c < j => f[c] = g[c]) => step[<<j, f>>] = step[<<j, g>>]
IsCourse(f, I, D, step) == f \in [I -> D] /\ \A j \in I : f[j] = step[<<j, f>>]

LEMMA CourseExists ==
  ASSUME NEW n \in Nat, NEW I \in SUBSET (0..n), NEW D, NEW d \in D,
         NEW step \in Steps(I, D), LooksBack(I, D, step)
  PROVE  \E f : IsCourse(f, I, D, step)
<1> DEFINE Upto(f, m) == \A j \in I : j < m => f[j] = step[<<j, f>>]
           P == {m \in 0..n + 1 : \E f \in [I -> D] : Upto(f, m)}
<1>1. 0 \in P
  <2> DEFINE f == [j \in I |-> d]
  <2>1. f \in [I -> D] /\ \A j \in I : ~(j < 0)
    OBVIOUS
  <2>2. Upto(f, 0) /\ 0 \in 0..n + 1
    BY <2>1
  <2> HIDE DEF Upto, f
  <2> QED
    BY <2>1, <2>2
<1>2. ASSUME NEW m \in 1..n + 1, m - 1 \in P PROVE m \in P
  <2>1. PICK f \in [I -> D] : Upto(f, m - 1)
    BY <1>2
  <2> DEFINE last == m - 1
             g == [f EXCEPT ![last] = step[<<last, f>>]]
  <2>2. CASE last \notin I
    <3>1. \A j \in I : j < m => j < last
      <4> SUFFICES ASSUME NEW j \in I, j < m PROVE j < last
        OBVIOUS
      <4>1. j \in 0..n /\ j # last
        BY <2>2
      <4> QED
        BY <4>1
    <3>2. Upto(f, m)
      BY <2>1, <3>1
    <3> QED
      BY <3>2
  <2>3. CASE last \in I
    <3>1. step[<<last, f>>] \in D
      BY <2>3 DEF Steps
    <3>2. g \in [I -> D] /\ \A c \in I : g[c] = IF c = last THEN step[<<last, f>>] ELSE f[c]
      BY <2>3, <3>1
    <3>3. ASSUME NEW j \in I, j < m PROVE g[j] = step[<<j, g>>]
      <4>1. j \in Int /\ last \in Int /\ j <= last
        BY <3>3
      <4>2. \A c \in I : c < j => f[c] = g[c]
        BY <3>2, <4>1
      <4> HIDE DEF g
      <4>3. step[<<j, f>>] = step[<<j, g>>]
        BY <3>2, <4>2 DEF LooksBack
      <4>4. CASE j = last
        BY <3>2, <4>3, <4>4
      <4>5. CASE j # last
        <5>1. j < m - 1
          BY <4>1, <4>5
        <5>2. f[j] = step[<<j, f>>]
          BY <2>1, <5>1
        <5> QED
          BY <3>2, <4>3, <4>5, <5>2
      <4> QED
        BY <4>4, <4>5
    <3> HIDE DEF g
    <3>4. Upto(g, m)
      BY <3>3
    <3> QED
      BY <3>2, <3>4
  <2> QED
    BY <2>2, <2>3
<1>3. n + 1 \in P
  <2>1. n + 1 \in Nat /\ n + 1 \in 0..n + 1
    OBVIOUS
  <2> HIDE DEF P
  <2> QED
    BY <1>1, <1>2, <2>1, Ascent
<1>4. PICK f \in [I -> D] : Upto(f, n + 1)
  BY <1>3
<1>5. \A j \in I : j < n + 1
  OBVIOUS
<1> QED
  BY <1>4, <1>5 DEF IsCourse

\* One of the values of a function on some naturals up to n is the greatest.
LEMMA GreatestValue ==
  ASSUME NEW n \in Nat, NEW T \in SUBSET (0..n), T # {}, NEW f, \A x \in T : f[x] \in Nat
  PROVE  /\ Max({f[x] : x \in T}) \in Nat
         /\ \A x \in T : f[x] <= Max({f[x1] : x1 \in T})
<1> DEFINE P == {m \in 0..n : \A U \in SUBSET T : U # {} /\ (\A x \in U : x <= m) =>
                                \E x \in U : \A y \in U : f[x] >= f[y]}
<1>1. 0 \in P
  <2>1. ASSUME NEW U \in SUBSET T, U # {}, \A x \in U : x <= 0
        PROVE  \E x \in U : \A y \in U : f[x] >= f[y]
    <3>1. ASSUME NEW x \in U PROVE x = 0 /\ f[x] \in Nat
      BY <2>1
    <3>2. PICK x \in U : TRUE
      BY <2>1
    <3>3. \A y \in U : f[x] >= f[y]
      BY <3>1
    <3> QED
      BY <3>3
  <2> QED
    BY <2>1
<1>2. ASSUME NEW m \in 1..n, m - 1 \in P PROVE m \in P
  <2> SUFFICES ASSUME NEW U \in SUBSET T, U # {}, \A x \in U : x <= m
               PROVE  \E x \in U : \A y \in U : f[x] >= f[y]
    OBVIOUS
  <2> DEFINE rest == U \ {m}
  <2>1. \A x \in U : f[x] \in Nat /\ x \in Nat
    OBVIOUS
  <2>2. CASE rest = {}
    <3>1. \A x \in U : x = m
      BY <2>2
    <3>2. PICK x \in U : TRUE
      OBVIOUS
    <3>3. \A y \in U : f[x] >= f[y]
      BY <2>1, <3>1
    <3> QED
      BY <3>3
  <2>3. CASE rest # {}
    <3>1. rest \in SUBSET T /\ \A x \in rest : x <= m - 1
      BY <2>1
    <3>2. PICK x \in rest : \A y \in rest : f[x] >= f[y]
      BY <1>2, <2>3, <3>1
    <3>3. CASE m \notin U \/ f[m] <= f[x]
      <4>1. \A y \in U : f[x] >= f[y]
        BY <2>1, <3>2, <3>3
      <4> QED
        BY <4>1
    <3>4. CASE m \in U /\ ~(f[m] <= f[x])
      <4>1. \A y \in U : f[m] >= f[y]
        <5> SUFFICES ASSUME NEW y \in U PROVE f[m] >= f[y]
          BY <3>4
        <5>1. f[x] \in Nat /\ f[y] \in Nat /\ f[m] \in Nat
          BY <2>1, <3>4
        <5>2. y = m \/ f[x] >= f[y]
          BY <3>2
        <5> QED
          BY <3>4, <5>1, <5>2
      <4> QED
        BY <3>4, <4>1
    <3> QED
      BY <3>3, <3>4
  <2> QED
    BY <2>2, <2>3
<1>3. n \in P
  <2> HIDE DEF P
  <2> QED
    BY <1>1, <1>2, Ascent
<1>4. \A x \in T : x <= n
  OBVIOUS
<1>5. PICK x \in T : \A y \in T : f[x] >= f[y]
  BY <1>3, <1>4
<1> DEFINE values == {f[z] : z \in T}
<1>6. f[x] \in values /\ \A v \in values : f[x] >= v
  BY <1>5
<1>7. values \subseteq Nat /\ \A z \in T : f[z] \in values
  OBVIOUS
<1> HIDE DEF values
<1>8. Max(values) \in values /\ \A v \in values : Max(values) >= v
  BY <1>6 DEF Max
<1>9. Max(values) \in Nat /\ \A z \in T : f[z] <= Max(values)
  BY <1>7, <1>8
<1> QED
  BY <1>9 DEF values
=============================================================================
