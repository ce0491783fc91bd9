---------------------------- MODULE ReSolveLemmas ----------------------------
(***************************************************************************)
(* What the operations on a session's value preserve, for every base model, *)
(* every rank and every set of mechanisms closed under removal: lemmas for  *)
(* the proofs about whoever owns a session.                                 *)
(***************************************************************************)
EXTENDS ReSolve, TLAPS

\* The sign an element's flags give to its net update.
Bit(e, set) == IF e \in set THEN 1 ELSE 0

\* The factor plus the ladder is the current stiffness: the net update of every ranked
\* element is the difference between its current and its baseline flag.
Ladder(s) ==
  /\ s.baseValid =>
       /\ \A e \in Elements : Ranked(e) => s.net[e] = Bit(e, s.active) - Bit(e, s.base)
       /\ s.rank = 0 => \A e \in Elements : Ranked(e) => s.net[e] = 0
       /\ Factorable(s.base)
       /\ s.active \cap Unpreparable = {}
  /\ ~s.baseValid => s.rank = 0

LadderSessions == {s \in Session : Ladder(s)}

-------------------------------------------------------------------------------
LEMMA BaselineTyped ==
  ASSUME NEW act \in SUBSET Elements
  PROVE  BuildBaseline(act) \in Session
  BY DEF BuildBaseline, Session, Factorable

\* What BuildBaseline returns satisfies the ladder invariant.
LEMMA BaselineFields ==
  ASSUME NEW act \in SUBSET Elements
  PROVE  /\ BuildBaseline(act).active = act
         /\ BuildBaseline(act).base = act
         /\ BuildBaseline(act).rank = 0
         /\ BuildBaseline(act).baseValid = Factorable(act)
         /\ \A e \in Elements : BuildBaseline(act).net[e] = 0
  BY DEF BuildBaseline

LEMMA FlagTyped ==
  ASSUME NEW s \in Session, NEW e \in Elements, NEW on \in BOOLEAN
  PROVE  /\ WithFlag(s, e, on) \in Session
         /\ WithFlag(s, e, on).active = IF on THEN s.active \cup {e} ELSE s.active \ {e}
         /\ WithFlag(s, e, on).base = s.base
         /\ WithFlag(s, e, on).baseValid = s.baseValid
         /\ WithFlag(s, e, on).net = s.net
         /\ WithFlag(s, e, on).rank = s.rank
  BY DEF WithFlag, Session

LEMMA LadderTyped ==
  ASSUME NEW s \in Session, NEW e \in Elements, NEW sign \in {1, -1}
  PROVE  /\ AddToLadder(s, e, sign) \in Session
         /\ AddToLadder(s, e, sign).active = s.active
         /\ AddToLadder(s, e, sign).base = s.base
         /\ AddToLadder(s, e, sign).baseValid = s.baseValid
         /\ Ranked(e) =>
              /\ AddToLadder(s, e, sign).net[e] = s.net[e] + sign
              /\ \A x \in Elements \ {e} : AddToLadder(s, e, sign).net[x] = s.net[x]
              /\ AddToLadder(s, e, sign).rank = s.rank + RankOf[e]
         /\ ~Ranked(e) => AddToLadder(s, e, sign) = s
<1>1. RankOf[e] \in Nat /\ (RankOf[e] = 0 <=> ~Ranked(e))
  BY ReSolveAssumption DEF Ranked
<1>2. CASE ~Ranked(e)
  BY <1>1, <1>2 DEF AddToLadder
<1>3. CASE Ranked(e)
  <2>1. AddToLadder(s, e, sign) = [s EXCEPT !.net[e] = @ + sign, !.rank = @ + RankOf[e]]
    BY <1>1, <1>3 DEF AddToLadder
  <2>2. /\ s = [active |-> s.active, base |-> s.base, baseValid |-> s.baseValid,
               net |-> s.net, rank |-> s.rank]
        /\ s.active \in SUBSET Elements /\ s.base \in SUBSET Elements
        /\ s.baseValid \in BOOLEAN /\ s.net \in [Elements -> Int] /\ s.rank \in Nat
    BY DEF Session
  <2>3. [s.net EXCEPT ![e] = @ + sign] \in [Elements -> Int]
    BY <2>2
  <2>4. AddToLadder(s, e, sign) =
          [active |-> s.active, base |-> s.base, baseValid |-> s.baseValid,
           net |-> [s.net EXCEPT ![e] = @ + sign], rank |-> s.rank + RankOf[e]]
    BY <2>1, <2>2
  <2>5. s.rank + RankOf[e] \in Nat
    BY <1>1, <2>2
  <2>6. AddToLadder(s, e, sign) \in Session
    BY <2>2, <2>3, <2>4, <2>5 DEF Session
  <2>7. \A x \in Elements : [s.net EXCEPT ![e] = @ + sign][x] =
                            IF x = e THEN s.net[x] + sign ELSE s.net[x]
    BY <2>2
  <2> QED
    BY <1>3, <2>4, <2>6, <2>7
<1> QED
  BY <1>2, <1>3

\* A fresh baseline has an empty ladder on the flags it was built on.
LEMMA BaselineLadder ==
  ASSUME NEW act \in SUBSET Elements
  PROVE  BuildBaseline(act) \in LadderSessions
<1> DEFINE b == BuildBaseline(act)
<1>1. b \in Session
  BY BaselineTyped
<1>2. /\ b.active = act /\ b.base = act /\ b.rank = 0 /\ b.baseValid = Factorable(act)
      /\ \A e \in Elements : b.net[e] = 0
  BY BaselineFields
<1> HIDE DEF b
<1>3. \A e \in Elements : b.net[e] = Bit(e, b.active) - Bit(e, b.base)
  BY <1>2 DEF Bit
<1>4. Ladder(b)
  BY <1>2, <1>3 DEF Ladder, Factorable
<1> QED
  BY <1>1, <1>4 DEF LadderSessions, b

\* setMemberActive and setShellActive keep the ladder exact.
LEMMA ToggleLadder ==
  ASSUME NEW s \in LadderSessions, NEW e \in Elements, NEW on \in BOOLEAN
  PROVE  SetActive(s, e, on) \in LadderSessions
<1> SUFFICES ASSUME NEW n, n = SetActive(s, e, on) PROVE n \in Session /\ Ladder(n)
  BY DEF LadderSessions
<1> DEFINE flipped == WithFlag(s, e, on)
           sign == IF on THEN 1 ELSE -1
<1>0. s \in Session /\ Ladder(s) /\ sign \in {1, -1}
  BY DEF LadderSessions
<1>1. /\ flipped \in Session
      /\ flipped.active = IF on THEN s.active \cup {e} ELSE s.active \ {e}
      /\ flipped.base = s.base /\ flipped.baseValid = s.baseValid
      /\ flipped.net = s.net /\ flipped.rank = s.rank
  BY <1>0 DEF WithFlag, Session
<1>2. CASE (e \in s.active) = on
  BY <1>0, <1>2 DEF SetActive, Ladder
<1>3. CASE (e \in s.active) # on /\ ~s.baseValid
  BY <1>0, <1>1, <1>3 DEF SetActive, Ladder
<1>4. CASE (e \in s.active) # on /\ s.baseValid /\ e \in Unpreparable
  <2>1. n = BuildBaseline(flipped.active) /\ flipped.active \in SUBSET Elements
    BY <1>1, <1>4 DEF SetActive, Session
  <2> QED
    BY <2>1, BaselineLadder DEF LadderSessions
<1>5. CASE (e \in s.active) # on /\ s.baseValid /\ e \notin Unpreparable
  <2>1. n = AddToLadder(flipped, e, sign)
    BY <1>1, <1>5 DEF SetActive
  <2> HIDE DEF flipped, sign
  <2>2. /\ n \in Session
        /\ n.active = flipped.active
        /\ n.base = flipped.base
        /\ n.baseValid = flipped.baseValid
        /\ Ranked(e) => /\ n.net[e] = flipped.net[e] + sign
                        /\ \A x \in Elements \ {e} : n.net[x] = flipped.net[x]
                        /\ n.rank = flipped.rank + RankOf[e]
        /\ ~Ranked(e) => n = flipped
    <3>1. flipped \in Session /\ sign \in {1, -1}
      BY <1>0, <1>1
    <3> HIDE <1>0, <1>1
    <3> DEFINE grown == AddToLadder(flipped, e, sign)
    <3>2. /\ grown \in Session
          /\ grown.active = flipped.active
          /\ grown.base = flipped.base
          /\ grown.baseValid = flipped.baseValid
          /\ Ranked(e) => /\ grown.net[e] = flipped.net[e] + sign
                          /\ \A x \in Elements \ {e} : grown.net[x] = flipped.net[x]
                          /\ grown.rank = flipped.rank + RankOf[e]
          /\ ~Ranked(e) => grown = flipped
      BY <3>1, LadderTyped
    <3> QED
      BY <2>1, <3>2
  <2>3. Factorable(n.base) /\ n.active \cap Unpreparable = {}
    BY <1>0, <1>1, <1>5, <2>2 DEF Ladder
  <2>4. s.rank \in Nat /\ s.net \in [Elements -> Int] /\ RankOf[e] \in Nat
    BY <1>0, ReSolveAssumption DEF Session
  <2>5. n.rank = 0 => \A x \in Elements : Ranked(x) => n.net[x] = 0
    BY <1>0, <1>1, <1>5, <2>2, <2>4 DEF Ladder, Ranked
  <2>6. ASSUME NEW x \in Elements, Ranked(x)
        PROVE  n.net[x] = Bit(x, n.active) - Bit(x, n.base)
    <3>1. s.net[x] = Bit(x, s.active) - Bit(x, s.base)
      BY <1>0, <1>5, <2>6 DEF Ladder
    <3>2. CASE x # e
      <4>1. n.net[x] = s.net[x]
        BY <1>1, <2>2, <2>4, <3>2
      <4>2. x \in n.active <=> x \in s.active
        BY <1>1, <2>2, <3>2
      <4> QED
        BY <1>1, <2>2, <3>1, <4>1, <4>2 DEF Bit
    <3>3. CASE x = e
      <4>1. n.net[e] = s.net[e] + sign
        BY <1>1, <2>2, <2>4, <2>6, <3>3
      <4>2. CASE on
        <5>1. e \in n.active /\ e \notin s.active /\ sign = 1
          BY <1>1, <1>5, <2>2, <4>2 DEF sign
        <5>2. n.base = s.base
          BY <1>1, <2>2
        <5> QED
          BY <3>1, <3>3, <4>1, <5>1, <5>2 DEF Bit
      <4>3. CASE ~on
        <5>1. e \notin n.active /\ e \in s.active /\ sign = -1
          BY <1>1, <1>5, <2>2, <4>3 DEF sign
        <5>2. n.base = s.base
          BY <1>1, <2>2
        <5> QED
          BY <3>1, <3>3, <4>1, <5>1, <5>2 DEF Bit
      <4> QED
        BY <4>2, <4>3
    <3> QED
      BY <3>2, <3>3
  <2> QED
    BY <1>1, <1>5, <2>2, <2>3, <2>5, <2>6 DEF Ladder
<1> QED
  BY <1>2, <1>3, <1>4, <1>5

\* Every solve leaves either the session as it was or a fresh baseline of its
\* current set.
LEMMA SolveOutcome ==
  ASSUME NEW s \in Session, NEW r \in Solve(s)
  PROVE  /\ r.session \in {s, BuildBaseline(s.active)}
         /\ r.tier \in 0..3
<1>1. Refactored(s).session = BuildBaseline(s.active) /\ Refactored(s).tier = 3
  BY DEF Refactored
<1>2. ASSUME NEW q \in {Refused(s), BackSolved(s), Woodbury(s), Converged(s)}
      PROVE  q.session = s /\ q.tier \in 0..3
  BY <1>2 DEF Refused, BackSolved, Woodbury, Converged
<1>3. Tier(s) \in {0, 1, 2, 3}
  BY DEF Tier
<1>4. r \in {Refused(s), BackSolved(s), Woodbury(s), Converged(s), Refactored(s)}
  <2>1. CASE ~s.baseValid \/ s.active \cap Unpreparable # {}
    BY <2>1 DEF Solve
  <2>2. CASE ~(~s.baseValid \/ s.active \cap Unpreparable # {})
    BY <1>3, <2>2 DEF Solve
  <2> QED
    BY <2>1, <2>2
<1> QED
  BY <1>1, <1>2, <1>4

LEMMA SolveLadder ==
  ASSUME NEW s \in LadderSessions, NEW r \in Solve(s)
  PROVE  r.session \in LadderSessions /\ r.session.active = s.active
<1>1. s \in Session /\ s.active \in SUBSET Elements
  BY DEF LadderSessions, Session
<1> QED
  BY <1>1, SolveOutcome, BaselineLadder, BaselineFields

-------------------------------------------------------------------------------
\* Where a baseline is live, what the factor and the ladder represent is what is on.
LEMMA LadderIsOfFlags ==
  ASSUME NEW s \in LadderSessions, s.baseValid, NEW e \in Elements, Ranked(e)
  PROVE  e \in s.active <=> e \in Represented(s)
<1>1. s.net[e] = Bit(e, s.active) - Bit(e, s.base)
  BY DEF LadderSessions, Ladder
<1>2. e \in s.active <=> Bit(e, s.base) + s.net[e] = 1
  BY <1>1 DEF Bit
<1> QED
  BY <1>2 DEF Represented, Bit

\* A capacitance matrix built on an exact ladder is singular exactly when the
\* current set is a mechanism.
LEMMA WoodburyVerdict ==
  ASSUME NEW s \in LadderSessions, s.baseValid
  PROVE  Represented(s) \in Mechanisms <=> s.active \in Mechanisms
<1>1. s.active \in SUBSET Elements /\ Represented(s) \in SUBSET Elements
  BY DEF LadderSessions, Session, Represented
<1>2. \A e \in Elements :
        Ranked(e) => (e \in s.active <=> e \in Represented(s))
  BY LadderIsOfFlags
<1> QED
  BY <1>1, <1>2, FixedElementAssumption

\* What a solve concludes, by the tier it took.
LEMMA SolveVerdict ==
  ASSUME NEW s \in LadderSessions, NEW r \in Solve(s)
  PROVE  /\ ~r.singular /\ r.tier # 2 => Factorable(s.active)
         /\ r.singular /\ r.tier # 0 => ~Factorable(s.active)
         /\ r.singular /\ r.tier = 0 =>
              ~s.baseValid \/ s.active \cap Unpreparable # {}
         /\ r.tier = 2 => AllowTier2
         /\ r.session = s \/ r.session = BuildBaseline(s.active)
<1>1. CASE ~s.baseValid \/ s.active \cap Unpreparable # {}
  BY <1>1 DEF Solve, Refused
<1>2. CASE s.baseValid /\ s.active \cap Unpreparable = {}
  <2>1. Tier(s) \in {0, 1, 2, 3} /\ (Tier(s) = 2 => AllowTier2)
    BY DEF Tier
  <2>2. CASE Tier(s) = 0
    <3>1. r = BackSolved(s)
      BY <1>2, <2>2 DEF Solve
    <3>2. s.rank = 0
      BY <2>2 DEF Tier
    <3>3. Factorable(s.base)
      BY <1>2 DEF LadderSessions, Ladder
    <3>4. s.base \in SUBSET Elements /\ s.active \in SUBSET Elements
      BY DEF LadderSessions, Session
    <3>5. ASSUME NEW e \in Elements, Ranked(e)
          PROVE  e \in s.base <=> e \in s.active
      <4>1. s.net[e] = 0 /\ s.net[e] = Bit(e, s.active) - Bit(e, s.base)
        BY <1>2, <3>2, <3>5 DEF LadderSessions, Ladder
      <4> QED
        BY <4>1 DEF Bit
    <3>6. s.active \notin Mechanisms
      BY <3>3, <3>4, <3>5, FixedElementAssumption DEF Factorable
    <3> QED
      BY <1>2, <3>1, <3>6 DEF BackSolved, Factorable
  <2>3. CASE Tier(s) = 1
    <3>1. r = Woodbury(s)
      BY <1>2, <2>3 DEF Solve
    <3>2. r.session = s /\ r.tier = 1 /\ r.singular = (Represented(s) \in Mechanisms)
      BY <3>1 DEF Woodbury
    <3>3. r.singular <=> s.active \in Mechanisms
      BY <1>2, <3>2, WoodburyVerdict
    <3> QED
      BY <1>2, <3>2, <3>3 DEF Factorable
  <2>4. ASSUME r = Refactored(s)
        PROVE  /\ r.session = BuildBaseline(s.active) /\ r.tier = 3
               /\ r.singular <=> ~Factorable(s.active)
    BY <2>4 DEF Refactored, BuildBaseline
  <2>5. CASE Tier(s) = 2
    <3>1. r = Converged(s) \/ r = Refactored(s)
      BY <1>2, <2>5 DEF Solve
    <3>2. CASE r = Converged(s)
      BY <2>1, <2>5, <3>2 DEF Converged
    <3>3. CASE r = Refactored(s)
      BY <2>4, <3>3
    <3> QED
      BY <3>1, <3>2, <3>3
  <2>6. CASE Tier(s) = 3
    <3>1. r = Refactored(s)
      BY <1>2, <2>6 DEF Solve
    <3> QED
      BY <2>4, <3>1
  <2> QED
    BY <2>1, <2>2, <2>3, <2>5, <2>6
<1> QED
  BY <1>1, <1>2
==============================================================================
