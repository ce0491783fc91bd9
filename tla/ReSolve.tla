------------------------------- MODULE ReSolve -------------------------------
(***************************************************************************)
(* The value of a frame::ReSolveSession (FrameCore Reanalysis.cpp) and what *)
(* its operations do to it.  A session reuses one LDL^T factorization, the  *)
(* baseline, and keeps a ladder of signed low-rank updates: one for every   *)
(* element switched on or off since.  This module holds operators on        *)
(* session values; ReSolveSession is the state machine of one session and   *)
(* InteractiveSession owns one behind UFrameInteractiveSubsystem.           *)
(*                                                                         *)
(* Numbers are abstracted to what decides control flow: an active set is    *)
(* either a mechanism (its reduced stiffness is singular) or it is not, and *)
(* an element contributes a fixed number of positive modes.                 *)
(***************************************************************************)
EXTENDS Integers, FiniteSets

CONSTANTS
  Elements,      \* members and shells of the base model
  RankOf,        \* positive modes an element adds to the ladder when toggled
  Unpreparable,  \* elements whose prepare() fails
  Mechanisms,    \* the active sets whose reduced stiffness is singular
  MaxRank,       \* ReanalysisOptions::maxRank
  AllowTier2     \* ReanalysisOptions::allowTier2

\* Removing stiffness never cures a mechanism: the reduced stiffness of a
\* subset is below that of the set in the positive-semidefinite order.
ASSUME ReSolveAssumption ==
  /\ RankOf \in [Elements -> Nat]
  /\ Unpreparable \subseteq Elements
  /\ Mechanisms \subseteq SUBSET Elements
  /\ \A A, B \in SUBSET Elements :
        A \subseteq B /\ B \in Mechanisms => A \in Mechanisms
  /\ MaxRank \in Nat
  /\ AllowTier2 \in BOOLEAN

\* An element that reaches the reduced stiffness.
Ranked(e) == RankOf[e] > 0

\* An element with no free degree of freedom adds nothing to the reduced
\* stiffness, so switching it changes no verdict.
ASSUME FixedElementAssumption ==
  \A A, B \in SUBSET Elements :
    (\A e \in Elements : Ranked(e) => (e \in A <=> e \in B))
      => (A \in Mechanisms <=> B \in Mechanisms)

\* A fresh assembleAndFactor of this active set succeeds.
Factorable(act) == act \notin Mechanisms /\ act \cap Unpreparable = {}

\* The session value: the current flags, the set the factor was built on,
\* whether it factored, the net signed updates per element and their rank.
Session == [active : SUBSET Elements, base : SUBSET Elements, baseValid : BOOLEAN,
            net : [Elements -> Int], rank : Nat]

\* Impl::buildBaseline: factor the current set and clear the ladder.
BuildBaseline(act) ==
  [active |-> act, base |-> act, baseValid |-> Factorable(act),
   net |-> [e \in Elements |-> 0], rank |-> 0]

\* Impl::addToLadder, for an element that prepares.
AddToLadder(s, e, sign) ==
  IF RankOf[e] = 0 THEN s
  ELSE [s EXCEPT !.net[e] = @ + sign, !.rank = @ + RankOf[e]]

WithFlag(s, e, on) ==
  [s EXCEPT !.active = IF on THEN @ \cup {e} ELSE @ \ {e}]

\* Seeded fault of SetActive: no early return for an unchanged flag.
SetActiveNoEarlyReturn(s, e, on) ==
  IF ~s.baseValid THEN WithFlag(s, e, on)
  ELSE AddToLadder(WithFlag(s, e, on), e, IF on THEN 1 ELSE -1)

\* setMemberActive and setShellActive, for a known id.
SetActive(s, e, on) ==
  IF (e \in s.active) = on THEN s
  ELSE LET flipped == WithFlag(s, e, on) IN
       IF ~s.baseValid THEN flipped
       ELSE IF e \in Unpreparable THEN BuildBaseline(flipped.active)
       ELSE AddToLadder(flipped, e, IF on THEN 1 ELSE -1)

\* The elements whose stiffness the factor and the ladder together stand for.
Represented(s) ==
  {e \in Elements : (IF e \in s.base THEN 1 ELSE 0) + s.net[e] = 1}

\* Which rung of the ladder a solve takes.
Tier(s) ==
  IF s.rank = 0 THEN 0
  ELSE IF s.rank <= MaxRank THEN 1
  ELSE IF AllowTier2 /\ s.rank <= 2 * MaxRank THEN 2
  ELSE 3

\* A solve leaves a session value and a verdict.  An invalid baseline is
\* answered from its stored diagnostic, and nothing rebuilds it.
Refused(s)    == [session |-> s, singular |-> TRUE, tier |-> 0]
BackSolved(s) == [session |-> s, singular |-> FALSE, tier |-> 0]
\* Seeded fault of Woodbury: the pivot ratio is not looked at.
WoodburyUnchecked(s) == [session |-> s, singular |-> FALSE, tier |-> 1]
\* Tier 1: the capacitance matrix is singular iff the represented set is.
Woodbury(s)   == [session |-> s, singular |-> Represented(s) \in Mechanisms, tier |-> 1]
\* Tier 2: conjugate gradients converged on the assembled stiffness.
Converged(s)  == [session |-> s, singular |-> FALSE, tier |-> 2]
\* Tier 3: refactor the current set.
Refactored(s) ==
  LET fresh == BuildBaseline(s.active) IN
  [session |-> fresh, singular |-> ~fresh.baseValid, tier |-> 3]

\* ReSolveSession::solve.  Conjugate gradients may converge or stall on any
\* set: on a mechanism they converge when the load does no work on it.
Solve(s) ==
  IF ~s.baseValid \/ s.active \cap Unpreparable # {} THEN {Refused(s)}
  ELSE CASE Tier(s) = 0 -> {BackSolved(s)}
         [] Tier(s) = 1 -> {Woodbury(s)}
         [] Tier(s) = 2 -> {Converged(s), Refactored(s)}
         [] Tier(s) = 3 -> {Refactored(s)}
==============================================================================
