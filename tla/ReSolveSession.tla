---------------------------- MODULE ReSolveSession ----------------------------
(***************************************************************************)
(* One frame::ReSolveSession: constructed on a model, toggled, solved and   *)
(* rebaselined by its owner, one call at a time.                            *)
(***************************************************************************)
EXTENDS ReSolve

CONSTANT RankBound    \* bound on the ladder's rank between two solves

ASSUME RankBoundAssumption == RankBound \in Nat

VARIABLES
  session,  \* the session value
  verdict,  \* the last call's answer: "none", "solved" or "singular"
  tier      \* ReanalysisStats::tier of the last solve

vars == <<session, verdict, tier>>

TypeOK ==
  /\ session \in Session
  /\ verdict \in {"none", "solved", "singular"}
  /\ tier \in 0..3

\* The constructor copies the model's flags and builds the first baseline;
\* every owner checks valid() and drops a session that is not.
Init ==
  /\ \E act \in SUBSET Elements : session = BuildBaseline(act) /\ session.baseValid
  /\ verdict = "none"
  /\ tier = 0

SetElementActive(e, on) ==
  /\ session.rank + RankOf[e] <= RankBound
  /\ session' = SetActive(session, e, on)
  /\ verdict' = "none"
  /\ UNCHANGED tier

SolveCurrent ==
  \E r \in Solve(session) :
    /\ session' = r.session
    /\ verdict' = IF r.singular THEN "singular" ELSE "solved"
    /\ tier' = r.tier

Rebaseline ==
  /\ session' = BuildBaseline(session.active)
  /\ verdict' = "none"
  /\ UNCHANGED tier

Next ==
  \/ \E e \in Elements, on \in BOOLEAN : SetElementActive(e, on)
  \/ SolveCurrent
  \/ Rebaseline

Spec == Init /\ [][Next]_vars

\* How the game's registry and the tension-only fallback use a session: they
\* only ever switch elements off.
RemovalNext ==
  \/ \E e \in Elements : SetElementActive(e, FALSE)
  \/ SolveCurrent
  \/ Rebaseline

RemovalSpec == Init /\ [][RemovalNext]_vars

-------------------------------------------------------------------------------
\* The factor plus the ladder is the current stiffness: what a tier-1 solve
\* uses is exactly what the flags say, over any order of switching an element
\* off and on, rebaselines and refactorizations.
LadderExact ==
  session.baseValid =>
    \A e \in Elements : Ranked(e) => (e \in session.active <=> e \in Represented(session))

\* Tier 0 reuses the bare factor, so a ladder of rank 0 must mean no change.
EmptyLadderMeansNoChange ==
  session.baseValid /\ session.rank = 0 =>
    \A e \in Elements : Ranked(e) => session.net[e] = 0

\* The factor an increment is built on is one that factored, and no active
\* element of a live session failed to prepare.
LiveBaselineFactored ==
  session.baseValid =>
    Factorable(session.base) /\ session.active \cap Unpreparable = {}

\* A live session that solves without conjugate gradients is right about
\* mechanisms in both directions; when it says "singular" from tier 0 it is
\* because the baseline died in an earlier call.
ExactVerdict ==
  /\ verdict = "solved" /\ tier # 2 => Factorable(session.active)
  /\ verdict = "singular" /\ tier # 0 => ~Factorable(session.active)

\* Each solve leaves a ladder no longer than the tiers admit, whatever was
\* queued before it.
SolveBoundsLadder ==
  [][verdict' # "none" =>
       session'.rank <= IF AllowTier2 THEN 2 * MaxRank ELSE MaxRank]_vars

\* Reanalysis.h: solve() answers for "the CURRENT active set", so a set that
\* factors is never reported singular.
SoundSetsAreSolved == verdict = "singular" => ~Factorable(session.active)

\* The session seen through the promise of Reanalysis.h.
Fresh == INSTANCE FreshSolve WITH active <- session.active
RefinesFresh == Fresh!Spec
==============================================================================
