---------------------------- MODULE TensionOnly ----------------------------
(***************************************************************************)
(* runTensionOnly: cables and braces that carry compression are switched    *)
(* off, those whose ends pull apart again are switched on, and the frame is *)
(* solved again, until nothing flips.  A state seen before means a cycle,   *)
(* and the analysis starts again with switching off only.                   *)
(*                                                                         *)
(* Mechanics are left open but are a function of the active set: what a set *)
(* answers is chosen when it is first solved and kept.  The session answers *)
(* for its active set, as ReSolveSession is proved to do below its second   *)
(* tier, and it ends with the run at the first mechanism.                   *)
(***************************************************************************)
EXTENDS Integers, FiniteSets

CONSTANTS
  Cables,             \* the members flagged tensionOnly
  MaxIter,            \* TensionOnlyOptions::maxIter
  AllowReactivation   \* TensionOnlyOptions::allowReactivation

ASSUME TensionOnlyAssumption ==
  IsFiniteSet(Cables) /\ MaxIter \in Nat \ {0} /\ AllowReactivation \in BOOLEAN

VARIABLES
  braces,    \* the cables that are active in the caller's model
  answers,   \* what the sets solved so far answered
  taut,      \* act: the active cables of this run
  it,        \* solves of this run
  seen,      \* seen
  react,     \* allowReact of this run
  pass,      \* "first" run, monotone "fallback" or "done"
  result     \* TensionOnlyResult, its finalState as the set it is of

tensionVars == <<braces, answers, taut, it, seen, react, pass, result>>

Mechanism == [mechanism |-> TRUE, compressed |-> {}, pulled |-> {}]
\* The cables a solve of S finds in compression, and the slack ones it pulls.
Solved(S) ==
  [mechanism : {FALSE}, compressed : SUBSET S, pulled : SUBSET (Cables \ S)]
NoResult == [converged |-> FALSE, cycled |-> FALSE, singular |-> FALSE,
             final |-> {}, slack |-> {}]

TensionTypeOK ==
  /\ braces \subseteq Cables /\ taut \subseteq Cables
  /\ DOMAIN answers \subseteq SUBSET Cables
  /\ \A S \in DOMAIN answers : answers[S] \in {Mechanism} \cup Solved(S)
  /\ it \in 0..MaxIter
  /\ seen \in SUBSET SUBSET Cables
  /\ react \in BOOLEAN
  /\ pass \in {"first", "fallback", "done"}
  /\ result.final \subseteq Cables /\ result.slack \subseteq Cables

TensionInit ==
  /\ braces \in SUBSET Cables /\ taut = braces /\ seen = {braces}
  /\ answers = [S \in {} |-> Mechanism]
  /\ it = 0
  /\ react = AllowReactivation
  /\ pass = "first"
  /\ result = NoResult

\* Seeded fault of Flipped: a pulled cable comes back in every run.
FlippedAlways(answer) == (taut \ answer.compressed) \cup answer.pulled

\* The active cables after the pass over the members.
Flipped(answer) ==
  (taut \ answer.compressed) \cup (IF react THEN answer.pulled ELSE {})

Report(converged, singular, slack) ==
  /\ pass' = "done"
  /\ result' = [converged |-> converged, cycled |-> (pass = "fallback"),
                singular |-> singular, final |-> taut, slack |-> slack]
  /\ UNCHANGED <<taut, seen, react>>

\* The session is invalid or the solve is singular.
FoundSingular == Report(FALSE, TRUE, {})

\* Seeded fault of Settled: only switching off counts as a flip.
SettledNoCompression(answer) == answer.compressed = {}
Settled(answer) == Flipped(answer) = taut

Converged == Report(TRUE, FALSE, Cables \ taut)

StartAgain == taut' = braces /\ seen' = {braces}

\* A state of this run comes back: the monotone run begins.
Cycle ==
  /\ StartAgain
  /\ react' = FALSE
  /\ pass' = "fallback"
  /\ UNCHANGED result

LastTurn == it + 1 = MaxIter

\* The last solve is reported, with the slack members after its flips.
Exhausted(next) == Report(FALSE, FALSE, Cables \ next)

Continue(next) ==
  /\ taut' = next
  /\ seen' = seen \cup {next}
  /\ UNCHANGED <<react, pass, result>>

\* One turn of the loop of iterateTO, with the answer of the active set.  A
\* cycle leads to the fallback only from a run that may reactivate; a monotone
\* run cannot cycle.
Iterate(answer) ==
  /\ \/ answer = Mechanism /\ FoundSingular
     \/ /\ answer # Mechanism
        /\ LET next == Flipped(answer) IN
           \/ Settled(answer) /\ Converged
           \/ ~Settled(answer) /\ next \in seen /\ Cycle
           \/ /\ ~Settled(answer) /\ next \notin seen
              /\ IF LastTurn THEN Exhausted(next) ELSE Continue(next)
  /\ it' = IF pass' = "fallback" /\ pass = "first" THEN 0 ELSE it + 1

SolveSet ==
  /\ pass # "done"
  /\ IF taut \in DOMAIN answers
     THEN Iterate(answers[taut]) /\ UNCHANGED answers
     ELSE \E a \in {Mechanism} \cup Solved(taut) :
            /\ answers' = [S \in DOMAIN answers \cup {taut} |->
                             IF S = taut THEN a ELSE answers[S]]
            /\ Iterate(a)
  /\ UNCHANGED braces

TensionNext == SolveSet
TensionSpec == TensionInit /\ [][TensionNext]_tensionVars

-------------------------------------------------------------------------------
Done == pass = "done"
Answer == answers[result.final]

\* A converged result is an equilibrium of the set it reports: no active cable
\* is compressed, the slack list is what is inactive, and if the run could
\* reactivate, no slack cable is pulled.
ConvergedIsEquilibrium ==
  Done /\ result.converged =>
    /\ result.final \in DOMAIN answers /\ Answer # Mechanism
    /\ Answer.compressed = {}
    /\ react => Answer.pulled = {}
    /\ result.slack = Cables \ result.final

\* With more iterations than cables a monotone run gives an answer.
MonotoneTerminates ==
  Done /\ ~react /\ MaxIter > Cardinality(Cables) => result.converged \/ result.singular

==============================================================================
