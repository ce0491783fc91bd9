------------------------------ MODULE Collapse ------------------------------
(***************************************************************************)
(* runProgressiveCollapse.  The driver works on a copy of the model: it     *)
(* applies the event of the last step, drops what no support holds any      *)
(* more, factors and solves the rest, and picks the worst event for the     *)
(* next step: an element that breaks, or a plastic hinge with the moment    *)
(* its joint must go on receiving.                                          *)
(*                                                                         *)
(* The numbers are left open: a solve finds the remainder singular or not,  *)
(* and any active element or any hinge not yet formed can be the worst.     *)
(* That is exact, because no configuration is ever solved twice.  The       *)
(* scenario names an element once.                                          *)
(***************************************************************************)
EXTENDS Connectivity, Integers, FiniteSets

CONSTANTS
  Hinges,      \* the (member, end, axis) where plasticHinges may form one
  MemberOf,    \* the member of a hinge
  JointOf,     \* the node of a hinge
  MaxSteps     \* CollapseOptions::maxSteps

ASSUME CollapseAssumption ==
  /\ MemberOf \in [Hinges -> Elements]
  /\ JointOf \in [Hinges -> Nodes]
  /\ \A h \in Hinges : JointOf[h] \in NodesOf[MemberOf[h]]
  /\ MaxSteps \in Nat \ {0}
  /\ IsFiniteSet(Elements) /\ IsFiniteSet(Hinges)

VARIABLES
  active,    \* the elements of the working copy that are active
  pinned,    \* the nodes pinNode has fixed
  hinges,    \* the hinges the driver formed
  moments,   \* net number of joint moments of a hinge among the nodal loads
  pending,   \* elements to remove at the start of the next step
  forming,   \* hinges to form at the start of the next step
  step,      \* recorded steps
  phase,     \* "apply", "cleanup", "solve" or "done"
  outcome,   \* CollapseOutcome, "Invalid" until a terminal state
  given,     \* history: the elements active in the caller's model
  removed,   \* history: how often a step reports an element as removed
  detached   \* history: how often a step reports an element as debris

vars == <<active, pinned, hinges, moments, pending, forming, step, phase, outcome,
          given, removed, detached>>

TypeOK ==
  /\ given \in SUBSET Elements /\ active \in SUBSET given
  /\ pending \in SUBSET Elements
  /\ pinned \in SUBSET Nodes
  /\ hinges \in SUBSET Hinges /\ forming \in SUBSET Hinges
  /\ moments \in [Hinges -> Int]
  /\ step \in Nat
  /\ phase \in {"apply", "cleanup", "solve", "done"}
  /\ outcome \in {"Invalid", "Stable", "Collapsed", "MaxSteps"}
  /\ removed \in [Elements -> Nat] /\ detached \in [Elements -> Nat]

\* Nodes that analyzeConnectivity sees as supported, and as wholly fixed.
Fixed == Supported \cup pinned
Full  == FullyFixed \cup pinned

\* The copy of the caller's model, with the scenario's removals pending; the
\* scenario may name elements that are inactive already.
Init ==
  /\ given \in SUBSET Elements /\ active = given
  /\ pending \in SUBSET Elements
  /\ forming = {} /\ pinned = {} /\ hinges = {}
  /\ moments = [h \in Hinges |-> 0]
  /\ step = 0 /\ phase = "apply" /\ outcome = "Invalid"
  /\ removed = [e \in Elements |-> 0] /\ detached = [e \in Elements |-> 0]

Counted(report, S) == [e \in Elements |-> report[e] + (IF e \in S THEN 1 ELSE 0)]

\* The joint moments after members of R broke and the hinges of F formed: the
\* moments of a broken member are retracted.
MomentsNoRetract(R, F) ==
  [h \in Hinges |-> moments[h] + (IF h \in F THEN 1 ELSE 0)]
Moments(R, F) ==
  [h \in Hinges |-> moments[h] - (IF h \in hinges /\ MemberOf[h] \in R THEN 1 ELSE 0)
                               + (IF h \in F THEN 1 ELSE 0)]

\* 1) apply the pending events.
Apply ==
  /\ phase = "apply"
  /\ step' = step + 1
  /\ active' = active \ pending
  /\ removed' = Counted(removed, pending)
  /\ moments' = Moments(pending, forming)
  /\ hinges' = hinges \cup forming
  /\ pending' = {} /\ forming' = {}
  /\ phase' = "cleanup"
  /\ UNCHANGED <<pinned, outcome, given, detached>>

\* pinNode also erases every nodal load of the node.
Erased(P) == [h \in Hinges |-> IF JointOf[h] \in P THEN 0 ELSE moments[h]]

\* Seeded fault of Remainder: the debris stays active.
KeptDebris(debris) == active

Remainder(debris) == active \ debris
Pins == DebrisNodes(active, Fixed) \cup Loose(active, Full)

\* 2) debris is deactivated and its nodes are pinned, and so are bare nodes;
\* 3) with nothing left the run has collapsed.
Cleanup ==
  LET debris == Detached(active, Fixed) IN
  /\ phase = "cleanup"
  /\ active' = Remainder(debris)
  /\ detached' = Counted(detached, debris)
  /\ pinned' = pinned \cup Pins
  /\ moments' = Erased(Pins)
  /\ IF active' = {}
     THEN phase' = "done" /\ outcome' = "Collapsed"
     ELSE phase' = "solve" /\ UNCHANGED outcome
  /\ UNCHANGED <<hinges, pending, forming, step, given, removed>>

Finish(o) == phase' = "done" /\ outcome' = o /\ UNCHANGED <<pending, forming>>

\* 4) the grounded remainder is a mechanism; 5) nothing is over its threshold.
Singular == Finish("Collapsed")
Quiet    == Finish("Stable")

\* Seeded fault of Screened: inactive elements are screened.
ScreenedAll == Elements

\* What the screen looks at: active elements, and the ends of active members
\* that still carry a moment.
Screened == active
Yielding == {h \in Hinges \ hinges : MemberOf[h] \in active}

\* 6) the step budget, or the event for the next step.
Event ==
  IF step >= MaxSteps THEN Finish("MaxSteps")
  ELSE /\ \/ \E e \in Screened : pending' = {e} /\ UNCHANGED forming
          \/ \E h \in Yielding : forming' = {h} /\ UNCHANGED pending
       /\ phase' = "apply"
       /\ UNCHANGED outcome

Solve ==
  /\ phase = "solve"
  /\ Singular \/ Quiet \/ Event
  /\ UNCHANGED <<active, pinned, hinges, moments, step, given, removed, detached>>

Next == Apply \/ Cleanup \/ Solve
Spec == Init /\ [][Next]_vars

-------------------------------------------------------------------------------
\* What is solved stands on the caller's own supports: no element is held up
\* by a node the driver itself pinned under earlier debris.
StandsOnSupports ==
  phase = "solve" =>
    \A e \in active : \A n \in NodesOf[e] : Component(active, n) \cap Supported # {}

\* No node that is solved for is bare, and pinning holds nothing up: a pinned
\* node has no active element.
NoBareFreedom ==
  /\ phase = "solve" => Nodes = Attached(active) \cup FullyFixed \cup pinned
  /\ pinned \cap Attached(active) = {}

\* Each hinge of a standing member has its joint moment among the loads exactly
\* once, and no moment outlives its member, whether the member broke, fell, or
\* its joint was pinned.
MomentsMatchHinges ==
  phase = "solve" =>
    \A h \in Hinges :
      moments[h] = IF h \in hinges /\ MemberOf[h] \in active THEN 1 ELSE 0

\* The history accounts for every element once: what the caller had and is gone
\* was reported once, as removed or as debris, and nothing that stands was.
ReportedOnce ==
  \A e \in Elements :
    /\ removed[e] + detached[e] <= 1
    /\ e \in given => (removed[e] + detached[e] = 0 <=> e \in active)

\* Each step after the first costs an element or forms a hinge, so the run ends
\* within one step per element and hinge, whatever the budget.
StepsBounded == step <= 1 + Cardinality(given \ active) + Cardinality(hinges)
==============================================================================
