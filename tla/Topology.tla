------------------------------ MODULE Topology ------------------------------
(***************************************************************************)
(* runBESO: members are switched off in the order of their sensitivity, a   *)
(* batch per iteration, on a working copy of the model and in step with it  *)
(* on one reanalysis session.  A removal that takes the ground from a       *)
(* loaded node or makes a mechanism is undone at once; every so many        *)
(* iterations the batch is undone, and its members locked, when the loss of *)
(* one more member would bring the structure down.                          *)
(*                                                                         *)
(* Left open are the numbers: the order of the sensitivities, whether the   *)
(* compliance jumps, and what the collapse driver says of a topology.       *)
(***************************************************************************)
EXTENDS ReSolve, FiniteSetsExt

CONSTANTS
  Nodes, NodesOf,        \* of Connectivity
  Supported, FullyFixed, \* nodes with some, and with every, freedom fixed
  Loaded,                \* loadedNodes
  Designs,               \* designMembers
  Volume,                \* A_e * L_e
  TargetPercent,         \* BESOOptions::targetVolFrac
  EvolPercent,           \* BESOOptions::evolRate
  Cadences,              \* values of BESOOptions::redundancyCheckEvery
  MaxIter                \* BESOOptions::maxIter

ASSUME TopologyAssumption ==
  /\ FullyFixed \subseteq Supported /\ Supported \cup Loaded \subseteq Nodes
  /\ Designs \subseteq SUBSET Elements /\ Volume \in [Elements -> Nat]
  /\ TargetPercent \in Nat /\ EvolPercent \in Nat /\ Cadences \subseteq Nat
  /\ MaxIter \in Nat \ {0}
  /\ NodesOf \in [Elements -> SUBSET Nodes] /\ \A e \in Elements : NodesOf[e] # {}

VARIABLES
  given,      \* the active elements of the caller's model
  design,     \* isDesign
  every,      \* redundancyCheckEvery; 0 for never
  work,       \* the active elements of the working copy
  sess,       \* sess, a session value
  locked,     \* isProtected
  iter,       \* the iteration
  best,       \* BESOResult::bestActive; {} while there is none
  order,      \* candidates of this iteration not tried, or to be put back
  batch,      \* what this iteration has removed
  seen,       \* seenStates
  phase,      \* "solve", "trim", "probe", "undo", "lock" or "done"
  reason,     \* BESOStop
  condemned   \* history: the topologies found fragile

besoVars == <<given, design, every, work, sess, locked, iter, best, order, batch, seen,
              phase, reason, condemned>>

Graph == INSTANCE Connectivity

VolumeOf(S) == SumFunctionOnSet(Volume, S)
DesignVolume == VolumeOf(design \cap work)
TargetReached == 100 * DesignVolume <= TargetPercent * VolumeOf(design)

\* What is removed this iteration is the evolution rate of the volume at its
\* start, and no more than is missing to the target.
QuotaReached ==
  LET removed == VolumeOf(batch)
      volume  == DesignVolume + removed
  IN \/ 100 * removed >= EvolPercent * volume
     \/ 100 * removed >= 100 * volume - TargetPercent * VolumeOf(design)

\* A design of no volume is invalid, and a model that does not factor is refused.
BesoInit ==
  /\ given \in SUBSET Elements
  /\ \E d \in Designs : design = d \cap given
  /\ every \in Cadences
  /\ work = given /\ sess = BuildBaseline(given)
  /\ locked = {} /\ best = {} /\ order = {} /\ batch = {} /\ seen = {} /\ condemned = {}
  /\ IF VolumeOf(design) = 0 THEN phase = "done" /\ reason = "Invalid" /\ iter = 0
     ELSE IF ~sess.baseValid THEN phase = "done" /\ reason = "Mechanism" /\ iter = 0
     ELSE phase = "solve" /\ reason = "Invalid" /\ iter = 1

Stop(why) == phase' = "done" /\ reason' = why

\* The current topology is solved: it is the best so far unless the compliance has
\* jumped, and the last if it is small enough.
Assess ==
  /\ phase = "solve"
  /\ \E r \in Solve(sess) :
       /\ sess' = r.session
       /\ \/ r.singular /\ Stop("Mechanism") /\ UNCHANGED <<best, order, batch>>
          \/ /\ ~r.singular /\ iter > 1
             /\ Stop("ComplianceJump") /\ UNCHANGED <<best, order, batch>>
          \/ /\ ~r.singular
             /\ best' = work
             /\ IF TargetReached THEN Stop("TargetReached") /\ UNCHANGED <<order, batch>>
                ELSE /\ phase' = "trim" /\ UNCHANGED reason
                     /\ order' = (design \cap work) \ locked /\ batch' = {}
  /\ UNCHANGED <<given, design, every, work, locked, iter, seen, condemned>>

\* A loaded node lies in debris, or no element holds it.
LosesLoaded(act) ==
  Loaded \cap (Graph!DebrisNodes(act, Supported) \cup Graph!Loose(act, FullyFixed)) # {}

\* Seeded fault: the session's answer is trusted.
BadUnconfirmed(s) ==
  IF LosesLoaded(s.active) THEN {[session |-> s, bad |-> TRUE]}
  ELSE {[session |-> r.session, bad |-> r.singular] : r \in Solve(s)}
\* bad(): connectivity first, then the session, then a fresh factorization.
Bad(s) ==
  IF LosesLoaded(s.active) THEN {[session |-> s, bad |-> TRUE]}
  ELSE {[session |-> r.session, bad |-> r.singular \/ ~Factorable(s.active)] :
          r \in Solve(s)}

\* One candidate is switched off, and on again if that was bad.
RemoveOne ==
  /\ phase = "trim" /\ ~QuotaReached
  /\ \E e \in order :
       /\ order' = order \ {e}
       /\ \E b \in Bad(SetActive(sess, e, FALSE)) :
            IF b.bad
            THEN sess' = SetActive(b.session, e, TRUE) /\ UNCHANGED <<work, batch>>
            ELSE sess' = b.session /\ work' = work \ {e} /\ batch' = batch \cup {e}
  /\ UNCHANGED <<given, design, every, locked, iter, best, seen, phase, reason,
                 condemned>>

NextIteration ==
  IF iter < MaxIter THEN iter' = iter + 1 /\ phase' = "solve" /\ UNCHANGED reason
  ELSE Stop("MaxIter") /\ UNCHANGED iter

Trimmed ==
  /\ phase = "trim" /\ (QuotaReached \/ order = {})
  /\ IF batch = {} THEN Stop("Stalled") /\ UNCHANGED iter
     ELSE IF every > 0 /\ iter % every = 0
     THEN phase' = "probe" /\ UNCHANGED <<iter, reason>>
     ELSE NextIteration
  /\ UNCHANGED <<given, design, every, work, sess, locked, best, order, batch, seen,
                 condemned>>

\* The batch goes back into the working copy and the session, a member at a time.
RollBack(why) == phase' = why /\ order' = batch

Restore(e) ==
  /\ sess' = SetActive(sess, e, TRUE) /\ work' = work \cup {e}
  /\ order' = order \ {e}

\* The loss of one more member brings the structure down.
Fragile == design \cap work # {} /\ RollBack("lock") /\ condemned' = condemned \cup {work}

\* The check of redundancy.  The driver gives one topology one answer.
Probe ==
  /\ phase = "probe"
  /\ \E r \in Solve(sess) :
       /\ sess' = r.session
       /\ \/ r.singular /\ RollBack("undo") /\ UNCHANGED <<iter, reason, condemned>>
          \/ ~r.singular /\ Fragile /\ UNCHANGED <<iter, reason>>
          \/ /\ ~r.singular /\ work \notin condemned
             /\ NextIteration /\ UNCHANGED <<order, condemned>>
  /\ UNCHANGED <<given, design, every, work, locked, best, batch, seen>>

\* After a mechanism the batch is only undone.
Undo ==
  /\ phase = "undo"
  /\ \/ order = {} /\ Stop("Mechanism") /\ UNCHANGED <<sess, work, order>>
     \/ \E e \in order : Restore(e) /\ UNCHANGED <<phase, reason>>
  /\ UNCHANGED <<given, design, every, locked, iter, best, batch, seen, condemned>>

\* Seeded fault: the members rolled back may be removed again.
LockNothing(e) == UNCHANGED locked
Lock(e) == locked' = locked \cup {e}

\* After a fragile topology it is locked as well, and coming back to a topology a
\* second time ends the run.
Relock ==
  /\ phase = "lock"
  /\ \/ /\ order = {}
        /\ seen' = seen \cup {work}
        /\ IF work \in seen THEN Stop("Stalled") /\ UNCHANGED iter ELSE NextIteration
        /\ UNCHANGED <<sess, work, order, locked>>
     \/ \E e \in order : Restore(e) /\ Lock(e) /\ UNCHANGED <<iter, seen, phase, reason>>
  /\ UNCHANGED <<given, design, every, best, batch, condemned>>

BesoNext == Assess \/ RemoveOne \/ Trimmed \/ Probe \/ Undo \/ Relock
BesoSpec == BesoInit /\ [][BesoNext]_besoVars

-------------------------------------------------------------------------------
\* complianceBestRollback: what the caller is given as the best topology.
Reported == IF best = {} THEN work ELSE best

Sound(act) == Factorable(act) /\ ~LosesLoaded(act)

\* Whatever the order of removals, the tier that answered and the reason of the
\* stop: a run that began on a sound model has at no time a topology, and reports
\* none, that is a mechanism or leaves a load in the air; nor does it, once it has
\* put the batch back, ever come to less than a topology it found fragile.
TopologiesStand ==
  /\ sess.active = work
  /\ Sound(given) => Sound(work) /\ Sound(Reported)
  /\ \A act \in condemned :
       /\ ~(Reported \subseteq act)
       /\ phase # "lock" => ~(work \subseteq act)

==============================================================================
