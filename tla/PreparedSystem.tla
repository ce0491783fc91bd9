--------------------------- MODULE PreparedSystem ---------------------------
(***************************************************************************)
(* The value of a frame::PreparedSystem, a factored structure, and the ways *)
(* the library answers from it: solveLoad, solveLoadSupernodal and the      *)
(* frames of an SnSession.  A model is its parts by what a factor depends   *)
(* on; the numbers are what they were computed from.  Where a factorization *)
(* or a substitution may fail, an operator returns every possible outcome.  *)
(***************************************************************************)
EXTENDS Naturals

CONSTANTS
  Stiffnesses,  \* what K depends on: nodes, elements, sections, materials, hinges
  Unstable,   \* the stiffnesses whose reduced matrix is singular
  Loads,        \* values of a kind of load
  None          \* no factor, no session; a result flagged singular

ASSUME PreparedAssumption == Unstable \subseteq Stiffnesses /\ None \notin Stiffnesses

\* Distributed loads are baked into the elements when they are prepared; nodal
\* loads and the displacements of supports are read at every solve.
Models == [stiffness : Stiffnesses, baked : Loads, nodal : Loads, prescribed : Loads]

\* Seeded fault: distributed loads are left out of the hash.
FingerprintBareFrame(m) == m.stiffness
\* modelFingerprint: what the factor and the baked loads stand on.
Fingerprint(m) == <<m.stiffness, m.baked>>

\* assembleAndFactor: the supernodal factor alone when it was asked for and is
\* positive definite, else the LDLT factor.
Prepare(m, lane) ==
  [stiffness |-> m.stiffness, baked |-> m.baked, lane |-> lane,
   singular |-> m.stiffness \in Unstable, fingerprint |-> Fingerprint(m)]
Lanes(useSupernodalPrimary) == {"ldlt"} \cup (IF useSupernodalPrimary THEN {"supernodal"} ELSE {})

\* A solution of the loads of m on the factor and the elements of p.
Solution(p, m) ==
  [stiffness |-> p.stiffness, baked |-> p.baked, nodal |-> m.nodal, prescribed |-> m.prescribed]

\* The factor stands for the model.
Reusable(p, m) == ~p.singular /\ p.fingerprint = Fingerprint(m)

\* S.ldlt.solve: undefined where the LDLT factor was never computed.
SolveLDLT(p, m) == {None} \cup IF p.lane = "ldlt" THEN {Solution(p, m)} ELSE Models

SolveLoad(p, m) ==
  IF ~Reusable(p, m) THEN {None}
  ELSE IF p.lane = "supernodal" THEN {Solution(p, m), None} ELSE SolveLDLT(p, m)

\* After the supernodal solve failed or was never tried.
Fallback(p, m, refuses) ==
  IF refuses \/ p.lane = "supernodal" THEN {None} ELSE SolveLDLT(p, m)

\* solveLoadSupernodal factors on every call.
SolveLoadSupernodal(p, m, enabled, fallbackOnFail) ==
  IF ~Reusable(p, m) THEN {None}
  ELSE (IF enabled THEN {Solution(p, m)} ELSE {})
         \cup Fallback(p, m, enabled /\ ~fallbackOnFail)

\* SnSession's constructor: it shares a supernodal factor the system already has
\* or builds its own, which may not be positive definite, or throw.
SnSessions(p, enabled, fallbackOnFail) ==
  {[ready |-> r, fallbackOnFail |-> fallbackOnFail] :
     r \in IF ~enabled \/ p.singular THEN {FALSE}
           ELSE IF p.lane = "supernodal" THEN {TRUE} ELSE BOOLEAN}

\* solveFrame.  The session points into p, which has to outlive it.
SolveFrame(sn, p, m) ==
  IF ~Reusable(p, m) THEN {None}
  ELSE (IF sn.ready THEN {Solution(p, m)} ELSE {})
         \cup Fallback(p, m, sn.ready /\ ~sn.fallbackOnFail)
==============================================================================
