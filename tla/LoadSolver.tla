----------------------------- MODULE LoadSolver -----------------------------
(***************************************************************************)
(* A caller of the library that factors a structure once and solves it many *)
(* times while it edits the model in place: the factor-once, solve-many use *)
(* that PreparedSystem and SnSession are made for.                          *)
(***************************************************************************)
EXTENDS PreparedSystem

VARIABLES
  model,     \* the caller's FrameModel
  prepared,  \* its PreparedSystem
  sn,        \* its SnSession
  answer     \* the last SolveResult

loadVars == <<model, prepared, sn, answer>>

LoadInit == model \in Models /\ prepared = None /\ sn = None /\ answer = None

\* The caller changes the model; the results it held are of another model.
Edit ==
  /\ model' \in Models
  /\ answer' = None
  /\ UNCHANGED <<prepared, sn>>

\* A new factor; the session over the old one goes with it, as it has to.
Factor ==
  /\ \E useSupernodalPrimary \in BOOLEAN :
       \E lane \in Lanes(useSupernodalPrimary) : prepared' = Prepare(model, lane)
  /\ sn' = None
  /\ UNCHANGED <<model, answer>>

OpenSnSession ==
  /\ prepared # None
  /\ \E enabled, fallbackOnFail \in BOOLEAN :
       sn' \in SnSessions(prepared, enabled, fallbackOnFail)
  /\ UNCHANGED <<model, prepared, answer>>

LoadSolve ==
  /\ prepared # None
  /\ \/ answer' \in SolveLoad(prepared, model)
     \/ \E enabled, fallbackOnFail \in BOOLEAN :
          answer' \in SolveLoadSupernodal(prepared, model, enabled, fallbackOnFail)
     \/ sn # None /\ answer' \in SolveFrame(sn, prepared, model)
  /\ UNCHANGED <<model, prepared, sn>>

LoadNext == Edit \/ Factor \/ OpenSnSession \/ LoadSolve
LoadSpec == LoadInit /\ [][LoadNext]_loadVars

\* A result that is not flagged singular is what a fresh assembleAndFactor and
\* solveLoad of the model as it is now would give, whatever was edited since the
\* factor was built and whichever factor answered.
AnswersAreFresh == answer \in {None, model}
==============================================================================
