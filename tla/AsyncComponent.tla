--------------------------- MODULE AsyncComponent ---------------------------
(***************************************************************************)
(* AsyncFrameComponent, the base of the components that solve: one on the   *)
(* canvas, its inputs and the runs it has started.  SolveInstance runs on   *)
(* the UI thread.  A run is a task on the pool that writes the component's  *)
(* fields without a lock: it looks at its token in one step and writes what *)
(* it found in the next; and SolveInstance shows a result in one step and   *)
(* clears it, with whatever was stored meanwhile, in the next.              *)
(***************************************************************************)
EXTENDS Naturals, FiniteSets

CONSTANTS
  Inputs,       \* what may be wired to the component
  Unreadable,   \* those TryReadInputs refuses
  MaxRuns,      \* bound: runs started
  NoResult

ASSUME AsyncAssumption ==
  Unreadable \subseteq Inputs /\ MaxRuns \in Nat /\ NoResult \notin Inputs

VARIABLES
  input,        \* what is wired to the component
  fields,       \* _result (the input it is of), _solving, _terminalErrorReady, _cancelled
  message,      \* Message: "solving", "cancelled" or a verdict
  showing,      \* SolveInstance has shown a result and not yet cleared it
  live,         \* the run whose token _cts still has, or 0
  runs,         \* the runs so far: [of |-> its input, at |-> where it is]
  solveExpires, \* queued calls of ExpireSolution
  outputs,      \* the input whose result the outputs show
  gone          \* it has been taken off the canvas

asyncVars == <<input, fields, message, showing, live, runs, solveExpires, outputs, gone>>

AsyncInit ==
  /\ input \in Inputs
  /\ fields = [result |-> NoResult, solving |-> FALSE, terminal |-> FALSE, cancelled |-> FALSE]
  /\ message = "none" /\ showing = FALSE /\ live = 0 /\ runs = << >>
  /\ solveExpires = 1 /\ outputs = NoResult /\ gone = FALSE

Started == DOMAIN runs
RunCancelled(r) == r # live
RunGoto(r, place) == runs' = [runs EXCEPT ![r].at = place]

\* FlushMessage; errors, defaults and warnings are one verdict here.
Said(f) == IF f.cancelled THEN "cancelled" ELSE IF f.solving THEN "solving" ELSE "verdict"

\* A failure is shown once, and not started again at once.
ShowError ==
  /\ fields.terminal
  /\ fields' = [fields EXCEPT !.terminal = FALSE, !.solving = FALSE]
  /\ message' = Said(fields') /\ outputs' = NoResult
  /\ UNCHANGED <<showing, live, runs>>

\* Phase B, up to FlushMessage, which finds _solving as the run has left it.
ShowResult ==
  /\ ~fields.terminal /\ fields.result # NoResult
  /\ outputs' = fields.result /\ message' = Said(fields) /\ showing' = TRUE
  /\ UNCHANGED <<fields, live, runs>>

\* Phase A: the previous run is cancelled and, if the inputs can be read, one started.
StartRun(in) ==
  /\ ~fields.terminal /\ fields.result = NoResult
  /\ fields' = [fields EXCEPT !.solving = in \notin Unreadable, !.cancelled = FALSE]
  /\ outputs' = NoResult /\ message' = Said(fields') /\ UNCHANGED showing
  /\ IF in \in Unreadable
     THEN live' = 0 /\ UNCHANGED runs
     ELSE LET r == Cardinality(Started) + 1 IN
          /\ r <= MaxRuns
          /\ live' = r
          /\ runs' = [o \in Started \cup {r} |-> IF o = r THEN [of |-> in, at |-> "running"]
                                                          ELSE runs[o]]

SolveInstance(in, queued) ==
  /\ ~gone /\ ~showing /\ input' = in /\ solveExpires' = queued
  /\ ShowError \/ ShowResult \/ StartRun(in)
  /\ UNCHANGED gone

\* The rest of Phase B.
ClearResult ==
  /\ showing /\ showing' = FALSE
  /\ fields' = [fields EXCEPT !.result = NoResult, !.solving = FALSE]
  /\ UNCHANGED <<input, message, live, runs, solveExpires, outputs, gone>>

\* The inputs change, or are computed again.
WireInput(in) == SolveInstance(in, solveExpires)

\* A queued ExpireSolution.
ExpireSolve == solveExpires > 0 /\ SolveInstance(input, solveExpires - 1)

\* RunAsync has answered, failed or been called off, which FrameSession may do though
\* this token is not cancelled; an answer and a failure look at the token.
LookSolve(r, found) ==
  /\ r \in Started /\ runs[r].at = "running"
  /\ RunGoto(r, IF RunCancelled(r) THEN "called off" ELSE found)
  /\ UNCHANGED <<input, fields, message, showing, live, solveExpires, outputs, gone>>

RunReturns(r) == \E found \in {"answered", "failed", "called off"} : LookSolve(r, found)

\* What a run that has looked writes.
Stored(r) ==
  CASE runs[r].at = "answered"   -> [fields EXCEPT !.result = runs[r].of]
    [] runs[r].at = "failed"     -> [fields EXCEPT !.terminal = TRUE]
    [] runs[r].at = "called off" -> [fields EXCEPT !.cancelled = TRUE]

Store(r) ==
  /\ r \in Started /\ runs[r].at \in {"answered", "failed", "called off"}
  /\ fields' = Stored(r)
  /\ RunGoto(r, "finally")
  /\ UNCHANGED <<input, message, showing, live, solveExpires, outputs, gone>>

\* Seeded fault of Wakes: only a result expires the component.
WakesWithResult(r) == ~RunCancelled(r) /\ fields.result # NoResult
\* The finally of a run whose token is not cancelled expires the component.
Wakes(r) == ~RunCancelled(r)

SolveFinally(r) ==
  /\ r \in Started /\ runs[r].at = "finally"
  /\ solveExpires' = IF Wakes(r) THEN solveExpires + 1 ELSE solveExpires
  /\ RunGoto(r, "over")
  /\ UNCHANGED <<input, fields, message, showing, live, outputs, gone>>

RemovedFromDocument ==
  /\ ~gone /\ ~showing /\ gone' = TRUE /\ live' = 0
  /\ UNCHANGED <<input, fields, message, showing, runs, solveExpires, outputs>>

AsyncNext ==
  \/ \E in \in Inputs : WireInput(in)
  \/ ExpireSolve \/ ClearResult \/ RemovedFromDocument
  \/ \E r \in Started : RunReturns(r) \/ Store(r) \/ SolveFinally(r)

AsyncSpec == AsyncInit /\ [][AsyncNext]_asyncVars
-------------------------------------------------------------------------------
\* Nothing is under way that would solve the component again.
AtRest ==
  ~gone /\ ~showing /\ solveExpires = 0 /\ \A r \in Started : runs[r].at = "over"

\* "Each new SolveInstance cancels the previous one": at rest the outputs are of what
\* is wired to the component, or there are none.
OutputsAreOfInputs == AtRest => outputs \in {NoResult, input}

\* At rest no run is taken to be under way, and a component with nothing on its outputs
\* does not say "solving...": whichever runs were cancelled, called off, failed or
\* overtaken, the last to start has solved it again.  (Beside a result it does say so:
\* the message is flushed while _solving is set, AsyncComponent.cs:91.)
SolvingEnds ==
  AtRest => ~fields.solving /\ (message = "solving" => outputs # NoResult)
==============================================================================
