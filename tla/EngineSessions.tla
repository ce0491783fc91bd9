--------------------------- MODULE EngineSessions ---------------------------
(***************************************************************************)
(* The engine sessions a bridge Context owns and the handlers of Dispatcher *)
(* that act on them.  The worker runs one handler at a time, so a request   *)
(* is one step; when requests run, wait or are cancelled is CApiContext's   *)
(* and Dispatcher's matter.  What a handler packs into its reply is left    *)
(* out but for the final state a solve answers with and inspect.* re-reads. *)
(***************************************************************************)
EXTENDS PreparedSystem, FiniteSets

CONSTANTS
  Bodies,         \* bodies of model.set
  MaxSessions     \* bound: sessions opened

ASSUME EngineAssumption ==
  /\ Bodies \subseteq [model : Models, valid : BOOLEAN, caps : BOOLEAN]
  /\ MaxSessions \in Nat

VARIABLES
  profile,   \* Context::profile
  sessions,  \* Context::sessions
  seq,       \* Context::nextSessionSeq
  told       \* what the client learned of each session: the body it set, the final state
             \* it was answered last, and what solve.linear refused it last since

engineVars == <<profile, sessions, seq, told>>

Result(by, of, finite) == [by |-> by, of |-> of, finite |-> finite]
Opened == DOMAIN sessions
HasModel(s) == s \in Opened /\ sessions[s].model # None

EngineInit == profile = "simple" /\ sessions = << >> /\ seq = 1 /\ told = << >>

\* session.hello sets the profile of the connection, at any time.
Hello ==
  /\ profile' \in {"simple", "advanced"}
  /\ UNCHANGED <<sessions, seq, told>>

\* session.open.  The session takes the profile of the connection, whichever the
\* body asks for; an advanced body on a simple connection is refused.
Open ==
  /\ seq <= MaxSessions
  /\ \E wanted \in {"simple", "advanced"}, useSn \in BOOLEAN :
       /\ wanted = "advanced" => profile = "advanced"
       /\ sessions' = [s \in Opened \cup {seq} |-> IF s # seq THEN sessions[s] ELSE
            [profile |-> profile, useSn |-> useSn, model |-> None,
             prepared |-> None, sn |-> None, lastSolve |-> None]]
  /\ told' = [s \in Opened \cup {seq} |-> IF s # seq THEN told[s] ELSE
       [body |-> None, final |-> None, refused |-> {}]]
  /\ seq' = seq + 1
  /\ UNCHANGED profile

Close(s) ==
  /\ s \in Opened
  /\ sessions' = [o \in Opened \ {s} |-> sessions[o]]
  /\ told' = [o \in Opened \ {s} |-> told[o]]
  /\ UNCHANGED <<profile, seq>>

\* model.set: an advanced session wants a capacity for every material, and the
\* model has to build and to pass FrameModel::validate.
Accepts(s, body) == body.valid /\ (sessions[s].profile = "advanced" => body.caps)

\* Seeded fault: the results are not.
ReplacedKeepsResults(o, m) ==
  [profile |-> o.profile, useSn |-> o.useSn, model |-> m,
   prepared |-> None, sn |-> None, lastSolve |-> o.lastSolve]
\* The new model voids the factor, the supernodal session and the results.
Replaced(o, m) ==
  [profile |-> o.profile, useSn |-> o.useSn, model |-> m,
   prepared |-> None, sn |-> None, lastSolve |-> None]

\* A refused body leaves the model and its results in place.
SetModelRefused(s, body) == UNCHANGED sessions

\* A supernodal session factors at once; an exception there, in the factorization
\* or after it, leaves it without its SnSession.
SetModel(s, body) ==
  /\ s \in Opened
  /\ IF ~Accepts(s, body) THEN SetModelRefused(s, body) /\ UNCHANGED told
     ELSE LET o == Replaced(sessions[s], body.model)
              p == Prepare(body.model, "ldlt")
              factored == [o EXCEPT !.prepared = p]
          IN \E new \in IF ~o.useSn THEN {o}
                        ELSE {o, factored} \cup
                             {[factored EXCEPT !.sn = sn] : sn \in SnSessions(p, TRUE, TRUE)} :
               /\ sessions' = [sessions EXCEPT ![s] = new]
               /\ told' = [told EXCEPT ![s] = [body |-> body, final |-> None, refused |-> {}]]
  /\ UNCHANGED <<profile, seq>>

\* The first solve of a model factors it; the others reuse the factor.
Factored(o) == IF o.prepared = None THEN Prepare(o.model, "ldlt") ELSE o.prepared

\* solve.linear caches the result before it looks for non-finite numbers.
Cached(o, result) == [o EXCEPT !.lastSolve = result]

\* A result is answered if all its numbers are finite, else NON_FINITE_RESULT is.
Answered(t, result) ==
  IF result.finite THEN [body |-> t.body, final |-> result, refused |-> {}]
  ELSE [body |-> t.body, final |-> t.final, refused |-> {result}]

\* solve.linear, through the SnSession where there is one.  Either call may throw.
SolveLinear(s) ==
  /\ HasModel(s)
  /\ LET o == [sessions[s] EXCEPT !.prepared = Factored(sessions[s])]
         outcomes == IF o.sn # None THEN SolveFrame(o.sn, o.prepared, o.model)
                     ELSE SolveLoad(o.prepared, o.model)
     IN \/ sessions' = [sessions EXCEPT ![s] = o] /\ UNCHANGED told
        \/ \E of \in outcomes, finite \in BOOLEAN :
             LET result == Result("linear", of, finite) IN
             /\ sessions' = [sessions EXCEPT ![s] = Cached(o, result)]
             /\ told' = [told EXCEPT ![s] = Answered(told[s], result)]
  /\ UNCHANGED <<profile, seq>>

\* packFinalState: a singular state packs as an empty one; one with a number that is
\* not finite does not pack.
Packs(R) == R.of = None \/ R.finite

\* The end of the analyses that answer with a final state: it is cached once it is
\* packed, and an error leaves the session as it was.
Conclude(s, R) ==
  IF Packs(R)
  THEN LET result == Result(R.by, R.of, TRUE) IN
       /\ sessions' = [sessions EXCEPT ![s] = Cached(sessions[s], result)]
       /\ told' = [told EXCEPT ![s] = Answered(told[s], result)]
  ELSE UNCHANGED <<sessions, told>>

\* One of them, on the model as it is or on what it becomes.
Analyse(s, models) ==
  /\ \E of \in models \cup {None}, finite \in BOOLEAN :
       Conclude(s, Result("analysis", of, finite))
  /\ UNCHANGED <<profile, seq>>

SolvePDelta(s)       == HasModel(s) /\ Analyse(s, {sessions[s].model})
SolveTensionOnly(s)  == HasModel(s) /\ Analyse(s, {sessions[s].model})
SolveCorotational(s) == HasModel(s) /\ Analyse(s, {sessions[s].model})

\* solve.arclength: an advanced session has to give the length of the arc.
SolveArcLength(s) ==
  \E given \in BOOLEAN :
    /\ HasModel(s) /\ (sessions[s].profile = "advanced" => given)
    /\ Analyse(s, {sessions[s].model})

\* analysis.reanalysis_solve: a session of its own on the model, some elements switched;
\* an element it does not know is refused before anything is solved.
SolveReanalysis(s) ==
  /\ HasModel(s)
  /\ Analyse(s, {[sessions[s].model EXCEPT !.stiffness = k] : k \in Stiffnesses})

\* analysis.modal and analysis.buckling work on the LDLT factor and refuse a
\* supernodal session.
Eigen(s) ==
  /\ HasModel(s) /\ ~sessions[s].useSn
  /\ sessions' = [sessions EXCEPT ![s].prepared = Factored(sessions[s])]
  /\ UNCHANGED <<profile, seq, told>>

EngineNext ==
  \/ Hello \/ Open
  \/ \E s \in Opened :
       \/ Close(s) \/ SolveLinear(s) \/ Eigen(s)
       \/ SolvePDelta(s) \/ SolveTensionOnly(s) \/ SolveCorotational(s)
       \/ SolveArcLength(s) \/ SolveReanalysis(s)
       \/ \E body \in Bodies : SetModel(s, body)

EngineSpec == EngineInit /\ [][EngineNext]_engineVars

-------------------------------------------------------------------------------
\* What inspect.* shows of a session: its cached final state, or nothing.
Inspected(s) == IF HasModel(s) THEN sessions[s].lastSolve ELSE None

\* inspect.* shows the final state the client was answered last for the model it has,
\* whatever was refused or thrown since: nothing of a replaced model, not a state an
\* analysis refused.  The exception is a solve.linear refused as not finite: then it
\* may be working on that very state, but on no other.  And the factor the next solve
\* reuses is of the body the client set last.
InspectShowsLastAnswer ==
  \A s \in Opened :
    /\ Inspected(s) = told[s].final \/ Inspected(s) \in told[s].refused
    /\ sessions[s].prepared # None =>
         sessions[s].prepared = Prepare(told[s].body.model, "ldlt")

==============================================================================
