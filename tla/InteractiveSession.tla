------------------------- MODULE InteractiveSession -------------------------
(***************************************************************************)
(* UFrameInteractiveSubsystem and the redundancy sweep that drives it.  The *)
(* subsystem owns a copy of the model (cached) and a ReSolveSession built   *)
(* from it.  Toggles go to the session only; loads go to the copy, and the  *)
(* session is built again so that it sees them, with default options.       *)
(* AFrameRedundancyFieldActor switches each watched member off and on again *)
(* and keeps whether the solve between was singular.                        *)
(***************************************************************************)
EXTENDS ReSolve, FramePatch

CONSTANTS
  None,            \* a null pointer
  GhostNodes,      \* nodes that are not in the model: a load there is invalid
  Watched,         \* WatchedMemberIds of the redundancy actor
  DefaultMaxRank,  \* ReanalysisOptions{}.maxRank
  PatchMenu,       \* the patches callers send
  StartMenu,       \* the models callers start on, as records of flags and loads
  MaxLoad          \* bound on a node's load

ASSUME InteractiveAssumption ==
  /\ GhostNodes \subseteq LoadNodes
  /\ Watched \in Seq(Elements)
  /\ DefaultMaxRank \in Nat /\ MaxLoad \in Nat
  /\ PatchMenu \subseteq Patches(Elements)
  /\ StartMenu \subseteq [active : SUBSET Elements, loads : Loads]

VARIABLES
  session,       \* Session: a ReSolve session value, or None
  sessionLoads,  \* the loads of the session's working model
  cached,        \* Cached: the model copy, or None
  defaults,      \* the session runs with default options
  answer,        \* the last result: "none", "refused", "solved" or "singular"
  jumps,         \* LastJumps: TRUE for an infinite jump
  asked          \* history: what StartSession and the patches since ask for

vars == <<session, sessionLoads, cached, defaults, answer, jumps, asked>>

Model == [active : SUBSET Elements, loads : Loads]

TypeOK ==
  /\ session = None \/ session \in Session
  /\ sessionLoads \in Loads
  /\ cached = None \/ cached \in Model
  /\ defaults \in BOOLEAN
  /\ answer \in {"none", "refused", "solved", "singular"}
  /\ jumps \in Seq(BOOLEAN) /\ Len(jumps) <= Len(Watched)
  /\ asked = None \/ asked \in Model

Default == INSTANCE ReSolve WITH MaxRank <- DefaultMaxRank, AllowTier2 <- TRUE

\* A solve under the options the session was built with.
SolveNow(s) == IF defaults THEN Default!Solve(s) ELSE Solve(s)

\* The engine constructor on a model: validate() refuses a load on a node that
\* is not there, and the baseline may not factor.
Starts(model) ==
  /\ \A n \in GhostNodes : model.loads[n] = 0
  /\ BuildBaseline(model.active).baseValid

Verdict(singular) == IF singular THEN "singular" ELSE "solved"

Init ==
  /\ session = None /\ cached = None /\ asked = None
  /\ sessionLoads = NoLoads
  /\ defaults = FALSE
  /\ answer = "none"
  /\ jumps = <<>>

\* Ends any session, then keeps the copy and the session or neither; `works`
\* is FALSE when the constructor throws.
StartSession(model, works) ==
  /\ IF Starts(model) /\ works
     THEN /\ session' = BuildBaseline(model.active)
          /\ sessionLoads' = model.loads
          /\ cached' = model
          /\ asked' = model
     ELSE /\ session' = None /\ cached' = None /\ asked' = None
          /\ UNCHANGED sessionLoads
  /\ defaults' = FALSE
  /\ answer' = "none"
  /\ UNCHANGED jumps

EndSession ==
  /\ session' = None /\ cached' = None /\ asked' = None
  /\ answer' = "none"
  /\ UNCHANGED <<sessionLoads, defaults, jumps>>

\* The toggles of a patch, one call of setMemberActive or setShellActive each.
Switched(s, list, on) == FoldLeft(LAMBDA t, e : SetActive(t, e, on), s, list)
Toggled(s, p) == Switched(Switched(s, p.off, FALSE), p.on, TRUE)

\* No session: nothing changes but the result.
Refuse ==
  /\ session = None
  /\ answer' = "refused"
  /\ UNCHANGED <<session, sessionLoads, cached, defaults, jumps, asked>>

\* A patch of toggles only is solved by the session as it stands.
PatchFlags(p) ==
  /\ session # None /\ ~TouchesLoads(p)
  /\ \E r \in SolveNow(Toggled(session, p)) :
       session' = r.session /\ answer' = Verdict(r.singular)
  /\ asked' = [asked EXCEPT !.active = PatchedFlags(p, @), !.loads = PatchedLoads(p, @)]
  /\ UNCHANGED <<sessionLoads, cached, defaults, jumps>>

\* A patch with loads: the toggles go to the old session, the loads to the
\* copy, and a new session is built from the copy and solved.  When the
\* constructor refuses or throws, the copy stays without a session.
PatchLoads(p, works) ==
  LET model == [cached EXCEPT !.loads = PatchedLoads(p, @)] IN
  /\ session # None /\ TouchesLoads(p)
  /\ cached' = model
  /\ asked' = [asked EXCEPT !.active = PatchedFlags(p, @), !.loads = PatchedLoads(p, @)]
  /\ IF Starts(model) /\ works
     THEN /\ \E r \in Default!Solve(BuildBaseline(model.active)) :
               session' = r.session /\ answer' = Verdict(r.singular)
          /\ sessionLoads' = model.loads
          /\ defaults' = TRUE
     ELSE /\ session' = None
          /\ answer' = "singular"
          /\ UNCHANGED <<sessionLoads, defaults>>
  /\ UNCHANGED jumps

Bounded(p) ==
  asked # None => \A n \in LoadNodes : PatchedLoads(p, asked.loads)[n] <= MaxLoad

ApplyPatchAndResolve(p) ==
  /\ Bounded(p)
  /\ \/ Refuse
     \/ PatchFlags(p)
     \/ \E works \in BOOLEAN : PatchLoads(p, works)

Rebaseline ==
  /\ session # None
  /\ session' = BuildBaseline(session.active)
  /\ answer' = "none"
  /\ UNCHANGED <<sessionLoads, cached, defaults, jumps, asked>>

ResolveCurrent ==
  /\ session # None
  /\ \E r \in SolveNow(session) :
       session' = r.session /\ answer' = Verdict(r.singular)
  /\ UNCHANGED <<sessionLoads, cached, defaults, jumps, asked>>

\* Seeded fault of Probes: the member is not switched on again.
ProbesNoRestore(run, e) ==
  {[session |-> r.session, jumps |-> Append(run.jumps, r.singular)] :
     r \in SolveNow(SetActive(run.session, e, FALSE))}

\* One watched member of the sweep: off and solved, which gives the jump, then
\* on and solved again.
Probes(run, e) ==
  UNION {{[session |-> b.session, jumps |-> Append(run.jumps, r.singular)] :
            b \in SolveNow(SetActive(r.session, e, TRUE))} :
         r \in SolveNow(SetActive(run.session, e, FALSE))}

\* Every way the sweep of the whole list can go.
Sweeps(s) ==
  LET Extend(runs, e) == UNION {Probes(run, e) : run \in runs}
  IN FoldLeft(Extend, {[session |-> s, jumps |-> <<>>]}, Watched)

\* Nothing is probed unless the current set solves first.
ComputeRedundancy ==
  /\ session # None
  /\ \E base \in SolveNow(session) :
       IF base.singular
       THEN session' = base.session /\ jumps' = <<>> /\ answer' = "singular"
       ELSE \E run \in Sweeps(base.session) :
              session' = run.session /\ jumps' = run.jumps /\ answer' = "none"
  /\ UNCHANGED <<sessionLoads, cached, defaults, asked>>

Next ==
  \/ \E model \in StartMenu, works \in BOOLEAN : StartSession(model, works)
  \/ EndSession
  \/ \E p \in PatchMenu : ApplyPatchAndResolve(p)
  \/ Rebaseline
  \/ ResolveCurrent
  \/ ComputeRedundancy

Spec == Init /\ [][Next]_vars

-------------------------------------------------------------------------------
\* Every load that was asked for, and no other, is in the model copy and in the
\* session's own working model, which never reads the copy again.
LoadsReachSession ==
  session # None => sessionLoads = asked.loads /\ cached.loads = asked.loads

\* A session that is alive after the last answer gave the answer of a fresh
\* factorization, unless conjugate gradients were allowed to give it.
AnswersAreExact ==
  session # None /\ ~defaults /\ ~AllowTier2 =>
    /\ answer = "solved" => Factorable(session.active)
    /\ answer = "singular" /\ session.baseValid => ~Factorable(session.active)

\* The ladder's rank after a whole sweep that never builds a baseline.
RankAfterSweep == FoldLeft(LAMBDA rank, e : rank + 2 * RankOf[e], session.rank, Watched)

\* Room on the ladder for a whole sweep, of members that are there.
RoomToSweep ==
  /\ session # None /\ session.baseValid
  /\ ToSet(Watched) \subseteq session.active
  /\ ToSet(Watched) \cap Unpreparable = {}
  /\ RankAfterSweep <= IF defaults THEN DefaultMaxRank ELSE MaxRank

\* Given that room, a sweep marks exactly the members whose removal makes the
\* structure a mechanism, and leaves the active set as it found it on a session
\* that still stands for it.
SweepIsNeutral ==
  [][ComputeRedundancy /\ RoomToSweep /\ Factorable(session.active) =>
       /\ session'.active = session.active /\ session'.baseValid
       /\ jumps' = [i \in DOMAIN Watched |-> session.active \ {Watched[i]} \in Mechanisms]]_vars

\* FrameInteractiveSubsystem.cpp: "active member set survived inside
\* Cached->Model": a load patch leaves the flags as the patches asked.
LoadPatchKeepsFlags == session # None => session.active = asked.active
==============================================================================
