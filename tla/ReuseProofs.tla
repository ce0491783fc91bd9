----------------------------- MODULE ReuseProofs -----------------------------
(***************************************************************************)
(* Proofs about one ReSolveSession, for every base model, every rank and    *)
(* every set of mechanisms closed under removal, and about the callers that *)
(* reuse a factor: a caller that factors once and solves many loads, the    *)
(* engine sessions of the bridge, and runBESO, which trims a frame on one   *)
(* reanalysis session.                                                      *)
(*                                                                         *)
(* runBESO asks at every removal whether the frame still stands, and never  *)
(* again when it puts members back: that rests on standing being monotone   *)
(* (SoundIsMonotone), which is where the graph comes in.                     *)
(***************************************************************************)
EXTENDS ReSolveSession, LoadSolver, EngineSessions, Topology, ReSolveLemmas

-------------------------------------------------------------------------------
(* ReSolveSession: the ladder is exact.                                    *)

\* The inductive strengthening: the ladder is exact element by element.
IInv == TypeOK /\ session \in LadderSessions

-------------------------------------------------------------------------------
\* The initial states satisfy the invariant.
LEMMA InitInv == Init => IInv
<1> SUFFICES ASSUME Init PROVE IInv
  OBVIOUS
<1>1. PICK act \in SUBSET Elements : session = BuildBaseline(act)
  BY DEF Init
<1>2. session \in LadderSessions
  BY <1>1, BaselineLadder
<1> QED
  BY <1>2 DEF Init, IInv, TypeOK, LadderSessions

\* Each call on a session preserves the invariant.
LEMMA NextInv == IInv /\ [Next]_vars => IInv'
<1> SUFFICES ASSUME IInv, [Next]_vars PROVE IInv'
  OBVIOUS
<1>1. ASSUME NEW e \in Elements, NEW on \in BOOLEAN, SetElementActive(e, on)
      PROVE  IInv'
  BY <1>1, ToggleLadder DEF SetElementActive, IInv, TypeOK, LadderSessions
<1>2. CASE SolveCurrent
  <2>1. session \in Session /\ session.active \in SUBSET Elements
    BY DEF IInv, TypeOK, Session
  <2>2. PICK r \in Solve(session) :
          /\ session' = r.session
          /\ verdict' = IF r.singular THEN "singular" ELSE "solved"
          /\ tier' = r.tier
    BY <1>2 DEF SolveCurrent
  <2>3. verdict' \in {"none", "solved", "singular"} /\ tier' \in 0..3
    BY <2>1, <2>2, SolveOutcome
  <2>4. session' \in LadderSessions
    BY <2>2, SolveLadder DEF IInv
  <2> QED
    BY <2>3, <2>4 DEF IInv, TypeOK, LadderSessions
<1>3. CASE Rebaseline
  <2>1. session.active \in SUBSET Elements
    BY DEF IInv, TypeOK, Session
  <2> QED
    BY <1>3, <2>1, BaselineLadder DEF Rebaseline, IInv, TypeOK, LadderSessions
<1>4. CASE UNCHANGED vars
  BY <1>4 DEF vars, IInv, TypeOK
<1> QED
  BY <1>1, <1>2, <1>3, <1>4 DEF Next

LEMMA Invariance == Spec => []IInv
  BY InitInv, NextInv, PTL DEF Spec

\* ReSolveSession keeps its value in the shape of Impl's fields.
THEOREM TypeCorrect == Spec => []TypeOK
<1>1. IInv => TypeOK
  BY DEF IInv
<1> QED
  BY <1>1, Invariance, PTL

LEMMA LadderInvExact == IInv => LadderExact
  BY LadderIsOfFlags DEF IInv, LadderExact

\* The factor and the ladder of setMemberActive / setShellActive / rebaseline
\* always stand for the current flags, for every base model and any history.
THEOREM LadderIsExact == Spec => []LadderExact
  BY LadderInvExact, Invariance, PTL

\* A solve that takes the bare factor (rank 0) has no update to apply.
THEOREM EmptyLadderIsIdentity == Spec => []EmptyLadderMeansNoChange
<1>1. IInv => EmptyLadderMeansNoChange
  BY DEF IInv, LadderSessions, Ladder, EmptyLadderMeansNoChange
<1> QED
  BY <1>1, Invariance, PTL

\* The stored factor of a live session is one that factored.
THEOREM LiveBaseline == Spec => []LiveBaselineFactored
<1>1. IInv => LiveBaselineFactored
  BY DEF IInv, LadderSessions, Ladder, LiveBaselineFactored
<1> QED
  BY <1>1, Invariance, PTL

-------------------------------------------------------------------------------
\* Unless conjugate gradients answered, or the baseline was already dead, the
\* session's verdict on a set is the verdict of a fresh factorization.
THEOREM VerdictIsExact == Spec => []ExactVerdict
<1>1. Init => ExactVerdict
  BY DEF Init, ExactVerdict
<1>2. IInv /\ ExactVerdict /\ [Next]_vars => ExactVerdict'
  <2> SUFFICES ASSUME IInv, ExactVerdict, [Next]_vars PROVE ExactVerdict'
    OBVIOUS
  <2>1. ASSUME NEW e \in Elements, NEW on \in BOOLEAN, SetElementActive(e, on)
        PROVE  ExactVerdict'
    BY <2>1 DEF SetElementActive, ExactVerdict
  <2>2. CASE SolveCurrent
    <3>1. PICK r \in Solve(session) :
            /\ session' = r.session
            /\ verdict' = IF r.singular THEN "singular" ELSE "solved"
            /\ tier' = r.tier
      BY <2>2 DEF SolveCurrent
    <3>2. session'.active = session.active
      BY <3>1, SolveLadder DEF IInv
    <3>3. /\ ~r.singular /\ r.tier # 2 => Factorable(session.active)
          /\ r.singular /\ r.tier # 0 => ~Factorable(session.active)
      BY <3>1, SolveVerdict DEF IInv
    <3> QED
      BY <3>1, <3>2, <3>3 DEF ExactVerdict
  <2>3. CASE Rebaseline
    BY <2>3 DEF Rebaseline, ExactVerdict
  <2>4. CASE UNCHANGED vars
    BY <2>4 DEF vars, ExactVerdict
  <2> QED
    BY <2>1, <2>2, <2>3, <2>4 DEF Next
<1> QED
  BY <1>1, <1>2, Invariance, PTL DEF Spec

-------------------------------------------------------------------------------
\* Without conjugate gradients, and switching elements off only, a dead
\* baseline is a true answer: nothing that is removed later can cure it.
RemovalInv ==
  /\ IInv
  /\ session.active \cap Unpreparable = {}
  /\ ~session.baseValid => session.active \in Mechanisms

LEMMA RemovalInit == Init => RemovalInv
  BY InitInv DEF Init, RemovalInv, IInv, LadderSessions, Ladder

LEMMA RemovalToggle ==
  ASSUME RemovalInv, NEW e \in Elements, SetElementActive(e, FALSE)
  PROVE  /\ RemovalInv'
         /\ session'.active = session.active \ {e}
<1>1. session \in Session /\ session.active \in SUBSET Elements
  BY DEF RemovalInv, IInv, TypeOK, Session
<1>2. session' = SetActive(session, e, FALSE) /\ session' \in Session /\ session' \in LadderSessions
  BY ToggleLadder DEF RemovalInv, IInv, SetElementActive, LadderSessions
<1>3. IInv'
  BY <1>2 DEF SetElementActive, RemovalInv, IInv, TypeOK
<1>4. CASE e \notin session.active
  <2>1. session' = session
    <3>1. (e \in session.active) = FALSE
      BY <1>4
    <3> QED
      BY <1>2, <3>1 DEF SetActive
  <2> QED
    BY <1>1, <1>3, <1>4, <2>1 DEF RemovalInv
<1>5. CASE e \in session.active
  <2> DEFINE flipped == WithFlag(session, e, FALSE)
  <2>1. /\ flipped \in Session /\ flipped.active = session.active \ {e}
        /\ flipped.baseValid = session.baseValid
    BY <1>1 DEF WithFlag, Session
  <2>2. e \notin Unpreparable
    BY <1>5 DEF RemovalInv
  <2>3. session' = IF session.baseValid THEN AddToLadder(flipped, e, -1) ELSE flipped
    BY <1>2, <1>5, <2>1, <2>2 DEF SetActive
  <2> HIDE DEF flipped
  <2>4. session'.active = flipped.active /\ session'.baseValid = flipped.baseValid
    <3>1. CASE session.baseValid
      <4>1. -1 \in {1, -1}
        OBVIOUS
      <4> QED
        BY <2>1, <2>3, <3>1, <4>1, LadderTyped
    <3>2. CASE ~session.baseValid
      BY <2>3, <3>2
    <3> QED
      BY <3>1, <3>2
  <2>5. session.active \in Mechanisms => session'.active \in Mechanisms
    BY <1>1, <2>1, <2>4, ReSolveAssumption
  <2> QED
    BY <1>1, <1>3, <2>1, <2>4, <2>5 DEF RemovalInv
<1> QED
  BY <1>4, <1>5

LEMMA RemovalRebuild ==
  ASSUME RemovalInv, IInv', session' = BuildBaseline(session.active)
  PROVE  RemovalInv' /\ session'.active = session.active
<1>1. session.active \in SUBSET Elements
  BY DEF RemovalInv, IInv, TypeOK, Session
<1>2. session'.active = session.active /\ session'.baseValid = Factorable(session.active)
  BY <1>1, BaselineFields
<1>3. ~session'.baseValid => session.active \in Mechanisms
  BY <1>2 DEF RemovalInv, Factorable
<1> QED
  BY <1>2, <1>3 DEF RemovalInv

LEMMA RemovalNextIsNext == RemovalNext => Next
  BY DEF RemovalNext, Next

\* A step of the removal-only session is a step of the promise.
LEMMA RemovalStep ==
  ASSUME ~AllowTier2, RemovalInv, [RemovalNext]_vars
  PROVE  RemovalInv' /\ [Fresh!Next]_(Fresh!vars)
<1>0. IInv'
  BY RemovalNextIsNext, NextInv DEF RemovalInv
<1>1. ASSUME NEW e \in Elements, SetElementActive(e, FALSE)
      PROVE  RemovalInv' /\ Fresh!Next
  <2>1. RemovalInv' /\ session'.active = session.active \ {e} /\ verdict' = "none"
    BY <1>1, RemovalToggle DEF SetElementActive
  <2>2. Fresh!Toggle
    BY <2>1 DEF Fresh!Toggle
  <2> QED
    BY <2>1, <2>2 DEF Fresh!Next
<1>2. CASE SolveCurrent
  <2>1. PICK r \in Solve(session) :
          /\ session' = r.session
          /\ verdict' = IF r.singular THEN "singular" ELSE "solved"
          /\ tier' = r.tier
    BY <1>2 DEF SolveCurrent
  <2>2. /\ ~r.singular /\ r.tier # 2 => Factorable(session.active)
        /\ r.singular /\ r.tier # 0 => ~Factorable(session.active)
        /\ r.singular /\ r.tier = 0 =>
             ~session.baseValid \/ session.active \cap Unpreparable # {}
        /\ r.tier = 2 => AllowTier2
        /\ r.session = session \/ r.session = BuildBaseline(session.active)
    BY <2>1, SolveVerdict DEF RemovalInv, IInv
  <2>3. RemovalInv' /\ session'.active = session.active
    <3>1. CASE session' = session
      BY <1>0, <3>1 DEF RemovalInv
    <3>2. CASE session' = BuildBaseline(session.active)
      BY <1>0, <3>2, RemovalRebuild
    <3> QED
      BY <2>1, <2>2, <3>1, <3>2
  <2>4. r.singular <=> ~Factorable(session.active)
    BY <2>2 DEF RemovalInv, Factorable
  <2>5. verdict' = Fresh!FreshVerdict(session.active)
    BY <2>1, <2>4 DEF Fresh!FreshVerdict, Factorable
  <2> QED
    BY <2>3, <2>5 DEF Fresh!Next, Fresh!Answer
<1>3. CASE Rebaseline
  <2>1. RemovalInv' /\ session'.active = session.active /\ verdict' = "none"
    BY <1>0, <1>3, RemovalRebuild DEF Rebaseline
  <2> QED
    BY <2>1 DEF Fresh!Next, Fresh!Rebaseline
<1>4. CASE UNCHANGED vars
  <2>1. RemovalInv'
    BY <1>4, <1>0 DEF vars, RemovalInv
  <2> QED
    BY <1>4, <2>1 DEF vars, Fresh!vars
<1> QED
  BY <1>1, <1>2, <1>3, <1>4 DEF RemovalNext

\* Used the way the registry uses it, a session without conjugate gradients is
\* the fresh factorization Reanalysis.h promises, for every frame whose
\* mechanisms are closed under removal.
THEOREM RemovalRefinesFresh ==
  ASSUME ~AllowTier2
  PROVE  RemovalSpec => RefinesFresh
<1>1. Init => RemovalInv /\ Fresh!Init
  <2> SUFFICES ASSUME Init PROVE RemovalInv /\ Fresh!Init
    OBVIOUS
  <2>1. RemovalInv
    BY RemovalInit
  <2>2. PICK act \in SUBSET Elements : session = BuildBaseline(act) /\ session.baseValid
    BY DEF Init
  <2>3. session.active = act /\ Factorable(act)
    BY <2>2, BaselineFields
  <2> QED
    BY <2>1, <2>3 DEF Init, Fresh!Init, Fresh!FreshVerdict, Factorable
<1>2. RemovalInv /\ [RemovalNext]_vars => RemovalInv' /\ [Fresh!Next]_(Fresh!vars)
  BY RemovalStep
<1> QED
  BY <1>1, <1>2, PTL DEF RemovalSpec, RefinesFresh, Fresh!Spec

-------------------------------------------------------------------------------
\* No solve leaves a ladder longer than its rung admits.
THEOREM SolveBoundsTheLadder == Spec => SolveBoundsLadder
<1>1. ASSUME IInv, [Next]_vars
      PROVE  [verdict' # "none" =>
                session'.rank <= IF AllowTier2 THEN 2 * MaxRank ELSE MaxRank]_vars
  <2> SUFFICES ASSUME SolveCurrent
               PROVE  session'.rank <= IF AllowTier2 THEN 2 * MaxRank ELSE MaxRank
    BY <1>1 DEF Next, SetElementActive, Rebaseline
  <2>1. PICK r \in Solve(session) : session' = r.session
    BY DEF SolveCurrent
  <2>2. session.rank \in Nat /\ session.active \in SUBSET Elements
    BY <1>1 DEF IInv, TypeOK, Session
  <2>3. BuildBaseline(session.active).rank = 0
    BY <2>2, BaselineFields
  <2>4. MaxRank \in Nat /\ AllowTier2 \in BOOLEAN
    BY ReSolveAssumption
  <2>5. CASE session' = BuildBaseline(session.active)
    BY <2>3, <2>4, <2>5
  <2>6. CASE session.baseValid /\ session.active \cap Unpreparable = {} /\ Tier(session) # 3
    <3>1. session.rank <= IF AllowTier2 THEN 2 * MaxRank ELSE MaxRank
      BY <2>2, <2>4, <2>6 DEF Tier
    <3>2. session' = session \/ session' = BuildBaseline(session.active)
      BY <1>1, <2>1, SolveVerdict DEF IInv
    <3> QED
      BY <3>1, <3>2, <2>5
  <2>7. CASE session.baseValid /\ session.active \cap Unpreparable = {} /\ Tier(session) = 3
    <3>1. r = Refactored(session)
      BY <2>1, <2>7 DEF Solve
    <3>2. session' = BuildBaseline(session.active)
      BY <2>1, <3>1 DEF Refactored
    <3> QED
      BY <3>2, <2>5
  <2>8. CASE ~(session.baseValid /\ session.active \cap Unpreparable = {})
    <3>1. session' = session
      BY <2>1, <2>8 DEF Solve, Refused
    <3>2. session.rank = 0
      BY <1>1, <2>8 DEF IInv, LadderSessions, Ladder
    <3> QED
      BY <2>4, <3>1, <3>2
  <2> QED
    BY <2>6, <2>7, <2>8
<1> QED
  BY <1>1, Invariance, PTL DEF Spec, SolveBoundsLadder

-------------------------------------------------------------------------------
(* Factor once, solve many.                                                *)

\* A factor has the fingerprint of the model it was made of.
IsPrepared(p) ==
  /\ p.fingerprint = <<p.stiffness, p.baked>>
  /\ p.lane \in {"ldlt", "supernodal"}

LoadInv ==
  /\ model \in Models
  /\ prepared = None \/ IsPrepared(prepared)
  /\ AnswersAreFresh

\* Where the fingerprint agrees, a solution on the factor is one of the model.
LEMMA SolutionIsFresh ==
  ASSUME NEW p, NEW m \in Models, IsPrepared(p), Reusable(p, m)
  PROVE  Solution(p, m) = m
<1>1. p.stiffness = m.stiffness /\ p.baked = m.baked
  BY DEF IsPrepared, Reusable, Fingerprint
<1> QED
  BY <1>1 DEF Solution, Models

\* Whichever factor answers and whatever it falls back on.
LEMMA SolvesAreFresh ==
  ASSUME NEW p, NEW m \in Models, IsPrepared(p)
  PROVE  /\ SolveLoad(p, m) \subseteq {None, m}
         /\ \A enabled, fallbackOnFail \in BOOLEAN :
              SolveLoadSupernodal(p, m, enabled, fallbackOnFail) \subseteq {None, m}
         /\ \A s : SolveFrame(s, p, m) \subseteq {None, m}
<1>1. CASE ~Reusable(p, m)
  BY <1>1 DEF SolveLoad, SolveLoadSupernodal, SolveFrame
<1>2. CASE Reusable(p, m)
  <2>1. Solution(p, m) = m
    BY <1>2, SolutionIsFresh
  <2>2. p.lane = "ldlt" => SolveLDLT(p, m) \subseteq {None, m}
    BY <2>1 DEF SolveLDLT
  <2>3. \A refuses \in BOOLEAN : Fallback(p, m, refuses) \subseteq {None, m}
    BY <2>2 DEF Fallback, IsPrepared
  <2>4. SolveLoad(p, m) \subseteq {None, m}
    BY <2>1, <2>2 DEF SolveLoad, IsPrepared
  <2>5. ASSUME NEW enabled \in BOOLEAN, NEW fallbackOnFail \in BOOLEAN
        PROVE  SolveLoadSupernodal(p, m, enabled, fallbackOnFail) \subseteq {None, m}
    <3>1. Fallback(p, m, enabled /\ ~fallbackOnFail) \subseteq {None, m}
      BY <2>3
    <3> QED
      BY <2>1, <3>1 DEF SolveLoadSupernodal
  <2>6. ASSUME NEW s
        PROVE  SolveFrame(s, p, m) \subseteq {None, m}
    <3>1. Fallback(p, m, s.ready /\ ~s.fallbackOnFail) \subseteq {None, m}
      BY <2>3
    <3> QED
      BY <2>1, <3>1 DEF SolveFrame
  <2> QED
    BY <2>4, <2>5, <2>6
<1> QED
  BY <1>1, <1>2

\* solveLoad, solveLoadSupernodal and solveFrame give no result of a factor that
\* is stale: what is not flagged singular is of the model as it is now.
THEOREM AnswersFollowTheModel == LoadSpec => []AnswersAreFresh
<1>1. LoadInit => LoadInv
  BY DEF LoadInit, LoadInv, AnswersAreFresh
<1>2. LoadInv /\ [LoadNext]_loadVars => LoadInv'
  <2> SUFFICES ASSUME LoadInv, [LoadNext]_loadVars PROVE LoadInv'
    OBVIOUS
  <2>1. CASE Edit
    BY <2>1 DEF Edit, LoadInv, AnswersAreFresh
  <2>2. CASE Factor
    <3>1. PICK useSupernodalPrimary \in BOOLEAN :
            \E lane \in Lanes(useSupernodalPrimary) : prepared' = Prepare(model, lane)
      BY <2>2 DEF Factor
    <3>2. IsPrepared(prepared')
      BY <3>1 DEF Prepare, Fingerprint, Lanes, IsPrepared
    <3> QED
      BY <2>2, <3>2 DEF Factor, LoadInv, AnswersAreFresh
  <2>3. CASE OpenSnSession
    BY <2>3 DEF OpenSnSession, LoadInv, AnswersAreFresh
  <2>4. CASE LoadSolve
    <3>1. IsPrepared(prepared) /\ model \in Models
      BY <2>4 DEF LoadSolve, LoadInv
    <3>2. answer' \in {None, model}
      BY <2>4, <3>1, SolvesAreFresh DEF LoadSolve
    <3> QED
      BY <2>4, <3>2 DEF LoadSolve, LoadInv, AnswersAreFresh
  <2>5. CASE UNCHANGED loadVars
    BY <2>5 DEF loadVars, LoadInv, AnswersAreFresh
  <2> QED
    BY <2>1, <2>2, <2>3, <2>4, <2>5 DEF LoadNext
<1>3. LoadInv => AnswersAreFresh
  BY DEF LoadInv
<1> QED
  BY <1>1, <1>2, <1>3, PTL DEF LoadSpec

-------------------------------------------------------------------------------
(* The engine sessions of the bridge.                                      *)

\* What is a session, and what is told of it, by its fields.
IsSession(o) ==
  o = [profile |-> o.profile, useSn |-> o.useSn, model |-> o.model,
       prepared |-> o.prepared, sn |-> o.sn, lastSolve |-> o.lastSolve]
IsTold(t) == t = [body |-> t.body, final |-> t.final, refused |-> t.refused]

\* The session agrees with what the client was told of it.
Agrees(o, t) ==
  /\ o.lastSolve = t.final \/ o.lastSolve \in t.refused
  /\ o.model = None => t.final = None
  /\ o.model # None => o.model = t.body.model
  /\ o.prepared # None => o.prepared = Prepare(t.body.model, "ldlt")

EngineInv ==
  /\ DOMAIN told = Opened
  /\ \A s \in Opened : IsSession(sessions[s]) /\ IsTold(told[s]) /\ Agrees(sessions[s], told[s])

\* The factor that is there, or the one that is made.
LEMMA FactoredAgrees ==
  ASSUME NEW o, NEW t, IsSession(o), Agrees(o, t), o.model # None
  PROVE  /\ IsSession([o EXCEPT !.prepared = Factored(o)])
         /\ Agrees([o EXCEPT !.prepared = Factored(o)], t)
         /\ [o EXCEPT !.prepared = Factored(o)].model = o.model
<1>1. Factored(o) = Prepare(t.body.model, "ldlt")
  BY DEF Factored, Agrees
<1> DEFINE f == Factored(o)
           n == [o EXCEPT !.prepared = f]
<1> HIDE DEF f
<1>2. /\ n.profile = o.profile /\ n.useSn = o.useSn /\ n.model = o.model
      /\ n.prepared = f /\ n.sn = o.sn /\ n.lastSolve = o.lastSolve /\ IsSession(n)
  BY DEF IsSession
<1> QED
  BY <1>1, <1>2 DEF Agrees, f

LEMMA CachedAgrees ==
  ASSUME NEW o, NEW t, IsSession(o), Agrees(o, t), o.model # None, NEW R
  PROVE  LET n == Cached(o, R)
             u == Answered(t, R)
         IN IsSession(n) /\ IsTold(u) /\ Agrees(n, u)
<1> DEFINE n == Cached(o, R)
           u == Answered(t, R)
<1>1. /\ n.model = o.model /\ n.prepared = o.prepared /\ n.lastSolve = R /\ IsSession(n)
  BY DEF IsSession, Cached
<1>2. /\ u.body = t.body /\ IsTold(u)
      /\ R = u.final \/ R \in u.refused
  BY DEF IsTold, Answered
<1> HIDE DEF n, u
<1>3. Agrees(n, u)
  BY <1>1, <1>2 DEF Agrees
<1> QED
  BY <1>1, <1>2, <1>3 DEF n, u

\* A step that changes one session and what is told of it.
LEMMA OneSession ==
  ASSUME EngineInv, NEW s \in Opened, NEW o, NEW t,
         IsSession(o), IsTold(t), Agrees(o, t),
         sessions' = [sessions EXCEPT ![s] = o],
         told' = [told EXCEPT ![s] = t] \/ (told' = told /\ t = told[s])
  PROVE  EngineInv'
<1>1. DOMAIN sessions' = DOMAIN sessions /\ DOMAIN told' = DOMAIN told
  OBVIOUS
<1>2. ASSUME NEW x \in Opened
      PROVE  /\ sessions'[x] = IF x = s THEN o ELSE sessions[x]
             /\ told'[x] = IF x = s THEN t ELSE told[x]
  BY <1>2 DEF EngineInv, Opened
<1> QED
  BY <1>1, <1>2 DEF EngineInv, Opened

LEMMA HelloOpenClose ==
  ASSUME EngineInv, Hello \/ Open \/ (\E s \in Opened : Close(s))
  PROVE  EngineInv'
<1>1. CASE Hello
  BY <1>1 DEF Hello, EngineInv, Opened
<1>2. CASE Open
  <2> DEFINE o(p, u) == [profile |-> p, useSn |-> u, model |-> None,
                         prepared |-> None, sn |-> None, lastSolve |-> None]
             t == [body |-> None, final |-> None, refused |-> {}]
  <2>1. PICK useSn \in BOOLEAN :
          sessions' = [s \in Opened \cup {seq} |->
                         IF s # seq THEN sessions[s] ELSE o(profile, useSn)]
    BY <1>2 DEF Open
  <2>2. told' = [s \in Opened \cup {seq} |-> IF s # seq THEN told[s] ELSE t]
    BY <1>2 DEF Open
  <2>3. IsSession(o(profile, useSn)) /\ IsTold(t) /\ Agrees(o(profile, useSn), t)
    BY DEF IsSession, IsTold, Agrees
  <2> HIDE DEF o, t
  <2>4. ASSUME NEW x \in Opened'
        PROVE  IsSession(sessions'[x]) /\ IsTold(told'[x]) /\ Agrees(sessions'[x], told'[x])
    <3>1. x \in Opened \cup {seq}
      BY <2>1, <2>4 DEF Opened
    <3>2. CASE x = seq
      <4>1. sessions'[x] = o(profile, useSn) /\ told'[x] = t
        BY <2>1, <2>2, <3>2
      <4> QED
        BY <4>1, <2>3
    <3>3. CASE x # seq
      <4>1. sessions'[x] = sessions[x] /\ told'[x] = told[x] /\ x \in Opened
        BY <2>1, <2>2, <3>1, <3>3
      <4> QED
        BY <4>1 DEF EngineInv
    <3> QED
      BY <3>2, <3>3
  <2> QED
    BY <2>1, <2>2, <2>4 DEF EngineInv, Opened
<1>3. ASSUME NEW s \in Opened, Close(s)
      PROVE  EngineInv'
  BY <1>3 DEF Close, EngineInv, Opened
<1> QED
  BY <1>1, <1>2, <1>3

\* model.set starts anew, whichever of its throws cuts it short.
LEMMA SetModelAgrees ==
  ASSUME EngineInv, NEW s \in Opened, NEW body \in Bodies, SetModel(s, body)
  PROVE  EngineInv'
<1>1. CASE ~Accepts(s, body)
  BY <1>1 DEF SetModel, SetModelRefused, EngineInv, Opened
<1>2. CASE Accepts(s, body)
  <2> DEFINE o == Replaced(sessions[s], body.model)
             p == Prepare(body.model, "ldlt")
             t == [body |-> body, final |-> None, refused |-> {}]
             factored == [o EXCEPT !.prepared = p]
             withSn(sn_) == [factored EXCEPT !.sn = sn_]
  <2>1. IsSession(o) /\ IsTold(t) /\ Agrees(o, t)
    BY DEF Replaced, IsSession, IsTold, Agrees
  <2>2. IsSession(factored) /\ Agrees(factored, t)
    BY DEF Replaced, IsSession, Agrees
  <2>3. ASSUME NEW q
        PROVE  IsSession(withSn(q)) /\ Agrees(withSn(q), t)
    <3> HIDE DEF o, factored, t
    <3>1. /\ withSn(q).model = factored.model /\ withSn(q).prepared = factored.prepared
          /\ withSn(q).lastSolve = factored.lastSolve /\ IsSession(withSn(q))
      BY <2>2 DEF IsSession
    <3> QED
      BY <2>2, <3>1 DEF Agrees
  <2>4. PICK new \in IF ~o.useSn THEN {o}
                     ELSE {o, factored} \cup {withSn(q) : q \in SnSessions(p, TRUE, TRUE)} :
          /\ sessions' = [sessions EXCEPT ![s] = new]
          /\ told' = [told EXCEPT ![s] = t]
    BY <1>2 DEF SetModel
  <2> HIDE DEF o, p, t, factored, withSn
  <2>5. IsSession(new) /\ Agrees(new, t)
    BY <2>1, <2>2, <2>3, <2>4
  <2> QED
    BY <2>1, <2>4, <2>5, OneSession
<1> QED
  BY <1>1, <1>2

\* solve.linear, which caches before it is known whether the result packs.
LEMMA SolveLinearAgrees ==
  ASSUME EngineInv, NEW s \in Opened, SolveLinear(s)
  PROVE  EngineInv'
<1> DEFINE o == [sessions[s] EXCEPT !.prepared = Factored(sessions[s])]
           t == told[s]
<1>1. /\ sessions[s].model # None
      /\ IsSession(sessions[s]) /\ IsTold(t) /\ Agrees(sessions[s], t)
  BY DEF SolveLinear, HasModel, EngineInv
<1>2. IsSession(o) /\ Agrees(o, t) /\ o.model # None
  BY <1>1, FactoredAgrees
<1>3. \/ sessions' = [sessions EXCEPT ![s] = o] /\ told' = told
      \/ \E R : /\ sessions' = [sessions EXCEPT ![s] = Cached(o, R)]
               /\ told' = [told EXCEPT ![s] = Answered(t, R)]
  BY DEF SolveLinear
<1> HIDE DEF o, t
<1>4. CASE sessions' = [sessions EXCEPT ![s] = o] /\ told' = told
  BY <1>1, <1>2, <1>4, OneSession DEF t
<1>5. ASSUME NEW R,
             sessions' = [sessions EXCEPT ![s] = Cached(o, R)],
             told' = [told EXCEPT ![s] = Answered(t, R)]
      PROVE  EngineInv'
  <2>1. IsSession(Cached(o, R)) /\ IsTold(Answered(t, R)) /\ Agrees(Cached(o, R), Answered(t, R))
    BY <1>1, <1>2, CachedAgrees
  <2> QED
    BY <1>5, <2>1, OneSession
<1> QED
  BY <1>3, <1>4, <1>5

\* The analyses that answer with a final state cache what packs.
LEMMA AnalyseAgrees ==
  ASSUME EngineInv, NEW s \in Opened, HasModel(s), NEW models, Analyse(s, models)
  PROVE  EngineInv'
<1>1. PICK of \in models \cup {None}, finite \in BOOLEAN :
        Conclude(s, Result("analysis", of, finite))
  BY DEF Analyse
<1> DEFINE R == Result("analysis", of, finite)
           K == Result(R.by, R.of, TRUE)
<1>2. /\ sessions[s].model # None
      /\ IsSession(sessions[s]) /\ IsTold(told[s]) /\ Agrees(sessions[s], told[s])
  BY DEF HasModel, EngineInv
<1>3. CASE Packs(R)
  <2>1. /\ sessions' = [sessions EXCEPT ![s] = Cached(sessions[s], K)]
        /\ told' = [told EXCEPT ![s] = Answered(told[s], K)]
    BY <1>1, <1>3 DEF Conclude
  <2> HIDE DEF K, R
  <2>2. /\ IsSession(Cached(sessions[s], K)) /\ IsTold(Answered(told[s], K))
        /\ Agrees(Cached(sessions[s], K), Answered(told[s], K))
    BY <1>2, CachedAgrees
  <2> QED
    BY <2>1, <2>2, OneSession
<1>4. CASE ~Packs(R)
  BY <1>1, <1>4 DEF Conclude, EngineInv, Opened
<1> QED
  BY <1>3, <1>4

LEMMA EigenAgrees ==
  ASSUME EngineInv, NEW s \in Opened, Eigen(s)
  PROVE  EngineInv'
<1> DEFINE o == [sessions[s] EXCEPT !.prepared = Factored(sessions[s])]
<1>1. /\ sessions[s].model # None
      /\ IsSession(sessions[s]) /\ IsTold(told[s]) /\ Agrees(sessions[s], told[s])
  BY DEF Eigen, HasModel, EngineInv
<1>2. IsSession(o) /\ Agrees(o, told[s])
  BY <1>1, FactoredAgrees
<1>3. sessions' = [sessions EXCEPT ![s] = o] /\ told' = told
  BY DEF Eigen
<1> HIDE DEF o
<1> QED
  BY <1>1, <1>2, <1>3, OneSession

\* inspect.* shows the final state the client was answered last for the model it set last,
\* or one that solve.linear has just refused it, and the factor that the next solve reuses
\* is of that model, whatever was refused, thrown or found not finite on the way.
THEOREM InspectionIsOfTheModel == EngineSpec => []InspectShowsLastAnswer
<1>1. EngineInit => EngineInv
  BY DEF EngineInit, EngineInv, Opened
<1>2. EngineInv /\ [EngineNext]_engineVars => EngineInv'
  <2> SUFFICES ASSUME EngineInv, [EngineNext]_engineVars PROVE EngineInv'
    OBVIOUS
  <2>1. CASE Hello \/ Open
    BY <2>1, HelloOpenClose
  <2>2. ASSUME NEW s \in Opened, EngineNext!2!(s)
        PROVE  EngineInv'
    <3>1. CASE Close(s)
      BY <3>1, HelloOpenClose
    <3>2. CASE SolveLinear(s)
      BY <3>2, SolveLinearAgrees
    <3>3. CASE Eigen(s)
      BY <3>3, EigenAgrees
    <3>4. CASE SolvePDelta(s) \/ SolveTensionOnly(s) \/ SolveCorotational(s)
      BY <3>4, AnalyseAgrees DEF SolvePDelta, SolveTensionOnly, SolveCorotational
    <3>5. CASE SolveArcLength(s)
      BY <3>5, AnalyseAgrees DEF SolveArcLength
    <3>6. CASE SolveReanalysis(s)
      BY <3>6, AnalyseAgrees DEF SolveReanalysis
    <3>7. ASSUME NEW body \in Bodies, SetModel(s, body)
          PROVE  EngineInv'
      BY <3>7, SetModelAgrees
    <3> QED
      BY <2>2, <3>1, <3>2, <3>3, <3>4, <3>5, <3>6, <3>7
  <2>3. CASE UNCHANGED engineVars
    BY <2>3 DEF engineVars, EngineInv, Opened
  <2> QED
    BY <2>1, <2>2, <2>3 DEF EngineNext
<1>3. EngineInv => InspectShowsLastAnswer
  BY DEF EngineInv, InspectShowsLastAnswer, Inspected, HasModel, Agrees
<1> QED
  BY <1>1, <1>2, <1>3, PTL DEF EngineSpec

-------------------------------------------------------------------------------
(* Standing is monotone: an element put back takes the ground from no node  *)
(* and makes no mechanism.                                                  *)

LEMMA ClosedShrinks ==
  ASSUME NEW A, NEW B, A \subseteq B, NEW S, Graph!Closed(B, S)
  PROVE  Graph!Closed(A, S)
BY DEF Graph!Closed

LEMMA ConnectedGrows ==
  ASSUME NEW A, NEW B, A \subseteq B, NEW a, NEW b, Graph!Connected(A, a, b)
  PROVE  Graph!Connected(B, a, b)
BY ClosedShrinks DEF Graph!Connected

\* The nodes of an element are connected to what any of them is connected to.
LEMMA ElementConnects ==
  ASSUME NEW act, NEW e \in act, NEW m \in NodesOf[e], NEW n \in NodesOf[e], NEW b,
         Graph!Connected(act, n, b)
  PROVE  Graph!Connected(act, m, b)
<1> SUFFICES ASSUME NEW S \in SUBSET Nodes, m \in S, Graph!Closed(act, S)
             PROVE  b \in S
  BY DEF Graph!Connected
<1>1. n \in S
  BY DEF Graph!Closed
<1> QED
  BY <1>1 DEF Graph!Connected

LEMMA LosesLoadedShrinks ==
  ASSUME NEW A \in SUBSET Elements, NEW B \in SUBSET Elements, A \subseteq B,
         LosesLoaded(B)
  PROVE  LosesLoaded(A)
<1>1. /\ FullyFixed \subseteq Supported /\ Supported \subseteq Nodes /\ Loaded \subseteq Nodes
      /\ \A e \in Elements : NodesOf[e] \subseteq Nodes
  BY TopologyAssumption
<1>2. PICK n \in Loaded : n \in Graph!DebrisNodes(B, Supported) \/ n \in Graph!Loose(B, FullyFixed)
  BY DEF LosesLoaded
<1>3. SUFFICES n \in Graph!DebrisNodes(A, Supported) \/ n \in Graph!Loose(A, FullyFixed)
  BY DEF LosesLoaded
<1>4. CASE n \in Graph!Loose(B, FullyFixed)
  BY <1>4 DEF Graph!Loose, Graph!Attached
<1>5. CASE n \in Graph!DebrisNodes(B, Supported)
  <2>1. PICK e \in B : n \in NodesOf[e] /\ e \notin Graph!Grounded(B, Supported)
    BY <1>5 DEF Graph!DebrisNodes, Graph!Attached, Graph!Detached
  <2>2. PICK m \in NodesOf[e] : Graph!Component(B, m) \cap Supported = {}
    BY <2>1 DEF Graph!Grounded
  <2>3. \A b \in Supported : ~Graph!Connected(B, n, b)
    BY <1>1, <2>1, <2>2, ElementConnects DEF Graph!Component
  <2>4. n \notin Supported
    BY <2>3 DEF Graph!Connected
  <2>5. CASE n \notin Graph!Attached(A)
    BY <1>1, <2>4, <2>5 DEF Graph!Loose
  <2>6. CASE n \in Graph!Attached(A)
    <3>1. PICK f \in A : n \in NodesOf[f]
      BY <2>6 DEF Graph!Attached
    <3>2. Graph!Component(A, n) \cap Supported = {}
      BY <2>3, ConnectedGrows DEF Graph!Component
    <3>3. f \in Graph!Detached(A, Supported)
      BY <3>1, <3>2 DEF Graph!Detached, Graph!Grounded
    <3> QED
      BY <3>1, <3>3 DEF Graph!DebrisNodes, Graph!Attached
  <2> QED
    BY <2>5, <2>6
<1> QED
  BY <1>2, <1>4, <1>5

LEMMA SoundIsMonotone ==
  ASSUME NEW G \in SUBSET Elements, NEW A, NEW B, A \subseteq B, B \subseteq G,
         Sound(G), Sound(A)
  PROVE  Sound(B)
<1>1. ~LosesLoaded(B)
  BY LosesLoadedShrinks DEF Sound
<1>2. B \notin Mechanisms
  BY ReSolveAssumption DEF Sound, Factorable
<1>3. B \cap Unpreparable = {}
  BY DEF Sound, Factorable
<1> QED
  BY <1>1, <1>2, <1>3 DEF Sound, Factorable

-------------------------------------------------------------------------------
(* runBESO.                                                                *)

\* What is locked or, while it is put back, about to be.
Kept == locked \cup (IF phase = "lock" THEN batch ELSE {})

\* The sets of members in each phase.  What an iteration has removed is of the best
\* topology, from which it goes back.
Batched ==
  /\ phase \in {"trim", "probe", "undo", "lock"} => work \cup batch \subseteq best
  /\ phase = "trim" => order \subseteq work \ locked
  /\ phase \in {"trim", "probe"} => batch \cap work = {}
  /\ phase = "probe" => batch # {}
  /\ phase \in {"undo", "lock"} => order \subseteq batch
  /\ phase = "lock" => batch # {} /\ batch \ order \subseteq locked

BesoInv ==
  /\ given \subseteq Elements /\ work \subseteq given /\ best \subseteq given
  /\ order \subseteq Elements /\ batch \subseteq Elements
  /\ sess \in Session /\ sess.active = work
  /\ locked \subseteq work /\ locked \subseteq best
  /\ Batched
  /\ \A act \in condemned : ~(Kept \subseteq act)
  /\ Sound(given) => Sound(work) /\ (best # {} => Sound(best))

LEMMA InvIsEnough == BesoInv => TopologiesStand
<1> SUFFICES ASSUME BesoInv PROVE TopologiesStand
  OBVIOUS
<1>1. Sound(given) => Sound(work) /\ Sound(Reported)
  BY DEF BesoInv, Reported
<1>2. ASSUME NEW act \in condemned
      PROVE  ~(Reported \subseteq act) /\ (phase # "lock" => ~(work \subseteq act))
  <2>1. PICK e \in Kept : e \notin act
    BY <1>2 DEF BesoInv
  <2>2. e \in best
    BY <2>1 DEF Kept, BesoInv, Batched
  <2>3. phase # "lock" => e \in work
    BY <2>1 DEF Kept, BesoInv
  <2> QED
    BY <2>1, <2>2, <2>3 DEF Reported
<1> QED
  BY <1>1, <1>2 DEF TopologiesStand, BesoInv

\* What switching and solving do to the flags of a session.
LEMMA SwitchOutcome ==
  ASSUME NEW s \in Session, NEW e \in Elements, NEW on \in BOOLEAN
  PROVE  /\ SetActive(s, e, on) \in Session
         /\ SetActive(s, e, on).active = IF on THEN s.active \cup {e} ELSE s.active \ {e}
<1> DEFINE flipped == WithFlag(s, e, on)
           sign == IF on THEN 1 ELSE -1
           ladder == AddToLadder(flipped, e, sign)
           fresh == BuildBaseline(flipped.active)
<1>1. /\ flipped \in Session
      /\ flipped.active = IF on THEN s.active \cup {e} ELSE s.active \ {e}
  BY FlagTyped
<1>2. ladder \in Session /\ ladder.active = flipped.active
  <2>1. sign \in {1, -1}
    OBVIOUS
  <2> QED
    BY <1>1, <2>1, LadderTyped
<1>3. fresh \in Session /\ fresh.active = flipped.active
  <2>1. flipped.active \in SUBSET Elements
    BY <1>1 DEF Session
  <2> QED
    BY <2>1, BaselineTyped, BaselineFields
<1>4. (e \in s.active) # on => SetActive(s, e, on) \in {flipped, ladder, fresh}
  BY DEF SetActive
<1> HIDE DEF flipped, ladder, fresh
<1>5. (e \in s.active) = on => SetActive(s, e, on) = s
  BY DEF SetActive
<1> QED
  BY <1>1, <1>2, <1>3, <1>4, <1>5

LEMMA SolveKeepsFlags ==
  ASSUME NEW s \in Session, NEW r \in Solve(s)
  PROVE  r.session \in Session /\ r.session.active = s.active
<1>1. s.active \in SUBSET Elements
  BY DEF Session
<1> QED
  BY <1>1, SolveOutcome, BaselineTyped, BaselineFields

\* bad() leaves the flags, and what it passes stands.
LEMMA BadOutcome ==
  ASSUME NEW s \in Session, NEW b \in Bad(s)
  PROVE  /\ b.session \in Session /\ b.session.active = s.active
         /\ ~b.bad => Sound(s.active)
<1>1. CASE LosesLoaded(s.active)
  BY <1>1 DEF Bad
<1>2. CASE ~LosesLoaded(s.active)
  <2>1. PICK r \in Solve(s) :
          b = [session |-> r.session, bad |-> r.singular \/ ~Factorable(s.active)]
    BY <1>2 DEF Bad
  <2>2. b.session = r.session /\ b.bad = (r.singular \/ ~Factorable(s.active))
    BY <2>1
  <2> QED
    BY <1>2, <2>2, SolveKeepsFlags DEF Sound
<1> QED
  BY <1>1, <1>2

LEMMA BesoInitInv == BesoInit => BesoInv
<1> SUFFICES ASSUME BesoInit PROVE BesoInv
  OBVIOUS
<1>1. given \subseteq Elements /\ sess = BuildBaseline(given)
  BY DEF BesoInit
<1>2. sess \in Session /\ sess.active = given
  BY <1>1, BaselineTyped, BaselineFields
<1>3. phase \in {"done", "solve"}
  BY DEF BesoInit
<1> QED
  BY <1>1, <1>2, <1>3 DEF BesoInit, BesoInv, Batched

LEMMA AssessInv == BesoInv /\ Assess => BesoInv'
<1> SUFFICES ASSUME BesoInv, Assess PROVE BesoInv'
  OBVIOUS
<1>1. PICK r \in Solve(sess) :
        /\ sess' = r.session
        /\ \/ phase' = "done" /\ best' \in {best, work} /\ UNCHANGED <<order, batch>>
           \/ phase' = "trim" /\ best' = work /\ order' = (design \cap work) \ locked /\ batch' = {}
  BY DEF Assess, Stop
<1>2. sess' \in Session /\ sess'.active = work
  BY <1>1, SolveKeepsFlags DEF BesoInv
<1>3. UNCHANGED <<given, work, locked, condemned>> /\ phase = "solve"
  BY DEF Assess
<1>4. Batched' /\ order' \subseteq Elements /\ batch' \subseteq Elements
  BY <1>1, <1>3 DEF Batched, BesoInv
<1>5. Kept' = Kept
  BY <1>1, <1>3 DEF Kept
<1>6. best' \in {best, work}
  BY <1>1
<1> QED
  BY <1>2, <1>3, <1>4, <1>5, <1>6 DEF BesoInv, Sound, LosesLoaded

LEMMA RemoveInv == BesoInv /\ RemoveOne => BesoInv'
<1> SUFFICES ASSUME BesoInv, RemoveOne PROVE BesoInv'
  OBVIOUS
<1>1. PICK e \in order :
        /\ order' = order \ {e}
        /\ \E b \in Bad(SetActive(sess, e, FALSE)) :
             IF b.bad
             THEN sess' = SetActive(b.session, e, TRUE) /\ UNCHANGED <<work, batch>>
             ELSE sess' = b.session /\ work' = work \ {e} /\ batch' = batch \cup {e}
  BY DEF RemoveOne
<1>2. PICK b \in Bad(SetActive(sess, e, FALSE)) :
        IF b.bad
        THEN sess' = SetActive(b.session, e, TRUE) /\ UNCHANGED <<work, batch>>
        ELSE sess' = b.session /\ work' = work \ {e} /\ batch' = batch \cup {e}
  BY <1>1
<1>3. /\ UNCHANGED <<given, locked, best, phase, condemned>> /\ phase = "trim"
      /\ e \in work \ locked /\ e \in Elements
      /\ work \cup batch \subseteq best /\ batch \cap work = {} /\ order \subseteq work \ locked
  BY DEF RemoveOne, BesoInv, Batched
<1>4. /\ SetActive(sess, e, FALSE) \in Session
      /\ SetActive(sess, e, FALSE).active = work \ {e}
  BY <1>3, SwitchOutcome DEF BesoInv
<1>5. /\ b.session \in Session /\ b.session.active = work \ {e}
      /\ ~b.bad => Sound(work \ {e})
  BY <1>2, <1>4, BadOutcome
<1>6. CASE b.bad
  <2>1. sess' = SetActive(b.session, e, TRUE) /\ work' = work /\ batch' = batch
    BY <1>2, <1>6
  <2>2. sess' \in Session /\ sess'.active = (work \ {e}) \cup {e}
    BY <1>3, <1>5, <2>1, SwitchOutcome
  <2>3. sess'.active = work
    BY <1>3, <2>2
  <2>4. Kept' = Kept /\ Batched'
    BY <1>1, <1>3, <2>1 DEF Kept, Batched
  <2> QED
    BY <1>1, <1>3, <2>1, <2>2, <2>3, <2>4 DEF BesoInv, Sound, LosesLoaded
<1>7. CASE ~b.bad
  <2>1. sess' = b.session /\ work' = work \ {e} /\ batch' = batch \cup {e}
    BY <1>2, <1>7
  <2>2. Kept' = Kept /\ Batched'
    BY <1>1, <1>3, <2>1 DEF Kept, Batched
  <2>3. locked' \subseteq work'
    BY <1>3, <2>1 DEF BesoInv
  <2>4. Sound(work')
    BY <1>5, <1>7, <2>1
  <2> QED
    BY <1>1, <1>3, <1>5, <2>1, <2>2, <2>3, <2>4 DEF BesoInv, Sound, LosesLoaded
<1> QED
  BY <1>6, <1>7

LEMMA TrimmedInv == BesoInv /\ Trimmed => BesoInv'
<1> SUFFICES ASSUME BesoInv, Trimmed PROVE BesoInv'
  OBVIOUS
<1>1. /\ UNCHANGED <<given, work, sess, locked, best, order, batch, condemned>>
      /\ phase = "trim"
      /\ phase' \in {"done", "solve"} \/ (phase' = "probe" /\ batch # {})
  BY DEF Trimmed, NextIteration, Stop
<1>2. Kept' = Kept /\ Batched'
  BY <1>1 DEF Kept, Batched, BesoInv
<1> QED
  BY <1>1, <1>2 DEF BesoInv, Sound, LosesLoaded

\* A topology is found fragile while the batch is out of it, and the batch is what
\* is locked of it: no later topology is within it.
LEMMA ProbeInv == BesoInv /\ Probe => BesoInv'
<1> SUFFICES ASSUME BesoInv, Probe PROVE BesoInv'
  OBVIOUS
<1>1. PICK r \in Solve(sess) :
        /\ sess' = r.session
        /\ \/ phase' = "undo" /\ order' = batch /\ UNCHANGED condemned
           \/ phase' = "lock" /\ order' = batch /\ condemned' = condemned \cup {work}
           \/ phase' \in {"solve", "done"} /\ UNCHANGED <<order, condemned>>
  BY DEF Probe, RollBack, Fragile, NextIteration, Stop
<1>2. sess' \in Session /\ sess'.active = work
  BY <1>1, SolveKeepsFlags DEF BesoInv
<1>3. /\ UNCHANGED <<given, work, locked, best, batch>> /\ phase = "probe"
      /\ work \cup batch \subseteq best /\ batch \cap work = {} /\ batch # {}
  BY DEF Probe, BesoInv, Batched
<1>4. Batched' /\ order' \subseteq Elements
  BY <1>1, <1>3 DEF Batched, BesoInv
<1>5. \A act \in condemned' : ~(Kept' \subseteq act)
  <2>1. Kept = locked /\ locked \subseteq Kept'
    BY <1>3 DEF Kept
  <2>2. CASE condemned' = condemned
    BY <2>1, <2>2 DEF BesoInv
  <2>3. CASE phase' = "lock" /\ condemned' = condemned \cup {work}
    <3>1. batch \subseteq Kept'
      BY <1>3, <2>3 DEF Kept
    <3> QED
      BY <1>3, <2>1, <2>3, <3>1 DEF BesoInv
  <2> QED
    BY <1>1, <2>2, <2>3
<1> QED
  BY <1>2, <1>3, <1>4, <1>5 DEF BesoInv, Sound, LosesLoaded

\* A member put back: the topology grows within the best one.
LEMMA RestoreInv ==
  ASSUME BesoInv, phase \in {"undo", "lock"}, NEW e \in order, Restore(e),
         UNCHANGED <<given, best>>
  PROVE  /\ given' \subseteq Elements /\ work' \subseteq given' /\ best' \subseteq given'
         /\ sess' \in Session /\ sess'.active = work' /\ work' = work \cup {e}
         /\ work' \subseteq best'
         /\ Sound(given') => Sound(work') /\ (best' # {} => Sound(best'))
<1>1. /\ e \in Elements /\ e \in best /\ work \subseteq best
      /\ given \subseteq Elements /\ best \subseteq given
  BY DEF BesoInv, Batched
<1>2. sess' \in Session /\ sess'.active = work \cup {e} /\ work' = work \cup {e}
  BY <1>1, SwitchOutcome DEF Restore, BesoInv
<1>3. Sound(given) => Sound(work \cup {e})
  BY <1>1, SoundIsMonotone DEF BesoInv
<1> QED
  BY <1>1, <1>2, <1>3 DEF BesoInv

LEMMA UndoInv == BesoInv /\ Undo => BesoInv'
<1> SUFFICES ASSUME BesoInv, Undo PROVE BesoInv'
  OBVIOUS
<1>1. UNCHANGED <<given, locked, best, batch, condemned>> /\ phase = "undo"
  BY DEF Undo
<1>2. CASE phase' = "done" /\ UNCHANGED <<sess, work, order>>
  <2>1. Kept' = Kept /\ Batched'
    BY <1>1, <1>2 DEF Kept, Batched
  <2> QED
    BY <1>1, <1>2, <2>1 DEF BesoInv, Sound, LosesLoaded
<1>3. ASSUME NEW e \in order, Restore(e), UNCHANGED phase
      PROVE  BesoInv'
  <2>1. order' = order \ {e} /\ work' = work \cup {e}
    BY <1>3 DEF Restore
  <2>2. /\ given' \subseteq Elements /\ work' \subseteq given' /\ best' \subseteq given'
        /\ sess' \in Session /\ sess'.active = work' /\ work' \subseteq best'
        /\ Sound(given') => Sound(work') /\ (best' # {} => Sound(best'))
    BY <1>1, <1>3, RestoreInv
  <2>3. Kept' = Kept /\ Batched'
    BY <1>1, <1>3, <2>1, <2>2 DEF Kept, BesoInv, Batched
  <2> QED
    BY <1>1, <2>1, <2>2, <2>3 DEF BesoInv
<1> QED
  BY <1>2, <1>3 DEF Undo, Stop

LEMMA RelockInv == BesoInv /\ Relock => BesoInv'
<1> SUFFICES ASSUME BesoInv, Relock PROVE BesoInv'
  OBVIOUS
<1>1. UNCHANGED <<given, best, batch, condemned>> /\ phase = "lock"
  BY DEF Relock
<1>2. CASE order = {} /\ phase' \in {"done", "solve"} /\ UNCHANGED <<sess, work, order, locked>>
  <2>1. batch \subseteq locked
    BY <1>1, <1>2 DEF BesoInv, Batched
  <2>2. Kept' = Kept /\ Batched'
    BY <1>1, <1>2, <2>1 DEF Kept, Batched
  <2> QED
    BY <1>1, <1>2, <2>2 DEF BesoInv, Sound, LosesLoaded
<1>3. ASSUME NEW e \in order, Restore(e), Lock(e), UNCHANGED phase
      PROVE  BesoInv'
  <2>1. order' = order \ {e} /\ work' = work \cup {e} /\ locked' = locked \cup {e}
    BY <1>3 DEF Restore, Lock
  <2>2. /\ given' \subseteq Elements /\ work' \subseteq given' /\ best' \subseteq given'
        /\ sess' \in Session /\ sess'.active = work' /\ work' \subseteq best'
        /\ Sound(given') => Sound(work') /\ (best' # {} => Sound(best'))
    BY <1>1, <1>3, RestoreInv
  <2>3. e \in batch
    BY <1>1, <1>3 DEF BesoInv, Batched
  <2>4. Kept' = Kept /\ Batched'
    BY <1>1, <1>3, <2>1, <2>2, <2>3 DEF Kept, BesoInv, Batched
  <2>5. locked' \subseteq work' /\ locked' \subseteq best'
    BY <1>1, <2>1, <2>2 DEF BesoInv
  <2> QED
    BY <1>1, <2>1, <2>2, <2>4, <2>5 DEF BesoInv
<1> QED
  BY <1>2, <1>3 DEF Relock, Stop, NextIteration

\* Whatever runBESO removes, undoes or locks, and for whichever reason it stops: it
\* began on a frame that stands, so its topology and the one it reports stand; and
\* neither comes back to within a topology found fragile.
THEOREM TopologyStands == BesoSpec => []TopologiesStand
<1>1. BesoInv /\ [BesoNext]_besoVars => BesoInv'
  <2>1. CASE UNCHANGED besoVars
    BY <2>1 DEF besoVars, BesoInv, Batched, Kept, Sound, LosesLoaded
  <2> QED
    BY <2>1, AssessInv, RemoveInv, TrimmedInv, ProbeInv, UndoInv, RelockInv DEF BesoNext
<1> QED
  BY <1>1, BesoInitInv, InvIsEnough, PTL DEF BesoSpec

==============================================================================
