------------------------------ MODULE GamesProofs ------------------------------
(***************************************************************************)
(* Proofs about the playable sides of the repository: the interactive       *)
(* session, for every frame and every list of patches, watched members and  *)
(* toggles; the debounce queue, for every set of requests; and the          *)
(* levelling exercise, for every route and every optics.                    *)
(***************************************************************************)
EXTENDS InteractiveSession, PatchQueue, LevelSim, ReSolveLemmas, FoldLemmas,
        SequenceTheorems, TLAPS

\* The toggles of one list: the session after each of them.
LEMMA SwitchedByOne ==
  ASSUME NEW s \in LadderSessions, NEW list \in Seq(Elements), NEW on \in BOOLEAN
  PROVE  \E after \in [0..Len(list) -> LadderSessions] :
           /\ after[0] = s
           /\ \A k \in 1..Len(list) : after[k] = SetActive(after[k - 1], list[k], on)
           /\ Switched(s, list, on) = after[Len(list)]
<1> DEFINE n == Len(list)
           D == LadderSessions
           body(iter) == [S \in SUBSET DOMAIN list |->
                            IF S = {} THEN s
                            ELSE SetActive(iter[S \ {Max(S)}], list[Max(S)], on)]
           step == [x \in D \X (1..n) |-> SetActive(x[1], list[x[2]], on)]
           chosen == CHOOSE iter : iter = body(iter)
<1>1. n \in Nat /\ DOMAIN list = 1..n /\ \A k \in 1..n : list[k] \in Elements
  OBVIOUS
<1>2. /\ step \in StepsIn(n, D)
      /\ \A x \in D, k \in 1..n : step[<<x, k>>] = SetActive(x, list[k], on)
  <2>1. ASSUME NEW x \in D \X (1..n) PROVE SetActive(x[1], list[x[2]], on) \in D
    <3>1. x[1] \in LadderSessions /\ list[x[2]] \in Elements
      BY <1>1
    <3> QED
      BY <3>1, ToggleLadder
  <2> QED
    BY <2>1 DEF StepsIn
<1>3. \A S \in SUBSET (1..n) : S # {} => Max(S) \in S /\ Max(S) \in 1..n
  BY <1>1, LastOf
<1> HIDE DEF step, n, D
<1>4. chosen = body(chosen)
  <2>1. PICK iter : IsFold(iter, n, D, s, step)
    BY <1>1, <1>2, FoldExists DEF D
  <2>2. iter = body(iter)
    BY <1>1, <1>2, <1>3, <2>1 DEF IsFold
  <2> HIDE DEF body
  <2> QED
    BY <2>2
<1>5. Switched(s, list, on) = chosen[1..n]
  BY <1>1 DEF Switched, FoldLeft, MapThenFoldSet
<1> HIDE DEF chosen
<1>6. PICK after : ValuesOf(after, n, D, s, step) /\ after[n] = chosen[1..n]
  <2>1. n \in Nat /\ s \in D /\ step \in StepsIn(n, D) /\ chosen[{}] = s
    BY <1>1, <1>2, <1>4 DEF D
  <2>2. \A S \in SUBSET (1..n) :
          S # {} /\ chosen[S \ {Max(S)}] \in D =>
            chosen[S] = step[<<chosen[S \ {Max(S)}], Max(S)>>]
    <3> SUFFICES ASSUME NEW S \in SUBSET (1..n), S # {}, chosen[S \ {Max(S)}] \in D
                 PROVE  chosen[S] = step[<<chosen[S \ {Max(S)}], Max(S)>>]
      OBVIOUS
    <3>1. chosen[S] = SetActive(chosen[S \ {Max(S)}], list[Max(S)], on)
      BY <1>1, <1>4
    <3>2. Max(S) \in 1..n
      BY <1>3
    <3> DEFINE last == Max(S)
               before == chosen[S \ {Max(S)}]
    <3>3. last \in 1..n /\ before \in D /\ chosen[S] = SetActive(before, list[last], on)
      BY <3>1, <3>2
    <3> HIDE DEF last, before
    <3>4. step[<<before, last>>] = SetActive(before, list[last], on)
      BY <1>2, <3>3
    <3>5. chosen[S] = step[<<before, last>>]
      BY <3>3, <3>4
    <3> QED
      BY <3>5 DEF last, before
  <2>3. FoldsOn(chosen, n, D, s, step)
    BY <2>1, <2>2 DEF FoldsOn
  <2> QED
    BY <2>1, <2>3, FoldInOrder
<1> QED
  BY <1>2, <1>5, <1>6 DEF ValuesOf, n, D

LEMMA SwitchedLadder ==
  ASSUME NEW s \in LadderSessions, NEW list \in Seq(Elements), NEW on \in BOOLEAN
  PROVE  Switched(s, list, on) \in LadderSessions
<1>1. PICK after \in [0..Len(list) -> LadderSessions] :
        Switched(s, list, on) = after[Len(list)]
  BY SwitchedByOne
<1> QED
  BY <1>1

LEMMA ToggledLadder ==
  ASSUME NEW s \in LadderSessions, NEW p \in Patches(Elements)
  PROVE  Toggled(s, p) \in LadderSessions
<1>1. p.off \in Seq(Elements) /\ p.on \in Seq(Elements)
  BY DEF Patches
<1>2. Switched(s, p.off, FALSE) \in LadderSessions
  BY <1>1, SwitchedLadder
<1>3. Switched(Switched(s, p.off, FALSE), p.on, TRUE) \in LadderSessions
  BY <1>1, <1>2, SwitchedLadder
<1> QED
  BY <1>3 DEF Toggled

(***************************************************************************)
(* UFrameInteractiveSubsystem.  Its session is built with the caller's      *)
(* options or, after a load patch, with the default ones: what a solve      *)
(* leaves behind does not depend on which.                                  *)
(***************************************************************************)
\* The answers of a solve that leaves this session behind.
Stays(s) == [session : {s}, singular : BOOLEAN, tier : 0..3]

\* Solving keeps the ladder exact and the flags as they are: with default options.
LEMMA DefaultSolveLadder ==
  ASSUME NEW s \in LadderSessions, NEW r \in Default!Solve(s)
  PROVE  r.session \in LadderSessions /\ r.session.active = s.active /\ r.singular \in BOOLEAN
<1>1. s.active \in SUBSET Elements
  BY DEF LadderSessions, Session
<1>2. BuildBaseline(s.active) \in LadderSessions /\ BuildBaseline(s.active).active = s.active
  BY <1>1, BaselineLadder, BaselineFields
<1>3. Default!BuildBaseline(s.active) = BuildBaseline(s.active)
  BY DEF Default!BuildBaseline, BuildBaseline, Default!Factorable, Factorable
<1>4. Default!Tier(s) \in {0, 1, 2, 3}
  BY DEF Default!Tier
<1>5. r \in {Default!Refused(s), Default!BackSolved(s), Default!Woodbury(s),
             Default!Converged(s), Default!Refactored(s)}
  BY <1>4 DEF Default!Solve
<1>6. /\ Default!Refused(s) \in Stays(s) /\ Default!BackSolved(s) \in Stays(s)
      /\ Default!Woodbury(s) \in Stays(s) /\ Default!Converged(s) \in Stays(s)
  BY DEF Stays, Default!Refused, Default!BackSolved, Default!Woodbury, Default!Converged
<1>7. Default!Refactored(s) \in Stays(BuildBaseline(s.active))
  BY <1>3 DEF Stays, Default!Refactored
<1> QED
  BY <1>2, <1>5, <1>6, <1>7 DEF Stays

\* With the options the session was built with.
LEMMA SolveNowLadder ==
  ASSUME NEW s \in LadderSessions, NEW r \in SolveNow(s)
  PROVE  r.session \in LadderSessions /\ r.session.active = s.active /\ r.singular \in BOOLEAN
<1>1. s.active \in SUBSET Elements
  BY DEF LadderSessions, Session
<1>2. BuildBaseline(s.active) \in LadderSessions /\ BuildBaseline(s.active).active = s.active
  BY <1>1, BaselineLadder, BaselineFields
<1>3. CASE ~defaults
  <2>1. r \in Solve(s) /\ Tier(s) \in {0, 1, 2, 3}
    BY <1>3 DEF SolveNow, Tier
  <2>2. r \in {Refused(s), BackSolved(s), Woodbury(s), Converged(s), Refactored(s)}
    BY <2>1 DEF Solve
  <2>3. /\ Refused(s) \in Stays(s) /\ BackSolved(s) \in Stays(s)
        /\ Woodbury(s) \in Stays(s) /\ Converged(s) \in Stays(s)
    BY DEF Stays, Refused, BackSolved, Woodbury, Converged
  <2>4. Refactored(s) \in Stays(BuildBaseline(s.active))
    BY DEF Stays, Refactored
  <2> QED
    BY <1>2, <2>2, <2>3, <2>4 DEF Stays
<1>4. CASE defaults
  BY <1>4, DefaultSolveLadder DEF SolveNow
<1> QED
  BY <1>3, <1>4

\* A sweep under way: the session and the jumps so far.
Runs == [session : LadderSessions, jumps : Seq(BOOLEAN)]

LEMMA ProbesTyped ==
  ASSUME NEW run \in Runs, NEW e \in Elements
  PROVE  Probes(run, e) \subseteq Runs
<1> SUFFICES ASSUME NEW q \in Probes(run, e) PROVE q \in Runs
  OBVIOUS
<1>a. PICK r \in SolveNow(SetActive(run.session, e, FALSE)) :
        q \in {[session |-> b.session, jumps |-> Append(run.jumps, r.singular)] :
                 b \in SolveNow(SetActive(r.session, e, TRUE))}
  BY Zenon DEF Probes
<1>0. PICK b \in SolveNow(SetActive(r.session, e, TRUE)) :
        q = [session |-> b.session, jumps |-> Append(run.jumps, r.singular)]
  BY <1>a
<1>1. run.session \in LadderSessions /\ run.jumps \in Seq(BOOLEAN)
  BY DEF Runs
<1>2. SetActive(run.session, e, FALSE) \in LadderSessions
  BY <1>1, ToggleLadder
<1>3. r.session \in LadderSessions /\ r.singular \in BOOLEAN
  BY <1>2, SolveNowLadder
<1>4. SetActive(r.session, e, TRUE) \in LadderSessions
  BY <1>3, ToggleLadder
<1>5. b.session \in LadderSessions
  BY <1>4, SolveNowLadder
<1> QED
  BY <1>0, <1>1, <1>3, <1>5, AppendProperties DEF Runs

\* The loop of a sweep: the ways it can have gone after each watched member.
LEMMA SweptByOne ==
  ASSUME NEW s \in LadderSessions
  PROVE  \E after \in [0..Len(Watched) -> SUBSET Runs] :
           /\ after[0] = {[session |-> s, jumps |-> <<>>]}
           /\ \A k \in 1..Len(Watched) :
                after[k] = UNION {Probes(run, Watched[k]) : run \in after[k - 1]}
           /\ Sweeps(s) = after[Len(Watched)]
<1> DEFINE n == Len(Watched)
           D == SUBSET Runs
           one == {[session |-> s, jumps |-> <<>>]}
           Extend(runs, e) == UNION {Probes(run, e) : run \in runs}
           body(iter) == [S \in SUBSET DOMAIN Watched |->
                            IF S = {} THEN one
                            ELSE Extend(iter[S \ {Max(S)}], Watched[Max(S)])]
           step == [x \in D \X (1..n) |-> Extend(x[1], Watched[x[2]])]
           chosen == CHOOSE iter : iter = body(iter)
<1>1. n \in Nat /\ DOMAIN Watched = 1..n /\ \A k \in 1..n : Watched[k] \in Elements
  BY InteractiveAssumption
<1>2. /\ step \in StepsIn(n, D)
      /\ \A x \in D, k \in 1..n : step[<<x, k>>] = Extend(x, Watched[k])
  <2>1. ASSUME NEW x \in D \X (1..n) PROVE Extend(x[1], Watched[x[2]]) \in D
    <3>1. x[1] \in SUBSET Runs /\ Watched[x[2]] \in Elements
      BY <1>1
    <3>2. \A run \in x[1] : Probes(run, Watched[x[2]]) \subseteq Runs
      BY <3>1, ProbesTyped
    <3> QED
      BY <3>2
  <2> QED
    BY <2>1 DEF StepsIn
<1>3. \A S \in SUBSET (1..n) : S # {} => Max(S) \in S /\ Max(S) \in 1..n
  BY <1>1, LastOf
<1>4. one \in D
  BY DEF Runs
<1>5. Sweeps(s) = chosen[1..n]
  BY <1>1 DEF Sweeps, FoldLeft, MapThenFoldSet
<1> HIDE DEF step, n, D, one, Extend
<1>6. chosen = body(chosen)
  <2>1. PICK iter : IsFold(iter, n, D, one, step)
    BY <1>1, <1>2, <1>4, FoldExists
  <2>2. iter = body(iter)
    BY <1>1, <1>2, <1>3, <2>1 DEF IsFold
  <2> HIDE DEF body
  <2> QED
    BY <2>2
<1> HIDE DEF chosen
<1>7. PICK after : ValuesOf(after, n, D, one, step) /\ after[n] = chosen[1..n]
  <2>1. chosen[{}] = one
    BY <1>1, <1>6
  <2>2. \A S \in SUBSET (1..n) :
          S # {} /\ chosen[S \ {Max(S)}] \in D =>
            chosen[S] = step[<<chosen[S \ {Max(S)}], Max(S)>>]
    <3> SUFFICES ASSUME NEW S \in SUBSET (1..n), S # {}, chosen[S \ {Max(S)}] \in D
                 PROVE  chosen[S] = step[<<chosen[S \ {Max(S)}], Max(S)>>]
      OBVIOUS
    <3>1. chosen[S] = Extend(chosen[S \ {Max(S)}], Watched[Max(S)])
      BY <1>1, <1>6
    <3> QED
      BY <1>2, <1>3, <3>1
  <2>3. FoldsOn(chosen, n, D, one, step)
    BY <2>1, <2>2 DEF FoldsOn
  <2> QED
    BY <1>1, <1>2, <1>4, <2>3, FoldInOrder
<1>8. \A k \in 1..n : after[k] = Extend(after[k - 1], Watched[k])
  <2> SUFFICES ASSUME NEW k \in 1..n PROVE after[k] = Extend(after[k - 1], Watched[k])
    OBVIOUS
  <2>1. after[k - 1] \in D /\ after[k] = step[<<after[k - 1], k>>]
    BY <1>1, <1>7 DEF ValuesOf
  <2> QED
    BY <1>2, <2>1
<1>9. after \in [0..n -> D] /\ after[0] = one /\ Sweeps(s) = after[n]
  BY <1>5, <1>7 DEF ValuesOf
<1> QED
  BY <1>8, <1>9 DEF n, D, one, Extend

\* A sweep keeps the ladder exact, whatever it meets.
LEMMA SweepsLadder ==
  ASSUME NEW s \in LadderSessions, NEW run \in Sweeps(s)
  PROVE  run.session \in LadderSessions
<1>1. PICK after \in [0..Len(Watched) -> SUBSET Runs] : Sweeps(s) = after[Len(Watched)]
  BY SweptByOne
<1>2. Len(Watched) \in 0..Len(Watched)
  BY InteractiveAssumption
<1>3. run \in Runs
  BY <1>1, <1>2
<1> QED
  BY <1>3 DEF Runs

-------------------------------------------------------------------------------
\* The inductive invariant: the session is exact, and the copy and what was asked
\* for are models with the session's loads.
SessionInv ==
  session # None =>
    /\ session \in LadderSessions
    /\ cached \in Model /\ asked \in Model
    /\ sessionLoads = asked.loads /\ cached.loads = asked.loads

LEMMA PatchedLoadsTyped ==
  ASSUME NEW p \in Patches(Elements), NEW loads \in Loads
  PROVE  /\ PatchedLoads(p, loads) \in Loads
         /\ ~TouchesLoads(p) => PatchedLoads(p, loads) = loads
<1>1. p.set \in Loads /\ p.add \in Loads /\ p.reset \in BOOLEAN
  BY DEF Patches
<1>2. \A n \in LoadNodes : p.set[n] \in Nat /\ p.add[n] \in Nat /\ loads[n] \in Nat
  BY <1>1 DEF Loads
<1>3. PatchedLoads(p, loads) \in Loads
  BY <1>2 DEF PatchedLoads, Loads
<1>4. ASSUME ~TouchesLoads(p) PROVE PatchedLoads(p, loads) = loads
  <2>1. ~p.reset /\ \A n \in LoadNodes : p.set[n] = 0 /\ p.add[n] = 0
    BY <1>4 DEF TouchesLoads, NoLoads
  <2>2. \A n \in LoadNodes : PatchedLoads(p, loads)[n] = loads[n]
    BY <1>2, <2>1 DEF PatchedLoads
  <2> QED
    BY <1>3, <2>2 DEF Loads
<1> QED
  BY <1>3, <1>4

\* What was asked for after a patch, and the copy after a patch with loads.
LEMMA PatchedModels ==
  ASSUME NEW p \in Patches(Elements), NEW m \in Model
  PROVE  LET n == [m EXCEPT !.active = PatchedFlags(p, @), !.loads = PatchedLoads(p, @)]
             c == [m EXCEPT !.loads = PatchedLoads(p, @)]
         IN /\ n \in Model /\ n.loads = PatchedLoads(p, m.loads)
            /\ c \in Model /\ c.loads = PatchedLoads(p, m.loads) /\ c.active = m.active
<1>1. m.active \in SUBSET Elements /\ m.loads \in Loads
  BY DEF Model
<1>2. p.on \in Seq(Elements)
  BY DEF Patches
<1>3. PatchedFlags(p, m.active) \in SUBSET Elements
  BY <1>1, <1>2 DEF PatchedFlags, ToSet
<1>4. PatchedLoads(p, m.loads) \in Loads
  BY <1>1, PatchedLoadsTyped
<1> QED
  BY <1>1, <1>3, <1>4 DEF Model

\* A model that starts gets a fresh baseline, solved or not.
LEMMA StartSessionKeeps ==
  ASSUME NEW model \in StartMenu, NEW works \in BOOLEAN, StartSession(model, works)
  PROVE  SessionInv'
<1>1. model \in Model
  BY InteractiveAssumption DEF Model
<1>2. CASE Starts(model) /\ works
  <2>1. session' = BuildBaseline(model.active) /\ sessionLoads' = model.loads
        /\ cached' = model /\ asked' = model
    BY <1>2 DEF StartSession
  <2>2. BuildBaseline(model.active) \in LadderSessions
    BY <1>1, BaselineLadder DEF Model
  <2> QED
    BY <1>1, <2>1, <2>2 DEF SessionInv
<1>3. CASE ~(Starts(model) /\ works)
  BY <1>3 DEF StartSession, SessionInv
<1> QED
  BY <1>2, <1>3

LEMMA PatchFlagsKeeps ==
  ASSUME SessionInv, NEW p \in Patches(Elements), PatchFlags(p)
  PROVE  SessionInv'
<1>1. /\ session \in LadderSessions /\ cached \in Model /\ asked \in Model
      /\ sessionLoads = asked.loads /\ cached.loads = asked.loads
  BY DEF PatchFlags, SessionInv
<1>2. PICK r \in SolveNow(Toggled(session, p)) : session' = r.session
  BY DEF PatchFlags
<1>3. session' \in LadderSessions
  BY <1>1, <1>2, ToggledLadder, SolveNowLadder
<1>4. asked' \in Model /\ asked'.loads = PatchedLoads(p, asked.loads)
  BY <1>1, PatchedModels DEF PatchFlags
<1>5. PatchedLoads(p, asked.loads) = asked.loads
  BY <1>1, PatchedLoadsTyped DEF PatchFlags, Model
<1> QED
  BY <1>1, <1>3, <1>4, <1>5 DEF PatchFlags, SessionInv

LEMMA PatchLoadsKeeps ==
  ASSUME SessionInv, NEW p \in Patches(Elements), NEW works \in BOOLEAN, PatchLoads(p, works)
  PROVE  SessionInv'
<1> DEFINE model == [cached EXCEPT !.loads = PatchedLoads(p, @)]
<1>1. /\ session \in LadderSessions /\ cached \in Model /\ asked \in Model
      /\ cached.loads = asked.loads
  BY DEF PatchLoads, SessionInv
<1>2. /\ cached' = model /\ model \in Model
      /\ model.loads = PatchedLoads(p, asked.loads)
  BY <1>1, PatchedModels DEF PatchLoads
<1>3. asked' \in Model /\ asked'.loads = PatchedLoads(p, asked.loads)
  BY <1>1, PatchedModels DEF PatchLoads
<1>4. CASE Starts(model) /\ works
  <2>1. /\ sessionLoads' = model.loads /\ defaults'
        /\ \E r \in Default!Solve(BuildBaseline(model.active)) : session' = r.session
    BY <1>4 DEF PatchLoads
  <2>2. PICK r \in Default!Solve(BuildBaseline(model.active)) : session' = r.session
    BY <2>1
  <2>3. BuildBaseline(model.active) \in LadderSessions
    BY <1>2, BaselineLadder DEF Model
  <2>4. session' \in LadderSessions
    BY <2>2, <2>3, DefaultSolveLadder
  <2> QED
    BY <1>2, <1>3, <2>1, <2>4 DEF SessionInv
<1>5. CASE ~(Starts(model) /\ works)
  <2>1. session' = None
    BY <1>5 DEF PatchLoads
  <2> QED
    BY <2>1 DEF SessionInv
<1> QED
  BY <1>4, <1>5

LEMMA ComputeRedundancyKeeps == SessionInv /\ ComputeRedundancy => SessionInv'
<1> SUFFICES ASSUME SessionInv, ComputeRedundancy PROVE SessionInv'
  OBVIOUS
<1>1. session \in LadderSessions /\ cached \in Model /\ asked \in Model
      /\ sessionLoads = asked.loads /\ cached.loads = asked.loads
  BY DEF ComputeRedundancy, SessionInv
<1>2. PICK base \in SolveNow(session) :
        IF base.singular THEN session' = base.session
        ELSE \E run \in Sweeps(base.session) : session' = run.session
  BY DEF ComputeRedundancy
<1>3. base.session \in LadderSessions
  BY <1>1, SolveNowLadder
<1>4. session' \in LadderSessions
  BY <1>2, <1>3, SweepsLadder
<1> QED
  BY <1>1, <1>4 DEF ComputeRedundancy, SessionInv

LEMMA SessionStep == SessionInv /\ [Next]_vars => SessionInv'
<1> SUFFICES ASSUME SessionInv, [Next]_vars PROVE SessionInv'
  OBVIOUS
<1>1. ASSUME NEW model \in StartMenu, NEW works \in BOOLEAN, StartSession(model, works)
      PROVE  SessionInv'
  BY <1>1, StartSessionKeeps
<1>2. CASE EndSession
  BY <1>2 DEF EndSession, SessionInv
<1>3. ASSUME NEW p \in PatchMenu, ApplyPatchAndResolve(p) PROVE SessionInv'
  <2>1. p \in Patches(Elements)
    BY InteractiveAssumption
  <2>2. CASE Refuse
    BY <2>2 DEF Refuse, SessionInv
  <2>3. CASE PatchFlags(p)
    BY <2>1, <2>3, PatchFlagsKeeps
  <2>4. CASE \E works \in BOOLEAN : PatchLoads(p, works)
    BY <2>1, <2>4, PatchLoadsKeeps
  <2> QED
    BY <1>3, <2>2, <2>3, <2>4 DEF ApplyPatchAndResolve
<1>4. CASE Rebaseline
  <2>1. session.active \in SUBSET Elements
    BY <1>4 DEF Rebaseline, SessionInv, LadderSessions, Session
  <2>2. session' \in LadderSessions
    BY <1>4, <2>1, BaselineLadder DEF Rebaseline
  <2> QED
    BY <1>4, <2>2 DEF Rebaseline, SessionInv
<1>5. CASE ResolveCurrent
  <2>1. session \in LadderSessions
    BY <1>5 DEF ResolveCurrent, SessionInv
  <2>2. session' \in LadderSessions
    BY <1>5, <2>1, SolveNowLadder DEF ResolveCurrent
  <2> QED
    BY <1>5, <2>2 DEF ResolveCurrent, SessionInv
<1>6. CASE ComputeRedundancy
  BY <1>6, ComputeRedundancyKeeps
<1>7. CASE UNCHANGED vars
  BY <1>7 DEF vars, SessionInv
<1> QED
  BY <1>1, <1>2, <1>3, <1>4, <1>5, <1>6, <1>7 DEF Next

LEMMA SessionInvariant == Spec => []SessionInv
<1>1. Init => SessionInv
  BY DEF Init, SessionInv
<1> QED
  BY <1>1, SessionStep, PTL DEF Spec

\* The engine's working model is a copy that nothing refreshes: the subsystem
\* builds it again wherever the loads of its own copy change, and only there.
THEOREM LoadsReachTheSession == Spec => []LoadsReachSession
<1>1. SessionInv => LoadsReachSession
  BY DEF SessionInv, LoadsReachSession
<1> QED
  BY <1>1, SessionInvariant, PTL

-------------------------------------------------------------------------------
\* What an answer says of a session that is alive after it.
AnswerHolds(singular, s) ==
  /\ ~singular => Factorable(s.active)
  /\ singular /\ s.baseValid => ~Factorable(s.active)

LEMMA SolveAnswers ==
  ASSUME ~AllowTier2, NEW s \in LadderSessions, NEW r \in Solve(s)
  PROVE  AnswerHolds(r.singular, r.session)
<1>1. /\ r.session.active = s.active
      /\ ~r.singular /\ r.tier # 2 => Factorable(s.active)
      /\ r.singular /\ r.tier # 0 => ~Factorable(s.active)
      /\ r.singular /\ r.tier = 0 => ~s.baseValid \/ s.active \cap Unpreparable # {}
      /\ r.tier # 2
  BY SolveVerdict, SolveLadder
<1>2. CASE ~s.baseValid \/ s.active \cap Unpreparable # {}
  <2>1. r.session = s /\ r.singular
    BY <1>2 DEF Solve, Refused
  <2> QED
    BY <1>2, <2>1 DEF AnswerHolds, Factorable
<1>3. CASE ~(~s.baseValid \/ s.active \cap Unpreparable # {})
  BY <1>1, <1>3 DEF AnswerHolds
<1> QED
  BY <1>2, <1>3

LEMMA VerdictTells ==
  ASSUME NEW v
  PROVE  (Verdict(v) = "singular" => v) /\ (Verdict(v) = "solved" => ~v) /\ Verdict(v) # "none"
  BY DEF Verdict

LEMMA AnswersStep ==
  SessionInv /\ AnswersAreExact /\ [Next]_vars => AnswersAreExact'
<1> SUFFICES ASSUME SessionInv, [Next]_vars, AnswersAreExact,
                    session' # None, ~defaults', ~AllowTier2
             PROVE  /\ answer' = "solved" => Factorable(session'.active)
                    /\ answer' = "singular" /\ session'.baseValid =>
                         ~Factorable(session'.active)
  BY DEF AnswersAreExact
<1>1. ASSUME NEW s \in LadderSessions, ~defaults, NEW r \in SolveNow(s),
             session' = r.session, answer' = Verdict(r.singular)
      PROVE  /\ answer' = "solved" => Factorable(session'.active)
             /\ answer' = "singular" /\ session'.baseValid => ~Factorable(session'.active)
  BY <1>1, SolveAnswers, VerdictTells DEF SolveNow, AnswerHolds
<1>2. ASSUME NEW model \in StartMenu, NEW works \in BOOLEAN, StartSession(model, works)
      PROVE  answer' = "none"
  BY <1>2 DEF StartSession
<1>3. CASE EndSession
  BY <1>3 DEF EndSession
<1>4. ASSUME NEW p \in PatchMenu, ApplyPatchAndResolve(p)
      PROVE  /\ answer' = "solved" => Factorable(session'.active)
             /\ answer' = "singular" /\ session'.baseValid => ~Factorable(session'.active)
  <2>1. CASE Refuse
    BY <2>1 DEF Refuse
  <2>2. CASE PatchFlags(p)
    <3>1. p \in Patches(Elements) /\ session \in LadderSessions /\ ~defaults
      BY <2>2, InteractiveAssumption DEF PatchFlags, SessionInv
    <3>2. Toggled(session, p) \in LadderSessions
      BY <3>1, ToggledLadder
    <3> QED
      BY <1>1, <2>2, <3>1, <3>2 DEF PatchFlags
  <2>3. CASE \E works \in BOOLEAN : PatchLoads(p, works)
    BY <2>3 DEF PatchLoads
  <2> QED
    BY <1>4, <2>1, <2>2, <2>3 DEF ApplyPatchAndResolve
<1>5. CASE Rebaseline
  BY <1>5 DEF Rebaseline
<1>6. CASE ResolveCurrent
  <2>1. session \in LadderSessions /\ ~defaults
    BY <1>6 DEF ResolveCurrent, SessionInv
  <2> QED
    BY <1>1, <1>6, <2>1 DEF ResolveCurrent
<1>7. CASE ComputeRedundancy
  <2>1. session \in LadderSessions /\ ~defaults
    BY <1>7 DEF ComputeRedundancy, SessionInv
  <2>2. PICK base \in SolveNow(session) :
          IF base.singular THEN session' = base.session /\ answer' = "singular"
          ELSE answer' = "none"
    BY <1>7 DEF ComputeRedundancy
  <2>3. CASE base.singular
    <3>1. answer' = Verdict(base.singular)
      BY <2>2, <2>3 DEF Verdict
    <3> QED
      BY <1>1, <2>1, <2>2, <2>3, <3>1
  <2>4. CASE ~base.singular
    BY <2>2, <2>4
  <2> QED
    BY <2>3, <2>4
<1>8. CASE UNCHANGED vars
  BY <1>8 DEF vars, AnswersAreExact
<1> QED
  BY <1>2, <1>3, <1>4, <1>5, <1>6, <1>7, <1>8 DEF Next

\* Whatever a caller toggled, rebaselined or swept before, the last answer of a live
\* session with its caller's options is that of a fresh factorization.
THEOREM AnswersOfTheSessionAreExact == Spec => []AnswersAreExact
<1>1. Init => AnswersAreExact
  BY DEF Init, AnswersAreExact
<1> QED
  BY <1>1, AnswersStep, SessionInvariant, PTL DEF Spec

-------------------------------------------------------------------------------
(***************************************************************************)
(* The sweep of the redundancy actor, on a ladder with room for all of it.  *)
(***************************************************************************)
Room == IF defaults THEN DefaultMaxRank ELSE MaxRank

\* The ladder's rank after each watched member.
LEMMA RankByOne ==
  ASSUME session \in Session
  PROVE  \E after \in [0..Len(Watched) -> Nat] :
           /\ after[0] = session.rank
           /\ \A k \in 1..Len(Watched) : after[k] = after[k - 1] + 2 * RankOf[Watched[k]]
           /\ RankAfterSweep = after[Len(Watched)]
<1> DEFINE n == Len(Watched)
           body(iter) == [S \in SUBSET DOMAIN Watched |->
                            IF S = {} THEN session.rank
                            ELSE iter[S \ {Max(S)}] + 2 * RankOf[Watched[Max(S)]]]
           step == [x \in Nat \X (1..n) |-> x[1] + 2 * RankOf[Watched[x[2]]]]
           chosen == CHOOSE iter : iter = body(iter)
<1>1. /\ n \in Nat /\ DOMAIN Watched = 1..n /\ session.rank \in Nat
      /\ \A k \in 1..n : Watched[k] \in Elements /\ RankOf[Watched[k]] \in Nat
  BY InteractiveAssumption, ReSolveAssumption DEF Session
<1>2. /\ step \in StepsIn(n, Nat)
      /\ \A x \in Nat, k \in 1..n : step[<<x, k>>] = x + 2 * RankOf[Watched[k]]
  <2>1. \A x \in Nat \X (1..n) : x[1] + 2 * RankOf[Watched[x[2]]] \in Nat
    BY <1>1
  <2> QED
    BY <2>1 DEF StepsIn
<1>3. \A S \in SUBSET (1..n) : S # {} => Max(S) \in S /\ Max(S) \in 1..n
  BY <1>1, LastOf
<1>4. RankAfterSweep = chosen[1..n]
  BY <1>1 DEF RankAfterSweep, FoldLeft, MapThenFoldSet
<1> HIDE DEF step, n
<1>5. chosen = body(chosen)
  <2>1. PICK iter : IsFold(iter, n, Nat, session.rank, step)
    BY <1>1, <1>2, FoldExists
  <2>2. iter = body(iter)
    BY <1>1, <1>2, <1>3, <2>1 DEF IsFold
  <2> HIDE DEF body
  <2> QED
    BY <2>2
<1> HIDE DEF chosen
<1>6. PICK after : ValuesOf(after, n, Nat, session.rank, step) /\ after[n] = chosen[1..n]
  <2>1. chosen[{}] = session.rank
    BY <1>1, <1>5
  <2>2. \A S \in SUBSET (1..n) :
          S # {} /\ chosen[S \ {Max(S)}] \in Nat =>
            chosen[S] = step[<<chosen[S \ {Max(S)}], Max(S)>>]
    <3> SUFFICES ASSUME NEW S \in SUBSET (1..n), S # {}, chosen[S \ {Max(S)}] \in Nat
                 PROVE  chosen[S] = step[<<chosen[S \ {Max(S)}], Max(S)>>]
      OBVIOUS
    <3>1. chosen[S] = chosen[S \ {Max(S)}] + 2 * RankOf[Watched[Max(S)]]
      BY <1>1, <1>5
    <3> QED
      BY <1>2, <1>3, <3>1
  <2>3. FoldsOn(chosen, n, Nat, session.rank, step)
    BY <2>1, <2>2 DEF FoldsOn
  <2> DEFINE D == Nat
             start == session.rank
  <2>4. n \in Nat /\ start \in D /\ step \in StepsIn(n, D) /\ FoldsOn(chosen, n, D, start, step)
    BY <1>1, <1>2, <2>3
  <2>5. \E after : ValuesOf(after, n, D, start, step) /\ after[n] = chosen[1..n]
    <3> HIDE DEF D, start
    <3> QED
      BY <2>4, FoldInOrder
  <2> QED
    BY <2>5
<1>7. \A k \in 1..n : after[k] = after[k - 1] + 2 * RankOf[Watched[k]]
  <2> SUFFICES ASSUME NEW k \in 1..n PROVE after[k] = after[k - 1] + 2 * RankOf[Watched[k]]
    OBVIOUS
  <2>1. after[k - 1] \in Nat /\ after[k] = step[<<after[k - 1], k>>]
    BY <1>1, <1>6 DEF ValuesOf
  <2> QED
    BY <1>2, <2>1
<1> QED
  BY <1>4, <1>6, <1>7 DEF ValuesOf, n

\* A live session with a ladder that fits is back-solved or updated, and stays.
LEMMA RoomySolve ==
  ASSUME NEW s \in LadderSessions, s.baseValid, s.rank <= Room, NEW r \in SolveNow(s)
  PROVE  /\ r.session = s
         /\ r.singular \in BOOLEAN /\ (r.singular <=> s.active \in Mechanisms)
<1>1. /\ s.active \cap Unpreparable = {} /\ s.rank \in Nat
      /\ DefaultMaxRank \in Nat /\ MaxRank \in Nat
  BY InteractiveAssumption, ReSolveAssumption DEF LadderSessions, Ladder, Session
<1>2. r.singular \in BOOLEAN
  BY SolveNowLadder
<1>3. CASE s.rank = 0
  <2>1. Tier(s) = 0 /\ Default!Tier(s) = 0
    BY <1>3 DEF Tier, Default!Tier
  <2>2. BackSolved(s) \in Solve(s) /\ r = BackSolved(s)
    BY <1>1, <2>1 DEF Solve, SolveNow, Default!Solve, Default!BackSolved, BackSolved
  <2>3. r.session = s /\ ~r.singular /\ r.tier = 0
    BY <2>2 DEF BackSolved
  <2>4. s.active \notin Mechanisms
    BY <2>2, <2>3, SolveVerdict DEF Factorable
  <2> QED
    BY <1>2, <2>3, <2>4
<1>4. CASE s.rank # 0
  <2>1. CASE ~defaults
    <3>1. Tier(s) = 1
      BY <1>1, <1>4, <2>1 DEF Tier, Room
    <3>2. r = Woodbury(s)
      BY <1>1, <2>1, <3>1 DEF SolveNow, Solve
    <3>3. r.session = s /\ r.singular = (Represented(s) \in Mechanisms)
      BY <3>2 DEF Woodbury
    <3> QED
      BY <1>2, <3>3, WoodburyVerdict
  <2>2. CASE defaults
    <3>1. Default!Tier(s) = 1
      BY <1>1, <1>4, <2>2 DEF Default!Tier, Room
    <3>2. r = Default!Woodbury(s)
      BY <1>1, <2>2, <3>1 DEF SolveNow, Default!Solve
    <3>3. r.session = s /\ r.singular = (Represented(s) \in Mechanisms)
      BY <3>2 DEF Default!Woodbury, Default!Represented, Represented
    <3> QED
      BY <1>2, <3>3, WoodburyVerdict
  <2> QED
    BY <2>1, <2>2
<1> QED
  BY <1>3, <1>4

\* Switching an element that prepares, on a live session.
LEMMA RoomyToggle ==
  ASSUME NEW s \in LadderSessions, s.baseValid, NEW e \in Elements \ Unpreparable,
         NEW on \in BOOLEAN, (e \in s.active) # on
  PROVE  LET n == SetActive(s, e, on) IN
         /\ n \in LadderSessions /\ n.baseValid
         /\ n.active = IF on THEN s.active \cup {e} ELSE s.active \ {e}
         /\ n.rank = s.rank + RankOf[e]
<1> DEFINE flipped == WithFlag(s, e, on)
           sign == IF on THEN 1 ELSE -1
<1>1. s \in Session /\ sign \in {1, -1} /\ RankOf[e] \in Nat /\ s.rank \in Nat
  BY ReSolveAssumption DEF LadderSessions, Session
<1>2. /\ flipped \in Session /\ flipped.baseValid /\ flipped.rank = s.rank
      /\ flipped.active = IF on THEN s.active \cup {e} ELSE s.active \ {e}
  BY <1>1 DEF WithFlag, Session
<1>3. SetActive(s, e, on) = AddToLadder(flipped, e, sign)
  BY <1>2 DEF SetActive
<1> HIDE DEF flipped, sign
<1>4. /\ AddToLadder(flipped, e, sign).active = flipped.active
      /\ AddToLadder(flipped, e, sign).baseValid
      /\ AddToLadder(flipped, e, sign).rank = s.rank + RankOf[e]
  <2> DEFINE grown == AddToLadder(flipped, e, sign)
  <2>1. /\ grown.active = flipped.active /\ grown.baseValid = flipped.baseValid
        /\ Ranked(e) => grown.rank = flipped.rank + RankOf[e]
        /\ ~Ranked(e) => grown = flipped
    <3>1. flipped \in Session /\ sign \in {1, -1} /\ e \in Elements
      BY <1>1, <1>2
    <3> HIDE <1>1, <1>2
    <3> QED
      BY <3>1, LadderTyped
  <2>2. ~Ranked(e) => RankOf[e] = 0
    BY <1>1 DEF Ranked
  <2> HIDE DEF grown
  <2>3. grown.active = flipped.active /\ grown.baseValid /\ grown.rank = s.rank + RankOf[e]
    BY <1>1, <1>2, <2>1, <2>2
  <2> QED
    BY <2>3 DEF grown
<1>5. SetActive(s, e, on) \in LadderSessions
  BY ToggleLadder
<1> QED
  BY <1>2, <1>3, <1>4, <1>5

\* One watched member, probed with room for both of its updates.
LEMMA RoomyProbe ==
  ASSUME NEW run \in Runs, run.session.baseValid,
         NEW e \in run.session.active \ Unpreparable, e \in Elements,
         run.session.rank + 2 * RankOf[e] <= Room, NEW q \in Probes(run, e)
  PROVE  /\ q \in Runs /\ q.session.baseValid
         /\ q.session.active = run.session.active
         /\ q.session.rank = run.session.rank + 2 * RankOf[e]
         /\ \E v \in BOOLEAN :
              /\ q.jumps = Append(run.jumps, v)
              /\ v <=> run.session.active \ {e} \in Mechanisms
<1> DEFINE s == run.session
           off == SetActive(s, e, FALSE)
           on == SetActive(off, e, TRUE)
<1>1. /\ s \in LadderSessions /\ s.rank \in Nat /\ RankOf[e] \in Nat /\ Room \in Nat
      /\ e \in Elements \ Unpreparable /\ (e \in s.active) # FALSE
  BY InteractiveAssumption, ReSolveAssumption DEF Runs, LadderSessions, Session, Room
<1>2. /\ off \in LadderSessions /\ off.baseValid
      /\ off.active = s.active \ {e} /\ off.rank = s.rank + RankOf[e]
  BY <1>1, RoomyToggle
<1>3. PICK r \in SolveNow(off) :
        q \in {[session |-> b.session, jumps |-> Append(run.jumps, r.singular)] :
                 b \in SolveNow(SetActive(r.session, e, TRUE))}
  BY Zenon DEF Probes
<1> HIDE DEF s, off
<1>4. off.rank <= Room
  BY <1>1, <1>2 DEF s
<1>5. /\ r.session = off /\ r.singular \in BOOLEAN
      /\ r.singular <=> s.active \ {e} \in Mechanisms
  BY <1>2, <1>4, RoomySolve
<1>6. /\ on \in LadderSessions /\ on.baseValid
      /\ on.active = off.active \cup {e} /\ on.rank = off.rank + RankOf[e]
  <2>1. (e \in off.active) # TRUE
    BY <1>2
  <2> QED
    BY <1>1, <1>2, <2>1, RoomyToggle
<1>7. PICK b \in SolveNow(on) : q = [session |-> b.session, jumps |-> Append(run.jumps, r.singular)]
  BY <1>3, <1>5
<1> HIDE DEF on
<1>8. on.active = s.active /\ on.rank = s.rank + 2 * RankOf[e] /\ on.rank <= Room
  BY <1>1, <1>2, <1>6 DEF s
<1>9. b.session = on
  BY <1>6, <1>8, RoomySolve
<1>10. q.session = on /\ q.jumps = Append(run.jumps, r.singular)
  BY <1>7, <1>9
<1>11. q \in Runs
  BY <1>1, ProbesTyped
<1> QED
  BY <1>5, <1>6, <1>8, <1>10, <1>11 DEF s

\* A sweep under way that stands for `active`, at this rank, with the right jump for each
\* of the first k watched members.
SweptSoFar(active, rank, k) ==
  {run \in Runs :
     /\ run.session.baseValid /\ run.session.active = active /\ run.session.rank = rank
     /\ Len(run.jumps) = k
     /\ \A i \in 1..k : run.jumps[i] <=> active \ {Watched[i]} \in Mechanisms}

LEMMA SweptFurther ==
  ASSUME NEW active, NEW rank \in Nat, NEW k \in 1..Len(Watched),
         Watched[k] \in active \ Unpreparable, rank + 2 * RankOf[Watched[k]] <= Room,
         NEW run \in SweptSoFar(active, rank, k - 1), NEW q \in Probes(run, Watched[k])
  PROVE  q \in SweptSoFar(active, rank + 2 * RankOf[Watched[k]], k)
<1> DEFINE e == Watched[k]
<1>1. /\ run \in Runs /\ run.session.baseValid
      /\ run.session.active = active /\ run.session.rank = rank
      /\ Len(run.jumps) = k - 1
      /\ \A i \in 1..(k - 1) : run.jumps[i] <=> active \ {Watched[i]} \in Mechanisms
  BY DEF SweptSoFar
<1>2. /\ e \in run.session.active \ Unpreparable /\ e \in Elements
      /\ run.session.rank + 2 * RankOf[e] <= Room /\ q \in Probes(run, e)
  BY <1>1, InteractiveAssumption
<1>3. /\ q \in Runs /\ q.session.baseValid
      /\ q.session.active = active /\ q.session.rank = rank + 2 * RankOf[e]
      /\ \E v \in BOOLEAN :
           q.jumps = Append(run.jumps, v) /\ (v <=> active \ {e} \in Mechanisms)
  <2> HIDE DEF e
  <2>1. /\ q \in Runs /\ q.session.baseValid
        /\ q.session.active = run.session.active
        /\ q.session.rank = run.session.rank + 2 * RankOf[e]
        /\ \E v \in BOOLEAN :
             q.jumps = Append(run.jumps, v) /\ (v <=> run.session.active \ {e} \in Mechanisms)
    <3>1. run \in Runs /\ run.session.baseValid
      BY <1>1
    <3> HIDE <1>1
    <3> QED
      BY <1>2, <3>1, RoomyProbe
  <2> QED
    BY <1>1, <2>1
<1>4. PICK v \in BOOLEAN :
        q.jumps = Append(run.jumps, v) /\ (v <=> active \ {e} \in Mechanisms)
  BY <1>3
<1>5. run.jumps \in Seq(BOOLEAN) /\ k \in Nat /\ k >= 1
  BY <1>1 DEF Runs
<1>6. /\ Len(q.jumps) = k /\ q.jumps[k] = v
      /\ \A i \in 1..(k - 1) : q.jumps[i] = run.jumps[i]
  BY <1>1, <1>4, <1>5, AppendProperties
<1>7. ASSUME NEW i \in 1..k
      PROVE  q.jumps[i] <=> active \ {Watched[i]} \in Mechanisms
  <2>1. CASE i = k
    BY <1>4, <1>6, <2>1
  <2>2. CASE i \in 1..(k - 1)
    BY <1>1, <1>6, <2>2
  <2> QED
    BY <2>1, <2>2
<1> QED
  BY <1>3, <1>6, <1>7 DEF SweptSoFar

\* A ladder only grows in a sweep, so room for the last update is room for each.
LEMMA RankAscends ==
  ASSUME NEW n \in Nat, NEW rank \in [0..n -> Nat], NEW more \in [1..n -> Nat],
         \A k \in 1..n : rank[k] = rank[k - 1] + more[k]
  PROVE  \A k \in 0..n : rank[k] <= rank[n]
<1> DEFINE P == {d \in 0..n : rank[n - d] <= rank[n]}
<1>1. 0 \in P
  OBVIOUS
<1>2. ASSUME NEW d \in 1..n, d - 1 \in P PROVE d \in P
  <2>1. rank[n - (d - 1)] <= rank[n]
    BY <1>2
  <2> DEFINE k == n - (d - 1)
  <2>2. k \in 1..n /\ k - 1 = n - d /\ k - 1 \in 0..n /\ k \in 0..n
    OBVIOUS
  <2> HIDE DEF k
  <2>3. rank[k] = rank[k - 1] + more[k] /\ more[k] \in Nat /\ rank[k - 1] \in Nat
    BY <2>2
  <2>4. rank[n] \in Nat /\ rank[k] <= rank[n] /\ n - d \in 0..n
    BY <2>1 DEF k
  <2>5. rank[n - d] <= rank[n]
    BY <2>2, <2>3, <2>4
  <2> QED
    BY <2>5
<1>3. 0..n \subseteq P
  <2> HIDE DEF P
  <2> QED
    BY <1>1, <1>2, Ascent
<1>4. ASSUME NEW k \in 0..n PROVE rank[k] <= rank[n]
  <2>1. n - k \in 0..n /\ n - (n - k) = k
    OBVIOUS
  <2>2. n - k \in P
    BY <1>3, <2>1
  <2> QED
    BY <2>1, <2>2
<1> QED
  BY <1>4

LEMMA SweepWithRoom ==
  ASSUME NEW run \in Sweeps(session), session \in LadderSessions, RoomToSweep
  PROVE  run \in SweptSoFar(session.active, RankAfterSweep, Len(Watched))
<1> DEFINE n == Len(Watched)
           more == [k \in 1..n |-> 2 * RankOf[Watched[k]]]
<1>1. /\ session \in Session /\ session.rank \in Nat /\ session.baseValid
      /\ n \in Nat /\ DOMAIN Watched = 1..n /\ RankAfterSweep <= Room
      /\ \A k \in 1..n :
           Watched[k] \in session.active \ Unpreparable /\ RankOf[Watched[k]] \in Nat
  BY InteractiveAssumption, ReSolveAssumption
     DEF RoomToSweep, LadderSessions, Session, ToSet, Room
<1>2. PICK after \in [0..Len(Watched) -> SUBSET Runs] :
        /\ after[0] = {[session |-> session, jumps |-> <<>>]}
        /\ \A k \in 1..Len(Watched) :
             after[k] = UNION {Probes(r, Watched[k]) : r \in after[k - 1]}
        /\ Sweeps(session) = after[Len(Watched)]
  BY SweptByOne
<1>3. PICK rank \in [0..Len(Watched) -> Nat] :
        /\ rank[0] = session.rank
        /\ \A k \in 1..Len(Watched) : rank[k] = rank[k - 1] + 2 * RankOf[Watched[k]]
        /\ RankAfterSweep = rank[Len(Watched)]
  BY <1>1, RankByOne
<1>4. \A k \in 0..n : rank[k] <= Room /\ rank[k] \in Nat
  <2>1. more \in [1..n -> Nat] /\ \A k \in 1..n : rank[k] = rank[k - 1] + more[k]
    BY <1>1, <1>3
  <2>2. \A k \in 0..n : rank[k] <= rank[n]
    <3> HIDE DEF more
    <3> QED
      BY <1>1, <2>1, RankAscends
  <2>3. Room \in Nat /\ rank[n] <= Room
    BY <1>1, <1>3, InteractiveAssumption, ReSolveAssumption DEF Room
  <2>4. \A k \in 0..n : rank[k] \in Nat
    OBVIOUS
  <2> QED
    BY <1>1, <2>2, <2>3, <2>4
<1> HIDE DEF n, more
<1> DEFINE P == {k \in 0..n : after[k] \subseteq SweptSoFar(session.active, rank[k], k)}
<1>5. 0 \in P
  <2> DEFINE first == [session |-> session, jumps |-> <<>>]
  <2>1. first \in Runs /\ first.session = session /\ Len(first.jumps) = 0
    BY DEF Runs
  <2> HIDE DEF first
  <2>2. first \in SweptSoFar(session.active, rank[0], 0)
    BY <1>1, <1>3, <2>1 DEF SweptSoFar
  <2> QED
    BY <1>1, <1>2, <2>2 DEF first
<1>6. ASSUME NEW k \in 1..n, k - 1 \in P PROVE k \in P
  <2>1. /\ k \in 1..Len(Watched) /\ k \in 0..n /\ k - 1 \in 0..n
        /\ after[k] = UNION {Probes(r, Watched[k]) : r \in after[k - 1]}
        /\ rank[k] = rank[k - 1] + 2 * RankOf[Watched[k]]
        /\ rank[k] <= Room /\ rank[k - 1] \in Nat
        /\ Watched[k] \in session.active \ Unpreparable
    BY <1>1, <1>2, <1>3, <1>4 DEF n
  <2>2. SUFFICES ASSUME NEW q \in after[k]
                 PROVE  q \in SweptSoFar(session.active, rank[k], k)
    BY <2>1
  <2>3. PICK r \in after[k - 1] : q \in Probes(r, Watched[k])
    BY <2>1
  <2>4. r \in SweptSoFar(session.active, rank[k - 1], k - 1)
    BY <1>6
  <2> DEFINE at == rank[k - 1]
  <2>5. /\ at \in Nat /\ at + 2 * RankOf[Watched[k]] <= Room
        /\ r \in SweptSoFar(session.active, at, k - 1)
    BY <2>1, <2>4
  <2> HIDE DEF at
  <2>6. q \in SweptSoFar(session.active, at + 2 * RankOf[Watched[k]], k)
    BY <2>1, <2>3, <2>5, SweptFurther
  <2> QED
    BY <2>1, <2>6 DEF at
<1>7. n \in P
  <2> HIDE DEF P
  <2>1. n \in Nat /\ n \in 0..n
    BY <1>1
  <2>2. \A k \in 1..n : k - 1 \in P => k \in P
    BY <1>6
  <2>3. 0..n \subseteq P
    BY ONLY <1>5, <2>1, <2>2, Ascent
  <2> QED
    BY <2>1, <2>3
<1>8. after[n] \subseteq SweptSoFar(session.active, rank[n], n)
  BY <1>7
<1> HIDE DEF P
<1> QED
  BY <1>2, <1>3, <1>8 DEF n

\* What one sweep with room reports and leaves behind.
LEMMA NeutralSweep ==
  ASSUME SessionInv, ComputeRedundancy, RoomToSweep, Factorable(session.active)
  PROVE  /\ session'.active = session.active /\ session'.baseValid
         /\ jumps' = [i \in DOMAIN Watched |-> session.active \ {Watched[i]} \in Mechanisms]
<1>1. session \in LadderSessions /\ session.baseValid /\ session.active \notin Mechanisms
  BY DEF RoomToSweep, SessionInv, Factorable
<1>2. session.rank <= Room
  <2> DEFINE n == Len(Watched)
             more == [k \in 1..n |-> 2 * RankOf[Watched[k]]]
  <2>1. n \in Nat /\ session \in Session /\ \A k \in 1..n : RankOf[Watched[k]] \in Nat
    BY <1>1, InteractiveAssumption, ReSolveAssumption DEF LadderSessions
  <2>2. PICK rank \in [0..n -> Nat] :
          /\ rank[0] = session.rank
          /\ \A k \in 1..n : rank[k] = rank[k - 1] + 2 * RankOf[Watched[k]]
          /\ RankAfterSweep = rank[n]
    BY <2>1, RankByOne
  <2>3. more \in [1..n -> Nat] /\ \A k \in 1..n : rank[k] = rank[k - 1] + more[k]
    BY <2>1, <2>2
  <2>4. \A k \in 0..n : rank[k] <= rank[n]
    <3> HIDE DEF more, n
    <3> QED
      BY <2>1, <2>3, RankAscends
  <2>5. rank[0] <= rank[n] /\ rank[n] \in Nat /\ rank[0] \in Nat
    BY <2>1, <2>4
  <2> QED
    BY <2>2, <2>5, InteractiveAssumption, ReSolveAssumption DEF RoomToSweep, Room
<1>3. PICK base \in SolveNow(session) :
        IF base.singular
        THEN session' = base.session
        ELSE \E run \in Sweeps(base.session) : session' = run.session /\ jumps' = run.jumps
  BY DEF ComputeRedundancy
<1>4. base.session = session /\ ~base.singular
  BY <1>1, <1>2, RoomySolve
<1>5. PICK run \in Sweeps(session) : session' = run.session /\ jumps' = run.jumps
  BY <1>3, <1>4
<1>6. run \in SweptSoFar(session.active, RankAfterSweep, Len(Watched))
  BY <1>1, <1>5, SweepWithRoom
<1>7. /\ run.session.active = session.active /\ run.session.baseValid
      /\ run.jumps \in Seq(BOOLEAN) /\ Len(run.jumps) = Len(Watched)
      /\ \A i \in 1..Len(Watched) :
           run.jumps[i] <=> session.active \ {Watched[i]} \in Mechanisms
  BY <1>6 DEF SweptSoFar, Runs
<1>8. run.jumps = [i \in DOMAIN Watched |-> session.active \ {Watched[i]} \in Mechanisms]
  <2> DEFINE M(i) == session.active \ {Watched[i]}
  <2>1. DOMAIN Watched = 1..Len(Watched) /\ DOMAIN run.jumps = 1..Len(Watched)
    BY <1>7, InteractiveAssumption
  <2>2. \A i \in DOMAIN Watched : run.jumps[i] \in BOOLEAN /\ (run.jumps[i] <=> M(i) \in Mechanisms)
    BY <1>7, <2>1
  <2> HIDE DEF M
  <2>3. run.jumps = [i \in DOMAIN Watched |-> run.jumps[i]]
    BY <1>7, <2>1
  <2>4. run.jumps = [i \in DOMAIN Watched |-> M(i) \in Mechanisms]
    BY <2>2, <2>3
  <2> QED
    BY <2>4 DEF M
<1> QED
  BY <1>5, <1>7, <1>8

\* The actor reads one boolean per watched member off a session it borrows.  With room on
\* the ladder for every update, each boolean is the exact verdict on that member alone,
\* whatever was toggled before, and the session it gives back stands for what it stood for.
THEOREM TheSweepIsNeutral == Spec => SweepIsNeutral
<1>1. SessionInv /\ [Next]_vars =>
        [ComputeRedundancy /\ RoomToSweep /\ Factorable(session.active) =>
           /\ session'.active = session.active /\ session'.baseValid
           /\ jumps' = [i \in DOMAIN Watched |->
                          session.active \ {Watched[i]} \in Mechanisms]]_vars
  BY NeutralSweep
<1> QED
  BY <1>1, SessionInvariant, PTL DEF Spec, SweepIsNeutral

(***************************************************************************)
(* The debounce queue.  Merging one patch after another amounts to applying *)
(* one after the other, unless the second undoes what the first asks for.   *)
(***************************************************************************)
LEMMA ToSetOfBoth ==
  ASSUME NEW S, NEW s \in Seq(S), NEW t \in Seq(S)
  PROVE  ToSet(s \o t) = ToSet(s) \cup ToSet(t)
<1>1. /\ Len(s) \in Nat /\ Len(t) \in Nat
      /\ DOMAIN s = 1..Len(s) /\ DOMAIN t = 1..Len(t)
      /\ DOMAIN (s \o t) = 1..(Len(s) + Len(t))
      /\ \A i \in 1..Len(s) : (s \o t)[i] = s[i]
      /\ \A i \in 1..Len(t) : (s \o t)[Len(s) + i] = t[i]
  BY ConcatProperties
<1>2. ASSUME NEW i \in 1..(Len(s) + Len(t)) PROVE (s \o t)[i] \in ToSet(s) \cup ToSet(t)
  <2>1. CASE i \in 1..Len(s)
    BY <1>1, <2>1 DEF ToSet
  <2>2. CASE i - Len(s) \in 1..Len(t)
    <3>1. i = Len(s) + (i - Len(s))
      BY <1>1
    <3> QED
      BY <1>1, <2>2, <3>1 DEF ToSet
  <2> QED
    BY <1>1, <2>1, <2>2
<1>3. ASSUME NEW i \in 1..Len(s) PROVE s[i] \in ToSet(s \o t)
  BY <1>1 DEF ToSet
<1>4. ASSUME NEW i \in 1..Len(t) PROVE t[i] \in ToSet(s \o t)
  <2>1. Len(s) + i \in DOMAIN (s \o t)
    BY <1>1
  <2> QED
    BY <1>1, <2>1 DEF ToSet
<1>5. /\ \A x \in ToSet(s \o t) : x \in ToSet(s) \cup ToSet(t)
      /\ \A x \in ToSet(s) : x \in ToSet(s \o t)
      /\ \A x \in ToSet(t) : x \in ToSet(s \o t)
  BY <1>1, <1>2, <1>3, <1>4 DEF ToSet
<1> QED
  BY <1>5

\* What the engine and the history hold: flags and loads.
Switches == [active : SUBSET Switchable, loads : Loads]

LEMMA PatchedTyped ==
  ASSUME NEW m \in Switches, NEW p \in Patches(Switchable)
  PROVE  Patched(m, p) \in Switches
<1>1. /\ p.on \in Seq(Switchable) /\ p.set \in Loads /\ p.add \in Loads
      /\ m.active \in SUBSET Switchable /\ m.loads \in Loads
  BY DEF Patches, Switches
<1>2. PatchedFlags(p, m.active) \in SUBSET Switchable
  BY <1>1 DEF PatchedFlags, ToSet
<1>3. PatchedLoads(p, m.loads) \in Loads
  BY <1>1 DEF PatchedLoads, Loads
<1> QED
  BY <1>2, <1>3 DEF Patched, Switches

LEMMA MergeTyped ==
  ASSUME NEW p \in Patches(Switchable), NEW q \in Patches(Switchable)
  PROVE  MergePatch(p, q) \in Patches(Switchable)
<1>1. /\ p.off \in Seq(Switchable) /\ p.on \in Seq(Switchable)
      /\ q.off \in Seq(Switchable) /\ q.on \in Seq(Switchable)
      /\ p.reset \in BOOLEAN /\ q.reset \in BOOLEAN
      /\ p.set \in Loads /\ p.add \in Loads /\ q.set \in Loads /\ q.add \in Loads
  BY DEF Patches
<1>2. p.off \o q.off \in Seq(Switchable) /\ p.on \o q.on \in Seq(Switchable)
  BY <1>1
<1>3. /\ [n \in LoadNodes |-> IF q.set[n] > 0 THEN q.set[n] ELSE p.set[n]] \in Loads
      /\ [n \in LoadNodes |-> p.add[n] + q.add[n]] \in Loads
  BY <1>1 DEF Loads
<1> QED
  BY <1>1, <1>2, <1>3 DEF MergePatch, Patches

LEMMA EmptyChangesNothing ==
  /\ EmptyPatch \in Patches(Switchable)
  /\ \A m \in Switches : Patched(m, EmptyPatch) = m
<1>1. NoLoads \in Loads /\ <<>> \in Seq(Switchable)
  BY DEF NoLoads, Loads
<1>2. ASSUME NEW m \in Switches PROVE Patched(m, EmptyPatch) = m
  <2>1. m.active \in SUBSET Switchable /\ m.loads \in Loads
    BY DEF Switches
  <2>2. PatchedFlags(EmptyPatch, m.active) = m.active
    BY DEF PatchedFlags, EmptyPatch, ToSet
  <2>3. \A n \in LoadNodes : PatchedLoads(EmptyPatch, m.loads)[n] = m.loads[n]
    BY <2>1 DEF PatchedLoads, EmptyPatch, NoLoads, Loads
  <2>4. PatchedLoads(EmptyPatch, m.loads) = m.loads
    BY <2>1, <2>3 DEF PatchedLoads, Loads
  <2> QED
    BY <2>2, <2>4 DEF Patched, Switches
<1> QED
  BY <1>1, <1>2 DEF EmptyPatch, Patches

LEMMA MergedIsBoth ==
  ASSUME NEW p \in Patches(Switchable), NEW q \in Patches(Switchable), ~Undoes(q, p),
         NEW m \in Switches
  PROVE  Patched(m, MergePatch(p, q)) = Patched(Patched(m, p), q)
<1> DEFINE both == MergePatch(p, q)
<1>1. /\ p.off \in Seq(Switchable) /\ p.on \in Seq(Switchable)
      /\ q.off \in Seq(Switchable) /\ q.on \in Seq(Switchable)
      /\ p.reset \in BOOLEAN /\ q.reset \in BOOLEAN
      /\ p.set \in Loads /\ p.add \in Loads /\ q.set \in Loads /\ q.add \in Loads
      /\ m.loads \in Loads
  BY DEF Patches, Switches
<1>2. /\ both.off = p.off \o q.off /\ both.on = p.on \o q.on
      /\ both.reset = (p.reset \/ q.reset)
      /\ both.set = [n \in LoadNodes |-> IF q.set[n] > 0 THEN q.set[n] ELSE p.set[n]]
      /\ both.add = [n \in LoadNodes |-> p.add[n] + q.add[n]]
  BY DEF MergePatch
<1> HIDE DEF both
<1>3. PatchedFlags(both, m.active) = PatchedFlags(q, PatchedFlags(p, m.active))
  <2>1. ToSet(both.off) = ToSet(p.off) \cup ToSet(q.off)
    BY <1>1, <1>2, ToSetOfBoth
  <2>2. ToSet(both.on) = ToSet(p.on) \cup ToSet(q.on)
    BY <1>1, <1>2, ToSetOfBoth
  <2>3. ToSet(q.off) \cap ToSet(p.on) = {}
    BY DEF Undoes
  <2> QED
    BY <2>1, <2>2, <2>3 DEF PatchedFlags
<1>4. ASSUME NEW n \in LoadNodes
      PROVE  PatchedLoads(both, m.loads)[n] = PatchedLoads(q, PatchedLoads(p, m.loads))[n]
  <2>1. /\ p.set[n] \in Nat /\ p.add[n] \in Nat /\ q.set[n] \in Nat /\ q.add[n] \in Nat
        /\ m.loads[n] \in Nat
    BY <1>1 DEF Loads
  <2>2. q.set[n] > 0 => p.add[n] = 0
    BY <2>1 DEF Undoes
  <2>3. q.reset => ~p.reset /\ p.set[n] = 0 /\ p.add[n] = 0
    BY DEF Undoes, TouchesLoads, NoLoads
  <2>4. /\ both.set[n] = IF q.set[n] > 0 THEN q.set[n] ELSE p.set[n]
        /\ both.add[n] = p.add[n] + q.add[n]
        /\ both.reset <=> (p.reset \/ q.reset)
    BY <1>2
  <2>5. PatchedLoads(p, m.loads)[n] =
          (IF p.set[n] > 0 THEN p.set[n] ELSE IF p.reset THEN 0 ELSE m.loads[n]) + p.add[n]
    BY DEF PatchedLoads
  <2>6. PatchedLoads(both, m.loads)[n] =
          (IF both.set[n] > 0 THEN both.set[n] ELSE IF both.reset THEN 0 ELSE m.loads[n])
            + both.add[n]
    BY DEF PatchedLoads
  <2>7. PatchedLoads(q, PatchedLoads(p, m.loads))[n] =
          (IF q.set[n] > 0 THEN q.set[n]
           ELSE IF q.reset THEN 0 ELSE PatchedLoads(p, m.loads)[n]) + q.add[n]
    BY DEF PatchedLoads
  <2>8. CASE q.set[n] > 0
    BY <2>1, <2>2, <2>4, <2>6, <2>7, <2>8
  <2>9. CASE ~(q.set[n] > 0) /\ q.reset
    <3>1. both.reset /\ both.set[n] = 0 /\ both.add[n] = q.add[n]
      BY <2>1, <2>3, <2>4, <2>9
    <3>2. PatchedLoads(both, m.loads)[n] = q.add[n]
      BY <2>1, <2>6, <3>1
    <3>3. PatchedLoads(q, PatchedLoads(p, m.loads))[n] = q.add[n]
      BY <2>1, <2>7, <2>9
    <3> QED
      BY <3>2, <3>3
  <2>10. CASE ~(q.set[n] > 0) /\ ~q.reset
    <3> DEFINE kept == IF p.set[n] > 0 THEN p.set[n] ELSE IF p.reset THEN 0 ELSE m.loads[n]
    <3>1. kept \in Nat /\ PatchedLoads(p, m.loads)[n] = kept + p.add[n]
      BY <2>1, <2>5
    <3>2. (both.reset <=> p.reset) /\ both.set[n] = p.set[n]
      BY <2>1, <2>4, <2>10
    <3>3. PatchedLoads(both, m.loads)[n] = kept + both.add[n]
      BY <2>1, <2>6, <3>2
    <3> HIDE DEF kept
    <3>4. PatchedLoads(q, PatchedLoads(p, m.loads))[n] = kept + p.add[n] + q.add[n]
      BY <2>1, <2>7, <2>10, <3>1
    <3> QED
      BY <2>1, <2>4, <3>1, <3>3, <3>4
  <2> QED
    BY <2>8, <2>9, <2>10
<1>5. PatchedLoads(both, m.loads) = PatchedLoads(q, PatchedLoads(p, m.loads))
  <2> DEFINE f == PatchedLoads(both, m.loads)
             g == PatchedLoads(q, PatchedLoads(p, m.loads))
  <2>1. DOMAIN f = LoadNodes /\ DOMAIN g = LoadNodes
    BY DEF PatchedLoads
  <2>2. f = [n \in LoadNodes |-> f[n]] /\ g = [n \in LoadNodes |-> g[n]]
    BY DEF PatchedLoads
  <2>3. \A n \in LoadNodes : f[n] = g[n]
    BY <1>4
  <2> HIDE DEF f, g
  <2>4. f = g
    BY <2>2, <2>3
  <2> QED
    BY <2>4 DEF f, g
<1> QED
  BY <1>3, <1>5 DEF Patched, both

-------------------------------------------------------------------------------
QueueInv ==
  /\ activeMembers \in SUBSET Switchable
  /\ engine \in Switches /\ direct \in Switches
  /\ pendingPatch \in Patches(Switchable)
  /\ NothingLost

LEMMA SessionTyped ==
  /\ NoSession \in Switches
  /\ \A m \in SUBSET Switchable : SessionOn(m) \in Switches
  /\ QueueInv => \A m \in SUBSET Switchable : Base(m) \in Switches
<1>1. NoLoads \in Loads
  BY DEF NoLoads, Loads
<1> QED
  BY <1>1 DEF NoSession, SessionOn, Switches, Base, QueueInv

LEMMA QueueStart == QueueInit => QueueInv
<1> SUFFICES ASSUME QueueInit PROVE QueueInv
  OBVIOUS
<1>1. /\ activeMembers \in SUBSET Switchable /\ sessionState = "none" /\ engine = NoSession
      /\ direct = SessionOn(activeMembers) /\ pendingPatch = EmptyPatch
  BY DEF QueueInit
<1>2. Base(activeMembers) = SessionOn(activeMembers)
  BY <1>1 DEF Base
<1> QED
  BY <1>1, <1>2, SessionTyped, EmptyChangesNothing DEF QueueInv, NothingLost

\* The model a step leaves, and whether the session is still on it.
LEMMA DroppedKeeps ==
  ASSUME activeMembers' \in SUBSET Switchable, engine' \in Switches, Emptied,
         direct' \in Switches, sessionState' # "dead" => direct' = Base(activeMembers)'
  PROVE  QueueInv'
<1>1. pendingPatch' = EmptyPatch
  BY DEF Emptied
<1>2. Base(activeMembers)' \in Switches => Patched(Base(activeMembers)', EmptyPatch) = Base(activeMembers)'
  BY EmptyChangesNothing
<1> QED
  BY <1>1, <1>2, EmptyChangesNothing DEF QueueInv, NothingLost

\* ExecuteSolve on a queue that, with the request that led to it, stands for made.
LEMMA ExecuteKeeps ==
  ASSUME QueueInv, NEW p \in Patches(Switchable), NEW m \in SUBSET Switchable,
         activeMembers' = m, NEW made \in Switches, NEW kept,
         kept /\ sessionState # "dead" => Patched(Base(m), p) = made,
         ExecuteSolve(p, m, made, kept)
  PROVE  QueueInv'
<1>1. Emptied /\ engine \in Switches /\ Base(m) \in Switches
  BY SessionTyped DEF ExecuteSolve, QueueInv
<1>2. CASE Taken(p, m) /\ direct' = made /\ orderly' = kept
  <2>1. /\ sessionState # "dead" /\ sessionState' = "open"
        /\ engine' = Patched(Base(m), p) /\ engine' \in Switches
    BY <1>1, <1>2, PatchedTyped DEF Taken
  <2>2. Base(activeMembers)' = engine' /\ pendingPatch' = EmptyPatch
    BY <1>1, <2>1 DEF Base, Emptied
  <2>3. Patched(engine', EmptyPatch) = engine'
    BY <2>1, EmptyChangesNothing
  <2>4. NothingLost'
    BY <1>2, <2>1, <2>2, <2>3 DEF NothingLost
  <2> QED
    BY <1>2, <2>1, <2>2, <2>4, EmptyChangesNothing DEF QueueInv
<1>3. CASE NotTaken(m)
  <2>1. engine' = engine /\ sessionState' = sessionState /\ direct' = Base(m)
    BY <1>3 DEF NotTaken, Dropped
  <2>2. Base(activeMembers)' = Base(m)
    BY <2>1 DEF Base
  <2> QED
    BY <1>1, <2>1, <2>2, DroppedKeeps
<1>4. CASE LostInRebuild(p, m)
  BY <1>1, <1>4, SessionTyped, DroppedKeeps DEF LostInRebuild, Dropped
<1> QED
  BY <1>2, <1>3, <1>4 DEF ExecuteSolve

\* A request on a model that has the members it switches off switched off or on as before.
LEMMA RequestKeeps ==
  ASSUME QueueInv, NEW q \in Patches(Switchable), NEW m \in SUBSET Switchable,
         activeMembers' = m, RequestSolve(q, m),
         Patched(SessionOn(m), MergePatch(pendingPatch, q))
           = Patched(SessionOn(activeMembers), MergePatch(pendingPatch, q))
  PROVE  QueueInv'
<1> DEFINE merged == MergePatch(pendingPatch, q)
           made   == Patched(direct, q)
           kept   == orderly /\ ~Undoes(q, pendingPatch)
<1>1. /\ engine \in Switches /\ direct \in Switches
      /\ pendingPatch \in Patches(Switchable)
      /\ Base(activeMembers) \in Switches /\ Base(m) \in Switches
  BY SessionTyped DEF QueueInv
<1>2. made \in Switches /\ merged \in Patches(Switchable)
  BY <1>1, PatchedTyped, MergeTyped
<1>3. kept /\ sessionState # "dead" => Patched(Base(m), merged) = made
  <2>1. kept => Patched(Base(activeMembers), merged)
                  = Patched(Patched(Base(activeMembers), pendingPatch), q)
    BY <1>1, MergedIsBoth
  <2>2. Patched(Base(m), merged) = Patched(Base(activeMembers), merged)
    BY DEF Base
  <2>3. kept /\ sessionState # "dead" => Patched(Base(activeMembers), pendingPatch) = direct
    BY DEF QueueInv, NothingLost
  <2> QED
    BY <2>1, <2>2, <2>3
<1> HIDE DEF merged, made, kept
<1>5. CASE ExecuteSolve(merged, m, made, kept)
  BY <1>2, <1>3, <1>5, ExecuteKeeps
<1>6. CASE /\ pendingPatch' = merged /\ direct' = made /\ orderly' = kept
           /\ UNCHANGED <<sessionState, engine>>
  <2>1. Base(activeMembers)' = Base(m)
    BY <1>6 DEF Base
  <2>2. NothingLost'
    BY <1>3, <1>6, <2>1 DEF NothingLost
  <2> QED
    BY <1>1, <1>2, <1>6, <2>2 DEF QueueInv
<1> QED
  BY <1>5, <1>6 DEF RequestSolve, merged, made, kept

\* A removal is in the model and in the queue, so a session started on either model stands
\* the same once the queue is in.
LEMMA RemovalKeeps ==
  ASSUME QueueInv, NEW e \in Switchable, DeactivateMember(e)
  PROVE  QueueInv'
<1> DEFINE q == Removal(e)
           merged == MergePatch(pendingPatch, q)
           m == activeMembers \ {e}
<1>1. /\ activeMembers \in SUBSET Switchable /\ m \in SUBSET Switchable
      /\ pendingPatch \in Patches(Switchable)
  BY DEF QueueInv
<1>2. /\ q = [off |-> <<e>>, on |-> <<>>, reset |-> FALSE, set |-> NoLoads, add |-> NoLoads]
      /\ <<e>> \in Seq(Switchable) /\ <<>> \in Seq(Switchable) /\ NoLoads \in Loads
  BY DEF Removal, NoLoads, Loads
<1>3. q \in Patches(Switchable)
  BY <1>2 DEF Patches
<1>4. e \in ToSet(merged.off)
  <2>1. pendingPatch.off \in Seq(Switchable) /\ <<e>> \in Seq(Switchable) /\ q.off = <<e>>
    BY <1>1, <1>2 DEF Patches
  <2>2. merged.off = pendingPatch.off \o <<e>>
    BY <2>1 DEF MergePatch
  <2> HIDE DEF q, merged
  <2>3. ToSet(<<e>>) = {e}
    BY DEF ToSet
  <2>4. ToSet(pendingPatch.off \o <<e>>) = ToSet(pendingPatch.off) \cup ToSet(<<e>>)
    <3> ASSUME NEW s \in Seq(Switchable), NEW t \in Seq(Switchable)
        PROVE  ToSet(s \o t) = ToSet(s) \cup ToSet(t)
      BY ToSetOfBoth
    <3> QED
      BY <2>1
  <2> QED
    BY <2>2, <2>3, <2>4
<1>5. PatchedFlags(merged, m) = PatchedFlags(merged, activeMembers)
  BY <1>4 DEF PatchedFlags
<1>6. Patched(SessionOn(m), merged) = Patched(SessionOn(activeMembers), merged)
  BY <1>5 DEF Patched, SessionOn
<1>7. activeMembers' = m /\ RequestSolve(q, m)
  BY DEF DeactivateMember
<1> HIDE DEF q, m
<1> QED
  BY <1>1, <1>3, <1>6, <1>7, RequestKeeps

LEMMA QueueStep == QueueInv /\ [QueueNext]_queueVars => QueueInv'
<1> SUFFICES ASSUME QueueInv, [QueueNext]_queueVars PROVE QueueInv'
  OBVIOUS
<1>1. ASSUME NEW q \in Requests, Request(q) PROVE QueueInv'
  <2>1. /\ q \in Patches(Switchable) /\ activeMembers \in SUBSET Switchable
        /\ activeMembers' = activeMembers /\ RequestSolve(q, activeMembers)
    BY <1>1, PatchQueueAssumption DEF Request, QueueInv
  <2> QED
    BY <2>1, RequestKeeps
<1>2. ASSUME NEW e \in Switchable, DeactivateMember(e) PROVE QueueInv'
  BY <1>2, RemovalKeeps
<1>3. CASE TimerFires
  <2>1. /\ ExecuteSolve(pendingPatch, activeMembers, direct, orderly)
        /\ activeMembers' = activeMembers /\ activeMembers \in SUBSET Switchable
        /\ pendingPatch \in Patches(Switchable) /\ direct \in Switches
        /\ orderly /\ sessionState # "dead" => Patched(Base(activeMembers), pendingPatch) = direct
    BY <1>3 DEF TimerFires, QueueInv, NothingLost
  <2> QED
    BY <2>1, ExecuteKeeps
<1>4. ASSUME NEW m \in SUBSET Switchable, activeMembers' = m, TopologyChanged(m) PROVE QueueInv'
  <2>1. sessionState' = "none" /\ engine' = NoSession /\ Emptied /\ direct' = SessionOn(m)
    BY <1>4 DEF TopologyChanged, Dropped
  <2>2. Base(activeMembers)' = SessionOn(m)
    BY <1>4, <2>1 DEF Base, SessionOn
  <2> QED
    BY <1>4, <2>1, <2>2, SessionTyped, DroppedKeeps
<1>5. CASE RegisterMember \/ RegisterFixedSupport
  <2>1. TopologyChanged(activeMembers) /\ activeMembers' = activeMembers
    BY <1>5 DEF RegisterMember, RegisterFixedSupport
  <2> QED
    BY <1>4, <2>1 DEF QueueInv
<1>6. CASE Reset
  BY <1>4, <1>6 DEF Reset
<1>7. CASE UNCHANGED queueVars
  BY <1>7 DEF queueVars, QueueInv, NothingLost, Base
<1> QED
  BY <1>1, <1>2, <1>3, <1>5, <1>6, <1>7 DEF QueueNext

\* However the windows of the debounce fell, and whatever was merged into each, the engine
\* (or the model a session will be started on) with what is still queued stands where it
\* would if every request since the last drop had gone through at once, as long as no
\* request undid an earlier one of its window.
THEOREM TheQueueLosesNothing == QueueSpec => []NothingLost
<1>1. QueueInv => NothingLost
  BY DEF QueueInv
<1> QED
  BY <1>1, QueueStart, QueueStep, PTL DEF QueueSpec

(***************************************************************************)
(* The levelling exercise: a player, or the scripted run, never ends in a   *)
(* state that only takes keys no phase looks at.                            *)
(***************************************************************************)
\* What the script has done by each of its steps: after the second it is at the telescope
\* with a setup in range, and it types nothing.
Scripted ==
  /\ smoke \in {-1, 0, 1, 2, 3}
  /\ smoke = 0 => phase = "overview"
  /\ smoke = 1 => phase = "leveling"
  /\ smoke = 2 => phase = "telescope"
  /\ smoke = 3 => phase \in {"telescope", "overview", "summary"}
  /\ smoke # -1 => ~typing /\ job = "readBS"

LEMMA LevelStart == LevelInit => NobodyStranded /\ Scripted
  BY DEF LevelInit, Start, NobodyStranded, Scripted

LEMMA AdvanceReleases ==
  ASSUME NEW b, NEW s, AdvanceStation(b, s)
  PROVE  ~typing' /\ \/ phase' = "overview" /\ job' = "readBS"
                     \/ phase' = "summary" /\ (typing \/ job' = job)
  BY DEF AdvanceStation, RestartStation

LEMMA PlayerIsNotStranded ==
  ASSUME NobodyStranded, Play
  PROVE  NobodyStranded'
<1>1. CASE RouteRestart
  BY <1>1 DEF RouteRestart, RestartStation, NobodyStranded
<1>2. CASE InOverview
  BY <1>2 DEF InOverview, NobodyStranded
<1>3. CASE InLeveling
  BY <1>3 DEF InLeveling, NobodyStranded
<1>4. CASE InTelescope
  <2>1. /\ phase = "telescope" /\ ~typing /\ job' = job /\ screws' = screws
        /\ phase' \in {"telescope", "overview"}
        /\ typing' => Expected # 0 /\ screws \in Readable /\ phase' = "telescope"
    BY <1>4 DEF InTelescope, ScopeKeys
  <2> QED
    BY <2>1 DEF NobodyStranded, Expected
<1>5. CASE CancelReading
  BY <1>5 DEF CancelReading, NobodyStranded
<1>6. CASE SubmitReading
  BY <1>6 DEF SubmitReading, NobodyStranded
<1>7. CASE SubmitHI
  BY <1>7 DEF SubmitHI, NobodyStranded
<1>8. CASE SubmitElev
  <2>1. CASE \E b, s : AdvanceStation(b, s)
    BY <2>1, AdvanceReleases DEF NobodyStranded
  <2>2. CASE phase' = "done" /\ typing' = FALSE
    BY <2>2 DEF NobodyStranded
  <2> QED
    BY <1>8, <2>1, <2>2 DEF SubmitElev
<1> QED
  BY <1>1, <1>2, <1>3, <1>4, <1>5, <1>6, <1>7, <1>8 DEF Play

LEMMA NobodyStrandedStep ==
  NobodyStranded /\ Scripted /\ [LevelNext]_levelVars => NobodyStranded' /\ Scripted'
<1> SUFFICES ASSUME NobodyStranded, Scripted, [LevelNext]_levelVars
             PROVE  NobodyStranded' /\ Scripted'
  OBVIOUS
<1>1. CASE Play
  <2>1. smoke = -1 /\ smoke' = smoke
    BY <1>1 DEF Play, RouteRestart, InOverview, InLeveling, InTelescope, CancelReading,
                SubmitReading, SubmitHI, SubmitElev
  <2> QED
    BY <1>1, <2>1, PlayerIsNotStranded DEF Scripted
<1>2. CASE SmokePerturbScrews
  BY <1>2 DEF SmokePerturbScrews, SmokeKeeps, NobodyStranded, Scripted
<1>3. CASE SmokeAutoLevel
  BY <1>3 DEF SmokeAutoLevel, SmokeKeeps, NobodyStranded, Scripted
<1>4. CASE SmokeAimSecond
  BY <1>4 DEF SmokeAimSecond, SmokeKeeps, NobodyStranded, Scripted
<1>5. CASE SmokePerfectSubmit
  <2>1. smoke = 3 /\ smoke' = 3 /\ ~typing /\ job = "readBS"
    BY <1>5 DEF SmokePerfectSubmit, Scripted
  <2>2. \E b, s : AdvanceStation(b, s)
    BY <1>5 DEF SmokePerfectSubmit
  <2> QED
    BY <2>1, <2>2, AdvanceReleases DEF NobodyStranded, Scripted
<1>6. CASE UNCHANGED levelVars
  BY <1>6 DEF levelVars, NobodyStranded, Scripted, Expected
<1> QED
  BY <1>1, <1>2, <1>3, <1>4, <1>5, <1>6 DEF LevelNext

\* Enter and Escape are looked at in a fixed order in one tick, a reading can be cancelled
\* and the field book cannot, and a script sets the phase past all guards: wherever keys are
\* typed, there is a phase that takes them, for every route and every optics.
THEOREM NoOneIsStranded == LevelSpec => []NobodyStranded
<1> QED
  BY LevelStart, NobodyStrandedStep, PTL DEF LevelSpec

-------------------------------------------------------------------------------
(* LevelSim: sums over the legs of a route.                                 *)

\* The sum of the first k of s, for each k.
Sums(so, s) ==
  /\ so \in [0..Len(s) -> Int] /\ so[0] = 0
  /\ \A k \in 1..Len(s) : so[k] = so[k - 1] + s[k]

LEMMA TotalByOne ==
  ASSUME NEW s \in Seq(Int)
  PROVE  \E so : Sums(so, s) /\ Total(s) = so[Len(s)]
<1> DEFINE n == Len(s)
           start == 0
           body(iter) == [S \in SUBSET DOMAIN s |->
                            IF S = {} THEN start
                            ELSE iter[S \ {Max(S)}] + s[Max(S)]]
           step == [x \in Int \X (1..n) |-> x[1] + s[x[2]]]
           chosen == CHOOSE iter : iter = body(iter)
<1>1. n \in Nat /\ DOMAIN s = 1..n /\ start \in Int /\ \A k \in 1..n : s[k] \in Int
  OBVIOUS
<1>2. /\ step \in StepsIn(n, Int)
      /\ \A x \in Int, k \in 1..n : step[<<x, k>>] = x + s[k]
  <2>1. \A x \in Int \X (1..n) : x[1] + s[x[2]] \in Int
    BY <1>1
  <2> QED
    BY <2>1 DEF StepsIn
<1>3. \A S \in SUBSET (1..n) : S # {} => Max(S) \in S /\ Max(S) \in 1..n
  BY <1>1, LastOf
<1>4. Total(s) = chosen[1..n]
  BY <1>1 DEF Total, FoldLeft, MapThenFoldSet
<1> HIDE DEF step, n, start
<1>5. chosen = body(chosen)
  <2>1. PICK iter : IsFold(iter, n, Int, start, step)
    BY <1>1, <1>2, FoldExists
  <2>2. iter = body(iter)
    BY <1>1, <1>2, <1>3, <2>1 DEF IsFold
  <2> HIDE DEF body
  <2> QED
    BY <2>2
<1> HIDE DEF chosen
<1>6. PICK so : ValuesOf(so, n, Int, start, step) /\ so[n] = chosen[1..n]
  <2>1. chosen[{}] = start
    BY <1>1, <1>5
  <2>2. \A S \in SUBSET (1..n) :
          S # {} /\ chosen[S \ {Max(S)}] \in Int =>
            chosen[S] = step[<<chosen[S \ {Max(S)}], Max(S)>>]
    <3> SUFFICES ASSUME NEW S \in SUBSET (1..n), S # {}, chosen[S \ {Max(S)}] \in Int
                 PROVE  chosen[S] = step[<<chosen[S \ {Max(S)}], Max(S)>>]
      OBVIOUS
    <3>1. chosen[S] = chosen[S \ {Max(S)}] + s[Max(S)]
      BY <1>1, <1>5
    <3> QED
      BY <1>2, <1>3, <3>1
  <2>3. FoldsOn(chosen, n, Int, start, step)
    BY <2>1, <2>2 DEF FoldsOn
  <2> QED
    BY <1>1, <1>2, <2>3, FoldInOrder
<1>7. \A k \in 1..n : so[k] = so[k - 1] + s[k]
  <2> SUFFICES ASSUME NEW k \in 1..n PROVE so[k] = so[k - 1] + s[k]
    OBVIOUS
  <2>1. so[k - 1] \in Int /\ so[k] = step[<<so[k - 1], k>>]
    BY <1>1, <1>6 DEF ValuesOf
  <2> QED
    BY <1>2, <2>1
<1>8. so \in [0..n -> Int] /\ so[0] = start /\ Total(s) = so[n]
  BY <1>4, <1>6 DEF ValuesOf
<1> QED
  BY <1>7, <1>8 DEF Sums, n, start

\* What grows with each place by what is there is in the end the sum.
LEMMA Telescope ==
  ASSUME NEW s \in Seq(Int), NEW so, Sums(so, s)
  PROVE  Total(s) = so[Len(s)]
<1> DEFINE n == Len(s)
<1>1. PICK other : Sums(other, s) /\ Total(s) = other[n]
  BY TotalByOne
<1> DEFINE P == {k \in 0..n : so[k] = other[k]}
<1>2. n \in Nat /\ \A k \in 1..n : s[k] \in Int /\ k - 1 \in 0..n
  OBVIOUS
<1>3. 0 \in P
  BY <1>1, <1>2 DEF Sums
<1>4. \A k \in 1..n : k - 1 \in P => k \in P
  BY <1>1, <1>2 DEF Sums
<1>5. 0..n \subseteq P
  <2> HIDE DEF P, n
  <2> QED
    BY <1>2, <1>3, <1>4, Ascent
<1> QED
  BY <1>1, <1>2, <1>5

LEMMA ProductsAreIntegers ==
  ASSUME NEW x \in Int, NEW y \in Int, NEW u \in Int, NEW v \in Int
  PROVE  x * y \in Int /\ x * y - u * v \in Int
OBVIOUS

LEMMA Distribute ==
  ASSUME NEW x \in Int, NEW y \in Int, NEW u \in Int, NEW v \in Int, NEW c \in Int, NEW d \in Int
  PROVE  (x * c - d * y) + (u * c - d * v) = (x + u) * c - d * (y + v)
<1>1. (x + u) * c = x * c + u * c
  OBVIOUS
<1>2. d * (y + v) = d * y + d * v
  OBVIOUS
<1>3. x * c \in Int /\ u * c \in Int /\ d * y \in Int /\ d * v \in Int
  OBVIOUS
<1> QED
  BY <1>1, <1>2, <1>3

\* The sum of multiples.
LEMMA TotalIsLinear ==
  ASSUME NEW n \in Nat, NEW a \in [1..n -> Int], NEW b \in [1..n -> Int],
         NEW c \in Int, NEW d \in Int
  PROVE  Total([k \in 1..n |-> a[k] * c - d * b[k]]) = Total(a) * c - d * Total(b)
<1> DEFINE s == [k \in 1..n |-> a[k] * c - d * b[k]]
<1>1. /\ a \in Seq(Int) /\ b \in Seq(Int) /\ s \in Seq(Int)
      /\ Len(a) = n /\ Len(b) = n /\ Len(s) = n
      /\ \A k \in 1..n : s[k] = a[k] * c - d * b[k] /\ a[k] \in Int /\ b[k] \in Int
  OBVIOUS
<1>2. PICK sa : Sums(sa, a) /\ Total(a) = sa[n]
  BY <1>1, TotalByOne
<1>3. PICK sb : Sums(sb, b) /\ Total(b) = sb[n]
  BY <1>1, TotalByOne
<1> DEFINE so == [k \in 0..n |-> sa[k] * c - d * sb[k]]
<1>4. sa \in [0..n -> Int] /\ sb \in [0..n -> Int] /\ sa[0] = 0 /\ sb[0] = 0
  BY <1>1, <1>2, <1>3 DEF Sums
<1>5. ASSUME NEW k \in 1..n
      PROVE  (sa[k - 1] * c - d * sb[k - 1]) + (a[k] * c - d * b[k]) = sa[k] * c - d * sb[k]
  <2>0. k \in 1..n /\ k - 1 \in 0..n
    BY <1>5
  <2>1. sa[k] = sa[k - 1] + a[k] /\ sb[k] = sb[k - 1] + b[k]
    BY <1>1, <1>2, <1>3, <2>0 DEF Sums
  <2>2. sa[k - 1] \in Int /\ sb[k - 1] \in Int /\ a[k] \in Int /\ b[k] \in Int
    BY <1>1, <1>4, <2>0
  <2> DEFINE x == sa[k - 1]
             y == sb[k - 1]
             u == a[k]
             v == b[k]
  <2>3. x \in Int /\ y \in Int /\ u \in Int /\ v \in Int /\ sa[k] = x + u /\ sb[k] = y + v
    BY <2>1, <2>2
  <2> HIDE DEF x, y, u, v
  <2>4. (x * c - d * y) + (u * c - d * v) = (x + u) * c - d * (y + v)
    BY ONLY <2>3, c \in Int, d \in Int, Distribute
  <2>5. (x * c - d * y) + (u * c - d * v) = sa[k] * c - d * sb[k]
    BY <2>3, <2>4, Zenon
  <2> QED
    BY <2>5 DEF x, y, u, v
<1>6. so \in [0..n -> Int] /\ so[0] = 0
  <2>1. ASSUME NEW k \in 0..n PROVE sa[k] * c - d * sb[k] \in Int
    <3>1. sa[k] \in Int /\ sb[k] \in Int
      BY <1>4
    <3> QED
      BY <3>1, ProductsAreIntegers, Zenon
  <2>2. sa[0] * c - d * sb[0] = 0
    BY ONLY <1>4, c \in Int, d \in Int
  <2>3. 0 \in 0..n
    OBVIOUS
  <2> QED
    BY <2>1, <2>2, <2>3, Zenon
<1>7. \A k \in 1..n : so[k] = so[k - 1] + s[k]
  BY <1>1, <1>4, <1>5
<1>8. so[n] = sa[n] * c - d * sb[n]
  OBVIOUS
<1> HIDE DEF so, s
<1>9. Total(s) = so[n]
  BY <1>1, <1>6, <1>7, Telescope DEF Sums
<1> QED
  BY <1>2, <1>3, <1>8, <1>9 DEF s

\* A sum of what is not negative is none below any part of it.
LEMMA TotalBounds ==
  ASSUME NEW s \in Seq(Int), \A k \in 1..Len(s) : s[k] >= 0
  PROVE  Total(s) \in Int /\ Total(s) >= 0 /\ \A k \in 1..Len(s) : s[k] <= Total(s)
<1> DEFINE n == Len(s)
<1>1. PICK so : Sums(so, s) /\ Total(s) = so[n]
  BY TotalByOne
<1> DEFINE P == {k \in 0..n : so[k] >= 0 /\ \A j \in 1..k : s[j] <= so[k]}
<1>0. n \in Nat /\ \A k \in 1..n : s[k] \in Int /\ k \in 0..n /\ k - 1 \in 0..n
  OBVIOUS
<1>2. n \in Nat /\ \A k \in 1..n : s[k] \in Int /\ k - 1 \in 0..n /\ so[k] \in Int /\ so[k - 1] \in Int
  <2>1. so \in [0..n -> Int]
    BY <1>1 DEF Sums
  <2> QED
    BY <1>0, <2>1
<1>3. 0 \in P
  BY <1>1, <1>2 DEF Sums
<1>4. ASSUME NEW k \in 1..n, k - 1 \in P PROVE k \in P
  <2>1. so[k] = so[k - 1] + s[k] /\ so[k - 1] >= 0 /\ s[k] >= 0
    BY <1>1, <1>4 DEF Sums
  <2>2. \A j \in 1..(k - 1) : s[j] <= so[k - 1] /\ s[j] \in Int
    BY <1>2, <1>4
  <2>3. \A j \in 1..k : s[j] <= so[k]
    <3> SUFFICES ASSUME NEW j \in 1..k PROVE s[j] <= so[k]
      OBVIOUS
    <3>1. CASE j = k
      BY <1>2, <2>1, <3>1
    <3>2. CASE j # k
      <4>1. j \in 1..(k - 1)
        BY <1>2, <3>2
      <4> QED
        BY <1>2, <2>1, <2>2, <4>1
    <3> QED
      BY <3>1, <3>2
  <2>4. so[k] >= 0
    BY <1>2, <2>1
  <2> QED
    BY <2>3, <2>4
<1>5. 0..n \subseteq P
  <2> HIDE DEF P, n
  <2> QED
    BY <1>2, <1>3, <1>4, Ascent
<1>6. so[n] \in Int
  BY <1>1, <1>2 DEF Sums
<1> QED
  BY <1>1, <1>2, <1>5, <1>6

Entries == [playerBS : Int, truthBS : Int, scoreBS : 0..Band, bsDist : Nat,
            playerFS : Int, truthFS : Int, scoreFS : 0..Band, dist : Nat,
            hi : Int, hiOk : BOOLEAN, elev : Int, elevOk : BOOLEAN]
Fall(l) == l.truthBS - l.truthFS

LEMMA EntryFalls ==
  ASSUME NEW ls \in Seq(Entries)
  PROVE  /\ Len(ls) \in Nat /\ DOMAIN ls = 1..Len(ls)
         /\ \A k \in 1..Len(ls) : Fall(ls[k]) \in Int /\ ls[k].dist \in Nat
<1>1. Len(ls) \in Nat /\ DOMAIN ls = 1..Len(ls) /\ \A k \in 1..Len(ls) : ls[k] \in Entries
  OBVIOUS
<1>2. \A l \in Entries : Fall(l) \in Int /\ l.dist \in Nat
  BY DEF Entries, Fall
<1> QED
  BY <1>1, <1>2

\* The adjusted differences close, and each is off by its share of the misclosure.
LEMMA AdjustedCloses ==
  ASSUME NEW ls \in Seq(Entries)
  PROVE  LET adjusted == BuildLoopResult(ls).adjusted
             off(i) == Fall(ls[i]) * Weight(ls) - adjusted[i]
         IN /\ Total(adjusted) = 0
            /\ \A k, j \in DOMAIN ls : off(k) * ls[j].dist = off(j) * ls[k].dist
<1> DEFINE n == Len(ls)
           dh == [k \in 1..n |-> Fall(ls[k])]
           dists == [k \in 1..n |-> ls[k].dist]
           w == Shares(ls)
           mis == Total(dh)
           adjusted == [k \in 1..n |-> dh[k] * Total(w) - mis * w[k]]
<1>1. /\ n \in Nat /\ DOMAIN ls = 1..n
      /\ \A k \in 1..n : Fall(ls[k]) \in Int /\ ls[k].dist \in Nat
  BY EntryFalls
<1>2. Weight(ls) = Total(dists)
  BY <1>1 DEF Weight
<1>3. BuildLoopResult(ls).adjusted = adjusted
  BY <1>1 DEF BuildLoopResult, Fall
<1>4. /\ dh \in [1..n -> Int] /\ dists \in [1..n -> Int] /\ dh \in Seq(Int) /\ dists \in Seq(Int)
      /\ Len(dh) = n /\ Len(dists) = n /\ \A k \in 1..n : dists[k] >= 0 /\ dists[k] = ls[k].dist
      /\ \A k \in 1..n : dh[k] = Fall(ls[k])
  BY <1>1
<1>5. w = IF Weight(ls) > 0 THEN dists ELSE [k \in 1..n |-> 1]
  BY <1>1 DEF Shares
<1> HIDE DEF dh, dists, w, n
<1>6. w \in [1..n -> Int] /\ w \in Seq(Int) /\ Len(w) = n
  BY <1>1, <1>4, <1>5
<1>7. mis \in Int /\ Total(w) \in Int
  <2>1. PICK so : Sums(so, dh) /\ Total(dh) = so[n]
    BY <1>4, TotalByOne
  <2>2. PICK to : Sums(to, w) /\ Total(w) = to[n]
    BY <1>6, TotalByOne
  <2> QED
    BY <1>1, <1>4, <1>6, <2>1, <2>2 DEF Sums
<1>8. Total(dists) \in Int /\ Total(dists) >= 0 /\ \A k \in 1..n : dists[k] <= Total(dists)
  BY <1>4, TotalBounds
<1>9. Total(adjusted) = 0
  <2> DEFINE c == Total(w)
             d == mis
  <2>1. c \in Int /\ d \in Int
    BY <1>7
  <2> HIDE DEF c, d
  <2>2. Total([k \in 1..n |-> dh[k] * c - d * w[k]]) = Total(dh) * c - d * Total(w)
    BY <1>1, <1>4, <1>6, <2>1, TotalIsLinear
  <2>3. Total(dh) * c - d * Total(w) = 0
    BY <2>1 DEF c, d
  <2> QED
    BY <2>2, <2>3 DEF c, d
<1>10. ASSUME NEW k \in 1..n, NEW j \in 1..n
       PROVE  (dh[k] * Weight(ls) - adjusted[k]) * dists[j] = (dh[j] * Weight(ls) - adjusted[j]) * dists[k]
  <2>1. CASE Weight(ls) > 0
    <3>1. w = dists
      BY <1>5, <2>1
    <3>2. \A i \in 1..n : dh[i] * Weight(ls) - adjusted[i] = mis * dists[i]
      <4> SUFFICES ASSUME NEW i \in 1..n
                   PROVE  dh[i] * Weight(ls) - adjusted[i] = mis * dists[i]
        OBVIOUS
      <4>1. adjusted[i] = dh[i] * Weight(ls) - mis * dists[i]
        BY <1>2, <3>1
      <4>2. dh[i] * Weight(ls) \in Int /\ mis * dists[i] \in Int
        <5>1. dh[i] \in Int /\ dists[i] \in Int /\ Weight(ls) \in Int
          BY <1>2, <1>4, <1>8
        <5> QED
          BY <1>7, <5>1, ProductsAreIntegers, Zenon
      <4>3. \A x, y \in Int : x - (x - y) = y
        OBVIOUS
      <4> QED
        BY <4>1, <4>2, <4>3, Zenon
    <3>3. mis \in Int /\ dists[k] \in Int /\ dists[j] \in Int
      BY <1>4, <1>7
    <3> HIDE DEF mis, adjusted
    <3>4. (mis * dists[k]) * dists[j] = (mis * dists[j]) * dists[k]
      BY <3>3
    <3> QED
      BY <3>2, <3>4
  <2>2. CASE ~(Weight(ls) > 0)
    <3>1. \A i \in 1..n : dists[i] = 0
      BY <1>2, <1>4, <1>8, <2>2
    <3>2. \A i \in 1..n : dh[i] * Weight(ls) - adjusted[i] \in Int
      <4> SUFFICES ASSUME NEW i \in 1..n PROVE dh[i] * Weight(ls) - adjusted[i] \in Int
        OBVIOUS
      <4>1. adjusted[i] = dh[i] * Total(w) - mis * w[i]
        OBVIOUS
      <4>2. dh[i] \in Int /\ w[i] \in Int /\ Weight(ls) \in Int
        BY <1>2, <1>4, <1>6, <1>8
      <4>3. adjusted[i] \in Int /\ dh[i] * Weight(ls) \in Int
        BY <1>7, <4>1, <4>2, ProductsAreIntegers, Zenon
      <4> HIDE DEF adjusted
      <4> QED
        BY ONLY <4>3
    <3> HIDE DEF adjusted
    <3> QED
      BY <3>1, <3>2
  <2> QED
    BY <2>1, <2>2
<1>11. \A k, j \in 1..n :
         (Fall(ls[k]) * Weight(ls) - adjusted[k]) * ls[j].dist
           = (Fall(ls[j]) * Weight(ls) - adjusted[j]) * ls[k].dist
  BY <1>4, <1>10
<1> HIDE DEF adjusted
<1> QED
  BY <1>1, <1>3, <1>9, <1>11

LEMMA WeightTyped ==
  ASSUME NEW ls \in Seq(Entries)
  PROVE  Weight(ls) \in Nat
<1> DEFINE n == Len(ls)
           dists == [k \in 1..n |-> ls[k].dist]
<1>1. Weight(ls) = Total(dists)
  BY EntryFalls DEF Weight
<1>2. dists \in Seq(Int) /\ Len(dists) = n /\ \A k \in 1..n : dists[k] >= 0
  BY EntryFalls
<1> HIDE DEF dists
<1> QED
  BY <1>1, <1>2, TotalBounds

\* The heights z come back to the first, and the legs were measured from one to the next, up
\* to an error of the first leg.
Loop(ls, z, e) ==
  /\ Len(ls) > 0 /\ z \in [1..(Len(ls) + 1) -> Int] /\ e \in Int
  /\ Fall(ls[1]) = z[2] - z[1] + e
  /\ \A k \in 2..Len(ls) : Fall(ls[k]) = z[k + 1] - z[k]
  /\ z[Len(ls) + 1] = z[1]

\* A loop misses its start by that error.
LEMMA LoopCloses ==
  ASSUME NEW ls \in Seq(Entries), NEW z, NEW e, Loop(ls, z, e)
  PROVE  /\ BuildLoopResult(ls).misclosure = e
         /\ BuildLoopResult(ls).within <=> e * e * 2000 <= ClosureC * ClosureC * Weight(ls)
<1> DEFINE n == Len(ls)
           dh == [k \in 1..n |-> Fall(ls[k])]
           so == [k \in 0..n |-> IF k = 0 THEN 0 ELSE z[k + 1] - z[1] + e]
<1>1. /\ n \in Nat \ {0} /\ DOMAIN ls = 1..n
      /\ \A k \in 1..n : Fall(ls[k]) \in Int /\ ls[k].dist \in Nat
      /\ z \in [1..(n + 1) -> Int] /\ e \in Int
      /\ Fall(ls[1]) = z[2] - z[1] + e
      /\ \A k \in 2..n : Fall(ls[k]) = z[k + 1] - z[k]
      /\ z[n + 1] = z[1]
  BY EntryFalls DEF Loop
<1>2. BuildLoopResult(ls).misclosure = Total(dh)
  BY <1>1 DEF BuildLoopResult, Fall
<1>3. dh \in Seq(Int) /\ Len(dh) = n /\ \A k \in 1..n : dh[k] = Fall(ls[k])
  BY <1>1
<1>4. Sums(so, dh)
  <2>1. so \in [0..n -> Int] /\ so[0] = 0
    BY <1>1
  <2>2. ASSUME NEW k \in 1..n PROVE so[k] = so[k - 1] + dh[k]
    <3>1. k \in 0..n /\ k - 1 \in 0..n /\ (k - 1) + 1 = k /\ k # 0
      BY <1>1
    <3>2. so[k] = z[k + 1] - z[1] + e /\ dh[k] = Fall(ls[k])
      BY <1>3, <3>1
    <3>3. z[k + 1] \in Int /\ z[k] \in Int /\ z[1] \in Int
      <4>1. k \in 1..(n + 1) /\ k + 1 \in 1..(n + 1) /\ 1 \in 1..(n + 1)
        BY <1>1
      <4> QED
        BY <1>1, <4>1
    <3>4. CASE k = 1
      <4>1. so[k - 1] = 0 /\ Fall(ls[k]) = z[k + 1] - z[1] + e
        BY <1>1, <3>4
      <4> QED
        BY <1>1, <3>2, <3>3, <4>1
    <3>5. CASE k # 1
      <4>1. k \in 2..n /\ k - 1 # 0
        BY <1>1, <3>5
      <4>2. so[k - 1] = z[k] - z[1] + e /\ Fall(ls[k]) = z[k + 1] - z[k] /\ e \in Int
        BY <1>1, <3>1, <4>1
      <4>3. \A u \in Int, v \in Int, w \in Int : u - w + e = (v - w + e) + (u - v)
        BY <4>2
      <4> HIDE DEF so, dh
      <4> QED
        BY <3>2, <3>3, <4>2, <4>3
    <3> QED
      BY <3>4, <3>5
  <2> HIDE DEF so, dh
  <2> QED
    BY <1>3, <2>1, <2>2 DEF Sums
<1>5. so[n] = e
  <2>1. so[n] = z[n + 1] - z[1] + e /\ z[n + 1] = z[1] /\ z[1] \in Int
    BY <1>1
  <2> QED
    BY <2>1
<1>6. Total(dh) = e
  <2> HIDE DEF dh, so, n
  <2> QED
    BY <1>3, <1>4, <1>5, Telescope
<1> DEFINE mis == Total(dh)
           within == mis * mis * 2000 <= ClosureC * ClosureC * Weight(ls)
<1>7. BuildLoopResult(ls).within = within
  BY <1>1 DEF BuildLoopResult, Fall
<1>8. within <=> e * e * 2000 <= ClosureC * ClosureC * Weight(ls)
  BY <1>6
<1> HIDE DEF within
<1>9. BuildLoopResult(ls).within <=> within
  BY <1>7
<1> QED
  BY <1>2, <1>6, <1>8, <1>9

\* With full marks for each leg and for the closure the route has full marks.
LEMMA FullMarks ==
  ASSUME NEW ls \in Seq(Entries), Len(ls) > 0, ls[1].dist > 0,
         \A k \in 1..Len(ls) : LegScore(ls[k]) = 100,
         BuildLoopResult(ls).within
  PROVE  BuildLoopResult(ls).total = 100
<1> DEFINE n == Len(ls)
           scores == [k \in 1..n |-> LegScore(ls[k])]
           so == [k \in 0..n |-> 100 * k]
           dists == [k \in 1..n |-> ls[k].dist]
<1>1. /\ n \in Nat \ {0} /\ DOMAIN ls = 1..n
      /\ \A k \in 1..n : ls[k].dist \in Nat
  BY EntryFalls
<1>2. Total(scores) = 100 * n
  <2>1. scores \in Seq(Int) /\ Len(scores) = n /\ \A k \in 1..n : scores[k] = 100
    BY <1>1
  <2>2. Sums(so, scores)
    <3>1. so \in [0..n -> Int] /\ so[0] = 0
      OBVIOUS
    <3>2. \A k \in 1..n : so[k] = so[k - 1] + 100
      BY <1>1
    <3>3. \A k \in 1..n : so[k] = so[k - 1] + scores[k]
      <4> HIDE DEF so, scores, n
      <4> QED
        BY <2>1, <3>2
    <3> HIDE DEF so, scores, n
    <3> QED
      BY <2>1, <3>1, <3>3 DEF Sums
  <2>3. so[n] = 100 * n
    BY <1>1
  <2> HIDE DEF so, scores, n
  <2> QED
    BY <2>1, <2>2, <2>3, Telescope
<1>3. Weight(ls) > 0
  <2>1. Weight(ls) = Total(dists)
    BY <1>1 DEF Weight
  <2>2. /\ dists \in Seq(Int) /\ Len(dists) = n /\ \A k \in 1..n : dists[k] >= 0
        /\ 1 \in 1..n /\ dists[1] > 0
    BY <1>1
  <2> HIDE DEF dists, n
  <2> QED
    BY <1>1, <2>1, <2>2, TotalBounds
<1> DEFINE dh == [k \in 1..n |-> ls[k].truthBS - ls[k].truthFS]
           mis == Total(dh)
           within == mis * mis * 2000 <= ClosureC * ClosureC * Weight(ls)
<1>4. BuildLoopResult(ls).within = within
  BY <1>1 DEF BuildLoopResult
<1>5. BuildLoopResult(ls).total =
        (2 * (8 * Total(scores) + 10 * n * (IF Weight(ls) > 0 /\ within THEN 20 ELSE 0)) + 10 * n)
          \div (20 * n)
  BY <1>1 DEF BuildLoopResult
<1> HIDE DEF within, scores
<1>6. BuildLoopResult(ls).total = (2 * (8 * (100 * n) + 10 * n * 20) + 10 * n) \div (20 * n)
  BY <1>2, <1>3, <1>4, <1>5
<1>7. (2 * (8 * (100 * n) + 10 * n * 20) + 10 * n) \div (20 * n) = 100
  <2> HIDE DEF n
  <2> QED
    BY <1>1
<1> QED
  BY <1>6, <1>7

-------------------------------------------------------------------------------
(* LevelSim: the field book follows the route.                              *)

\* What is booked for leg k has the sights of its instrument station, and with the screws
\* left alone the climb between its two points with the tilt over what one sight is longer
\* than the other; an error is bounded by the marks it is given.
Sight(k) == Abs(route[k].x - Instrument(k - 1)) + Abs(route[k + 1].x - Instrument(k - 1))
Uneven(k) == Abs(route[k].x - Instrument(k - 1)) - Abs(route[k + 1].x - Instrument(k - 1))
Climb(k) == route[k + 1].z - route[k].z
Tilts == -MaxRise .. MaxRise
Marked(score, player, truth) == score > 0 => Abs(player - truth) <= ReadPartial - score
LegRight(b, k, from) ==
  /\ b \in Entries /\ b.dist = Sight(k)
  /\ steady => \E t \in Tilts : Fall(b) = Climb(k) + t * Uneven(k)
  /\ Marked(b.scoreBS, b.playerBS, b.truthBS)
  /\ Marked(b.scoreFS, b.playerFS, b.truthFS)
  /\ b.hiOk => Abs(b.hi - (from + b.playerBS)) <= BookTol
  /\ b.elevOk => Abs(b.elev - (b.hi - b.playerFS)) <= BookTol

\* The elevation leg k goes out from.
Before(ls, k) == IF k = 1 THEN route[1].z ELSE ls[k - 1].elev
LegsRight == \A k \in 1..Len(legs) : LegRight(legs[k], k, Before(legs, k))

RouteInv ==
  /\ route \in Routes /\ screws \in Setups /\ steady \in BOOLEAN
  /\ legs \in Seq(Entries) /\ book \in Entries
  /\ station = Len(legs)
  /\ IF phase = "summary"
     THEN station = NumLegs /\ loop = BuildLoopResult(legs)
     ELSE /\ station < NumLegs /\ loop = NoLoop
          /\ targets = BuildRelativeTargets(station) /\ known = KnownAt(legs)

\* The entries of the leg in progress, as far as it has come.
BookRight == phase \notin {"summary", "done"} =>
  /\ job # "readBS" => /\ book.bsDist = targets[1].dist
                       /\ Marked(book.scoreBS, book.playerBS, book.truthBS)
  /\ job = "readFS" /\ steady => book.truthBS = MeasureWith(screws, 1)
  /\ job \in {"fillHI", "fillElev"} =>
       /\ book.dist = targets[1].dist + targets[2].dist
       /\ Marked(book.scoreFS, book.playerFS, book.truthFS)
       /\ steady => \E t \in Tilts : Fall(book) = targets[2].z - targets[1].z
                                                   + t * (targets[1].dist - targets[2].dist)
  /\ job = "fillElev" => (book.hiOk => Abs(book.hi - (known + book.playerBS)) <= BookTol)

LEMMA PointsTyped ==
  ASSUME route \in Routes
  PROVE  /\ NumLegs \in Nat \ {0} /\ Len(route) = NumLegs + 1
         /\ \A k \in 1..(NumLegs + 1) : route[k].x \in Int /\ route[k].z \in Int
<1> DEFINE P == [x : Int, z : Int]
<1>1. route \in Seq(P) /\ Len(route) >= 2
  BY LevelAssumption
<1>2. Len(route) \in Nat /\ \A k \in 1..Len(route) : route[k] \in P
  <2> HIDE DEF P
  <2> QED
    BY <1>1
<1>3. \A p \in [x : Int, z : Int] : p.x \in Int /\ p.z \in Int
  OBVIOUS
<1>4. \A k \in 1..Len(route) : route[k].x \in Int /\ route[k].z \in Int
  BY <1>2, <1>3
<1> QED
  BY <1>1, <1>2, <1>4 DEF NumLegs

LEMMA StandsTyped ==
  ASSUME route \in Routes, NEW k \in 0..(NumLegs - 1)
  PROVE  /\ Instrument(k) \in Int
         /\ \A i \in {1, 2} : Abs(route[k + i].x - Instrument(k)) \in Nat /\ route[k + i].z \in Int
<1>1. /\ route[k + 1].x \in Int /\ route[k + 2].x \in Int
      /\ route[k + 1].z \in Int /\ route[k + 2].z \in Int
  BY PointsTyped
<1>2. Instrument(k) \in Int
  BY <1>1 DEF Instrument
<1>3. \A x, y \in Int : Abs(x - y) \in Nat
  BY DEF Abs
<1> QED
  BY <1>1, <1>2, <1>3

\* The targets are the two points of the leg in progress.
LEMMA TargetsAreOfLeg ==
  ASSUME RouteInv, phase # "summary"
  PROVE  /\ station \in 0..(NumLegs - 1) /\ station = Len(legs)
         /\ \A i \in {1, 2} : targets[i].dist \in Nat /\ targets[i].z \in Int
         /\ targets[1].dist + targets[2].dist = Sight(station + 1)
         /\ targets[1].dist - targets[2].dist = Uneven(station + 1)
         /\ targets[2].z - targets[1].z = Climb(station + 1)
         /\ known = Before(legs, station + 1) /\ known \in Int
<1>1. route \in Routes /\ station = Len(legs) /\ legs \in Seq(Entries) /\ station < NumLegs
      /\ targets = BuildRelativeTargets(station) /\ known = KnownAt(legs)
  BY DEF RouteInv
<1>2. station \in 0..(NumLegs - 1) /\ Len(legs) \in Nat
  BY <1>1, PointsTyped
<1>3. \A i \in {1, 2} : /\ targets[i].dist = Abs(route[station + i].x - Instrument(station))
                        /\ targets[i].z = route[station + i].z
  BY <1>1 DEF BuildRelativeTargets
<1>4. \A i \in {1, 2} : targets[i].dist \in Nat /\ targets[i].z \in Int
  BY <1>1, <1>2, <1>3, StandsTyped
<1>5. (station + 1) + 1 = station + 2 /\ (station + 1) - 1 = station
  BY <1>2
<1>6. /\ targets[1].dist + targets[2].dist = Sight(station + 1)
      /\ targets[1].dist - targets[2].dist = Uneven(station + 1)
      /\ targets[2].z - targets[1].z = Climb(station + 1)
  BY <1>3, <1>5 DEF Sight, Uneven, Climb
<1>7. known = Before(legs, station + 1) /\ known \in Int
  <2>1. CASE legs = << >>
    <3>1. Len(legs) = 0
      BY <2>1
    <3> QED
      BY <1>1, <2>1, <3>1, PointsTyped DEF KnownAt, Before
  <2>2. CASE legs # << >>
    <3>1. Len(legs) \in 1..Len(legs) /\ Last(legs) = legs[Len(legs)]
      BY <1>1, <2>2 DEF Last
    <3>2. legs[Len(legs)] \in Entries
      BY <1>1, <3>1
    <3>3. legs[Len(legs)].elev \in Int
      BY <3>2 DEF Entries
    <3>4. station + 1 # 1 /\ (station + 1) - 1 = Len(legs)
      BY <1>1, <3>1
    <3> QED
      BY <1>1, <2>2, <3>1, <3>3, <3>4 DEF KnownAt, Before
  <2> QED
    BY <2>1, <2>2
<1> QED
  BY <1>1, <1>2, <1>4, <1>6, <1>7

\* What is right of a leg stays so while the route stays and no careful run is made of a
\* careless one.
LEMMA LegsStayRight ==
  ASSUME LegsRight, route' = route, legs' = legs, steady' => steady
  PROVE  LegsRight'
<1> SUFFICES ASSUME NEW k \in 1..Len(legs)
             PROVE  LegRight(legs[k], k, Before(legs, k))'
  BY DEF LegsRight
<1>1. LegRight(legs[k], k, Before(legs, k))
  BY DEF LegsRight
<1>2. Sight(k)' = Sight(k) /\ Climb(k)' = Climb(k) /\ Uneven(k)' = Uneven(k) /\ Before(legs, k)' = Before(legs, k)
  BY DEF Sight, Uneven, Climb, Before, Instrument
<1> QED
  BY <1>1, <1>2 DEF LegRight

\* A step within a leg.
LEMMA WithinLeg ==
  ASSUME RouteInv, LegsRight, phase # "summary", phase' # "summary",
         screws' \in Setups, book' \in Entries, steady' \in BOOLEAN, steady' => steady,
         UNCHANGED <<route, targets, known, legs, station, loop>>
  PROVE  RouteInv' /\ LegsRight'
<1>1. LegsRight'
  BY LegsStayRight
<1>2. BuildRelativeTargets(station)' = BuildRelativeTargets(station) /\ NumLegs' = NumLegs
      /\ KnownAt(legs)' = KnownAt(legs)
  BY DEF BuildRelativeTargets, Instrument, NumLegs, KnownAt
<1>3. RouteInv'
  BY <1>2 DEF RouteInv
<1> QED
  BY <1>1, <1>3

LEMMA BlankBook == EmptyBook \in Entries
<1>1. 0 \in 0..Band
  BY LevelAssumption DEF Band
<1> QED
  BY <1>1 DEF EmptyBook, Entries

\* The end of a leg that is right.
LEMMA CommitLeg ==
  ASSUME RouteInv, LegsRight, phase # "summary", NEW b, NEW s \in Setups, AdvanceStation(b, s),
         LegRight(b, station + 1, known), UNCHANGED <<route, steady>>
  PROVE  RouteInv' /\ LegsRight' /\ BookRight'
<1> DEFINE n == Len(legs)
           more == station + 1 < NumLegs
<1>1. /\ route \in Routes /\ screws \in Setups /\ steady \in BOOLEAN /\ legs \in Seq(Entries)
      /\ loop = NoLoop /\ book \in Entries
  BY DEF RouteInv
<1>2. /\ station \in 0..(NumLegs - 1) /\ station = n /\ n \in Nat /\ NumLegs \in Nat
      /\ known = Before(legs, n + 1)
  BY <1>1, TargetsAreOfLeg, PointsTyped
<1>3. b \in Entries /\ EmptyBook \in Entries
  BY BlankBook DEF LegRight
<1>4. legs' = Append(legs, b) /\ station' = station + 1
  BY DEF AdvanceStation, LegOf
<1>5. legs' \in Seq(Entries) /\ Len(legs') = n + 1 /\ legs'[n + 1] = b
      /\ \A k \in 1..n : legs'[k] = legs[k]
  BY <1>1, <1>3, <1>4
<1>6. LegsRight'
  <2> SUFFICES ASSUME NEW k \in 1..(n + 1)
               PROVE  LegRight(legs[k], k, Before(legs, k))'
    BY <1>5 DEF LegsRight
  <2>1. Sight(k)' = Sight(k) /\ Climb(k)' = Climb(k) /\ Uneven(k)' = Uneven(k)
    BY DEF Sight, Uneven, Climb, Instrument
  <2>2. Before(legs, k)' = Before(legs, k)
    <3>1. k # 1 => k - 1 \in 1..n
      BY <1>2
    <3> QED
      BY <1>5, <3>1 DEF Before
  <2>3. LegRight(legs'[k], k, Before(legs, k))
    <3>1. CASE k = n + 1
      BY <1>2, <1>5, <3>1
    <3>2. CASE k # n + 1
      <4>1. k \in 1..n
        BY <1>2, <3>2
      <4> QED
        BY <1>5, <4>1 DEF LegsRight
    <3> QED
      BY <3>1, <3>2
  <2> QED
    BY <2>1, <2>2, <2>3 DEF LegRight
<1>7. NumLegs' = NumLegs
  BY DEF NumLegs
<1>8. CASE more
  <2>1. /\ targets' = BuildRelativeTargets(station + 1)
        /\ screws' \in Setups /\ phase' = "overview" /\ job' = "readBS"
        /\ book' = EmptyBook /\ known' = KnownAt(legs') /\ loop' = loop
    BY <1>4, <1>8 DEF AdvanceStation, RestartStation, LegOf
  <2>2. targets' = BuildRelativeTargets(station)' /\ known' = KnownAt(legs)'
    BY <1>4, <2>1 DEF BuildRelativeTargets, Instrument, KnownAt
  <2>3. RouteInv'
    BY <1>1, <1>2, <1>3, <1>4, <1>5, <1>7, <1>8, <2>1, <2>2 DEF RouteInv
  <2>4. BookRight'
    BY <2>1 DEF BookRight
  <2> QED
    BY <1>6, <2>3, <2>4
<1>9. CASE ~more
  <2>1. phase' = "summary" /\ loop' = BuildLoopResult(legs') /\ book' = b /\ screws' = s
    BY <1>4, <1>9 DEF AdvanceStation, LegOf
  <2>2. BuildLoopResult(legs') = BuildLoopResult(legs)'
    BY DEF BuildLoopResult, LegScore, Shares, Weight
  <2>3. station' = NumLegs'
    BY <1>2, <1>4, <1>7, <1>9
  <2>4. RouteInv'
    BY <1>1, <1>2, <1>3, <1>4, <1>5, <2>1, <2>2, <2>3 DEF RouteInv
  <2>5. BookRight'
    BY <2>1 DEF BookRight
  <2> QED
    BY <1>6, <2>4, <2>5
<1> QED
  BY <1>8, <1>9

LEMMA RouteStart == LevelInit => RouteInv /\ LegsRight /\ BookRight
<1> SUFFICES ASSUME LevelInit PROVE RouteInv /\ LegsRight /\ BookRight
  OBVIOUS
<1>1. PICK r \in Routes : Start(r)
  BY DEF LevelInit
<1>2. /\ route \in Routes /\ station = 0 /\ legs = << >> /\ loop = NoLoop /\ steady = TRUE
      /\ targets = [i \in {1, 2} |-> [dist |-> Abs(route[i].x), z |-> route[i].z]]
      /\ screws \in Setups /\ phase = "overview" /\ job = "readBS"
      /\ book = EmptyBook /\ known = route[1].z
  BY <1>1 DEF Start
<1>3. NumLegs \in Nat \ {0} /\ route[1].x \in Int /\ route[2].x \in Int
  BY <1>2, PointsTyped
<1>4. targets = BuildRelativeTargets(0)
  <2>1. \A i \in {1, 2} : route[0 + i] = route[i] /\ route[i].x - Instrument(0) = route[i].x
    BY <1>3 DEF Instrument
  <2> QED
    BY <1>2, <2>1 DEF BuildRelativeTargets
<1>5. legs \in Seq(Entries) /\ Len(legs) = 0 /\ known = KnownAt(legs)
  BY <1>2 DEF KnownAt
<1>6. RouteInv
  BY <1>2, <1>3, <1>4, <1>5, BlankBook DEF RouteInv
<1> QED
  BY <1>2, <1>5, <1>6 DEF LegsRight, BookRight

LEMMA RestartKeepsRoute ==
  ASSUME RouteInv, RouteRestart
  PROVE  RouteInv' /\ LegsRight' /\ BookRight'
<1>1. /\ route' = route /\ legs' = << >> /\ station' = 0 /\ loop' = NoLoop /\ steady' = TRUE
      /\ targets' = BuildRelativeTargets(0) /\ screws' \in Setups
      /\ phase' = "overview" /\ job' = "readBS" /\ book' = EmptyBook /\ known' = KnownAt(<< >>)
  BY DEF RouteRestart, RestartStation, RestartedLoop
<1>2. route \in Routes /\ NumLegs \in Nat \ {0} /\ NumLegs' = NumLegs
  BY <1>1, PointsTyped DEF RouteInv, NumLegs
<1>3. targets' = BuildRelativeTargets(station)' /\ known' = KnownAt(legs)'
  BY <1>1 DEF BuildRelativeTargets, Instrument, KnownAt
<1>4. legs' \in Seq(Entries) /\ Len(legs') = 0
  BY <1>1
<1>5. RouteInv'
  BY <1>1, <1>2, <1>3, <1>4, BlankBook DEF RouteInv
<1> QED
  BY <1>1, <1>4, <1>5 DEF LegsRight, BookRight

\* Keys that change neither the book nor, with a careful player, the line of sight.
LEMMA LookingAround ==
  ASSUME RouteInv, LegsRight, BookRight, NobodyStranded,
         phase \in {"overview", "leveling", "telescope"},
         phase' \in {"overview", "leveling", "telescope"},
         screws' \in Setups, steady' \in BOOLEAN, steady' => steady,
         job = "readFS" /\ steady' => screws' = screws,
         UNCHANGED <<route, targets, known, legs, station, loop, book, job>>
  PROVE  RouteInv' /\ LegsRight' /\ BookRight'
<1>1. book' \in Entries
  BY DEF RouteInv
<1>2. RouteInv' /\ LegsRight'
  BY <1>1, WithinLeg
<1>3. job \in {"readBS", "readFS"}
  BY DEF NobodyStranded
<1> QED
  BY <1>2, <1>3 DEF BookRight, MeasureWith, Marked

\* A reading of staff i with the screws s.
LEMMA MeasureTyped ==
  ASSUME RouteInv, phase # "summary", NEW s \in Setups, NEW i \in {1, 2}
  PROVE  MeasureWith(s, i) \in Int /\ Rise[s] \in Tilts
<1>1. targets[i].dist \in Nat /\ targets[i].z \in Int
  BY TargetsAreOfLeg
<1>2. Optics[s] \in Int /\ Rise[s] \in Int /\ MaxRise \in Nat /\ -MaxRise <= Rise[s] /\ Rise[s] <= MaxRise
  BY LevelAssumption
<1>3. Rise[s] * targets[i].dist \in Int
  BY <1>1, <1>2
<1>4. MeasureWith(s, i) \in Int
  BY <1>1, <1>2, <1>3 DEF MeasureWith
<1> QED
  BY <1>2, <1>4 DEF Tilts

\* Two readings with the same screws differ by the two points and by the tilt over the two
\* sights.
LEMMA MeasuredFall ==
  ASSUME RouteInv, phase # "summary", NEW s \in Setups
  PROVE  \E t \in Tilts : MeasureWith(s, 1) - MeasureWith(s, 2)
           = targets[2].z - targets[1].z + t * (targets[1].dist - targets[2].dist)
<1> DEFINE t == Rise[s]
           near == targets[1].dist
           far == targets[2].dist
<1>1. /\ near \in Int /\ far \in Int /\ targets[1].z \in Int /\ targets[2].z \in Int
      /\ Optics[s] \in Int /\ t \in Int /\ t \in Tilts
  BY TargetsAreOfLeg, MeasureTyped, LevelAssumption
<1>2. t * near \in Int /\ t * far \in Int /\ t * (near - far) = t * near - t * far
  <2> HIDE DEF t, near, far
  <2>1. t \in Int /\ near \in Int /\ far \in Int
    BY <1>1
  <2> QED
    BY <2>1
<1>3. /\ MeasureWith(s, 1) = Optics[s] + t * near - targets[1].z
      /\ MeasureWith(s, 2) = Optics[s] + t * far - targets[2].z
  BY DEF MeasureWith
<1>4. MeasureWith(s, 1) - MeasureWith(s, 2) = targets[2].z - targets[1].z + t * (near - far)
  <2> DEFINE a == t * near
             b == t * far
  <2>1. a \in Int /\ b \in Int /\ t * (near - far) = a - b
    BY <1>2
  <2> HIDE DEF a, b
  <2>2. /\ MeasureWith(s, 1) = Optics[s] + a - targets[1].z
        /\ MeasureWith(s, 2) = Optics[s] + b - targets[2].z
    BY <1>3 DEF a, b
  <2> DEFINE c == t * (near - far)
  <2>3. c = a - b /\ a \in Int /\ b \in Int
    BY <2>1
  <2> HIDE DEF t, near, far, c
  <2>4. MeasureWith(s, 1) - MeasureWith(s, 2) = targets[2].z - targets[1].z + c
    BY <1>1, <2>2, <2>3
  <2> QED
    BY <2>4 DEF c
<1> QED
  BY <1>1, <1>4

\* Marks bound the error they are given for.
LEMMA ScoreMarks ==
  ASSUME NEW truth \in Int, NEW v \in Int
  PROVE  Score(truth, v) \in 0..Band /\ Marked(Score(truth, v), v, truth)
<1>1. ReadTol \in Nat /\ ReadPartial \in Nat /\ ReadTol < ReadPartial
  BY LevelAssumption
<1>2. Abs(v - truth) \in Nat
  BY DEF Abs
<1> DEFINE err == Abs(v - truth)
<1>3. Score(truth, v) = IF err <= ReadTol THEN Band ELSE IF err >= ReadPartial THEN 0 ELSE ReadPartial - err
  BY DEF Score
<1> HIDE DEF err
<1>4. err \in Nat
  BY <1>2 DEF err
<1>5. Score(truth, v) \in 0..Band /\ (Score(truth, v) > 0 => err <= ReadPartial - Score(truth, v))
  BY <1>1, <1>3, <1>4 DEF Band
<1> QED
  BY <1>5 DEF Marked, err

\* A reading is booked with the staff it was taken at.
LEMMA ReadingIsBooked ==
  ASSUME RouteInv, LegsRight, BookRight, SubmitReading
  PROVE  RouteInv' /\ LegsRight' /\ BookRight'
<1> DEFINE r == Measure(Expected)
<1>1. /\ phase = "telescope" /\ book \in Entries /\ screws \in Setups /\ steady \in BOOLEAN
      /\ UNCHANGED <<route, screws, targets, known, legs, station, loop, steady>>
  BY DEF SubmitReading, RouteInv
<1>2. \A i \in {1, 2} : targets[i].dist \in Nat /\ targets[i].z \in Int
  BY <1>1, TargetsAreOfLeg
<1>3. \A slip \in Slips : slip \in Int
  BY LevelAssumption
<1>4. CASE job = "readBS"
  <2>1. r = MeasureWith(screws, 1) /\ r \in Int
    BY <1>1, <1>4, MeasureTyped DEF Measure, Expected
  <2> HIDE DEF r
  <2>2. PICK slip \in Slips :
          /\ book' = [book EXCEPT !.playerBS = r + slip, !.truthBS = r,
                                  !.scoreBS = Score(r, r + slip), !.bsDist = targets[1].dist]
          /\ job' = "readFS" /\ phase' = phase
    BY <1>4 DEF SubmitReading, r
  <2>3. r + slip \in Int
    BY <1>3, <2>1
  <2> DEFINE v == r + slip
             m == Score(r, v)
  <2>4. m \in 0..Band /\ Marked(m, v, r)
    BY <2>1, <2>3, ScoreMarks
  <2> HIDE DEF v, m
  <2>5. /\ book' \in Entries
        /\ book'.playerBS = v /\ book'.truthBS = r /\ book'.scoreBS = m
        /\ book'.bsDist = targets[1].dist
    <3>1. book' = [book EXCEPT !.playerBS = v, !.truthBS = r, !.scoreBS = m,
                               !.bsDist = targets[1].dist]
      BY <2>2 DEF v, m
    <3>2. v \in Int
      BY <2>3 DEF v
    <3> QED
      BY <1>1, <1>2, <2>1, <2>4, <3>1, <3>2 DEF Entries
  <2>6. RouteInv' /\ LegsRight'
    BY <1>1, <2>2, <2>5, WithinLeg
  <2>7. MeasureWith(screws, 1)' = MeasureWith(screws, 1)
    BY <1>1 DEF MeasureWith
  <2>8. BookRight'
    BY <1>1, <2>1, <2>2, <2>4, <2>5, <2>7 DEF BookRight
  <2> QED
    BY <2>6, <2>8
<1>5. CASE job = "readFS"
  <2>1. r = MeasureWith(screws, 2) /\ r \in Int
    BY <1>1, <1>5, MeasureTyped DEF Measure, Expected
  <2>2. /\ book.bsDist = targets[1].dist
        /\ Marked(book.scoreBS, book.playerBS, book.truthBS)
        /\ steady => book.truthBS = MeasureWith(screws, 1)
    BY <1>1, <1>5 DEF BookRight
  <2> HIDE DEF r
  <2>3. PICK slip \in Slips :
          /\ book' = [book EXCEPT !.playerFS = r + slip, !.truthFS = r,
                                  !.scoreFS = Score(r, r + slip),
                                  !.dist = book.bsDist + targets[2].dist]
          /\ job' = "fillHI" /\ phase' = "booking"
    BY <1>5 DEF SubmitReading, r
  <2>4. r + slip \in Int
    BY <1>3, <2>1
  <2> DEFINE v == r + slip
             m == Score(r, v)
  <2>5. m \in 0..Band /\ Marked(m, v, r)
    BY <2>1, <2>4, ScoreMarks
  <2>6. book.bsDist + targets[2].dist \in Nat
    BY <1>2, <2>2
  <2> HIDE DEF v, m
  <2>7. /\ book' \in Entries
        /\ book'.playerFS = v /\ book'.truthFS = r /\ book'.scoreFS = m
        /\ book'.dist = targets[1].dist + targets[2].dist
        /\ book'.bsDist = book.bsDist /\ book'.playerBS = book.playerBS
        /\ book'.truthBS = book.truthBS /\ book'.scoreBS = book.scoreBS
    <3>1. book' = [book EXCEPT !.playerFS = v, !.truthFS = r, !.scoreFS = m,
                               !.dist = book.bsDist + targets[2].dist]
      BY <2>3 DEF v, m
    <3>2. v \in Int
      BY <2>4 DEF v
    <3> QED
      BY <1>1, <2>1, <2>2, <2>5, <2>6, <3>1, <3>2 DEF Entries
  <2>8. RouteInv' /\ LegsRight'
    BY <1>1, <2>3, <2>7, WithinLeg
  <2>9. steady => \E t \in Tilts : Fall(book)' = targets[2].z - targets[1].z
                                     + t * (targets[1].dist - targets[2].dist)
    <3>1. steady => Fall(book)' = MeasureWith(screws, 1) - MeasureWith(screws, 2)
      BY <2>1, <2>2, <2>7 DEF Fall
    <3> QED
      BY <1>1, <3>1, MeasuredFall
  <2>10. Marked(book'.scoreBS, book'.playerBS, book'.truthBS)
    BY <2>2, <2>7
  <2>11. BookRight'
    BY <1>1, <2>2, <2>3, <2>5, <2>7, <2>9, <2>10 DEF BookRight, Tilts
  <2> QED
    BY <2>8, <2>11
<1> QED
  BY <1>4, <1>5 DEF SubmitReading

LEMMA HeightIsBooked ==
  ASSUME RouteInv, LegsRight, BookRight, SubmitHI
  PROVE  RouteInv' /\ LegsRight' /\ BookRight'
<1>1. /\ phase = "booking" /\ job = "fillHI" /\ job' = "fillElev" /\ phase' = phase
      /\ book \in Entries /\ screws \in Setups /\ steady \in BOOLEAN
      /\ UNCHANGED <<route, screws, targets, known, legs, station, loop, steady>>
  BY DEF SubmitHI, RouteInv
<1>2. PICK slip \in Slips :
        book' = [book EXCEPT !.hi = known + book.playerBS + slip, !.hiOk = (Abs(slip) <= BookTol)]
  BY DEF SubmitHI
<1>3. known \in Int /\ book.playerBS \in Int /\ slip \in Int
  BY <1>1, TargetsAreOfLeg, LevelAssumption DEF Entries
<1> DEFINE ok == Abs(slip) <= BookTol
           v == known + book.playerBS + slip
<1>4. v \in Int /\ ok \in BOOLEAN /\ v - (known + book.playerBS) = slip
  BY <1>3
<1>5. book' = [book EXCEPT !.hi = v, !.hiOk = ok]
  BY <1>2
<1>6. ok => Abs(v - (known + book.playerBS)) <= BookTol
  BY <1>4
<1> HIDE DEF ok, v
<1>7. /\ book' \in Entries /\ book'.hi = v /\ book'.hiOk = ok
      /\ book'.playerBS = book.playerBS /\ book'.truthBS = book.truthBS
      /\ book'.scoreBS = book.scoreBS /\ book'.bsDist = book.bsDist
      /\ book'.playerFS = book.playerFS /\ book'.truthFS = book.truthFS
      /\ book'.scoreFS = book.scoreFS /\ book'.dist = book.dist
  BY <1>1, <1>4, <1>5 DEF Entries
<1>8. RouteInv' /\ LegsRight'
  BY <1>1, <1>7, WithinLeg
<1>9. Fall(book)' = Fall(book)
  BY <1>7 DEF Fall
<1>10. book'.hiOk => Abs(book'.hi - (known + book'.playerBS)) <= BookTol
  BY <1>6, <1>7
<1> QED
  BY <1>1, <1>7, <1>8, <1>9, <1>10 DEF BookRight, Tilts

LEMMA LegIsBooked ==
  ASSUME RouteInv, LegsRight, BookRight, SubmitElev
  PROVE  RouteInv' /\ LegsRight' /\ BookRight'
<1>1. /\ phase = "booking" /\ job = "fillElev" /\ book \in Entries /\ screws \in Setups
      /\ steady \in BOOLEAN /\ UNCHANGED <<route, steady>>
  BY DEF SubmitElev, RouteInv
<1>2. PICK slip \in Slips :
        LET b == [book EXCEPT !.elev = book.hi - book.playerFS + slip,
                              !.elevOk = (Abs(slip) <= BookTol)] IN
        IF NumLegs > 1 THEN AdvanceStation(b, screws)
        ELSE /\ book' = b /\ phase' = "done"
             /\ UNCHANGED <<screws, targets, known, legs, station, loop>>
  BY DEF SubmitElev
<1>3. book.hi \in Int /\ book.playerFS \in Int /\ slip \in Int
  BY <1>1, LevelAssumption DEF Entries
<1> DEFINE ok == Abs(slip) <= BookTol
           v == book.hi - book.playerFS + slip
           b == [book EXCEPT !.elev = v, !.elevOk = ok]
<1>4. v \in Int /\ ok \in BOOLEAN /\ v - (book.hi - book.playerFS) = slip
  BY <1>3
<1>5. ok => Abs(v - (book.hi - book.playerFS)) <= BookTol
  BY <1>4
<1>6. IF NumLegs > 1 THEN AdvanceStation(b, screws)
      ELSE /\ book' = b /\ phase' = "done"
           /\ UNCHANGED <<screws, targets, known, legs, station, loop>>
  BY <1>2
<1> HIDE DEF ok, v
<1>7. /\ b \in Entries /\ b.elev = v /\ b.elevOk = ok /\ b.hi = book.hi /\ b.hiOk = book.hiOk
      /\ b.playerBS = book.playerBS /\ b.truthBS = book.truthBS /\ b.scoreBS = book.scoreBS
      /\ b.playerFS = book.playerFS /\ b.truthFS = book.truthFS /\ b.scoreFS = book.scoreFS
      /\ b.dist = book.dist
  BY <1>1, <1>4 DEF Entries
<1> HIDE DEF b
<1>8. LegRight(b, station + 1, known)
  <2>1. /\ book.dist = targets[1].dist + targets[2].dist
        /\ Marked(book.scoreBS, book.playerBS, book.truthBS)
        /\ Marked(book.scoreFS, book.playerFS, book.truthFS)
        /\ steady => \E t \in Tilts : Fall(book) = targets[2].z - targets[1].z
                                                     + t * (targets[1].dist - targets[2].dist)
        /\ book.hiOk => Abs(book.hi - (known + book.playerBS)) <= BookTol
    BY <1>1 DEF BookRight
  <2>2. /\ targets[1].dist + targets[2].dist = Sight(station + 1)
        /\ targets[1].dist - targets[2].dist = Uneven(station + 1)
        /\ targets[2].z - targets[1].z = Climb(station + 1)
    BY <1>1, TargetsAreOfLeg
  <2>3. Fall(b) = Fall(book)
    BY <1>7 DEF Fall
  <2>4. b.elevOk => Abs(b.elev - (b.hi - b.playerFS)) <= BookTol
    BY <1>5, <1>7
  <2> QED
    BY <1>7, <2>1, <2>2, <2>3, <2>4 DEF LegRight
<1>9. CASE NumLegs > 1
  <2>1. PICK c : c = b
    OBVIOUS
  <2>2. AdvanceStation(c, screws)
    BY <1>6, <1>9, <2>1
  <2>3. LegRight(c, station + 1, known)
    BY <1>8, <2>1
  <2> QED
    BY <1>1, <2>2, <2>3, CommitLeg
<1>10. CASE ~(NumLegs > 1)
  <2>1. /\ book' = b /\ phase' = "done" /\ screws' = screws
        /\ UNCHANGED <<targets, known, legs, station, loop>>
    BY <1>6, <1>10
  <2>2. RouteInv' /\ LegsRight'
    BY <1>1, <1>7, <2>1, WithinLeg
  <2> QED
    BY <2>1, <2>2 DEF BookRight
<1> QED
  BY <1>9, <1>10

\* What the script books is right by its making.
LEMMA ScriptBooks ==
  ASSUME RouteInv, LegsRight, SmokePerfectSubmit
  PROVE  RouteInv' /\ LegsRight' /\ BookRight'
<1> DEFINE bs == MeasureWith(ZeroSetup, 1)
           fs == MeasureWith(ZeroSetup, 2)
           b == [playerBS |-> bs, truthBS |-> bs, scoreBS |-> Band, bsDist |-> targets[1].dist,
                 playerFS |-> fs, truthFS |-> fs, scoreFS |-> Band,
                 dist |-> targets[1].dist + targets[2].dist,
                 hi |-> known + bs, hiOk |-> TRUE,
                 elev |-> known + bs - fs, elevOk |-> TRUE]
<1>1. station < NumLegs /\ AdvanceStation(b, ZeroSetup) /\ UNCHANGED <<route, steady>>
  BY DEF SmokePerfectSubmit
<1>2. phase # "summary"
  BY <1>1, PointsTyped DEF RouteInv
<1>3. /\ \A i \in {1, 2} : targets[i].dist \in Nat /\ targets[i].z \in Int
      /\ targets[1].dist + targets[2].dist = Sight(station + 1)
      /\ targets[1].dist - targets[2].dist = Uneven(station + 1)
      /\ targets[2].z - targets[1].z = Climb(station + 1)
      /\ known \in Int
  BY <1>2, TargetsAreOfLeg
<1>4. /\ ZeroSetup \in Setups /\ BookTol \in Nat
      /\ Band \in Nat /\ Band <= ReadPartial /\ ReadPartial \in Nat
  BY LevelAssumption DEF Band
<1>5. /\ bs \in Int /\ fs \in Int
      /\ \E t \in Tilts : bs - fs = Climb(station + 1) + t * Uneven(station + 1)
  BY <1>2, <1>3, <1>4, MeasureTyped, MeasuredFall
<1>6. LegRight(b, station + 1, known)
  <2> HIDE DEF bs, fs
  <2>1. b \in Entries
    BY <1>3, <1>4, <1>5 DEF Entries
  <2>2. Fall(b) = bs - fs
    BY DEF Fall
  <2>3. \A x \in Int : x - x = 0 /\ Abs(x - x) = 0
    BY DEF Abs
  <2>4. Marked(Band, bs, bs) /\ Marked(Band, fs, fs)
    BY <1>4, <1>5, <2>3 DEF Marked
  <2>6. /\ b.dist = Sight(station + 1)
        /\ b.scoreBS = Band /\ b.playerBS = bs /\ b.truthBS = bs
        /\ b.scoreFS = Band /\ b.playerFS = fs /\ b.truthFS = fs
        /\ b.hi = known + bs /\ b.elev = known + bs - fs
    BY <1>3
  <2>7. \E t \in Tilts : Fall(b) = Climb(station + 1) + t * Uneven(station + 1)
    BY <1>5, <2>2
  <2> HIDE DEF b
  <2>8. Marked(b.scoreBS, b.playerBS, b.truthBS) /\ Marked(b.scoreFS, b.playerFS, b.truthFS)
    BY <2>4, <2>6
  <2>9. /\ Abs(b.hi - (known + b.playerBS)) <= BookTol
        /\ Abs(b.elev - (b.hi - b.playerFS)) <= BookTol
    <3>1. /\ b.hi - (known + b.playerBS) = 0 /\ b.elev - (b.hi - b.playerFS) = 0
      BY <1>3, <1>5, <2>6
    <3>2. Abs(0) <= BookTol
      BY <1>4 DEF Abs
    <3> QED
      BY <3>1, <3>2
  <2> QED
    BY ONLY <2>1, <2>6, <2>7, <2>8, <2>9 DEF LegRight
<1>7. PICK c : c = b
  OBVIOUS
<1> HIDE DEF b
<1>8. AdvanceStation(c, ZeroSetup) /\ LegRight(c, station + 1, known)
  BY <1>1, <1>6, <1>7
<1> QED
  BY <1>1, <1>2, <1>4, <1>8, CommitLeg

LEMMA RouteStep ==
  ASSUME NobodyStranded, Scripted, RouteInv, LegsRight, BookRight, [LevelNext]_levelVars
  PROVE  RouteInv' /\ LegsRight' /\ BookRight'
<1>1. screws \in Setups /\ steady \in BOOLEAN /\ Readable \subseteq Setups
  BY LevelAssumption DEF RouteInv
<1>2. CASE Play
  <2>1. CASE InOverview
    BY <1>1, <2>1, LookingAround DEF InOverview
  <2>2. CASE InLeveling
    BY <1>1, <2>2, LookingAround DEF InLeveling
  <2>3. CASE InTelescope
    BY <1>1, <2>3, LookingAround DEF InTelescope, ScopeKeys
  <2>4. CASE CancelReading
    BY <1>1, <2>4, LookingAround DEF CancelReading
  <2> QED
    BY <1>2, <2>1, <2>2, <2>3, <2>4, RestartKeepsRoute, ReadingIsBooked, HeightIsBooked,
       LegIsBooked DEF Play
<1>3. CASE SmokePerturbScrews
  BY <1>1, <1>3, LookingAround DEF SmokePerturbScrews, SmokeKeeps, Scripted
<1>4. CASE SmokeAutoLevel
  BY <1>1, <1>4, LookingAround DEF SmokeAutoLevel, SmokeKeeps, Scripted
<1>5. CASE SmokeAimSecond
  BY <1>1, <1>5, LookingAround DEF SmokeAimSecond, SmokeKeeps, Scripted
<1>6. CASE UNCHANGED levelVars
  <2>1. LegsRight'
    BY <1>6, LegsStayRight DEF levelVars
  <2>2. RouteInv'
    <3>1. /\ NumLegs' = NumLegs /\ KnownAt(legs)' = KnownAt(legs)
          /\ BuildRelativeTargets(station)' = BuildRelativeTargets(station)
      BY <1>6 DEF levelVars, NumLegs, KnownAt, BuildRelativeTargets, Instrument
    <3>2. BuildLoopResult(legs)' = BuildLoopResult(legs)
      BY <1>6 DEF levelVars, BuildLoopResult, LegScore, Shares, Weight
    <3> QED
      BY <1>6, <3>1, <3>2 DEF levelVars, RouteInv
  <2>3. BookRight'
    BY <1>6 DEF levelVars, BookRight, Fall, MeasureWith, Marked
  <2> QED
    BY <2>1, <2>2, <2>3
<1> QED
  BY <1>2, <1>3, <1>4, <1>5, <1>6, ScriptBooks DEF LevelNext

LEMMA RouteInvariant ==
  LevelSpec => [](NobodyStranded /\ RouteInv /\ LegsRight)
<1>1. LevelInit => NobodyStranded /\ Scripted /\ RouteInv /\ LegsRight /\ BookRight
  BY LevelStart, RouteStart
<1>2. NobodyStranded /\ Scripted /\ RouteInv /\ LegsRight /\ BookRight /\ [LevelNext]_levelVars
        => (NobodyStranded /\ Scripted /\ RouteInv /\ LegsRight /\ BookRight)'
  BY NobodyStrandedStep, RouteStep
<1> QED
  BY <1>1, <1>2, PTL DEF LevelSpec

\* What the adjusted differences of a route say, for every route and every way to walk it.
LEMMA RouteShown ==
  ASSUME RouteInv, LegsRight
  PROVE  ClosureIsOfRoute
<1>1. /\ route \in Routes /\ legs \in Seq(Entries) /\ station = Len(legs)
      /\ DOMAIN legs = 1..Len(legs)
  BY DEF RouteInv
<1>2. CASE phase = "summary"
  <2>1. station = NumLegs /\ loop = BuildLoopResult(legs)
    BY <1>2 DEF RouteInv
  <2>2. loop.done
    BY <2>1 DEF BuildLoopResult
  <2>3. /\ Total(loop.adjusted) = 0
        /\ \A k, j \in DOMAIN legs :
             (Fall(legs[k]) * Weight(legs) - loop.adjusted[k]) * legs[j].dist
               = (Fall(legs[j]) * Weight(legs) - loop.adjusted[j]) * legs[k].dist
    BY <1>1, <2>1, AdjustedCloses
  <2>4. \A k \in DOMAIN legs : legs[k].dist =
          Abs(route[k].x - Instrument(k - 1)) + Abs(route[k + 1].x - Instrument(k - 1))
    BY <1>1 DEF LegsRight, LegRight, Sight
  <2> QED
    BY <1>1, <1>2, <2>1, <2>2, <2>3, <2>4 DEF ClosureIsOfRoute, Fall
<1>3. CASE phase # "summary"
  BY <1>1, <1>3 DEF RouteInv, ClosureIsOfRoute, NoLoop
<1> QED
  BY <1>2, <1>3

\* Full marks leave two readings the full-mark band, and the rounding of the score.
LEMMA FullScoreIsRight ==
  ASSUME NEW l \in Entries, LegScore(l) = 100
  PROVE  /\ l.scoreBS > 0 /\ l.scoreFS > 0 /\ l.hiOk /\ l.elevOk
         /\ 2 * Band - (l.scoreBS + l.scoreFS) <= Band \div 60
<1> DEFINE s == l.scoreBS + l.scoreFS
           q == (60 * s + Band) \div (2 * Band)
<1>1. /\ Band \in Nat \ {0} /\ l.scoreBS \in 0..Band /\ l.scoreFS \in 0..Band
      /\ s \in 0..(2 * Band)
  <2>1. Band \in Nat \ {0}
    BY LevelAssumption DEF Band
  <2>2. l.scoreBS \in 0..Band /\ l.scoreFS \in 0..Band
    BY DEF Entries
  <2> QED
    BY <2>1, <2>2
<1>2. q \in Int /\ q * (2 * Band) <= 60 * s + Band
  <2>1. \A x \in Nat, m \in Nat \ {0} : x \div m \in Int /\ (x \div m) * m <= x
    OBVIOUS
  <2>2. 60 * s + Band \in Nat /\ 2 * Band \in Nat \ {0}
    BY <1>1
  <2> HIDE DEF s
  <2> QED
    BY <2>1, <2>2
<1>3. q + (IF l.hiOk THEN 20 ELSE 0) + (IF l.elevOk THEN 20 ELSE 0) = 100
  BY DEF LegScore
<1> HIDE DEF q, s
<1>4. q <= 60
  <2> SUFFICES ASSUME q >= 61 PROVE FALSE
    BY <1>2
  <2>1. \A x, m \in Int : x >= 61 /\ m >= 0 => x * m >= 61 * m
    OBVIOUS
  <2>2. q * (2 * Band) >= 61 * (2 * Band)
    BY <1>1, <1>2, <2>1
  <2> QED
    BY <1>1, <1>2, <2>2
<1>5. q = 60 /\ l.hiOk /\ l.elevOk
  BY <1>2, <1>3, <1>4
<1>6. 120 * Band <= 60 * s + Band
  BY <1>1, <1>2, <1>5
<1>7. 2 * Band - s <= Band \div 60
  BY <1>1, <1>6
<1>8. Band \div 60 < Band
  BY <1>1
<1> QED
  BY <1>1, <1>5, <1>7, <1>8 DEF s

\* Half way between two points the sights are equal; at the first station they are as they
\* come.
LEMMA SightsAreEven ==
  ASSUME route \in Routes, NEW k \in 1..NumLegs
  PROVE  IF k = 1 THEN Uneven(k) = Abs(route[1].x) - Abs(route[2].x) ELSE Uneven(k) = 0
<1> DEFINE x == route[k].x
           y == route[k + 1].x
<1>1. /\ k \in 1..Len(route) /\ k + 1 \in 1..Len(route) /\ k \in Int
      /\ (k - 1) + 1 = k /\ (k - 1) + 2 = k + 1
      /\ x \in Int /\ y \in Int
  BY PointsTyped
<1>2. x % 2 = 0 /\ y % 2 = 0
  <2>1. DOMAIN route = 1..Len(route)
    BY LevelAssumption
  <2> QED
    BY <1>1, <2>1, LevelAssumption
<1>3. CASE k = 1
  BY <1>1, <1>3 DEF Uneven, Instrument
<1>4. CASE k # 1
  <2>1. Instrument(k - 1) = (x + y) \div 2
    BY <1>1, <1>4 DEF Instrument
  <2>2. x - (x + y) \div 2 = (x + y) \div 2 - y
    <3> HIDE DEF x, y
    <3> QED
      BY <1>1, <1>2
  <2>3. \A u \in Int, v \in Int, w \in Int :
          u - w = w - v => Abs(u - w) = Abs(v - w) /\ Abs(u - w) \in Int
    BY DEF Abs
  <2> DEFINE half == (x + y) \div 2
  <2>4. half \in Int
    BY <1>1
  <2>5. Abs(x - half) = Abs(y - half) /\ Abs(x - half) \in Int
    <3> HIDE DEF x, y, half
    <3>1. x - half = half - y
      BY <2>2 DEF half
    <3> QED
      BY <1>1, <2>3, <2>4, <3>1
  <2> QED
    BY <1>4, <2>1, <2>5 DEF Uneven
<1> QED
  BY <1>3, <1>4

LEMMA SumOfAbs ==
  ASSUME NEW u \in Int, NEW v \in Int, NEW b \in Int, NEW c \in Int, Abs(u) <= b, Abs(v) <= c
  PROVE  Abs(u + v) <= b + c
BY DEF Abs

\* What the tilt adds to a leg: something to the first, nothing to the others.
LEMMA TiltOfLeg ==
  ASSUME route \in Routes, NEW k \in 1..NumLegs, NEW t \in Tilts
  PROVE  /\ t * Uneven(k) \in Int /\ Abs(t * Uneven(k)) <= Unbalanced
         /\ k # 1 => t * Uneven(k) = 0
         /\ Unbalanced \in Nat
<1> DEFINE u == Abs(route[1].x) - Abs(route[2].x)
<1>1. t \in Int /\ MaxRise \in Nat /\ -MaxRise <= t /\ t <= MaxRise
  BY LevelAssumption DEF Tilts
<1>2. u \in Int
  <2>1. route[1].x \in Int /\ route[2].x \in Int
    BY PointsTyped
  <2> QED
    BY <2>1 DEF Abs
<1> HIDE DEF u
<1>3. t * u \in Int /\ MaxRise * Abs(u) \in Nat /\ Abs(t * u) <= MaxRise * Abs(u)
  <2>1. \A a \in Int, b \in Nat, c \in Nat : -b <= a /\ a <= b => a * c <= b * c /\ -(b * c) <= a * c
    OBVIOUS
  <2>2. CASE u >= 0
    <3>1. Abs(u) = u /\ u \in Nat
      BY <1>2, <2>2 DEF Abs
    <3>2. t * u \in Int /\ MaxRise * u \in Nat /\ t * u <= MaxRise * u /\ -(MaxRise * u) <= t * u
      BY <1>1, <2>1, <3>1
    <3> QED
      BY <3>1, <3>2 DEF Abs
  <2>3. CASE u < 0
    <3>1. Abs(u) = -u /\ -u \in Nat
      BY <1>2, <2>3 DEF Abs
    <3>2. t * (-u) \in Int /\ MaxRise * (-u) \in Nat /\ t * (-u) <= MaxRise * (-u)
          /\ -(MaxRise * (-u)) <= t * (-u)
      BY <1>1, <2>1, <3>1
    <3>3. t * u = -(t * (-u))
      BY <1>1, <1>2
    <3> QED
      BY <3>1, <3>2, <3>3 DEF Abs
  <2> QED
    BY <1>2, <2>2, <2>3
<1>4. Unbalanced = MaxRise * Abs(u)
  BY DEF Unbalanced, u
<1>5. CASE k = 1
  BY <1>3, <1>4, <1>5, SightsAreEven DEF u
<1>6. CASE k # 1
  <2>1. Uneven(k) = 0 /\ t * 0 = 0 /\ Abs(0) = 0
    BY <1>1, <1>6, SightsAreEven DEF Abs
  <2> QED
    BY <1>3, <1>4, <2>1
<1> QED
  BY <1>5, <1>6

\* With full marks a leg ends where it went out from, up or down what its readings truly
\* fell, but for what full marks leave.
LEMMA FullLeg ==
  ASSUME NEW l \in Entries, NEW k \in 1..NumLegs, NEW from \in Int, LegRight(l, k, from),
         LegScore(l) = 100
  PROVE  Abs(l.elev - (from + Fall(l))) <= MarkedFull /\ MarkedFull \in Nat
<1>1. /\ ReadTol \in Nat /\ ReadPartial \in Nat /\ ReadTol < ReadPartial /\ BookTol \in Nat
      /\ Band = ReadPartial - ReadTol
  BY LevelAssumption DEF Band
<1>2. /\ l.scoreBS \in Int /\ l.scoreFS \in Int /\ l.playerBS \in Int /\ l.playerFS \in Int
      /\ l.truthBS \in Int /\ l.truthFS \in Int /\ l.hi \in Int /\ l.elev \in Int
  BY <1>1 DEF Entries
<1>3. 2 * Band - (l.scoreBS + l.scoreFS) <= Band \div 60 /\ Band \div 60 \in Nat
  BY <1>1, FullScoreIsRight
<1>4. /\ Abs(l.playerBS - l.truthBS) <= ReadPartial - l.scoreBS
      /\ Abs(l.playerFS - l.truthFS) <= ReadPartial - l.scoreFS
      /\ Abs(l.hi - (from + l.playerBS)) <= BookTol
      /\ Abs(l.elev - (l.hi - l.playerFS)) <= BookTol
  BY FullScoreIsRight DEF LegRight, Marked
<1> DEFINE part == Band \div 60
<1>5. MarkedFull = 2 * ReadTol + part + 2 * BookTol
  BY DEF MarkedFull
<1>6. part \in Nat /\ 2 * (ReadPartial - ReadTol) - (l.scoreBS + l.scoreFS) <= part
  BY <1>1, <1>3
<1> HIDE DEF part
<1>7. \A a \in Int, b \in Int : Abs(a) <= b => -b <= a /\ a <= b
  BY DEF Abs
<1>8. /\ -(ReadPartial - l.scoreBS) <= l.playerBS - l.truthBS
      /\ l.playerBS - l.truthBS <= ReadPartial - l.scoreBS
      /\ -(ReadPartial - l.scoreFS) <= l.playerFS - l.truthFS
      /\ l.playerFS - l.truthFS <= ReadPartial - l.scoreFS
      /\ -BookTol <= l.hi - (from + l.playerBS) /\ l.hi - (from + l.playerBS) <= BookTol
      /\ -BookTol <= l.elev - (l.hi - l.playerFS) /\ l.elev - (l.hi - l.playerFS) <= BookTol
  BY <1>1, <1>2, <1>4, <1>7
<1>9. Fall(l) = l.truthBS - l.truthFS
  BY DEF Fall
<1>10. /\ l.elev - (from + Fall(l)) <= MarkedFull
       /\ -MarkedFull <= l.elev - (from + Fall(l))
       /\ l.elev - (from + Fall(l)) \in Int /\ MarkedFull \in Nat
  BY <1>1, <1>2, <1>5, <1>6, <1>8, <1>9
<1> QED
  BY <1>10 DEF Abs

LEMMA CarefulRoute ==
  ASSUME RouteInv, LegsRight
  PROVE  CarefulRouteCloses
<1> SUFFICES ASSUME phase = "summary", steady, route[1].z = Last(route).z
             PROVE  /\ Abs(loop.misclosure) <= Unbalanced
                    /\ Unbalanced * Unbalanced * 2000 <= ClosureC * ClosureC * Weight(legs)
                         => loop.within
                    /\ (\A k \in DOMAIN legs : LegScore(legs[k]) = 100) =>
                         /\ loop.within => loop.total = 100
                         /\ \A k \in DOMAIN legs :
                              Abs(legs[k].elev - route[k + 1].z) <= Unbalanced + k * MarkedFull
  BY DEF CarefulRouteCloses
<1> DEFINE n == Len(legs)
           z == [k \in 1..(n + 1) |-> route[k].z]
           e == Fall(legs[1]) - Climb(1)
<1>1. /\ route \in Routes /\ legs \in Seq(Entries) /\ DOMAIN legs = 1..n
      /\ n = NumLegs /\ loop = BuildLoopResult(legs)
  BY DEF RouteInv
<1>2. /\ n \in Nat \ {0} /\ Len(route) = n + 1
      /\ \A k \in 1..(n + 1) : route[k].x \in Int /\ route[k].z \in Int
  BY <1>1, PointsTyped
<1>3. \A k \in 1..n : /\ legs[k] \in Entries /\ LegRight(legs[k], k, Before(legs, k))
                      /\ Fall(legs[k]) \in Int
                      /\ \E t \in Tilts : Fall(legs[k]) = Climb(k) + t * Uneven(k)
  <2> SUFFICES ASSUME NEW k \in 1..n
               PROVE  /\ legs[k] \in Entries /\ LegRight(legs[k], k, Before(legs, k))
                      /\ Fall(legs[k]) \in Int
                      /\ \E t \in Tilts : Fall(legs[k]) = Climb(k) + t * Uneven(k)
    OBVIOUS
  <2>1. legs[k] \in Entries /\ LegRight(legs[k], k, Before(legs, k))
    BY <1>1 DEF LegsRight
  <2>2. Fall(legs[k]) \in Int
    BY <1>1, EntryFalls
  <2>3. \E t \in Tilts : Fall(legs[k]) = Climb(k) + t * Uneven(k)
    BY <2>1 DEF LegRight
  <2> QED
    BY <2>1, <2>2, <2>3
<1>4. \A k \in 1..n : Climb(k) = route[k + 1].z - route[k].z /\ Climb(k) \in Int
  BY <1>2 DEF Climb
<1>5. /\ e \in Int /\ Abs(e) <= Unbalanced /\ Unbalanced \in Nat
      /\ \A k \in 2..n : Fall(legs[k]) = Climb(k)
  <2>1. 1 \in 1..n
    BY <1>2
  <2>2. PICK t \in Tilts : Fall(legs[1]) = Climb(1) + t * Uneven(1)
    BY <1>3, <2>1
  <2>3. t * Uneven(1) \in Int /\ Abs(t * Uneven(1)) <= Unbalanced /\ Unbalanced \in Nat
    BY <1>1, <2>1, TiltOfLeg
  <2>4. e = t * Uneven(1)
    <3> DEFINE w == t * Uneven(1)
    <3>1. w \in Int /\ Fall(legs[1]) = Climb(1) + w /\ Climb(1) \in Int
      BY <1>4, <2>1, <2>2, <2>3
    <3> HIDE DEF w
    <3>2. e = w
      BY <3>1
    <3> QED
      BY <3>2 DEF w
  <2>5. ASSUME NEW k \in 2..n PROVE Fall(legs[k]) = Climb(k)
    <3>1. k \in 1..n /\ k # 1
      BY <1>2
    <3>2. PICK q \in Tilts : Fall(legs[k]) = Climb(k) + q * Uneven(k)
      BY <1>3, <3>1
    <3>3. q * Uneven(k) = 0
      BY <1>1, <3>1, TiltOfLeg
    <3> QED
      BY <1>4, <3>1, <3>2, <3>3
  <2> QED
    BY <2>3, <2>4, <2>5
<1>6. /\ BuildLoopResult(legs).misclosure = e
      /\ BuildLoopResult(legs).within <=> e * e * 2000 <= ClosureC * ClosureC * Weight(legs)
  <2>1. z \in [1..(n + 1) -> Int] /\ \A k \in 2..n : Fall(legs[k]) = z[k + 1] - z[k]
    <3>1. \A k \in 2..n : k \in 1..n /\ k \in 1..(n + 1) /\ k + 1 \in 1..(n + 1)
      BY <1>2
    <3> HIDE DEF e
    <3> QED
      BY <1>2, <1>4, <1>5, <3>1
  <2>2. Fall(legs[1]) = z[2] - z[1] + e
    <3>1. 1 \in 1..n /\ 1 \in 1..(n + 1) /\ 2 \in 1..(n + 1)
      BY <1>2
    <3>2. z[2] = route[2].z /\ z[1] = route[1].z /\ Climb(1) = route[2].z - route[1].z
      BY <1>4, <3>1
    <3>3. Fall(legs[1]) \in Int /\ route[2].z \in Int /\ route[1].z \in Int
      BY <1>2, <1>3, <3>1
    <3> HIDE DEF z
    <3> QED
      BY <3>2, <3>3
  <2>3. z[n + 1] = z[1]
    <3>1. Last(route) = route[n + 1] /\ 1 \in 1..(n + 1) /\ n + 1 \in 1..(n + 1)
      BY <1>2 DEF Last
    <3> QED
      BY <3>1
  <2> HIDE DEF z, e
  <2>4. Loop(legs, z, e)
    BY <1>2, <1>5, <2>1, <2>2, <2>3 DEF Loop
  <2> QED
    BY <1>1, <2>4, LoopCloses
<1> HIDE DEF e
<1>7. e * e <= Unbalanced * Unbalanced /\ e * e \in Int /\ Unbalanced * Unbalanced \in Int
  <2>1. -Unbalanced <= e /\ e <= Unbalanced
    BY <1>5 DEF Abs
  <2>2. \A b \in Nat, a \in Int : -b <= a /\ a <= b => a * a <= b * b
    OBVIOUS
  <2> QED
    BY <1>5, <2>1, <2>2
<1>8. Unbalanced * Unbalanced * 2000 <= ClosureC * ClosureC * Weight(legs)
        => BuildLoopResult(legs).within
  <2> DEFINE a == e * e
             b == Unbalanced * Unbalanced
             c == ClosureC * ClosureC * Weight(legs)
  <2>1. a \in Int /\ b \in Int /\ a <= b /\ c \in Int
    <3>1. Weight(legs) \in Int
      BY <1>1, WeightTyped
    <3>2. ClosureC \in Int
      BY LevelAssumption
    <3> QED
      BY <1>7, <3>1, <3>2
  <2>2. BuildLoopResult(legs).within <=> a * 2000 <= c
    BY <1>6
  <2> HIDE DEF a, b, c
  <2>3. b * 2000 <= c => BuildLoopResult(legs).within
    BY <2>1, <2>2
  <2> QED
    BY <2>3 DEF b, c
<1>9. ASSUME \A k \in 1..n : LegScore(legs[k]) = 100
      PROVE  /\ BuildLoopResult(legs).within => BuildLoopResult(legs).total = 100
             /\ \A k \in 1..n : Abs(legs[k].elev - route[k + 1].z) <= Unbalanced + k * MarkedFull
  <2>1. legs[1].dist > 0
    <3>1. legs[1].dist = Abs(route[1].x - Instrument(0)) + Abs(route[2].x - Instrument(0))
      BY <1>2, <1>3 DEF LegRight, Sight
    <3>2. Instrument(0) = 0 /\ route[1].x \in Int /\ route[2].x \in Int /\ route[1].x # 0
      BY <1>1, <1>2, LevelAssumption DEF Instrument
    <3> QED
      BY <3>1, <3>2 DEF Abs
  <2>2. BuildLoopResult(legs).within => BuildLoopResult(legs).total = 100
    BY <1>1, <1>2, <1>9, <2>1, FullMarks
  <2>3. ASSUME NEW k \in 1..n, Before(legs, k) \in Int
        PROVE  /\ Abs(legs[k].elev - (Before(legs, k) + Fall(legs[k]))) <= MarkedFull
               /\ MarkedFull \in Nat
    BY <1>1, <1>3, <1>9, <2>3, FullLeg
  <2> DEFINE off(k) == legs[k].elev - route[k + 1].z
             P == {k \in 0..n : k = 0 \/ Abs(off(k)) <= Unbalanced + k * MarkedFull}
  <2>4. 0 \in P
    BY <1>2
  <2>5. ASSUME NEW k \in 1..n, k - 1 \in P PROVE k \in P
    <3>1. k \in 0..n /\ k \in 1..(n + 1) /\ k + 1 \in 1..(n + 1) /\ (k - 1) + 1 = k
      BY <1>2
    <3>2. /\ legs[k].elev \in Int /\ route[k].z \in Int /\ route[k + 1].z \in Int
          /\ Climb(k) = route[k + 1].z - route[k].z
      BY <1>2, <1>3, <1>4, <3>1 DEF Entries
    <3>3. CASE k = 1
      <4>1. Before(legs, k) = route[1].z /\ Fall(legs[k]) = Climb(k) + e /\ k * MarkedFull = 1 * MarkedFull
        BY <1>2, <1>3, <1>4, <3>1, <3>3 DEF Before, e
      <4>2. Abs(legs[k].elev - (route[k].z + (Climb(k) + e))) <= MarkedFull /\ MarkedFull \in Nat
        BY <2>3, <3>2, <3>3, <4>1
      <4>3. Abs(legs[k].elev - route[k + 1].z) <= Unbalanced + MarkedFull
        <5> DEFINE x == legs[k].elev - (route[k].z + (Climb(k) + e))
        <5>1. x \in Int /\ e \in Int /\ legs[k].elev - route[k + 1].z = x + e
          BY <1>5, <3>2
        <5>2. Abs(x) <= MarkedFull /\ Abs(e) <= Unbalanced
          BY <1>5, <4>2
        <5> HIDE DEF x, e
        <5> QED
          BY <1>5, <4>2, <5>1, <5>2, SumOfAbs
      <4> QED
        BY <3>1, <4>1, <4>2, <4>3
    <3>4. CASE k # 1
      <4>1. k \in 2..n /\ k - 1 \in 1..n /\ k - 1 # 0
        BY <1>2, <3>4
      <4>2. /\ Before(legs, k) = legs[k - 1].elev /\ legs[k - 1].elev \in Int
            /\ Fall(legs[k]) = Climb(k)
        BY <1>3, <1>5, <3>4, <4>1 DEF Before, Entries
      <4>3. Abs(legs[k].elev - (legs[k - 1].elev + Climb(k))) <= MarkedFull /\ MarkedFull \in Nat
        BY <2>3, <4>2
      <4>4. Abs(legs[k - 1].elev - route[k].z) <= Unbalanced + (k - 1) * MarkedFull
        BY <2>5, <3>1, <4>1
      <4>5. (k - 1) * MarkedFull + MarkedFull = k * MarkedFull /\ (k - 1) * MarkedFull \in Int
        BY <4>1, <4>3
      <4> DEFINE a == (k - 1) * MarkedFull
      <4>6. a \in Int /\ a + MarkedFull = k * MarkedFull
            /\ Abs(legs[k - 1].elev - route[k].z) <= Unbalanced + a
        BY <4>4, <4>5
      <4> HIDE DEF a
      <4>7. Abs(legs[k].elev - route[k + 1].z) <= Unbalanced + a + MarkedFull
        <5> DEFINE x == legs[k].elev - (legs[k - 1].elev + Climb(k))
                   y == legs[k - 1].elev - route[k].z
        <5>1. x \in Int /\ y \in Int /\ legs[k].elev - route[k + 1].z = x + y
          <6> DEFINE q == legs[k].elev
                     r == legs[k - 1].elev
                     u == route[k].z
                     v == route[k + 1].z
                     climb == Climb(k)
          <6>1. q \in Int /\ r \in Int /\ u \in Int /\ v \in Int /\ climb = v - u
            BY <3>2, <4>2
          <6>2. /\ q - (r + climb) \in Int /\ r - u \in Int
                /\ q - v = (q - (r + climb)) + (r - u)
            <7> HIDE DEF q, r, u, v, climb
            <7> QED
              BY <6>1
          <6> QED
            BY <6>2
        <5>2. Abs(x) <= MarkedFull /\ Abs(y) <= Unbalanced + a
          BY <4>3, <4>6
        <5>3. Unbalanced + a \in Int /\ MarkedFull \in Int
          BY <1>5, <4>3, <4>6
        <5>4. Abs(x + y) <= MarkedFull + (Unbalanced + a)
          <6> HIDE DEF x, y
          <6> QED
            BY <5>1, <5>2, <5>3, SumOfAbs
        <5> QED
          BY <5>1, <5>3, <5>4
      <4>8. Unbalanced + a + MarkedFull = Unbalanced + k * MarkedFull
        BY <1>5, <4>3, <4>6
      <4> QED
        BY <3>1, <4>7, <4>8
    <3> QED
      BY <3>3, <3>4
  <2>6. 0..n \subseteq P
    <3>1. n \in Nat
      BY <1>2
    <3> HIDE DEF P, n
    <3> QED
      BY <2>4, <2>5, <3>1, Ascent
  <2>7. \A k \in 1..n : k \in 0..n /\ k # 0
    BY <1>2
  <2> QED
    BY <2>2, <2>6, <2>7
<1> QED
  BY <1>1, <1>5, <1>6, <1>8, <1>9

\* A restart that keeps the last closure, a target kept from an earlier station or a leg
\* left out of the sum would show a closure of another route: what is shown is the closure
\* of the legs booked, each with the sights of its own instrument station, for every route
\* and every way through the keys.
THEOREM ClosureIsOfTheRoute == LevelSpec => []ClosureIsOfRoute
<1> QED
  BY RouteInvariant, RouteShown, PTL

\* For every closed route, every instrument and all tolerances: whoever leaves the screws
\* alone between backsight and foresight misses the start by the tilt over the unequal sights
\* of the first station at most, however long the route is, and with full marks carried
\* elevations that are off by that and by what full marks leave each leg.
THEOREM CarefulWorkCloses == LevelSpec => []CarefulRouteCloses
<1> QED
  BY RouteInvariant, CarefulRoute, PTL

================================================================================
