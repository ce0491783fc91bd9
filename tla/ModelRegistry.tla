---------------------------- MODULE ModelRegistry ----------------------------
(***************************************************************************)
(* UArchSimModelRegistry between the components that enter and leave the    *)
(* world (UArchSimMemberData), the game instance that ticks, the debounce   *)
(* timer, and the engine session of UFrameInteractiveSubsystem.             *)
(*                                                                         *)
(* Everything runs on the game thread: an action is one call from outside,  *)
(* with every call it makes.  Rows are numbered from 1 and 0 stands for the *)
(* code's -1.  The engine answers for its active set as a fresh             *)
(* factorization does, which is what ReSolveSession is proved to do.        *)
(***************************************************************************)
EXTENDS FrameModel

CONSTANTS
  Comps,          \* the member components of the level
  EndI, EndJ,     \* the positions of a component's two ends
  NonFinite,      \* components whose ends are not finite numbers
  Supports,       \* positions where RegisterFixedSupport is called
  MaxRank,        \* MaxRankBeforeRebaseline
  DebounceTicks,  \* DebounceMs in frames
  MaxRows,        \* bound on rows registered since the last Reset
  AllocMayFail    \* whether an engine session's constructor may throw

ASSUME RegistryAssumption ==
  /\ EndI \in [Comps -> Int] /\ EndJ \in [Comps -> Int]
  /\ NonFinite \subseteq Comps
  /\ Supports \subseteq Int
  /\ MaxRank \in Nat
  /\ DebounceTicks \in Nat \ {0}
  /\ MaxRows \in Nat
  /\ AllocMayFail \in BOOLEAN

VARIABLES
  inWorld,           \* components between BeginPlay and EndPlay
  memberIdx,         \* UArchSimMemberData::MemberIdx
  registered,        \* UArchSimMemberData::bRegistered
  util,              \* CachedUtilization: the row it was read from, and its state
  model,             \* CurrentModel
  indexToComponent,  \* IndexToComponent
  nextMemberIdx,     \* NextMemberIdx
  pendingPatch,      \* PendingPatch.DeactivateMemberIds
  pendingRank,       \* PendingRankAccumulation
  timer,             \* frames until DebounceTimer fires, 0 when it is not set
  bSessionStarted, bNeedsRebaseline,
  engine,            \* the subsystem's session: the model it copied, its active set
  lastSeen,          \* UArchSimGameInstance::LastSeenRegisteredCount
  attempted          \* history: rows the last ExecuteSolve offered to the engine

compVars   == <<inWorld, memberIdx, registered>>
modelVars  == <<model, indexToComponent, nextMemberIdx>>
queueVars  == <<pendingPatch, pendingRank, timer>>
solveVars  == <<bSessionStarted, bNeedsRebaseline, engine, util, attempted>>
vars == <<compVars, modelVars, queueVars, solveVars, lastSeen>>

NoSession == [model |-> EmptyModel, active |-> {}]
\* Seeded fault of SessionOn: the rows' active flags are not copied.
SessionOnAllActive(m) == [model |-> m, active |-> 1..Len(m.members)]

\* ReSolveSession copies the model and its flags.
SessionOn(m) == [model |-> m, active |-> ActiveRows(m)]

\* CachedUtilization before any solve.
Unpainted == [row |-> 0, stressed |-> FALSE]

TypeOK ==
  /\ inWorld \in SUBSET Comps
  /\ memberIdx \in [Comps -> Nat]
  /\ registered \in [Comps -> BOOLEAN]
  /\ util \in [Comps -> [row : Nat, stressed : BOOLEAN]]
  /\ model \in Model
  /\ nextMemberIdx = Len(model.members) + 1
  /\ indexToComponent \in [1..Len(model.members) -> Comps]
  /\ pendingPatch \in Seq(1..Len(model.members))
  /\ pendingRank \in 0..MaxRank
  /\ timer \in 0..DebounceTicks
  /\ bSessionStarted \in BOOLEAN
  /\ bNeedsRebaseline \in BOOLEAN
  /\ engine \in [model : Model, active : SUBSET (1..Len(engine.model.members))]
  /\ lastSeen \in Nat \cup {-1}
  /\ attempted \in 0..Len(model.members)

Init ==
  /\ inWorld = {}
  /\ memberIdx = [c \in Comps |-> 0]
  /\ registered = [c \in Comps |-> FALSE]
  /\ util = [c \in Comps |-> Unpainted]
  /\ model = EmptyModel
  /\ indexToComponent = <<>>
  /\ nextMemberIdx = 1
  /\ pendingPatch = <<>> /\ pendingRank = 0 /\ timer = 0
  /\ bSessionStarted = FALSE /\ bNeedsRebaseline = FALSE
  /\ engine = NoSession
  /\ lastSeen = -1
  /\ attempted = 0

-------------------------------------------------------------------------------
\* DistributeSolveResult walks the engine's rows in order, so a component that
\* owns several rows keeps the value of the last one.
RowsOf(c, s) == {r \in 1..Len(s.model.members) :
                   r \in DOMAIN indexToComponent /\ indexToComponent[r] = c}
LastRow(R)  == CHOOSE r \in R : \A k \in R : k <= r

\* Seeded fault of Painted: the first row of the component wins.
PaintedFirstWins(s) ==
  [c \in Comps |->
     IF c \in inWorld /\ RowsOf(c, s) # {}
     THEN LET r == CHOOSE r \in RowsOf(c, s) : \A k \in RowsOf(c, s) : r <= k
          IN [row |-> r, stressed |-> r \in s.active]
     ELSE util[c]]

\* The utilizations after a solve of s is distributed; a component that left
\* the world is a stale weak pointer.
Painted(s) ==
  [c \in Comps |->
     IF c \in inWorld /\ RowsOf(c, s) # {}
     THEN LET r == LastRow(RowsOf(c, s)) IN [row |-> r, stressed |-> r \in s.active]
     ELSE util[c]]

Listed(queue) == {queue[k] : k \in 1..Len(queue)}

\* ApplyPatchAndResolve: the queued members are switched off in the session,
\* and a solve that is not singular is distributed.
ApplyPatch(s, queue) ==
  LET patched == [s EXCEPT !.active = @ \ Listed(queue)]
  IN /\ engine' = patched
     /\ util' = IF Solvable(patched.model, patched.active) THEN Painted(patched) ELSE util

\* FlushAndStartSession on model m: the engine refuses a singular baseline,
\* and its constructor may throw.
StartSession(m, queue) ==
  /\ Solvable(m, ActiveRows(m))
  /\ bSessionStarted' = TRUE
  /\ bNeedsRebaseline' = FALSE
  /\ ApplyPatch(SessionOn(m), queue)

StartFails(m, rebase) ==
  /\ ~Solvable(m, ActiveRows(m)) \/ AllocMayFail
  /\ bNeedsRebaseline' = rebase
  /\ engine' = NoSession
  /\ UNCHANGED <<bSessionStarted, util>>

\* A live session is rebaselined when asked, which changes no answer, and
\* takes the patch.
ReuseSession(queue) ==
  /\ bNeedsRebaseline' = FALSE
  /\ UNCHANGED bSessionStarted
  /\ ApplyPatch(engine, queue)

\* ExecuteSolve with the queue and the rebaseline flag it finds, on model m.
ExecuteSolve(queue, rebase, m) ==
  /\ pendingPatch' = <<>>
  /\ pendingRank' = 0
  /\ attempted' = Len(m.members)
  /\ \/ ~bSessionStarted /\ (StartSession(m, queue) \/ StartFails(m, rebase))
     \/ bSessionStarted /\ ReuseSession(queue)

\* Seeded fault of RequestSolve: above the cap the timer is cleared and the
\* patch waits for the next request.
RequestSolveDefers(patch, m) ==
  LET queue == pendingPatch \o patch
      rank  == pendingRank + Len(patch)
  IN IF rank > MaxRank
     THEN /\ timer' = 0 /\ bNeedsRebaseline' = TRUE
          /\ pendingPatch' = queue /\ pendingRank' = 0
          /\ UNCHANGED <<bSessionStarted, engine, util, attempted>>
     ELSE /\ pendingPatch' = queue
          /\ pendingRank' = rank
          /\ timer' = DebounceTicks
          /\ UNCHANGED solveVars

\* Seeded fault of RequestSolve: an empty patch is not worth a solve.
RequestSolveSkipsEmpty(patch, m) ==
  IF patch = <<>> THEN UNCHANGED <<queueVars, solveVars>>
  ELSE RequestSolveDefers(patch, m)

\* RequestSolve(patch) when CurrentModel is m.
RequestSolve(patch, m) ==
  LET queue == pendingPatch \o patch
      rank  == pendingRank + Len(patch)
  IN IF rank > MaxRank
     THEN timer' = 0 /\ ExecuteSolve(queue, TRUE, m)
     ELSE /\ pendingPatch' = queue
          /\ pendingRank' = rank
          /\ timer' = DebounceTicks
          /\ UNCHANGED solveVars

-------------------------------------------------------------------------------

Dropped == pendingPatch' = <<>> /\ pendingRank' = 0

\* Seeded fault of Unbind: the components stay bound.
UnbindForgotten(S) == UNCHANGED <<memberIdx, registered>>

Unbind(S) ==
  /\ memberIdx' = [c \in Comps |-> IF c \in S THEN 0 ELSE memberIdx[c]]
  /\ registered' = [c \in Comps |-> IF c \in S THEN FALSE ELSE registered[c]]

\* Seeded fault of EndSession: the live session is kept.
EndSessionForgotten == UNCHANGED <<bSessionStarted, engine>>

\* Every change of topology ends a session built on the model before it.
EndSession ==
  /\ bSessionStarted' = FALSE
  /\ engine' = IF bSessionStarted THEN NoSession ELSE engine

Rejected(c) == c \in NonFinite \/ Near(EndI[c], EndJ[c])

RegisterMember(c) ==
  IF registered[c] \/ Rejected(c)
  THEN UNCHANGED <<memberIdx, registered, modelVars, queueVars, solveVars>>
  ELSE /\ model' = AddMember(model, EndI[c], EndJ[c])
       /\ nextMemberIdx' = nextMemberIdx + 1
       /\ memberIdx' = [memberIdx EXCEPT ![c] = nextMemberIdx]
       /\ registered' = [registered EXCEPT ![c] = TRUE]
       /\ indexToComponent' =
            [r \in DOMAIN indexToComponent \cup {nextMemberIdx} |->
               IF r = nextMemberIdx THEN c ELSE indexToComponent[r]]
       /\ EndSession
       /\ bNeedsRebaseline' = FALSE
       /\ Dropped
       /\ UNCHANGED <<timer, util, attempted>>

\* DeactivateMember(r) for a valid row.
DeactivateMember(r) ==
  /\ model' = SwitchOff(model, r)
  /\ Unbind({indexToComponent[r]})
  /\ RequestSolve(<<r>>, SwitchOff(model, r))
  /\ UNCHANGED <<indexToComponent, nextMemberIdx>>

-------------------------------------------------------------------------------
\* UArchSimMemberData::BeginPlay.  A component that begins to play before the
\* game instance is ready is not registered.
BeginPlay(c) ==
  /\ c \notin inWorld
  /\ Len(model.members) < MaxRows
  /\ inWorld' = inWorld \cup {c}
  /\ \/ RegisterMember(c)
     \/ UNCHANGED <<memberIdx, registered, modelVars, queueVars, solveVars>>
  /\ UNCHANGED lastSeen

\* RegisterMember called again for a component of the world: the persistence
\* replay does it right after BeginPlay did.
Register(c) ==
  /\ c \in inWorld
  /\ Len(model.members) < MaxRows
  /\ RegisterMember(c)
  /\ UNCHANGED <<inWorld, lastSeen>>

\* UArchSimMemberData::EndPlay; the component may begin to play again later.
EndPlay(c) ==
  /\ c \in inWorld
  /\ inWorld' = inWorld \ {c}
  /\ IF registered[c] /\ memberIdx[c] > 0
     THEN DeactivateMember(memberIdx[c])
     ELSE UNCHANGED <<memberIdx, registered, modelVars, queueVars, solveVars>>
  /\ UNCHANGED lastSeen

\* DeactivateMember called for a component that stays in the world.
Deactivate(c) ==
  /\ c \in inWorld /\ registered[c]
  /\ DeactivateMember(memberIdx[c])
  /\ UNCHANGED <<inWorld, lastSeen>>

\* RegisterFixedSupport(p); it triggers no solve.
RegisterFixedSupport(p) ==
  /\ model' = AddSupport(model, p)
  /\ IF bSessionStarted
     THEN EndSession /\ Dropped
     ELSE UNCHANGED <<bSessionStarted, engine, pendingPatch, pendingRank>>
  /\ UNCHANGED <<compVars, indexToComponent, nextMemberIdx, timer, bNeedsRebaseline,
                 util, attempted, lastSeen>>

\* UArchSimGameInstance::Tick.
Tick ==
  LET count == Cardinality(DOMAIN indexToComponent) IN
  /\ count # lastSeen
  /\ RequestSolve(<<>>, model)
  /\ lastSeen' = count
  /\ UNCHANGED <<compVars, modelVars>>

\* The timer manager's frame; the last one fires ExecuteSolve.
TimerTick ==
  /\ timer > 0
  /\ timer' = timer - 1
  /\ IF timer = 1 THEN ExecuteSolve(pendingPatch, bNeedsRebaseline, model)
     ELSE UNCHANGED <<pendingPatch, pendingRank, solveVars>>
  /\ UNCHANGED <<compVars, modelVars, lastSeen>>

\* RequestSolve with an empty patch, from the scenario widget's buttons.
SolveButton ==
  /\ RequestSolve(<<>>, model)
  /\ UNCHANGED <<compVars, modelVars, lastSeen>>

\* Reset, from the persistence subsystem's ResetRegistry.
Reset ==
  /\ EndSession
  /\ timer' = 0
  /\ Unbind({indexToComponent[r] : r \in DOMAIN indexToComponent} \cap inWorld)
  /\ model' = EmptyModel
  /\ indexToComponent' = <<>>
  /\ nextMemberIdx' = 1
  /\ Dropped
  /\ bNeedsRebaseline' = FALSE
  /\ attempted' = 0
  /\ UNCHANGED <<inWorld, util, lastSeen>>

Building ==
  \/ \E c \in Comps : BeginPlay(c) \/ EndPlay(c)
  \/ \E p \in Supports : RegisterFixedSupport(p)

Next ==
  \/ Building
  \/ \E c \in Comps : Register(c) \/ Deactivate(c)
  \/ Tick \/ TimerTick \/ SolveButton \/ Reset

Spec == Init /\ [][Next]_vars

\* How the game drives it outside the persistence and scenario menus.  The
\* game instance and the timer manager run every frame; nobody is obliged to
\* build.
PlayNext == Building \/ Tick \/ TimerTick

-------------------------------------------------------------------------------
Queued == Listed(pendingPatch)

\* A component is registered exactly while it owns an active row, and it is
\* the one the registry's map names for that row, over any history of leaving
\* and re-entering the world.
RowsAndComponentsAgree ==
  /\ \A c \in Comps : registered[c] =>
       /\ memberIdx[c] \in ActiveRows(model)
       /\ indexToComponent[memberIdx[c]] = c
  /\ \A r \in ActiveRows(model) : memberIdx[indexToComponent[r]] = r
  /\ \A c \in Comps : memberIdx[c] > 0 <=> registered[c]

SameTopology(m, n) ==
  /\ m.nodes = n.nodes
  /\ Len(m.members) = Len(n.members)
  /\ \A r \in 1..Len(m.members) :
       m.members[r].i = n.members[r].i /\ m.members[r].j = n.members[r].j

\* A started session is a session of the current model, short of the queued
\* removals: every change of topology or fixity dropped it, and every removal
\* since is in the engine or in the queue, whatever failed in between.
SessionFresh ==
  bSessionStarted =>
    /\ SameTopology(engine.model, model)
    /\ ActiveRows(model) = engine.active \ Queued

\* RequestSolve counts what it queues, and the timer is set while anything is
\* queued: a removal is never left behind in the queue.
QueueIsScheduled ==
  /\ pendingRank = Len(pendingPatch)
  /\ pendingPatch # <<>> => timer > 0

\* Nodes are merged by position: no two are within the tolerance.
NodesDistinct ==
  \A m, n \in 1..Len(model.nodes) : m # n => ~Near(model.nodes[m].pos, model.nodes[n].pos)

\* A solve that repaints a registered component paints it from the row it owns
\* now, as a stressed member, also when earlier rows of the same component are
\* still in the model.
PaintsOwnRow ==
  [][\A c \in Comps : util'[c] # util[c] /\ registered'[c] =>
       util'[c] = [row |-> memberIdx'[c], stressed |-> TRUE]]_vars

\* The registry and its session seen through EngineView.
View == INSTANCE EngineView WITH
  active <- [r \in 1..Len(model.members) |-> model.members[r].active],
  seen   <- IF bSessionStarted THEN engine.active ELSE {0}
RefinesView == View!Spec

==============================================================================
