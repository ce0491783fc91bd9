---------------------------- MODULE Persistence ----------------------------
(***************************************************************************)
(* UArchSimPersistenceSubsystem over the registry: a snapshot of the frame  *)
(* is taken into the subsystem's SaveGame arrays (the sidecar), SPUD writes *)
(* them to a slot and reads them back, and after the level has been loaded  *)
(* again the frame is rebuilt from them by registering its members anew.    *)
(*                                                                         *)
(* SPUD is external: it saves and loads over several frames and meanwhile   *)
(* is not idle.  The libraries are left out: RestoreLibraries puts them     *)
(* back whole, on a model that Reset has just emptied.  Members are spawned *)
(* while the game runs, the level has none of its own.                      *)
(***************************************************************************)
EXTENDS ModelRegistry, SaveSlots, SequencesExt

CONSTANTS
  ShellCorners,   \* the positions of the shell that may be injected
  MaxExtras,      \* bound on what is attached to a frame
  MaxCalls,       \* bound on the calls of SaveToSlot and LoadFromSlot
  OldSlots,       \* slots that may hold an archive of format v1
  OldComps        \* the members in it, whose supports are Supports

PersistenceAssumption ==
  /\ Slots # {} /\ OldSlots \subseteq Slots
  /\ ShellCorners \in Seq(Int) /\ MaxExtras \in Nat /\ MaxCalls \in Nat
  /\ OldComps \in Seq(Comps) /\ IsFiniteSet(Supports)

VARIABLES
  extras,    \* the rest of CurrentModel: loads, UDLs, shells, members' flags
  sidecar,   \* the subsystem's SaveGame arrays
  spud,      \* what SPUD is doing
  target,    \* the slot it is doing it with
  calls,     \* how often it was asked to
  asked      \* history: the frame a running save was asked for

store == <<sidecar, disk, spud, target, calls, asked, saved, rebuilt>>
allVars == <<vars, extras, store>>

NoExtras == [loads |-> <<>>, udls |-> <<>>, shells |-> <<>>, flagged |-> {}]

\* The subsystem's arrays as they are constructed.
Blank == [version |-> 0, records |-> <<>>, supports |-> <<>>,
          loads |-> <<>>, udls |-> <<>>, shells |-> <<>>, fixities |-> <<>>]

-------------------------------------------------------------------------------
(* What a frame is, whatever the numbers of its nodes. *)

Ends(m) == (1..Len(m.members)) \X {"i", "j"}
NodeOf(m, e) == m.members[e[1]][e[2]]
EndsAt(m, n) == {e \in Ends(m) : NodeOf(m, e) = n}

\* Which of the first n numbers are in S, as a loop over an array meets them.
InOrder(n, S) == FoldLeft(LAMBDA met, k : IF k \in S THEN Append(met, k) ELSE met,
                          <<>>, [k \in 1..n |-> k])

\* The entries of s whose numbers are in S.
Picked(s, S) ==
  LET met == InOrder(Len(s), S)
  IN [k \in DOMAIN met |-> s[met[k]]]

\* Which ends of members meet, which are held, what they carry.
Shape(m, x) ==
  [active  |-> [r \in 1..Len(m.members) |-> m.members[r].active],
   joints  |-> {EndsAt(m, n) : n \in 1..Len(m.nodes)} \ {{}},
   held    |-> UNION {EndsAt(m, n) : n \in {k \in 1..Len(m.nodes) : m.nodes[k].fixed}},
   loaded  |-> Picked([k \in DOMAIN x.loads |-> EndsAt(m, x.loads[k])],
                      {k \in DOMAIN x.loads : EndsAt(m, x.loads[k]) # {}}),
   shells  |-> [k \in DOMAIN x.shells |->
                  [c \in DOMAIN x.shells[k] |-> EndsAt(m, x.shells[k][c])]],
   udls    |-> x.udls,
   flagged |-> x.flagged]

NoFrame == [shape |-> Shape(EmptyModel, NoExtras), separate |-> TRUE]

\* Being within the tolerance is transitive among the positions P.
Separate(P) == \A p, q, r \in P : Near(p, q) /\ Near(q, r) => Near(p, r)

\* The positions of the nodes of m and of the ends that its components came with.
Positions(m) ==
  {m.nodes[n].pos : n \in 1..Len(m.nodes)}
    \cup UNION {{EndI[indexToComponent[r]], EndJ[indexToComponent[r]]} :
                  r \in DOMAIN indexToComponent}

-------------------------------------------------------------------------------
(* SnapshotCurrentModel. *)

\* The components that the walk over the world finds for a row.
FoundFor(r) == {c \in inWorld : memberIdx[c] = r}

\* A row that is off is recorded by its nodes, an active one by its actor, if
\* there is one.
Record(r) ==
  IF model.members[r].active
  THEN LET c == CHOOSE c \in FoundFor(r) : TRUE
       IN [i |-> EndI[c], j |-> EndJ[c], active |-> TRUE, flagged |-> r \in extras.flagged]
  ELSE [i |-> model.nodes[model.members[r].i].pos, j |-> model.nodes[model.members[r].j].pos,
        active |-> FALSE, flagged |-> r \in extras.flagged]

PositionOf(n) == model.nodes[n].pos

Snapshot ==
  LET rows == InOrder(Len(model.members), {r \in 1..Len(model.members) :
                                             model.members[r].active => FoundFor(r) # {}})
      fixed == InOrder(Len(model.nodes), {n \in 1..Len(model.nodes) : model.nodes[n].fixed})
  IN [version  |-> 2,
      records  |-> [k \in DOMAIN rows |-> Record(rows[k])],
      supports |-> <<>>,
      loads    |-> [k \in DOMAIN extras.loads |-> PositionOf(extras.loads[k])],
      udls     |-> extras.udls,
      shells   |-> [k \in DOMAIN extras.shells |->
                      [c \in DOMAIN extras.shells[k] |-> PositionOf(extras.shells[k][c])]],
      fixities |-> [k \in DOMAIN fixed |-> PositionOf(fixed[k])]]

Captured(archive) == Cardinality({k \in DOMAIN archive.records : archive.records[k].active})
Registered == Cardinality(DOMAIN indexToComponent)

\* Seeded fault of Partial: whatever the snapshot has is saved.
PartialNever(archive) == FALSE

\* The guard against overwriting a good slot with a part of the frame.
Partial(archive) == Captured(archive) < Registered

Empty(archive) == archive.records = <<>> /\ archive.supports = <<>> /\ archive.fixities = <<>>

\* A refused save has taken its snapshot all the same.
SaveToSlot(s, allowEmpty) ==
  /\ spud = "idle" /\ calls < MaxCalls
  /\ calls' = calls + 1
  /\ sidecar' = Snapshot
  /\ IF Partial(Snapshot) \/ (Empty(Snapshot) /\ disk[s] # NoArchive /\ ~allowEmpty)
     THEN UNCHANGED <<spud, target, asked>>
     ELSE /\ spud' = "saving" /\ target' = s
          /\ asked' = [shape |-> Shape(model, extras), separate |-> Separate(Positions(model))]
  /\ UNCHANGED <<vars, extras, disk, saved, rebuilt>>

\* SPUD writes the subsystem's arrays, or fails.
FinishSaveGame ==
  /\ spud = "saving"
  /\ spud' = "idle" /\ asked' = NoFrame
  /\ \/ /\ disk' = [disk EXCEPT ![target] = sidecar]
        /\ saved' = [saved EXCEPT ![target] = asked]
     \/ UNCHANGED <<disk, saved>>
  /\ UNCHANGED <<vars, extras, sidecar, target, calls, rebuilt>>

-------------------------------------------------------------------------------
(* Loading and the replay. *)

LoadFromSlot(s) ==
  /\ spud = "idle" /\ calls < MaxCalls /\ disk[s] # NoArchive
  /\ calls' = calls + 1
  /\ spud' = "restoring" /\ target' = s
  /\ UNCHANGED <<vars, extras, sidecar, disk, asked, saved, rebuilt>>

\* SPUD writes the properties that the archive has; an archive of format v1 has
\* the first two arrays, and the rest stays as it is in the subsystem.
RestoreGlobals ==
  /\ spud = "restoring"
  /\ spud' = "travelling"
  /\ sidecar' = IF disk[target].version = 2 THEN disk[target]
                ELSE [sidecar EXCEPT !.records = disk[target].records,
                                     !.supports = disk[target].supports]
  /\ UNCHANGED <<vars, extras, disk, target, calls, asked, saved, rebuilt>>

NodesNear(m, places) == Picked(places, {k \in DOMAIN places : Hits(m.nodes, places[k]) # {}})

ReplayMembers(m, records) == FoldLeft(LAMBDA acc, rec : AddMember(acc, rec.i, rec.j), m, records)
ReplaySupports(m, places) == FoldLeft(AddSupport, m, places)

\* Loads go to the nodes there are when they are replayed.
ReplayNodalLoads(m, places) ==
  LET near == NodesNear(m, places) IN [k \in DOMAIN near |-> NodeAt(m.nodes, near[k])]

\* The corners of shells are nodes of their own if need be.
AddCorners(m, corners) == [m EXCEPT !.nodes = FoldLeft(FindOrAddNode, @, corners)]
ReplayShells(m, shells) == FoldLeft(AddCorners, m, shells)

\* Fixities go to nodes that are there; they add none.
ReplayNodeFixities(m, places) == FoldLeft(AddSupport, m, NodesNear(m, places))

\* Seeded fault of ReplayModel: fixities before the members whose nodes they need.
ReplayModelFixitiesFirst(archive) ==
  ReplayShells(ReplayMembers(ReplayNodeFixities(EmptyModel, archive.fixities), archive.records),
               archive.shells)

\* A UDL goes to the member that its record became; an archive of format v1 can
\* leave UDLs behind that have none.
ReplayUDLs(udls, rows) == Picked(udls, {k \in DOMAIN udls : udls[k] \in rows})

\* The model that ReplayLoadedSidecar rebuilds: supports first in format v1; in v2
\* members, shells, fixities.
ReplayModel(archive) ==
  IF archive.version = 2
  THEN ReplayNodeFixities(ReplayShells(ReplayMembers(EmptyModel, archive.records), archive.shells),
                          archive.fixities)
  ELSE ReplayMembers(ReplaySupports(EmptyModel, archive.supports), archive.records)

\* Flags go to members as they are registered, loads after them, before the shells.
ReplayExtras(archive) ==
  LET rows == 1..Len(archive.records)
      final == ReplayModel(archive).nodes
  IN IF archive.version = 2
     THEN [loads   |-> ReplayNodalLoads(ReplayMembers(EmptyModel, archive.records), archive.loads),
           udls    |-> ReplayUDLs(archive.udls, rows),
           shells  |-> [k \in DOMAIN archive.shells |->
                          [c \in DOMAIN archive.shells[k] |-> NodeAt(final, archive.shells[k][c])]],
           flagged |-> {r \in rows : archive.records[r].flagged}]
     ELSE NoExtras

\* The spawned actor of a record, which begins to play and registers itself; each
\* is a new one, named like the one it was recorded from.
Actors(archive) ==
  [r \in DOMAIN archive.records |->
     CHOOSE c \in Comps : EndI[c] = archive.records[r].i /\ EndJ[c] = archive.records[r].j]
RowOf(c, actors) == CHOOSE r \in DOMAIN actors : actors[r] = c

\* RequestSolve with an empty patch on the queue that Reset left.
SolveRequested == timer' = DebounceTicks

\* ReplayLoadedSidecar in the empty level: Reset, then the rebuilt model with its
\* components, and one solve requested.  No archive has a row that is off, so
\* DeactivateMember is never called here (ArchivesAreWhole).
ReplayLoadedSidecar ==
  LET actors == Actors(sidecar)
      S == {actors[r] : r \in DOMAIN actors}
  IN /\ EndSession
     /\ model' = ReplayModel(sidecar)
     /\ extras' = ReplayExtras(sidecar)
     /\ indexToComponent' = actors
     /\ nextMemberIdx' = Len(actors) + 1
     /\ inWorld' = S
     /\ registered' = [c \in Comps |-> c \in S]
     /\ memberIdx' = [c \in Comps |-> IF c \in S THEN RowOf(c, actors) ELSE 0]
     /\ util' = [c \in Comps |-> IF c \in S THEN Unpainted ELSE util[c]]
     /\ Dropped /\ bNeedsRebaseline' = FALSE /\ attempted' = 0
     /\ SolveRequested
     /\ UNCHANGED lastSeen

\* OnPostLoadGame, after the level's actors are gone.
PostLoadGame ==
  /\ spud = "travelling" /\ inWorld = {}
  /\ spud' = "idle"
  /\ ReplayLoadedSidecar
  /\ rebuilt' = [kept |-> saved[target], whole |-> sidecar = disk[target],
               shape |-> Shape(model', extras')]
  /\ UNCHANGED <<sidecar, disk, target, calls, asked, saved>>

\* A load that fails, at any point, replays nothing.
LoadFails ==
  /\ spud \in {"restoring", "travelling"}
  /\ spud' = "idle"
  /\ UNCHANGED <<vars, extras, sidecar, disk, target, calls, asked, saved, rebuilt>>

-------------------------------------------------------------------------------
(* The game meanwhile. *)

\* The game instance ticks in every frame, and the debounce takes several: by the
\* time the timer fires, Tick has looked.
GameTick == Tick /\ UNCHANGED <<extras, store>>
DebounceTick == TimerTick /\ Registered = lastSeen /\ UNCHANGED <<extras, store>>

\* The player builds, but not between a replay that shrinks the registry and the
\* Tick of that frame; once the level is left its actors end play, none begins.
Build ==
  /\ \/ spud # "travelling" /\ Registered >= lastSeen /\ Building
     \/ \E c \in Comps : EndPlay(c)
  /\ UNCHANGED <<extras, store>>

Attached == Len(extras.loads) + Len(extras.udls) + Len(extras.shells) + Cardinality(extras.flagged)

\* The registry's API for loads, UDLs, shells and flags; none of it ends a session
\* or asks for a solve, so it is for a model that no session has copied.
Inject ==
  /\ spud = "idle" /\ Attached < MaxExtras /\ ~bSessionStarted
  /\ \/ /\ \E n \in 1..Len(model.nodes) : extras' = [extras EXCEPT !.loads = Append(@, n)]
        /\ UNCHANGED vars
     \/ /\ \E r \in 1..Len(model.members) :
             extras' \in {[extras EXCEPT !.udls = Append(@, r)],
                          [extras EXCEPT !.flagged = @ \cup {r}]}
        /\ UNCHANGED vars
     \/ /\ model' = AddCorners(model, ShellCorners)
        /\ extras' = [extras EXCEPT !.shells =
             Append(@, [c \in DOMAIN ShellCorners |-> NodeAt(model'.nodes, ShellCorners[c])])]
        /\ UNCHANGED <<compVars, indexToComponent, nextMemberIdx, queueVars, solveVars, lastSeen>>
  /\ UNCHANGED store

\* An archive that the first format's game wrote, and its frame.
OldArchive ==
  [Blank EXCEPT
     !.records  = [k \in DOMAIN OldComps |->
                     [i |-> EndI[OldComps[k]], j |-> EndJ[OldComps[k]],
                      active |-> TRUE, flagged |-> FALSE]],
     !.supports = SetToSeq(Supports)]
OldFrame ==
  LET members == ReplayMembers(EmptyModel, OldArchive.records)
      P == Supports \cup UNION {{rec.i, rec.j} : rec \in Range(OldArchive.records)}
  IN [shape    |-> Shape(ReplaySupports(members, OldArchive.supports), NoExtras),
      separate |-> Separate(P)]

PersistInit ==
  /\ Init /\ extras = NoExtras /\ sidecar = Blank
  /\ \E old \in SUBSET OldSlots :
       /\ disk = [s \in Slots |-> IF s \in old THEN OldArchive ELSE NoArchive]
       /\ saved = [s \in Slots |-> IF s \in old THEN OldFrame ELSE NoFrame]
  /\ spud = "idle" /\ target \in Slots /\ calls = 0 /\ asked = NoFrame
  /\ rebuilt = [kept |-> NoFrame, whole |-> TRUE, shape |-> NoFrame.shape]

PersistNext ==
  \/ \E s \in Slots : LoadFromSlot(s) \/ \E allowEmpty \in BOOLEAN : SaveToSlot(s, allowEmpty)
  \/ FinishSaveGame \/ RestoreGlobals \/ PostLoadGame \/ LoadFails
  \/ Build \/ Inject \/ GameTick \/ DebounceTick

PersistSpec == PersistInit /\ [][PersistNext]_allVars
-------------------------------------------------------------------------------
Rec == [i : Int, j : Int, active : BOOLEAN, flagged : BOOLEAN]
Archive == [version : {0, 2}, records : Seq(Rec), supports : Seq(Int), loads : Seq(Int),
            udls : Seq(Nat), shells : Seq(Seq(Int)), fixities : Seq(Int)]

\* What is attached hangs on nodes and rows that exist.
PersistTypeOK ==
  /\ TypeOK
  /\ extras.loads \in Seq(1..Len(model.nodes))
  /\ extras.shells \in Seq(Seq(1..Len(model.nodes)))
  /\ extras.udls \in Seq(1..Len(model.members))
  /\ extras.flagged \subseteq 1..Len(model.members)
  /\ sidecar \in Archive
  /\ \A s \in Slots : disk[s] = NoArchive \/ disk[s] \in Archive
  /\ spud \in {"idle", "saving", "restoring", "travelling"} /\ target \in Slots
  /\ calls \in 0..MaxCalls

\* A save of a frame whose active members all have their actors is not refused as
\* partial.
OnlyPartialIsRefused ==
  Partial(Snapshot) => \E r \in ActiveRows(model) : FoundFor(r) = {}
==============================================================================
