-------------------------- MODULE AssembleComponent --------------------------
(***************************************************************************)
(* AssembleModelComponent: keeps one engine session on the FrameSession     *)
(* upstream and pushes the frame that is wired to it.  SolveInstance runs   *)
(* on the UI thread, a step for each of its looks at fields the tasks it    *)
(* starts write without a lock, and stores a task in _assembling after that *)
(* has begun and may even be over; a task looks at its token and generation *)
(* in one step and writes in the next.  Frames that do not build stop       *)
(* before any of this and are left out.                                     *)
(***************************************************************************)
EXTENDS Naturals, Sequences

CONSTANTS
  Coordinates,     \* of nodes; 0 among them
  Frames,          \* what may be wired: [section, nodes, members]
  Upstreams,       \* bound: FrameSessions that come one after the other
  MaxAssembleGeneration,  \* bound: _assembleGeneration
  Null

Point == Coordinates \X Coordinates \X Coordinates
ASSUME AssembleAssumption ==
  /\ 0 \in Coordinates /\ Upstreams \in Nat /\ MaxAssembleGeneration \in Nat
  /\ \A f \in Frames :
       /\ DOMAIN f = {"section", "nodes", "members"} /\ f.nodes \in Seq(Point)
       /\ f.members \in Seq((DOMAIN f.nodes) \X (DOMAIN f.nodes))

VARIABLES
  frame,         \* the inputs
  upstream,      \* the FrameSession upstream
  deciding,      \* where SolveInstance is, or "away"
  cache,         \* _engineSessionId, _lastInputs, _error (of which frame), _cachedFs
  generation,    \* _assembleGeneration
  latest,        \* the generation whose token _cts still has, or 0
  assembling,    \* the generation of the task in _assembling, or 0
  overtaken,     \* those that were over when _assembling was set to them (for AssemblingEnds)
  assemblies,    \* by generation: [fs, frame, id, at]
  held,          \* the engine sessions, by id, and the frame each holds
  assembleExpires,
  handed         \* what the component shows: [as, id]

assembleVars == <<frame, upstream, deciding, cache, generation, latest, assembling,
                  overtaken, assemblies, held, assembleExpires, handed>>

\* Folding with ^: a value that occurs twice is gone, and the hash of 0.0 is 0.
Xor(A, B) == (A \cup B) \ (A \cap B)
PointHash(p) == Xor(Xor({p[1]}, {p[2]}), {p[3]}) \ {0}

\* ComputeFingerprint and the counts: what differs in it is taken to differ in 32 bits.
Fingerprint(f) ==
  <<f.section, [n \in DOMAIN f.nodes |-> PointHash(f.nodes[n])],
    [m \in DOMAIN f.members |->
       Xor(PointHash(f.nodes[f.members[m][1]]), PointHash(f.nodes[f.members[m][2]]))]>>

NoCache(fs) == [id |-> Null, last |-> Null, error |-> Null, fs |-> fs]
Shows(as) == [as |-> as, id |-> Null]

AssembleInit ==
  /\ frame \in Frames /\ upstream = 1 /\ deciding = "away"
  /\ cache = NoCache(0) /\ generation = 0 /\ latest = 0
  /\ assembling = 0 /\ overtaken = {}
  /\ assemblies = << >> /\ held = << >> /\ assembleExpires = 1 /\ handed = Shows("nothing")

\* SolveInstance, to the end of step 3: another FrameSession voids the cache.
Notice(f, fs, queued) ==
  /\ deciding = "away" /\ deciding' = "cached"
  /\ frame' = f /\ upstream' = fs /\ assembleExpires' = queued
  /\ IF cache.fs = fs THEN UNCHANGED <<cache, generation, latest, assembling>>
     ELSE /\ generation < MaxAssembleGeneration /\ generation' = generation + 1
          /\ cache' = NoCache(fs) /\ latest' = 0 /\ assembling' = 0
  /\ UNCHANGED <<overtaken, assemblies, held, handed>>

WireFrame(f) == f # frame /\ Notice(f, upstream, assembleExpires)
ReplaceUpstream == upstream < Upstreams /\ Notice(frame, upstream + 1, assembleExpires)
ExpireAssemble == assembleExpires > 0 /\ Notice(frame, upstream, assembleExpires - 1)

CacheHit ==
  /\ cache.id # Null /\ assembling = 0 /\ cache.error = Null
  /\ cache.last = Fingerprint(frame)

OnlyLooks == UNCHANGED <<frame, upstream, cache, held, assembleExpires, generation, latest,
                         assembling, overtaken, assemblies>>

\* Step 4.
Reuse ==
  /\ deciding = "cached" /\ OnlyLooks
  /\ \/ CacheHit /\ deciding' = "away" /\ handed' = [as |-> "session", id |-> cache.id]
     \/ ~CacheHit /\ deciding' = "refused" /\ UNCHANGED handed

\* Step 5.
Refused ==
  /\ deciding = "refused" /\ OnlyLooks
  /\ \/ cache.error # Null /\ deciding' = "away" /\ handed' = Shows("error")
     \/ cache.error = Null /\ deciding' = "start" /\ UNCHANGED handed

\* Step 6.  A task that begins takes the cached id, or opens a session first.
Start ==
  /\ deciding = "start" /\ assembling = 0 /\ deciding' = "assign"
  /\ generation < MaxAssembleGeneration /\ generation' = generation + 1
  /\ latest' = generation'
  /\ assemblies' = [g \in DOMAIN assemblies \cup {generation'} |->
       IF g # generation' THEN assemblies[g]
       ELSE [fs |-> upstream, frame |-> frame, id |-> cache.id,
             at |-> IF cache.id = Null THEN "opening" ELSE "setting"]]
  /\ UNCHANGED <<frame, upstream, cache, held, assembleExpires, assembling, overtaken, handed>>

\* The call has returned; the task in it may be over.
Assign ==
  /\ deciding = "assign" /\ deciding' = "away"
  /\ assembling' = generation /\ handed' = Shows("assembling")
  /\ overtaken' = overtaken \cup {g \in {generation} : assemblies[g].at = "over"}
  /\ UNCHANGED <<frame, upstream, cache, held, assembleExpires, generation, latest, assemblies>>

\* Steps 7 and 8: a task cleared since step 6 leaves what is cached, if anything.
UnderWayAlready ==
  /\ deciding = "start" /\ assembling # 0 /\ deciding' = "wait"
  /\ OnlyLooks /\ UNCHANGED handed
Wait ==
  /\ deciding = "wait" /\ deciding' = "away" /\ OnlyLooks
  /\ handed' = IF assembling # 0 THEN Shows("assembling")
               ELSE IF cache.id # Null THEN [as |-> "session", id |-> cache.id]
               ELSE handed

-------------------------------------------------------------------------------
(* AssembleAsync, for generation g. *)

At(g, place) == g \in DOMAIN assemblies /\ assemblies[g].at = place
\* What a task had at hand goes with it.
AssemblyOver == [fs |-> 0, frame |-> Null, id |-> Null, at |-> "over"]
AssembleGoto(g, place) ==
  assemblies' =
    [assemblies EXCEPT ![g] = IF place = "over" THEN AssemblyOver ELSE [@ EXCEPT !.at = place]]
Elsewhere == UNCHANGED <<frame, upstream, deciding, generation, latest, overtaken, handed>>

OpenSession(g) ==
  /\ At(g, "opening")
  /\ LET id == <<assemblies[g].fs, g>> IN
       /\ held' = [i \in DOMAIN held \cup {id} |-> IF i = id THEN Null ELSE held[i]]
       /\ assemblies' = [assemblies EXCEPT ![g] =
            [fs |-> @.fs, frame |-> @.frame, id |-> id, at |-> "setting"]]
  /\ UNCHANGED <<cache, assembling, assembleExpires>> /\ Elsewhere

\* model.set; an id of another FrameSession is not known there.
SetModel(g) ==
  /\ At(g, "setting") /\ assemblies[g].id[1] = assemblies[g].fs
  /\ held' = [held EXCEPT ![assemblies[g].id] = assemblies[g].frame]
  /\ AssembleGoto(g, "set")
  /\ UNCHANGED <<cache, assembling, assembleExpires>> /\ Elsewhere

\* Either call may be refused or fail; or be called off, of which nothing is recorded.
CallFails(g) ==
  /\ At(g, "opening") \/ At(g, "setting")
  /\ \E place \in {"failed", "finally"} : AssembleGoto(g, place)
  /\ UNCHANGED <<cache, assembling, held, assembleExpires>> /\ Elsewhere

Stale(g) == latest # g \/ generation # g
StaleSession(g) == Stale(g) \/ cache.fs # assemblies[g].fs

\* The look at token and generation before anything is written.
LookAssemble(g) ==
  /\ \/ At(g, "set") /\ AssembleGoto(g, IF StaleSession(g) THEN "finally" ELSE "commit")
     \/ At(g, "failed") /\ AssembleGoto(g, IF Stale(g) THEN "finally" ELSE "refuse")
  /\ UNCHANGED <<cache, assembling, held, assembleExpires>> /\ Elsewhere

CommitModel(g) ==
  /\ At(g, "commit") /\ AssembleGoto(g, "finally")
  /\ cache' = [cache EXCEPT !.id = assemblies[g].id, !.error = Null,
                            !.last = Fingerprint(assemblies[g].frame)]
  /\ UNCHANGED <<assembling, held, assembleExpires>> /\ Elsewhere

RecordError(g) ==
  /\ At(g, "refuse") /\ AssembleGoto(g, "finally")
  /\ cache' = [cache EXCEPT !.error = assemblies[g].frame]
  /\ UNCHANGED <<assembling, held, assembleExpires>> /\ Elsewhere

\* The finally: the last generation clears _assembling and expires the component.
AssembleFinally(g) ==
  /\ At(g, "finally") /\ AssembleGoto(g, IF generation = g THEN "clear" ELSE "over")
  /\ UNCHANGED <<cache, assembling, held, assembleExpires>> /\ Elsewhere

\* Seeded fault of Clear: the component is not expired.
ClearQuietly(g) ==
  /\ At(g, "clear") /\ AssembleGoto(g, "over")
  /\ assembling' = 0
  /\ UNCHANGED <<cache, held, assembleExpires>> /\ Elsewhere

Clear(g) ==
  /\ At(g, "clear") /\ AssembleGoto(g, "over")
  /\ assembling' = 0 /\ assembleExpires' = assembleExpires + 1
  /\ UNCHANGED <<cache, held>> /\ Elsewhere

AssembleNext ==
  \/ \E f \in Frames : WireFrame(f)
  \/ ReplaceUpstream \/ ExpireAssemble
  \/ Reuse \/ Refused \/ Start \/ Assign \/ UnderWayAlready \/ Wait
  \/ \E g \in DOMAIN assemblies :
       \/ OpenSession(g) \/ SetModel(g) \/ CallFails(g) \/ LookAssemble(g)
       \/ CommitModel(g) \/ RecordError(g) \/ AssembleFinally(g) \/ Clear(g)

AssembleSpec == AssembleInit /\ [][AssembleNext]_assembleVars
-------------------------------------------------------------------------------
\* Nothing is under way that would solve the component again.
Settled ==
  deciding = "away" /\ assembleExpires = 0 /\ \A g \in DOMAIN assemblies : At(g, "over")

\* "Fold every numeric field into the hash": at rest an engine session of the
\* FrameSession upstream that is handed on holds the frame that is wired.
HandsOnItsFrame ==
  Settled /\ handed.as = "session" /\ handed.id[1] = upstream => held[handed.id] = frame

\* At rest the component does not say it is assembling, whatever overtook what, unless it
\* waits for a task that was over before the call that began it returned
\* (AssembleModelComponent.cs:176 sets _assembling after line 241 has cleared it).
AssemblingEnds == Settled /\ handed.as = "assembling" => assembling \in overtaken
==============================================================================
