------------------------------ MODULE MCGames ------------------------------
(***************************************************************************)
(* The two playable sides of the repository, in parts that share nothing    *)
(* here; the initial state chooses one:                                     *)
(*   "session"    the interactive session that applies the building game's  *)
(*                patches, on the frame of MCInteractive;                   *)
(*   "queue"      the debounce queue that merges them, with requests that   *)
(*                toggle at most one member each way and touch one node;    *)
(*   "saving"     saving and loading the building game, on the frame of     *)
(*                MCPersistence;                                            *)
(*   "levelling"  a levelling exercise.                                     *)
(*                                                                         *)
(* The levelling routes go up from the bench mark, one of them back to it   *)
(* with sights of unequal length.  Of the three setups one is out of the    *)
(* compensator's range and one sees 3 mm higher than the others.            *)
(***************************************************************************)
EXTENDS MCInteractive, PatchQueue, LevelSim, SaveSlots

CONSTANTS tilted, low, high

VARIABLE game
VARIABLES inWorld, memberIdx, registered, util, model, indexToComponent, nextMemberIdx,
          removals, removalRank, timer, bSessionStarted, bNeedsRebaseline, gameEngine,
          lastSeen, attempted, extras, sidecar, spud, target, calls, wanted

saveVars == <<inWorld, memberIdx, registered, util, model, indexToComponent, nextMemberIdx,
              removals, removalRank, timer, bSessionStarted, bNeedsRebaseline, gameEngine,
              lastSeen, attempted, extras, sidecar, disk, spud, target, calls, wanted, saved, rebuilt>>

MCToggled == {beam1, beam2}
MCRequests ==
  LET None1 == {<<>>}
      One   == {<<e>> : e \in MCToggled}
  IN [off : None1 \cup One, on : None1 \cup One, reset : {FALSE}, set : {NoLoads}, add : {NoLoads}]
       \cup [off : None1, on : None1, reset : BOOLEAN,
               set : {NoLoads, OneLoad(tip)}, add : {NoLoads, OneLoad(tip)}]

Saves == INSTANCE MCPersistence WITH
  column <- "column", beam <- "beam", Comps <- {"column", "beam"},
  EndI <- [c \in {"column", "beam"} |-> IF c = "column" THEN 0 ELSE 11],
  EndJ <- [c \in {"column", "beam"} |-> IF c = "column" THEN 10 ELSE 20],
  NonFinite <- {}, Supports <- {0}, MergeTol <- 2, MaxRank <- 0, DebounceTicks <- 1,
  MaxRows <- 2, AllocMayFail <- FALSE, OldSlots <- Slots,
  OldComps <- <<"column">>, ShellCorners <- <<10, 12>>, MaxExtras <- 1, MaxCalls <- 2,
  pendingPatch <- removals, pendingRank <- removalRank, engine <- gameEngine, asked <- wanted

ASSUME Saves!MergeTolAssumption /\ Saves!RegistryAssumption /\ Saves!PersistenceAssumption

\* The unit is a hundredth of a millimetre: ten seconds of collimation rise it by five a metre.
Point(px, pz) == [x |-> px, z |-> pz]
MCRoutes == {<<Point(10, 0), Point(6, 400)>>,
             <<Point(10, 0), Point(6, 400), Point(10, 0)>>}
MCOptics == [s \in {tilted, low, high} |-> IF s = high THEN 1800 ELSE 1500]
MCRise == [s \in {tilted, low, high} |-> IF s = high THEN 4 ELSE 5]
MCReadable == {low, high}
MCSlips == {0, 50, 200}

\* What does not run keeps one of its initial states.
GamesInit ==
  /\ game \in {"session", "queue", "saving", "levelling"}
  /\ Init /\ QueueInit /\ Saves!PersistInit
  /\ game # "queue" => activeMembers = {}
  /\ game # "saving" => disk = [s \in Slots |-> NoArchive]
  /\ IF game = "levelling" THEN LevelInit
     ELSE Start(<<Point(10, 0), Point(6, 400)>>) /\ screws = low /\ smoke = -1

GamesNext ==
  /\ UNCHANGED game
  /\ \/ game = "session" /\ Next /\ UNCHANGED <<queueVars, saveVars, levelVars>>
     \/ game = "queue" /\ QueueNext /\ UNCHANGED <<vars, saveVars, levelVars>>
     \/ game = "saving" /\ Saves!PersistNext /\ UNCHANGED <<vars, queueVars, levelVars>>
     \/ game = "levelling" /\ LevelNext /\ UNCHANGED <<vars, queueVars, saveVars>>

GamesSpec == GamesInit /\ [][GamesNext]_<<game, vars, queueVars, saveVars, levelVars>>
==============================================================================
