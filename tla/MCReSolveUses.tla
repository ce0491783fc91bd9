---------------------------- MODULE MCReSolveUses ----------------------------
(***************************************************************************)
(* The ways the engine reuses a factor.  A reanalysis session is used by    *)
(* the interactive subsystem, which switches elements both ways and allows  *)
(* conjugate gradients, and by the game's registry and the tension-only     *)
(* fallback, which only switch elements off ("removal"; its tiers stop      *)
(* below conjugate gradients).  A caller of the library solves loads on one *)
(* prepared system ("load"), and the bridge keeps prepared systems for its  *)
(* clients ("engine").  The factor itself may be made by a pool of threads  *)
(* ("pool").  runBESO trims a frame on a session ("topology").  A behavior   *)
(* is of one use; the others stand still.                                   *)
(***************************************************************************)
EXTENDS ReSolveSession, LoadSolver, EngineSessions, Topology, SnFactor

CONSTANTS column, beam1, beam2, strut, looseBar

\* A column, two parallel beams and a strut between supports: the frame stands while the
\* column and one of the beams are there.  The strut has no free degree of freedom; the
\* loose bar has end releases that leave a singular sub-block, so it never prepares.
MCElements == {column, beam1, beam2, strut, looseBar}
MCRankOf == [e \in MCElements |-> CASE e = strut -> 0 [] e = column -> 2 [] OTHER -> 1]
MCUnpreparable == {looseBar}
MCMechanisms == {A \in SUBSET MCElements : column \notin A \/ {beam1, beam2} \cap A = {}}

\* The frame's nodes: the two supports and the head of the column.
MCNodes == {"base", "wall", "head"}
MCNodesOf ==
  [e \in MCElements |->
     CASE e = column -> {"base", "head"}
       [] e = strut -> {"base", "wall"}
       [] OTHER -> {"head", "wall"}]
MCDesigns == {MCElements, {column, beam1}}
MCVolume == [e \in MCElements |-> IF e \in {column, strut} THEN 2 ELSE 1]

\* Bodies of model.set: one load; a structure that stands, a mechanism without capacities,
\* and a body that does not validate.
MCModel(k) == [stiffness |-> k, baked |-> 0, nodal |-> 0, prescribed |-> 0]
MCBodies ==
  {[model |-> MCModel("sound"), valid |-> TRUE, caps |-> TRUE],
   [model |-> MCModel("mechanism"), valid |-> TRUE, caps |-> FALSE],
   [model |-> MCModel("sound"), valid |-> FALSE, caps |-> TRUE]}

VARIABLE use   \* "any", "removal", "load", "engine", "pool" or "topology"

\* Five columns: a path, a star, a ring, two triangles with a common corner, two pairs
\* and a single; eliminated in each of the 120 orders.
MCMatrices ==
  {{{0, 1}, {1, 2}, {2, 3}, {3, 4}}, {{0, 1}, {0, 2}, {0, 3}, {0, 4}},
   {{0, 1}, {1, 2}, {2, 3}, {3, 4}, {4, 0}},
   {{0, 1}, {1, 2}, {0, 2}, {2, 3}, {3, 4}, {2, 4}}, {{0, 1}, {2, 3}}}
MCOrders == {p \in [Cols -> Cols] : \A a, b \in Cols : a # b => p[a] # p[b]}

\* A pool that has nothing to factor.
NoPool ==
  /\ S = [entries |-> {}, cols |-> <<>>, rows |-> <<>>, updaters |-> <<>>, levels |-> <<>>]
  /\ nt = 0 /\ panel = <<>> /\ spdOk = TRUE /\ main = "levels" /\ lv = 0
  /\ generation = 0 /\ doneCount = 0 /\ workIdx = 0 /\ stop = FALSE /\ worker = <<>>

UsesInit ==
  /\ use \in {"any", "removal", "load", "engine", "pool", "topology"}
  /\ Init /\ LoadInit /\ EngineInit
  /\ use # "load" => model = [stiffness |-> "sound", baked |-> 0, nodal |-> 0, prescribed |-> 0]
  /\ use \in {"any", "removal"} \/ session.base = Elements \ Unpreparable
  /\ BesoInit
  /\ use # "topology" => given = {} /\ design = {} /\ every = 0
  /\ IF use = "pool" THEN FactorInit ELSE NoPool

UsesNext ==
  /\ UNCHANGED use
  /\ \/ use = "any" /\ Next /\ UNCHANGED <<loadVars, engineVars, snVars, besoVars>>
     \/ /\ use = "removal" /\ RemovalNext /\ tier' # 2
        /\ UNCHANGED <<loadVars, engineVars, snVars, besoVars>>
     \/ use = "load" /\ LoadNext /\ UNCHANGED <<vars, engineVars, snVars, besoVars>>
     \/ use = "engine" /\ EngineNext /\ UNCHANGED <<vars, loadVars, snVars, besoVars>>
     \/ use = "pool" /\ FactorNext /\ UNCHANGED <<vars, loadVars, engineVars, besoVars>>
     \/ use = "topology" /\ BesoNext /\ UNCHANGED <<vars, loadVars, engineVars, snVars>>
     \* The pool ends when it has factored, as FactorReturns says, and runBESO returns.
     \/ use = "pool" /\ UNCHANGED <<vars, loadVars, engineVars, snVars, besoVars>>
     \/ use = "topology" /\ phase = "done"
        /\ UNCHANGED <<vars, loadVars, engineVars, snVars, besoVars>>

allVars == <<vars, use, loadVars, engineVars, snVars, besoVars>>

UsesFair ==
  /\ WF_allVars(use = "pool" /\ MainStep /\ UNCHANGED <<vars, use, loadVars, engineVars, besoVars>>)
  /\ \A w \in 1..3 :
       WF_allVars(/\ use = "pool" /\ w \in DOMAIN worker /\ WorkerStep(w)
                  /\ UNCHANGED <<vars, use, loadVars, engineVars, besoVars>>)

UsesSpec == UsesInit /\ [][UsesNext]_allVars /\ UsesFair

-------------------------------------------------------------------------------
\* Reanalysis.h, "solve() for the CURRENT active set": a session that only loses
\* elements answers as a fresh factorization of its current set would.
Removal == INSTANCE FreshSolve WITH
  active  <- IF use = "removal" THEN session.active ELSE Elements \ Unpreparable,
  verdict <- IF use = "removal" THEN verdict ELSE "none"
RemovalsRefineFresh == Removal!Spec

\* factorizeSuperParallel: no wake-up between main and its workers is lost.
PoolReturns == use = "pool" => FactorReturns
==============================================================================
