------------------------------ MODULE SnFactor ------------------------------
(***************************************************************************)
(* factorizeSuperParallel: the panels of a level are shared out among the   *)
(* workers of a pool, or factored by the main thread when they are few.     *)
(* The workers sleep on cvStart between levels, main on cvDone during one.  *)
(*                                                                         *)
(* Whatever a thread does between taking mu and leaving or waiting is one   *)
(* step, and so is fetch_add.  Factoring a panel is two: in between it reads *)
(* the panels that update it.  Whether the pivots of a panel are positive   *)
(* is arithmetic, and left open.                                            *)
(***************************************************************************)
EXTENDS SnSymbolic

CONSTANTS
  Matrices,   \* the entries of the matrices that are factored, each before ordering
  Orders,     \* the orders METIS may find: bijections of Cols, old to new
  Relaxes,    \* amalgRelax
  Threads     \* what recommendedThreads may return

ASSUME SnFactorAssumption == Threads \subseteq Nat

VARIABLES
  S,          \* the SnSuper of the matrix in elimination order, without its values
  nt,         \* workers
  panel,      \* per supernode: "raw", "busy" or "factored"
  spdOk,
  main,       \* "levels", "alone" on a panel, "asleep" on cvDone, "awake", "join", "returned"
  lv,         \* the level main has come to
  generation, doneCount, workIdx, stop,
  worker      \* per worker: [at |-> where it is, seen |-> generation, J |-> its panel]

snVars == <<S, nt, panel, spdOk, main, lv, generation, doneCount, workIdx, stop, worker>>

Widest(super) == Max({Len(super.levels[l]) : l \in DOMAIN super.levels})

Workers == 1 .. nt
At(w, place) == worker[w].at = place
Move(w, place) == worker' = [worker EXCEPT ![w].at = place]

\* Seeded fault: notify_one.
NotifyOne ==
  LET sleepers == {w \in Workers : At(w, "asleep")}
  IN  [w \in Workers |-> IF w \in sleepers /\ \A o \in sleepers : w <= o
                         THEN [worker[w] EXCEPT !.at = "check"] ELSE worker[w]]

\* notify_all on cvStart.
NotifyAll == [w \in Workers |-> IF At(w, "asleep") THEN [worker[w] EXCEPT !.at = "check"]
                                                   ELSE worker[w]]

FactorInit ==
  /\ S \in {Super(Permuted(m, p), relax) : m \in Matrices, p \in Orders, relax \in Relaxes}
  /\ \E t \in Threads : nt = IF t <= Widest(S) THEN t ELSE Widest(S)
  /\ panel = [J \in DOMAIN S.cols |-> "raw"] /\ spdOk = TRUE
  /\ main = "levels" /\ lv = 1
  /\ generation = 0 /\ doneCount = 0 /\ workIdx = 0 /\ stop = FALSE
  \* One worker is none: main factors everything itself.
  /\ worker = [w \in IF nt <= 1 THEN {} ELSE Workers |-> [at |-> "check", seen |-> 0, J |-> -1]]

\* Without workers all panels are one narrow level, in their order.
LevelSets == IF nt <= 1 THEN <<Ascending(DOMAIN S.cols)>> ELSE S.levels
Level == LevelSets[lv]
Wide == nt > 1 /\ Len(Level) > nt \div 2
LevelsLeft == main = "levels" /\ lv <= Len(LevelSets)
RawIn(level) == {k \in DOMAIN level : panel[level[k]] = "raw"}

\* A narrow level: main takes its panels in order.
MainFactors ==
  /\ LevelsLeft /\ ~Wide /\ RawIn(Level) # {}
  /\ \E k \in RawIn(Level) :
       /\ \A o \in RawIn(Level) : k <= o
       /\ panel' = [panel EXCEPT ![Level[k]] = "busy"]
  /\ main' = "alone"
  /\ UNCHANGED <<S, nt, spdOk, lv, generation, doneCount, workIdx, stop, worker>>

MainFactored ==
  /\ main = "alone"
  /\ panel' = [J \in DOMAIN panel |-> IF panel[J] = "busy" THEN "factored" ELSE panel[J]]
  /\ spdOk' \in {spdOk, FALSE}
  /\ main' = "levels"
  /\ UNCHANGED <<S, nt, lv, generation, doneCount, workIdx, stop, worker>>

NextLevel ==
  /\ LevelsLeft /\ ~Wide /\ RawIn(Level) = {}
  /\ lv' = lv + 1
  /\ UNCHANGED <<S, nt, panel, spdOk, main, generation, doneCount, workIdx, stop, worker>>

\* A wide level: hand it to the workers and wait.
Dispatch ==
  /\ LevelsLeft /\ Wide
  /\ workIdx' = 0 /\ doneCount' = 0 /\ generation' = generation + 1
  /\ worker' = NotifyAll
  /\ main' = "asleep"
  /\ UNCHANGED <<S, nt, panel, spdOk, lv, stop>>

LevelDone ==
  /\ main = "awake"
  /\ IF doneCount = nt THEN lv' = lv + 1 /\ main' = "levels"
                       ELSE lv' = lv /\ main' = "asleep"
  /\ UNCHANGED <<S, nt, panel, spdOk, generation, doneCount, workIdx, stop, worker>>

\* No level is left: the workers are told to end, and joined.
StopWorkers ==
  /\ main = "levels" /\ lv > Len(LevelSets)
  /\ stop' = TRUE /\ main' = "join"
  /\ worker' = [w \in DOMAIN worker |-> NotifyAll[w]]
  /\ UNCHANGED <<S, nt, panel, spdOk, lv, generation, doneCount, workIdx>>

Join ==
  /\ main = "join" /\ \A w \in DOMAIN worker : At(w, "ended")
  /\ main' = "returned"
  /\ UNCHANGED <<S, nt, panel, spdOk, lv, generation, doneCount, workIdx, stop, worker>>

-------------------------------------------------------------------------------
\* The worker's look at stop and generation, under mu.
Check(w) ==
  /\ At(w, "check")
  /\ \/ stop /\ Move(w, "ended")
     \/ ~stop /\ generation = worker[w].seen /\ Move(w, "asleep")
     \/ /\ ~stop /\ generation # worker[w].seen
        /\ worker' = [worker EXCEPT ![w].at = "claim", ![w].seen = generation]
  /\ UNCHANGED <<S, nt, panel, spdOk, main, lv, generation, doneCount, workIdx, stop>>

\* fetch_add on workIdx: a panel of the level, or none is left.
Claim(w) ==
  /\ At(w, "claim")
  /\ workIdx' = workIdx + 1
  /\ IF workIdx < Len(Level)
     THEN LET J == Level[workIdx + 1]
          IN  /\ worker' = [worker EXCEPT ![w].at = "factor", ![w].J = J]
              /\ panel' = [panel EXCEPT ![J] = "busy"]
     ELSE Move(w, "count") /\ UNCHANGED panel
  /\ UNCHANGED <<S, nt, spdOk, main, lv, generation, doneCount, stop>>

\* The end of processSupernode.
PanelFactored(w) ==
  /\ At(w, "factor")
  /\ panel' = [panel EXCEPT ![worker[w].J] = "factored"]
  /\ spdOk' \in {spdOk, FALSE}
  /\ worker' = [worker EXCEPT ![w].at = "claim", ![w].J = -1]
  /\ UNCHANGED <<S, nt, main, lv, generation, doneCount, workIdx, stop>>

\* The last worker of the level wakes main.
Count(w) ==
  /\ At(w, "count")
  /\ doneCount' = doneCount + 1
  /\ main' = IF doneCount' = nt /\ main = "asleep" THEN "awake" ELSE main
  /\ Move(w, "check")
  /\ UNCHANGED <<S, nt, panel, spdOk, lv, generation, workIdx, stop>>

MainStep ==
  MainFactors \/ MainFactored \/ NextLevel \/ Dispatch \/ LevelDone \/ StopWorkers \/ Join
WorkerStep(w) == Check(w) \/ Claim(w) \/ PanelFactored(w) \/ Count(w)
FactorNext == MainStep \/ \E w \in DOMAIN worker : WorkerStep(w)

\* A thread that may run is run.
FactorFair ==
  /\ WF_snVars(MainStep)
  /\ \A w \in UNION {1..t : t \in Threads} : WF_snVars(w \in DOMAIN worker /\ WorkerStep(w))

FactorSpec == FactorInit /\ [][FactorNext]_snVars /\ FactorFair

-------------------------------------------------------------------------------
\* sn_chol.h, "provably-zero Schur contribution": whatever order METIS finds and
\* however supernodes are amalgamated, the pattern of L is its fill and the panels
\* and updaters drop nothing of it.
PanelsHoldFill ==
  /\ Pattern(S.entries) = [j \in Cols |-> Fill(S.entries, j)]
  /\ HoldsFill(S)

\* "a level's supernodes factor concurrently (each writes its own panel, reads only
\* completed lower levels)": while a panel is being factored whatever fills into it is
\* factored, and no two threads are at the same panel.
Fills(K, J) == \E k \in S.cols[K] : Fill(S.entries, k) \cap S.cols[J] # {}
PanelsAreReady ==
  /\ \A J \in DOMAIN panel : panel[J] = "busy" =>
       \A K \in DOMAIN panel : K < J /\ Fills(K, J) => panel[K] = "factored"
  /\ \A v, w \in DOMAIN worker : v # w /\ At(v, "factor") => worker[v].J # worker[w].J
  /\ main = "returned" => \A J \in DOMAIN panel : panel[J] = "factored"

\* factorizeSuperParallel: no wake-up is lost between main and the pool.  The
\* factorization comes back, with every worker joined.
FactorReturns == <>(main = "returned" /\ \A w \in DOMAIN worker : At(w, "ended"))
==============================================================================
