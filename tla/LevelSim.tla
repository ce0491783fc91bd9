------------------------------ MODULE LevelSim ------------------------------
(***************************************************************************)
(* The levelling exercise of the LevelSim plugin: ALevelSimPawn with its    *)
(* phases, jobs and field book, the route ALevelSimGameMode gives it, and   *)
(* closeLoop of LevelCore.  A step is one tick of input, with every key     *)
(* that may go down in the same tick, or one step of the smoke sequence.    *)
(*                                                                         *)
(* The three screws are one of a few setups.  A setup gives the height of   *)
(* the optics and, where the compensator works, what the line of sight      *)
(* rises per metre: the instrument's collimation error and the residual of  *)
(* this setting of the screws (the residual is a hash of the screws, the    *)
(* same at every reading).  Curvature and refraction are off.  Route points *)
(* lie on a line.  Distances are metres; heights, readings and tolerances   *)
(* are whole numbers of one unit, a part of a millimetre.                   *)
(***************************************************************************)
EXTENDS Integers, Sequences, SequencesExt

CONSTANTS
  Routes,     \* routes: sequences of points [x, z] from the bench mark
  Optics,     \* setup of the screws -> height of the optics
  Rise,       \* setup of the screws -> tangent of the tilt of the line of sight
  MaxRise,    \* of collimation and setting accuracy together
  Readable,   \* setups in the range of the compensator
  ZeroSetup,  \* all screws at zero travel
  ReadTol, ReadPartial,  \* errors of a reading: up to which full marks, from which none
  BookTol,    \* error of an entry of the field book that still counts as right
  Slips,      \* how far an entry may be off
  ClosureC    \* tolerance, units per root of a km

Setups == DOMAIN Optics
\* The bench mark is not where the instrument stands first; points are an even number of
\* metres out, so that half way between two of them is a whole one.
ASSUME LevelAssumption ==
  /\ Readable \subseteq Setups /\ ZeroSetup \in Readable
  /\ Rise \in [Setups -> Int] /\ MaxRise \in Nat
  /\ \A s \in Setups : Optics[s] \in Int /\ -MaxRise <= Rise[s] /\ Rise[s] <= MaxRise
  /\ Routes \subseteq Seq([x : Int, z : Int])
  /\ \A r \in Routes : Len(r) >= 2 /\ r[1].x # 0 /\ \A i \in DOMAIN r : r[i].x % 2 = 0
  /\ ReadTol \in Nat /\ ReadPartial \in Nat /\ ReadTol < ReadPartial
  /\ BookTol \in Nat /\ Slips \subseteq Int /\ ClosureC \in Nat

VARIABLES
  route,    \* RoutePoints
  phase, job, typing, brake,
  aim,      \* the staff under the vertical hair: 0 (none), 1 (backsight) or 2
  screws,
  targets,  \* StaffTargets: the two staffs relative to the instrument
  book,     \* the leg in progress: entries, truths, scores, pending distance
  known,    \* CurrentKnownElevM
  legs,     \* LegRecords
  station,  \* CurrentStationIdx
  loop,     \* CachedLoop, bClosureDone and RouteTotal
  smoke,    \* SmokeStep of a run under -levelsim.smoke, or -1
  steady    \* (observer) no backsight was followed by a turn of a screw

levelVars == <<route, phase, job, typing, brake, aim, screws, targets, book, known,
               legs, station, loop, smoke, steady>>

NumLegs == Len(route) - 1
Abs(n) == IF n < 0 THEN -n ELSE n

-------------------------------------------------------------------------------
(* closeLoop: misclosure, adjustment by distance, tolerance.  Adjusted height *)
(* differences are kept times the total weight, which keeps them whole.       *)
NoLoop == [done |-> FALSE, misclosure |-> 0, adjusted |-> << >>, within |-> TRUE, total |-> 0]
Total(s) == FoldLeft(LAMBDA x, y : x + y, 0, s)
Weight(ls) == Total([k \in DOMAIN ls |-> ls[k].dist])

\* With no usable weight every leg takes the same share.
Shares(ls) == IF Weight(ls) > 0 THEN [k \in DOMAIN ls |-> ls[k].dist]
              ELSE [k \in DOMAIN ls |-> 1]

\* Marks of a reading are counted in steps of the part of the scale that falls.
Band == ReadPartial - ReadTol

\* Rounded to a whole number, halves up.
LegScore(l) == (60 * (l.scoreBS + l.scoreFS) + Band) \div (2 * Band)
               + (IF l.hiOk THEN 20 ELSE 0) + (IF l.elevOk THEN 20 ELSE 0)

\* BuildLoopResult; dist is twice the mean sight length.
BuildLoopResult(ls) ==
  LET dh == [k \in DOMAIN ls |-> ls[k].truthBS - ls[k].truthFS]
      mis == Total(dh)
      w == Shares(ls)
      within == mis * mis * 2000 <= ClosureC * ClosureC * Weight(ls)
      bonus == IF Weight(ls) > 0 /\ within THEN 20 ELSE 0
      n == Len(ls)
      sum == Total([k \in DOMAIN ls |-> LegScore(ls[k])])
  IN [done |-> TRUE, misclosure |-> mis, within |-> within,
      adjusted |-> [k \in DOMAIN ls |-> dh[k] * Total(w) - mis * w[k]],
      total |-> (2 * (8 * sum + 10 * n * bonus) + 10 * n) \div (20 * n)]

-------------------------------------------------------------------------------
\* The instrument stands at the origin for the first leg, then half way.
Instrument(k) == IF k = 0 THEN 0 ELSE (route[k + 1].x + route[k + 2].x) \div 2

\* Seeded fault: the targets of the first leg are kept.
BuildRelativeTargetsOnce(k) ==
  [i \in {1, 2} |-> [dist |-> Abs(route[i].x), z |-> route[i].z]]
BuildRelativeTargets(k) ==
  [i \in {1, 2} |-> [dist |-> Abs(route[k + i].x - Instrument(k)), z |-> route[k + i].z]]

\* MeasureTarget, of a setup in range.
MeasureWith(s, i) == Optics[s] + Rise[s] * targets[i].dist - targets[i].z
Measure(i) == MeasureWith(screws, i)

EmptyBook == [playerBS |-> 0, truthBS |-> 0, scoreBS |-> 0, bsDist |-> 0,
              playerFS |-> 0, truthFS |-> 0, scoreFS |-> 0, dist |-> 0,
              hi |-> 0, hiOk |-> FALSE, elev |-> 0, elevOk |-> FALSE]

\* The elevation the next leg starts from is the one the player carried forward.
KnownAt(ls) == IF ls = << >> THEN route[1].z ELSE Last(ls).elev

\* RestartStation, with the screws left wherever chance puts them.
RestartStation(ls) ==
  /\ screws' \in Setups
  /\ phase' = "overview" /\ job' = "readBS"
  /\ brake' = FALSE /\ typing' = FALSE /\ aim' = 0
  /\ book' = EmptyBook /\ known' = KnownAt(ls)

Start(r) ==
  /\ route = r /\ station = 0 /\ legs = << >> /\ loop = NoLoop /\ steady = TRUE
  /\ targets = [i \in {1, 2} |-> [dist |-> Abs(r[i].x), z |-> r[i].z]]
  /\ screws \in Setups
  /\ phase = "overview" /\ job = "readBS" /\ brake = FALSE /\ typing = FALSE /\ aim = 0
  /\ book = EmptyBook /\ known = r[1].z

LevelInit == (\E r \in Routes : Start(r)) /\ smoke \in {-1, 0}

\* Seeded fault: the closure of the last route stays.
RestartedLoopKept == loop
RestartedLoop == NoLoop
\* R, where the phase allows it.
RouteRestart ==
  /\ ~typing /\ phase \in {"overview", "done", "summary"}
  /\ legs' = << >> /\ station' = 0 /\ loop' = RestartedLoop /\ steady' = TRUE
  /\ targets' = BuildRelativeTargets(0)
  /\ RestartStation(<< >>)
  /\ UNCHANGED <<route, smoke>>

LegOf(b, t) == b

\* AdvanceStation commits the leg, read with the screws s, and goes on to the next one or
\* to the summary; the field book has set the job, the smoke sequence leaves it.
AdvanceStation(b, s) ==
  LET next == station + 1
      more == next < NumLegs
      leg == LegOf(b, IF more THEN BuildRelativeTargets(next) ELSE targets)
  IN /\ legs' = Append(legs, leg)
     /\ station' = next
     /\ IF more THEN /\ targets' = BuildRelativeTargets(next)
                     /\ RestartStation(Append(legs, leg))
                     /\ UNCHANGED loop
        ELSE /\ phase' = "summary" /\ typing' = FALSE
             /\ loop' = BuildLoopResult(Append(legs, leg))
             /\ book' = b
             /\ job' = IF typing THEN "complete" ELSE job
             /\ screws' = s
             /\ UNCHANGED <<targets, brake, aim, known>>

-------------------------------------------------------------------------------
(* PollInput.  Keys that go down in one tick are looked at in a fixed order.  *)

InOverview ==
  /\ phase = "overview" /\ ~typing
  /\ phase' \in {"leveling", "telescope"}
  /\ UNCHANGED <<route, job, typing, brake, aim, screws, targets, book, known, legs,
                 station, loop, smoke, steady>>

InLeveling ==
  /\ phase = "leveling" /\ ~typing
  /\ screws' \in Setups
  /\ phase' \in {"leveling", "telescope", "overview"}
  /\ steady' = (steady /\ (job = "readBS" \/ screws' = screws))
  /\ UNCHANGED <<route, job, typing, brake, aim, targets, book, known, legs, station,
                 loop, smoke>>

Expected == CASE job = "readBS" -> 1 [] job = "readFS" -> 2 [] OTHER -> 0

\* Seeded fault: Enter and Escape are both looked at.
ScopeKeysBoth(enter, escape, reads) ==
  /\ typing' = (enter /\ reads)
  /\ phase' = IF escape THEN "overview" ELSE phase
\* Escape is not looked at in a tick with Enter.
ScopeKeys(enter, escape, reads) ==
  /\ typing' = (enter /\ reads)
  /\ phase' = IF escape /\ ~enter THEN "overview" ELSE phase

\* Aiming, the brake, and TryBeginRead.
InTelescope ==
  /\ phase = "telescope" /\ ~typing
  /\ aim' \in 0 .. 2 /\ brake' \in BOOLEAN
  /\ \E enter, escape \in BOOLEAN :
       ScopeKeys(enter, escape,
                 screws \in Readable /\ brake' /\ Expected # 0 /\ aim' = Expected)
  /\ UNCHANGED <<route, job, screws, targets, book, known, legs, station, loop, smoke, steady>>

\* A reading may be cancelled, the field book may not.
CancelReading ==
  /\ phase = "telescope" /\ typing
  /\ typing' = FALSE
  /\ UNCHANGED <<route, phase, job, brake, aim, screws, targets, book, known, legs,
                 station, loop, smoke, steady>>

\* scoreReading: full marks up to ReadTol, none from ReadPartial on, a straight line between.
Score(truth, v) ==
  LET err == Abs(v - truth) IN
  IF err <= ReadTol THEN Band ELSE IF err >= ReadPartial THEN 0 ELSE ReadPartial - err

SubmitReading ==
  /\ phase = "telescope" /\ typing
  /\ \E slip \in Slips :
       LET r == Measure(Expected)
           v == r + slip IN
       \/ /\ job = "readBS"
          /\ book' = [book EXCEPT !.playerBS = v, !.truthBS = r, !.scoreBS = Score(r, v),
                                  !.bsDist = targets[1].dist]
          /\ job' = "readFS" /\ typing' = FALSE
          /\ UNCHANGED phase
       \/ /\ job = "readFS"
          /\ book' = [book EXCEPT !.playerFS = v, !.truthFS = r, !.scoreFS = Score(r, v),
                                  !.dist = book.bsDist + targets[2].dist]
          /\ job' = "fillHI" /\ typing' = TRUE /\ phase' = "booking"
  /\ UNCHANGED <<route, brake, aim, screws, targets, known, legs, station, loop, smoke, steady>>

SubmitHI ==
  /\ phase = "booking" /\ typing /\ job = "fillHI"
  /\ \E slip \in Slips :
       book' = [book EXCEPT !.hi = known + book.playerBS + slip, !.hiOk = (Abs(slip) <= BookTol)]
  /\ job' = "fillElev"
  /\ UNCHANGED <<route, phase, typing, brake, aim, screws, targets, known, legs, station,
                 loop, smoke, steady>>

\* The last entry of a leg; a route of one leg ends in the plain "done" view.
SubmitElev ==
  /\ phase = "booking" /\ typing /\ job = "fillElev"
  /\ \E slip \in Slips :
       LET b == [book EXCEPT !.elev = book.hi - book.playerFS + slip,
                             !.elevOk = (Abs(slip) <= BookTol)] IN
       IF NumLegs > 1 THEN AdvanceStation(b, screws)
       ELSE /\ book' = b /\ job' = "complete" /\ phase' = "done" /\ typing' = FALSE
            /\ UNCHANGED <<brake, aim, screws, targets, known, legs, station, loop>>
  /\ UNCHANGED <<route, smoke, steady>>

Play ==
  /\ smoke = -1
  /\ \/ RouteRestart \/ InOverview \/ InLeveling \/ InTelescope
     \/ CancelReading \/ SubmitReading \/ SubmitHI \/ SubmitElev

-------------------------------------------------------------------------------
(* SmokeAdvance of the game mode: the scripted run.                           *)

SmokeKeeps == UNCHANGED <<route, legs, station, loop, known, book, job, targets, steady>>

SmokePerturbScrews ==
  /\ smoke = 0
  /\ screws' \in Setups /\ phase' = "leveling" /\ typing' = FALSE
  /\ smoke' = 1 /\ SmokeKeeps /\ UNCHANGED <<brake, aim>>

SmokeAutoLevel ==
  /\ smoke = 1
  /\ screws' \in Readable /\ phase' = "telescope" /\ typing' = FALSE
  /\ brake' = TRUE /\ aim' = 1
  /\ smoke' = 2 /\ SmokeKeeps

SmokeAimSecond ==
  /\ smoke = 2
  /\ aim' = 2
  /\ smoke' = 3 /\ SmokeKeeps /\ UNCHANGED <<screws, phase, typing, brake>>

\* SmokePerfectSubmitAndAdvance: the screws go to zero first, for the draw of the
\* restarted station may be out of range.  The tenth step submits all that is left
\* in one go; here each submission is a step.
SmokePerfectSubmit ==
  /\ smoke = 3 /\ NumLegs > 1 /\ station < NumLegs
  /\ LET bs == MeasureWith(ZeroSetup, 1)
         fs == MeasureWith(ZeroSetup, 2)
     IN AdvanceStation([playerBS |-> bs, truthBS |-> bs, scoreBS |-> Band,
                        bsDist |-> targets[1].dist,
                        playerFS |-> fs, truthFS |-> fs, scoreFS |-> Band,
                        dist |-> targets[1].dist + targets[2].dist,
                        hi |-> known + bs, hiOk |-> TRUE,
                        elev |-> known + bs - fs, elevOk |-> TRUE], ZeroSetup)
  /\ UNCHANGED <<route, smoke, steady>>

LevelNext ==
  \/ Play \/ SmokePerturbScrews \/ SmokeAutoLevel \/ SmokeAimSecond \/ SmokePerfectSubmit

LevelSpec == LevelInit /\ [][LevelNext]_levelVars

-------------------------------------------------------------------------------
\* "stranding the pawn in a typing state no phase can service": keys are typed only
\* at the telescope, for a reading of the staff the job wants, or in the field book,
\* and the field book, which has no other way out, is always typed into.
NobodyStranded ==
  /\ typing => \/ phase = "booking"
               \/ phase = "telescope" /\ Expected # 0 /\ screws \in Readable
  /\ phase = "booking" => typing /\ job \in {"fillHI", "fillElev"}
  /\ phase \in {"overview", "leveling", "telescope"} => job \in {"readBS", "readFS"}

\* A closure is shown with its route over and is that of the legs booked, with the
\* sights of each taken from its own instrument station; the adjusted height
\* differences close, and two legs share the misclosure as their lengths.
ClosureIsOfRoute ==
  IF loop.done
    THEN /\ phase = "summary" /\ Len(legs) = NumLegs /\ station = NumLegs
         /\ Total(loop.adjusted) = 0
         /\ \A k, j \in DOMAIN legs :
              LET off(i) == (legs[i].truthBS - legs[i].truthFS) * Weight(legs) - loop.adjusted[i]
              IN off(k) * legs[j].dist = off(j) * legs[k].dist
         /\ \A k \in DOMAIN legs : legs[k].dist =
              Abs(route[k].x - Instrument(k - 1)) + Abs(route[k + 1].x - Instrument(k - 1))
    ELSE loop = NoLoop /\ Len(legs) = station /\ station < NumLegs

\* What the tilt of the line of sight can add to a route: at the first station the sights
\* are as long as they come, from there on the instrument stands half way.
Unbalanced == MaxRise * Abs(Abs(route[1].x) - Abs(route[2].x))
\* What full marks leave a leg: the two readings, the rounding of its score, two bookings.
MarkedFull == 2 * ReadTol + Band \div 60 + 2 * BookTol

\* A closed route, however long, that was levelled without a turn of a screw between
\* backsight and foresight misses its start by no more than the tilt over the unequal
\* sights of its first station, and is within tolerance if that is.  With full marks on
\* every leg and the bonus it scores 100, and no point is booked further from its true
\* height than that and what full marks leave the legs before it.
CarefulRouteCloses ==
  phase = "summary" /\ steady /\ route[1].z = Last(route).z =>
    /\ Abs(loop.misclosure) <= Unbalanced
    /\ Unbalanced * Unbalanced * 2000 <= ClosureC * ClosureC * Weight(legs) => loop.within
    /\ (\A k \in DOMAIN legs : LegScore(legs[k]) = 100) =>
         /\ loop.within => loop.total = 100
         /\ \A k \in DOMAIN legs :
              Abs(legs[k].elev - route[k + 1].z) <= Unbalanced + k * MarkedFull
==============================================================================
