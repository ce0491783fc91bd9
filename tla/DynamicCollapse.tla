--------------------------- MODULE DynamicCollapse ---------------------------
(***************************************************************************)
(* runDynamicCollapse.  The structure is integrated step by step; every so  *)
(* many steps a frame is stored and handed to the caller, who may cancel,   *)
(* and every so many steps the elements are screened.  An element over its  *)
(* threshold goes, with what no support holds any more, as one event; the   *)
(* remainder is factored anew and inherits the motion.  A run is stable     *)
(* once the motion has died down for one natural period.                    *)
(*                                                                         *)
(* Time is counted in steps of dt.  The numbers are left open: which        *)
(* element is over its threshold, whether the motion is small, the period   *)
(* of a configuration, whether it can be factored, and when the state stops *)
(* being finite.                                                            *)
(***************************************************************************)
EXTENDS Connectivity, Integers, FiniteSets

CONSTANTS
  Horizon,      \* DynCollapseOptions::maxTime, in steps
  ScreenEvery,  \* DynCollapseOptions::screenEvery
  FrameStride,  \* DynCollapseOptions::frameStride
  MaxEvents,    \* DynCollapseOptions::maxEvents
  Periods       \* the natural periods of configurations, in steps

ASSUME DynamicCollapseAssumption ==
  /\ Horizon \in Nat \ {0} /\ ScreenEvery \in Nat \ {0} /\ FrameStride \in Nat \ {0}
  /\ MaxEvents \in Nat /\ Periods \subseteq Nat \ {0}

VARIABLES
  standing,  \* the active elements of the working copy
  held,      \* the nodes pinNode has fixed
  t,         \* steps taken
  period,    \* T1 of the current configuration
  quiet,     \* quietTime
  events,    \* events of the loop, without the scenario's
  finite,    \* whether the modal state is finite
  stage,     \* "start", "rebuild", "integrate", "screen" or "done"
  event,     \* the elements of the event at hand
  verdict,   \* CollapseOutcome
  cancelled, \* whether the caller's isCancelled answers true
  before,    \* history: the elements active in the caller's model
  emitted,   \* history: how often an emitted event names an element
  asked      \* history: the step at which the caller cancelled

dynModel == <<standing, held, event, before>>
dynamicVars == <<standing, held, t, period, quiet, events, finite, stage, event,
                 verdict, cancelled, before, emitted, asked>>

DynamicTypeOK ==
  /\ before \in SUBSET Elements /\ standing \in SUBSET before
  /\ held \in SUBSET Nodes
  /\ t \in 0..Horizon /\ asked \in 0..t
  /\ period \in Periods \cup {0} /\ quiet \in Nat
  /\ events \in 0..(MaxEvents + 1)
  /\ finite \in BOOLEAN /\ cancelled \in BOOLEAN
  /\ stage \in {"start", "rebuild", "integrate", "screen", "done"}
  /\ event \in SUBSET Elements
  /\ verdict \in {"Invalid", "Stable", "Collapsed", "MaxSteps"}
  /\ emitted \in [Elements -> Nat]

Held == Supported \cup held

DynamicInit ==
  /\ before \in SUBSET Elements /\ standing = before
  /\ held = {} /\ event = {}
  /\ t = 0 /\ period = 0 /\ quiet = 0 /\ events = 0
  /\ finite = TRUE /\ stage = "start" /\ verdict = "Invalid"
  /\ cancelled = FALSE /\ asked = 0
  /\ emitted = [e \in Elements |-> 0]

Fragments(debris) == debris

\* The elements of gone are deactivated, and cleanupFragments drops what no
\* support holds and pins the nodes of the debris and the bare ones.
Lose(gone) ==
  LET left   == standing \ gone
      debris == Detached(left, Held)
  IN /\ standing' = left \ debris
     /\ held' = held \cup DebrisNodes(left, Held)
                    \cup ((Nodes \ Attached(left)) \ (FullyFixed \cup held))
     /\ event' = gone \cup Fragments(debris)
     /\ stage' = "rebuild"

\* The scenario: initialRemovals may name what is inactive already.
Start ==
  /\ stage = "start"
  /\ \E gone \in SUBSET Elements : Lose(gone)
  /\ UNCHANGED <<t, period, quiet, events, finite, verdict, cancelled, before, emitted,
                 asked>>

EndRun(o) == stage' = "done" /\ verdict' = o

\* emitEvent; the scenario's event only when it has something to tell.
Emit == emitted' = [e \in Elements |-> emitted[e] + (IF e \in event THEN 1 ELSE 0)]

\* Seeded fault of EmitLast: the event that ends the run is not emitted.
EmitLastLost == UNCHANGED emitted
EmitLast == Emit

\* Nothing stands, or the remainder cannot be integrated: it is a mechanism, or
\* it has no mass.
NoConfiguration ==
  /\ EmitLast
  /\ \/ EndRun("Collapsed")
     \/ standing # {} /\ EndRun("Invalid")
  /\ UNCHANGED <<period, quiet, events, finite>>

Abort  == EndRun("Invalid")
Resume == stage' = "integrate" /\ UNCHANGED verdict

Settle == quiet' = 0

\* The new configuration inherits the motion, and a frame of it is stored; after
\* an event of the loop the caller may cancel and the budget may be used up.
Configuration ==
  /\ standing # {}
  /\ Emit
  /\ period' \in Periods
  /\ finite' \in BOOLEAN /\ (finite' => finite)
  /\ Settle
  /\ events' = IF t = 0 THEN 0 ELSE events + 1
  /\ \/ ~finite' /\ Abort
     \/ finite' /\ t = 0 /\ Resume
     \/ /\ finite' /\ t > 0
        /\ IF cancelled THEN EndRun("Invalid")
           ELSE IF events' >= MaxEvents THEN EndRun("MaxSteps") ELSE Resume

Rebuild ==
  /\ stage = "rebuild"
  /\ NoConfiguration \/ Configuration
  /\ event' = {}
  /\ UNCHANGED <<standing, held, t, cancelled, before, asked>>

\* Seeded fault of Polls: the caller is asked only after an event.
PollsAfterEvents == FALSE
Polls == t' % FrameStride = 0

\* One modalNewmarkStep, with the frame and the poll that fall on it.
Integrate ==
  /\ stage = "integrate"
  /\ IF t >= Horizon
     THEN EndRun("MaxSteps") /\ UNCHANGED <<t, finite>>
     ELSE /\ t' = t + 1
          /\ finite' \in BOOLEAN /\ (finite' => finite)
          /\ IF t' % FrameStride = 0 /\ ~finite' THEN Abort
             ELSE IF Polls /\ cancelled THEN EndRun("Invalid")
             ELSE /\ stage' = IF t' % ScreenEvery = 0 THEN "screen" ELSE "integrate"
                  /\ UNCHANGED verdict
  /\ UNCHANGED <<dynModel, period, quiet, events, cancelled, emitted, asked>>

\* No element is over its threshold: a structure without any event is stable at
\* once, another when the motion has been small for a period.
Calm ==
  /\ \/ /\ \A e \in Elements : emitted[e] = 0
        /\ EndRun("Stable") /\ UNCHANGED quiet
     \/ /\ \E e \in Elements : emitted[e] > 0
        /\ \/ /\ quiet' = quiet + ScreenEvery
              /\ IF quiet' >= period THEN EndRun("Stable") ELSE Resume
           \/ quiet' = 0 /\ Resume
  /\ UNCHANGED <<standing, held, event>>

\* The worst element breaks.
Condemn ==
  /\ \E e \in standing : Lose({e})
  /\ UNCHANGED <<quiet, verdict>>

Screen ==
  /\ stage = "screen"
  /\ Calm \/ Condemn
  /\ UNCHANGED <<t, period, events, finite, cancelled, before, emitted, asked>>

\* The caller cancels, at any time.
Cancel ==
  /\ stage # "done" /\ ~cancelled
  /\ cancelled' = TRUE /\ asked' = t
  /\ UNCHANGED <<dynModel, t, period, quiet, events, finite, stage, verdict, emitted>>

DynamicNext == Start \/ Rebuild \/ Integrate \/ Screen \/ Cancel
DynamicSpec == DynamicInit /\ [][DynamicNext]_dynamicVars

-------------------------------------------------------------------------------
\* Each element of the caller that is gone is named by exactly one emitted event,
\* also when that event ends the run, and none that stands is named.
LossesReported ==
  stage \in {"integrate", "screen", "done"} =>
    \A e \in Elements :
      /\ emitted[e] <= 1
      /\ e \in before => (emitted[e] = 0 <=> e \in standing)

\* Whoever cancels waits less than frameStride steps, whatever breaks meanwhile.
CancelIsNoticed == cancelled /\ stage # "done" => t - asked < FrameStride
==============================================================================
