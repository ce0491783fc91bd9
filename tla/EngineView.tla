------------------------------ MODULE EngineView ------------------------------
(***************************************************************************)
(* What the registry promises about the frame the player built and the      *)
(* frame the engine solves, with no mention of patches, timers or sessions: *)
(* the engine may lag behind, but every time its view of the frame changes  *)
(* it becomes the frame as it is at that moment, or nothing.                *)
(***************************************************************************)
EXTENDS Naturals, Sequences

VARIABLES
  active,   \* the rows of the frame and whether each is active
  seen      \* the rows the engine has active, or NoView

vars == <<active, seen>>

\* Rows are numbered from 1, so no set of rows is this one.
NoView == {0}

On(rows) == {r \in 1..Len(rows) : rows[r]}

Init == active = <<>> /\ seen = NoView

\* The engine looks: it sees the present frame, or fails and sees nothing.
Look == seen' \in {On(active'), NoView}

Grow    == active' = Append(active, TRUE) /\ seen' = NoView
Remove  == \E r \in 1..Len(active) :
             active' = [active EXCEPT ![r] = FALSE] /\ (UNCHANGED seen \/ Look)
Refresh == UNCHANGED active /\ Look
Clear   == active' = <<>> /\ seen' = NoView

Next == Grow \/ Remove \/ Refresh \/ Clear
Spec == Init /\ [][Next]_vars
==============================================================================
