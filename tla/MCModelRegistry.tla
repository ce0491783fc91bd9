--------------------------- MODULE MCModelRegistry ---------------------------
(***************************************************************************)
(* The registry called in every way there is, and the registry as the game  *)
(* drives it between two visits to the persistence and scenario menus: only *)
(* the second has a frame loop that is obliged to run.                      *)
(*                                                                         *)
(* A support at 0, a column from 0 to 10 and a beam from 10 to 20: the      *)
(* merge tolerance is 2, so the beam's start at 11 merges with the column's *)
(* end.  The stub is too short to register.                                 *)
(***************************************************************************)
EXTENDS ModelRegistry

CONSTANTS column, beam, stub

MCComps == {column, beam, stub}
MCEndI == [c \in MCComps |-> CASE c = column -> 0 [] c = beam -> 11 [] OTHER -> 20]
MCEndJ == [c \in MCComps |-> CASE c = column -> 10 [] c = beam -> 20 [] OTHER -> 21]
MCSupports == {0}

VARIABLE playing

GameInit == Init /\ playing \in BOOLEAN
GameNext ==
  /\ \/ ~playing /\ Next
     \/ playing /\ PlayNext
  /\ UNCHANGED playing
GameSpec ==
  /\ GameInit /\ [][GameNext]_<<vars, playing>>
  /\ WF_vars(playing /\ Tick) /\ WF_vars(playing /\ TimerTick)

-------------------------------------------------------------------------------
\* While the game plays, every registered row is offered to the engine, and every
\* removed member leaves the engine's session.
PlayedChangesReachEngine ==
  \A r \in 1..MaxRows :
    /\ \A c \in Comps :
         (playing /\ registered[c] /\ memberIdx[c] = r) ~> (attempted >= r \/ memberIdx[c] # r)
    /\ (playing /\ r \in engine.active /\ r \notin ActiveRows(model)) ~> r \notin engine.active
==============================================================================
