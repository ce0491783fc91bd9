---------------------------- MODULE MCInteractive ----------------------------
(***************************************************************************)
(* A column and two beams that share a load: the frame stands while the     *)
(* column and one of the beams are there.  One node can be loaded, and one  *)
(* node of the menu is not in the model.                                    *)
(***************************************************************************)
EXTENDS InteractiveSession

CONSTANTS column, beam1, beam2, tip, ghost

MCElements == {column, beam1, beam2}
MCRankOf == [e \in MCElements |-> 1]
MCMechanisms == {A \in SUBSET MCElements : column \notin A \/ {beam1, beam2} \cap A = {}}
MCLoadNodes == {tip, ghost}
MCWatched == <<beam1, beam2>>

OneLoad(n) == [NoLoads EXCEPT ![n] = 1]
Toggles(off, on) == [EmptyPatch EXCEPT !.off = off, !.on = on]
MCPatchMenu ==
  LET One == {<<e>> : e \in MCElements} IN
  {Toggles(off, on) : off \in One \cup {<<>>}, on \in One \cup {<<>>}}
    \cup {[EmptyPatch EXCEPT !.reset = reset, !.set = set, !.add = add] :
            reset \in BOOLEAN, set \in {NoLoads, OneLoad(tip)},
            add \in {NoLoads, OneLoad(tip), OneLoad(ghost)}}
    \cup {[Toggles(<<beam1>>, <<>>) EXCEPT !.add = OneLoad(tip)]}
MCStartMenu ==
  [active : {A \in SUBSET MCElements : column \in A},
   loads : {NoLoads, OneLoad(tip), OneLoad(ghost)}]
==============================================================================
