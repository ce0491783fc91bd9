------------------------------ MODULE FreshSolve ------------------------------
(***************************************************************************)
(* What Reanalysis.h promises of a ReSolveSession, with no mention of tiers *)
(* or ladders: elements are switched on and off, and a solve answers for    *)
(* the current active set as a fresh assembleAndFactor + solveLoad would.   *)
(***************************************************************************)
CONSTANTS Elements, Unpreparable, Mechanisms
VARIABLES
  active,   \* the current active set
  verdict   \* what the last operation answered: "none", "solved" or "singular"

vars == <<active, verdict>>

FreshVerdict(act) ==
  IF act \in Mechanisms \/ act \cap Unpreparable # {} THEN "singular" ELSE "solved"

Init == active \in SUBSET Elements /\ FreshVerdict(active) = "solved" /\ verdict = "none"

Toggle == \E e \in Elements : active' \in {active \cup {e}, active \ {e}} /\ verdict' = "none"
Rebaseline == verdict' = "none" /\ UNCHANGED active
Answer == verdict' = FreshVerdict(active) /\ UNCHANGED active

Next == Toggle \/ Rebaseline \/ Answer
Spec == Init /\ [][Next]_vars
==============================================================================
