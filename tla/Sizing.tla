------------------------------- MODULE Sizing -------------------------------
(***************************************************************************)
(* runSizeOptimization with a table of sections: every iteration solves the *)
(* load cases, scales the area of each sized member by its worst ratio of   *)
(* demand to capacity and rounds it up to the table.                        *)
(*                                                                         *)
(* Left open is the mechanics, which is a function of the areas: what they  *)
(* answer is chosen when they are first solved and kept, as in TensionOnly. *)
(***************************************************************************)
EXTENDS Integers, FiniteSetsExt

CONSTANTS
  Members,   \* members whose area may be sized
  Table,     \* SizeOptOptions::sectionTable
  Areas,     \* areas in the caller's model
  Targets,   \* values of area * D/C
  Amin,      \* SizeOptOptions::Amin
  MaxSizings \* SizeOptOptions::maxIter

ASSUME SizingAssumption ==
  /\ IsFiniteSet(Members)
  /\ Table # {} /\ IsFiniteSet(Table)
  /\ Table \cup Areas \subseteq Nat \ {0}
  /\ Targets \cup {Amin} \subseteq Nat /\ MaxSizings \in Nat

VARIABLES
  sized,     \* sized
  area,      \* area, of the members of sized
  ratios,    \* what the areas solved so far answered
  sizings,   \* the iteration
  sizes,     \* seen
  sizing,    \* "iterate" or "done"
  flags      \* the flags of SizeOptResult that are set

sizingVars == <<sized, area, ratios, sizings, sizes, sizing, flags>>

\* Sizing nothing has converged at once.
SizingInit ==
  /\ sized \in SUBSET Members
  /\ area \in [sized -> Areas]
  /\ ratios = << >> /\ sizings = 0 /\ sizes = {}
  /\ sizing = IF sized = {} \/ MaxSizings = 0 THEN "done" ELSE "iterate"
  /\ flags = IF sized = {} THEN {"converged"} ELSE {}

\* A load case is singular, a ratio is not finite, or each member wants an area.
Answers ==
  [says : {"singular", "invalidDemand"}, wants : {<< >>}]
    \cup [says : {"ratios"}, wants : [sized -> Targets]]

\* The smallest area of the table that is large enough, or the largest.
SnapUp(a) == IF \E s \in Table : s >= a THEN Min({s \in Table : s >= a}) ELSE Max(Table)
Resized(wants) == [e \in sized |-> SnapUp(Max({Amin, wants[e]}))]

Stop(reached) == sizing' = "done" /\ flags' = reached

\* Seeded fault: the guard looks at the areas before they change.
CycledOn(new) == area \in sizes
Cycled(new) == new \in sizes

\* The loop may go on while there are iterations left.
GoOn == IF sizings' < MaxSizings THEN UNCHANGED <<sizing, flags>> ELSE Stop({})

Resize(new) ==
  /\ area' = new
  /\ IF new = area THEN Stop({"converged"}) /\ UNCHANGED sizes
     ELSE /\ sizes' = sizes \cup {new}
          /\ IF Cycled(new) THEN Stop({"converged", "cycled"}) ELSE GoOn

\* One turn of the loop, with the answer of the areas.
SizeOnce(answer) ==
  /\ sizings' = sizings + 1
  /\ IF answer.says = "ratios" THEN Resize(Resized(answer.wants))
     ELSE Stop({answer.says}) /\ UNCHANGED <<area, sizes>>

SolveAreas ==
  /\ sizing = "iterate"
  /\ IF area \in DOMAIN ratios
     THEN SizeOnce(ratios[area]) /\ UNCHANGED ratios
     ELSE \E a \in Answers :
            /\ ratios' = [v \in DOMAIN ratios \cup {area} |-> IF v = area THEN a ELSE ratios[v]]
            /\ SizeOnce(a)
  /\ UNCHANGED sized

SizingNext == SolveAreas
SizingSpec == SizingInit /\ [][SizingNext]_sizingVars

-------------------------------------------------------------------------------
\* The areas were solved, and finalDC tells their ratios.
Rated == area \in DOMAIN ratios /\ ratios[area].says = "ratios"

\* Where the run converged the reported areas are rated, and the flag cycled says
\* truly whether sizing them again would change them: without it every member needs
\* at most what it has, or has the largest size.  With more iterations than there
\* are sizes the loop always converges or meets areas it cannot size.
SizingSettles ==
  sizing = "done" /\ sized # {} =>
    /\ "converged" \in flags =>
         Rated /\ ("cycled" \in flags <=> Resized(ratios[area].wants) # area)
    /\ MaxSizings > Cardinality([sized -> Table]) => flags # {}

==============================================================================
