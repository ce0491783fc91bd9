------------------------------ MODULE FrameModel ------------------------------
(***************************************************************************)
(* The game's frame model (FFrameModelDef) as the registry builds it:       *)
(* nodes merged by position, one member row per placed component, and what  *)
(* FrameCore's validate and assembleAndFactor say of it.                    *)
(*                                                                         *)
(* Positions are points of a line in a unit small enough that several fit   *)
(* in the merge tolerance.  Materials, sections, shells and loads are left  *)
(* out: they change no index and no verdict here.  Rows are numbered from 1.*)
(***************************************************************************)
EXTENDS Integers, Sequences, FiniteSets

CONSTANT MergeTol    \* kNodeMergeTolMm

ASSUME MergeTolAssumption == MergeTol \in Nat \ {0}

Near(p, q) == p - q < MergeTol /\ q - p < MergeTol

Node  == [pos : Int, fixed : BOOLEAN]
Row   == [i : Nat, j : Nat, active : BOOLEAN]
Model == [nodes : Seq(Node), members : Seq(Row)]

EmptyModel == [nodes |-> <<>>, members |-> <<>>]

Hits(nodes, p) == {n \in 1..Len(nodes) : Near(nodes[n].pos, p)}

\* UArchSimModelRegistry::FindOrAddNode, the node array it leaves.
FindOrAddNode(nodes, p) ==
  IF Hits(nodes, p) # {} THEN nodes ELSE Append(nodes, [pos |-> p, fixed |-> FALSE])

\* The index it returns on that array: the first node within the tolerance.
NodeAt(nodes, p) == CHOOSE n \in Hits(nodes, p) : \A k \in Hits(nodes, p) : n <= k

\* RegisterMember's two FindOrAddNode calls and the row it appends.
AddMember(m, p, q) ==
  LET withI  == FindOrAddNode(m.nodes, p)
      withIJ == FindOrAddNode(withI, q)
      row    == [i |-> NodeAt(withI, p), j |-> NodeAt(withIJ, q), active |-> TRUE]
  IN [nodes |-> withIJ, members |-> Append(m.members, row)]

\* RegisterFixedSupport's change of the model.
AddSupport(m, p) ==
  LET nodes == FindOrAddNode(m.nodes, p)
  IN [m EXCEPT !.nodes = [nodes EXCEPT ![NodeAt(nodes, p)].fixed = TRUE]]

SwitchOff(m, r) == [m EXCEPT !.members[r].active = FALSE]

ActiveRows(m) == {r \in 1..Len(m.members) : m.members[r].active}

FreeNodes(m) == {n \in 1..Len(m.nodes) : ~m.nodes[n].fixed}

\* Every group of free nodes is held by an active member that leaves it.
Grounded(m, act) ==
  \A S \in (SUBSET FreeNodes(m)) \ {{}} :
    \E r \in act : (m.members[r].i \in S) # (m.members[r].j \in S)

\* FrameModel::validate looks at inactive rows too; assembleAndFactor refuses
\* a model with no free node and one whose stiffness has a zero pivot.
Valid(m) ==
  /\ m.nodes # <<>>
  /\ m.members # <<>>
  /\ \A r \in 1..Len(m.members) : m.members[r].i # m.members[r].j

Solvable(m, act) == Valid(m) /\ FreeNodes(m) # {} /\ Grounded(m, act)
==============================================================================
