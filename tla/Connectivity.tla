---------------------------- MODULE Connectivity ----------------------------
(***************************************************************************)
(* What analyzeConnectivity promises (Connectivity.h): the active elements  *)
(* make a graph on the nodes; a component is grounded when one of its nodes *)
(* has a fixed degree of freedom; the others are debris; a node of no       *)
(* active element that is not wholly fixed is loose.  UnionFind is the      *)
(* algorithm; Collapse uses these definitions.                              *)
(***************************************************************************)
EXTENDS Naturals

CONSTANTS
  Nodes,
  Elements,   \* members and shells
  NodesOf,    \* the nodes of an element
  Supported,  \* nodes with a fixed degree of freedom in the caller's model
  FullyFixed  \* those with every degree of freedom fixed

ASSUME ConnectivityAssumption ==
  /\ NodesOf \in [Elements -> SUBSET Nodes] /\ \A e \in Elements : NodesOf[e] # {}
  /\ FullyFixed \subseteq Supported /\ Supported \subseteq Nodes

\* A set of nodes that no element of act leaves.
Closed(act, S) ==
  \A e \in act : NodesOf[e] \cap S # {} => NodesOf[e] \subseteq S

Connected(act, a, b) == \A S \in SUBSET Nodes : a \in S /\ Closed(act, S) => b \in S

Component(act, n) == {b \in Nodes : Connected(act, n, b)}

Attached(act) == UNION {NodesOf[e] : e \in act}

\* Grounded and debris elements, for the nodes with some fixed freedom.
Grounded(act, fixed) ==
  {e \in act : \A n \in NodesOf[e] : Component(act, n) \cap fixed # {}}
Detached(act, fixed) == act \ Grounded(act, fixed)
DebrisNodes(act, fixed) == Attached(Detached(act, fixed))

\* Bare nodes, for the nodes with every freedom fixed.
Loose(act, full) == (Nodes \ Attached(act)) \ full
==============================================================================
