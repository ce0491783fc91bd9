----------------------------- MODULE MCAnalyses -----------------------------
(***************************************************************************)
(* The analyses that solve one model again and again, which share nothing   *)
(* but its elements: a behaviour is one of the progressive collapse driver  *)
(* (Collapse), of the dynamic one (DynamicCollapse), of the tension-only    *)
(* fixed point on three braces (TensionOnly), or of the sizing of two       *)
(* members (Sizing).                                                        *)
(*                                                                         *)
(* The two drivers run on a portal on two supports, one of them free to     *)
(* turn, with a slab between its corners and a cantilever that carries a    *)
(* hanger: breaking one element can drop others, and a fallen hanger leaves *)
(* its node under the cantilever's tip bare.  Some elements are written one *)
(* way round, some the other, and they are stored in any rotation of an     *)
(* order or of its reverse.                                                 *)
(***************************************************************************)
EXTENDS UnionFind, DynamicCollapse, TensionOnly, Sizing

CONSTANTS base1, base2, top1, top2, tip, foot,
          post1, post2, slab, cantilever, hanger

MCNodes == {base1, base2, top1, top2, tip, foot}
MCElements == {post1, post2, slab, cantilever, hanger}
MCCorners ==
  [e \in MCElements |->
     CASE e = post1 -> <<base1, top1>>
       [] e = post2 -> <<top2, base2>>
       [] e = slab -> <<top1, base1, base2, top2>>
       [] e = cantilever -> <<top2, tip>>
       [] e = hanger -> <<foot, tip>>]
MCNodesOf == [e \in MCElements |-> ToSet(MCCorners[e])]
MCOrders ==
  LET order == <<cantilever, post1, hanger, slab, post2>>
      rotated(k) == SubSeq(order, k, Len(order)) \o SubSeq(order, 1, k - 1)
  IN UNION {{rotated(k), Reverse(rotated(k))} : k \in DOMAIN order}
MCHinges == {"post2_j", "cantilever_i", "cantilever_j"}
MCMemberOf == [h \in MCHinges |-> IF h = "post2_j" THEN post2 ELSE cantilever]
MCJointOf == [h \in MCHinges |-> IF h = "cantilever_j" THEN tip ELSE top2]

VARIABLE part   \* which analysis runs

\* What does not run keeps one of its initial states.
AnalysesInit ==
  /\ Init /\ TensionInit /\ DynamicInit /\ SizingInit
  /\ part \in {"progressive", "dynamic", "tension", "sizing"}
  /\ part # "progressive" => given = {} /\ pending = {}
  /\ part # "tension" => braces = {}
  /\ part # "dynamic" => before = {}
  /\ part # "sizing" => sized = {}

AnalysesNext ==
  /\ \/ part = "progressive" /\ Next /\ UNCHANGED <<tensionVars, dynamicVars, sizingVars>>
     \/ part = "tension" /\ TensionNext /\ UNCHANGED <<vars, dynamicVars, sizingVars>>
     \/ part = "dynamic" /\ DynamicNext /\ UNCHANGED <<vars, tensionVars, sizingVars>>
     \/ part = "sizing" /\ SizingNext /\ UNCHANGED <<vars, tensionVars, dynamicVars>>
  /\ UNCHANGED part

AnalysesSpec ==
  AnalysesInit /\ [][AnalysesNext]_<<vars, tensionVars, dynamicVars, sizingVars, part>>
==============================================================================
