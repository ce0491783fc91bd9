----------------------------- MODULE FramePatch -----------------------------
(***************************************************************************)
(* FFrameModelPatch, the increment every caller sends to the interactive    *)
(* session: lists of elements to switch off and on, and nodal loads to      *)
(* clear, to replace and to add to.  A load is a number per node; zero is a *)
(* node without an entry.                                                   *)
(***************************************************************************)
EXTENDS Naturals, Sequences, SequencesExt

CONSTANT LoadNodes    \* nodes a patch may load

Loads == [LoadNodes -> Nat]
NoLoads == [n \in LoadNodes |-> 0]

\* The patches that switch elements of a set.
Patches(elements) ==
  [off : Seq(elements), on : Seq(elements), reset : BOOLEAN, set : Loads, add : Loads]

EmptyPatch == [off |-> <<>>, on |-> <<>>, reset |-> FALSE, set |-> NoLoads, add |-> NoLoads]

\* Seeded fault of TouchesLoads: additions do not count.
TouchesLoadsNotAdded(p) == p.reset \/ p.set # NoLoads
TouchesLoads(p) == p.reset \/ p.set # NoLoads \/ p.add # NoLoads

\* The lists are applied off first, on second.
PatchedFlags(p, active) == (active \ ToSet(p.off)) \cup ToSet(p.on)

\* Reset, then replace, then accumulate.
PatchedLoads(p, loads) ==
  [n \in LoadNodes |->
     LET kept == IF p.reset THEN 0 ELSE loads[n] IN
     (IF p.set[n] > 0 THEN p.set[n] ELSE kept) + p.add[n]]

\* The number of toggles, the registry's estimate of the ladder's rank.
PatchRank(p) == Len(p.off) + Len(p.on)

\* Seeded fault of MergePatch: the reset is not sticky.
MergePatchForgetsReset(p, q) ==
  [off |-> p.off \o q.off, on |-> p.on \o q.on, reset |-> q.reset,
   set |-> [n \in LoadNodes |-> IF q.set[n] > 0 THEN q.set[n] ELSE p.set[n]],
   add |-> [n \in LoadNodes |-> p.add[n] + q.add[n]]]
\* The toggle lists and the load lists are concatenated: the last replacement
\* of a node wins and the additions sum.
MergePatch(p, q) ==
  [off |-> p.off \o q.off, on |-> p.on \o q.on, reset |-> p.reset \/ q.reset,
   set |-> [n \in LoadNodes |-> IF q.set[n] > 0 THEN q.set[n] ELSE p.set[n]],
   add |-> [n \in LoadNodes |-> p.add[n] + q.add[n]]]
==============================================================================
