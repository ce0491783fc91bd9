--------------------------- MODULE MCPersistence ---------------------------
(***************************************************************************)
(* A support, a column on it and a beam whose start at 11 is within the     *)
(* tolerance of the column's end at 10.  The shell has corners at 10 and at  *)
(* 12, which chains the three together.  One slot, in which the first        *)
(* format's game may have left the column.                                   *)
(***************************************************************************)
EXTENDS Persistence

CONSTANTS column, beam

MCComps == {column, beam}
MCEndI == [c \in MCComps |-> IF c = column THEN 0 ELSE 11]
MCEndJ == [c \in MCComps |-> IF c = column THEN 10 ELSE 20]
MCSupports == {0}
MCShellCorners == <<10, 12>>
MCOldComps == <<column>>
==============================================================================
