------------------------------ MODULE SaveSlots ------------------------------
(***************************************************************************)
(* The slots of the persistence subsystem and what they promise.  SPUD      *)
(* keeps the slots; what is in one is an archive: the subsystem's arrays.   *)
(***************************************************************************)
EXTENDS Sequences

CONSTANTS Slots, NoArchive

VARIABLES
  disk,    \* what each slot holds
  saved,   \* history: the frame each slot was asked to keep
  rebuilt  \* history: the frame the last replay gave back, and of which

\* A slot holds the whole of the frame it was asked to keep: every member of that
\* frame is recorded and none of them is off, whatever saves were refused since.
ArchivesAreWhole ==
  \A s \in Slots : disk[s] # NoArchive =>
    /\ Len(disk[s].records) = Len(saved[s].shape.active)
    /\ \A k \in DOMAIN disk[s].records : disk[s].records[k].active

\* A replayed load gives back the frame that the slot was asked to keep: the same
\* members meet and are held, with their loads, flags and shells, however the nodes
\* are numbered now.  It takes positions that the tolerance does not chain together,
\* and an archive that was restored whole.
LoadRestores == rebuilt.whole /\ rebuilt.kept.separate => rebuilt.shape = rebuilt.kept.shape
==============================================================================
