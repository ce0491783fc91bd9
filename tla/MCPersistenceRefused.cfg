SPECIFICATION PersistSpec
CONSTANTS
  column = column
  beam = beam
  NoArchive = NoArchive
  MergeTol = 2
  Comps <- MCComps
  EndI <- MCEndI
  EndJ <- MCEndJ
  NonFinite = {}
  Supports <- MCSupports
  MaxRank = 0
  DebounceTicks = 1
  MaxRows = 2
  AllocMayFail = FALSE
  Slots = {slot}
  OldSlots = {slot}
  OldComps <- MCOldComps
  ShellCorners <- MCShellCorners
  MaxExtras = 1
  MaxCalls = 2
INVARIANT OnlyPartialIsRefused
CHECK_DEADLOCK FALSE
