SPECIFICATION GameSpec
CONSTANTS
  column = column
  beam = beam
  stub = stub
  MergeTol = 2
  Comps <- MCComps
  EndI <- MCEndI
  EndJ <- MCEndJ
  NonFinite = {}
  Supports <- MCSupports
  MaxRank = 1
  DebounceTicks = 2
  MaxRows = 3
  AllocMayFail = TRUE
INVARIANTS
  RowsAndComponentsAgree
  SessionFresh
PROPERTIES
  PaintsOwnRow
  RefinesView
  PlayedChangesReachEngine
