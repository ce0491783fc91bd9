SPECIFICATION GamesSpec
CONSTANTS
  tilted = tilted
  low = low
  high = high
  Slots = {slot}
  NoArchive = NoArchive
  None = None
  column = column
  beam1 = beam1
  beam2 = beam2
  tip = tip
  ghost = ghost
  Elements <- MCElements
  RankOf <- MCRankOf
  Unpreparable = {}
  Mechanisms <- MCMechanisms
  MaxRank = 5
  AllowTier2 = FALSE
  DefaultMaxRank = 2
  LoadNodes <- MCLoadNodes
  GhostNodes = {ghost}
  Watched <- MCWatched
  PatchMenu <- MCPatchMenu
  StartMenu <- MCStartMenu
  MaxLoad = 2
  Switchable <- MCToggled
  MaxRankBeforeRebaseline = 2
  Requests <- MCRequests
  MaxQueuedLoad = 2
  Routes <- MCRoutes
  Optics <- MCOptics
  Readable <- MCReadable
  ZeroSetup = low
  Rise <- MCRise
  MaxRise = 5
  ReadTol = 100
  ReadPartial = 300
  BookTol = 50
  Slips <- MCSlips
  ClosureC = 1200
INVARIANTS
  LoadsReachSession
  AnswersAreExact
  NothingLost
  ArchivesAreWhole
  LoadRestores
  NobodyStranded
  ClosureIsOfRoute
  CarefulRouteCloses
PROPERTIES
  SweepIsNeutral
CHECK_DEADLOCK FALSE
