SPECIFICATION UsesSpec
CONSTANTS
  column = column
  beam1 = beam1
  beam2 = beam2
  strut = strut
  looseBar = looseBar
  Elements <- MCElements
  RankOf <- MCRankOf
  Unpreparable <- MCUnpreparable
  Mechanisms <- MCMechanisms
  MaxRank = 2
  RankBound = 7
  AllowTier2 = TRUE
  None = None
  Stiffnesses = {"sound", "stiffer", "mechanism"}
  Unstable = {"mechanism"}
  Loads = {0, 1}
  Bodies <- MCBodies
  MaxSessions = 2
  Nodes <- MCNodes
  NodesOf <- MCNodesOf
  Supported = {"base", "wall"}
  FullyFixed = {"base", "wall"}
  Loaded = {"head"}
  Designs <- MCDesigns
  Volume <- MCVolume
  TargetPercent = 60
  EvolPercent = 25
  Cadences = {0, 1, 2}
  MaxIter = 2
  N = 5
  AmalgMaxCol = 3
  Matrices <- MCMatrices
  Orders <- MCOrders
  Relaxes = {0, 1}
  Threads = {1, 2, 3}
INVARIANTS
  ExactVerdict
  AnswersAreFresh
  InspectShowsLastAnswer
  PanelsHoldFill
  PanelsAreReady
  TopologiesStand
PROPERTIES
  RemovalsRefineFresh
  PoolReturns
