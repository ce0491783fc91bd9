SPECIFICATION AnalysesSpec
CONSTANTS
  base1 = base1
  base2 = base2
  top1 = top1
  top2 = top2
  tip = tip
  foot = foot
  post1 = post1
  post2 = post2
  slab = slab
  cantilever = cantilever
  hanger = hanger
  Nodes <- MCNodes
  Elements <- MCElements
  NodesOf <- MCNodesOf
  Corners <- MCCorners
  Orders <- MCOrders
  Supported = {base1, base2}
  FullyFixed = {base1}
  Hinges <- MCHinges
  MemberOf <- MCMemberOf
  JointOf <- MCJointOf
  MaxSteps = 6
  Cables = {b1, b2, b3}
  MaxIter = 4
  AllowReactivation = TRUE
  Members = {m1, m2}
  Table = {1, 2}
  Areas = {1, 2, 3}
  Targets = {0, 2, 3}
  Amin = 0
  MaxSizings = 5
  Horizon = 8
  ScreenEvery = 2
  FrameStride = 3
  MaxEvents = 2
  Periods = {2, 4}
INVARIANTS
  StandsOnSupports
  MomentsMatchHinges
  ReportedOnce
  ForestFindsDebris
  ConvergedIsEquilibrium
  MonotoneTerminates
  LossesReported
  CancelIsNoticed
  SizingSettles
CHECK_DEADLOCK FALSE
