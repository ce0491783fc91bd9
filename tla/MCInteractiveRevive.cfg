SPECIFICATION Spec
CONSTANTS
  None = None
  column = column
  beam1 = beam1
  beam2 = beam2
  tip = tip
  ghost = ghost
  Elements <- MCElements
  RankOf <- MCRankOf
  Unpreparable = {}
  Mechanisms <- MCMechanisms
  MaxRank = 5
  AllowTier2 = FALSE
  DefaultMaxRank = 2
  LoadNodes <- MCLoadNodes
  GhostNodes = {ghost}
  Watched <- MCWatched
  PatchMenu <- MCPatchMenu
  StartMenu <- MCStartMenu
  MaxLoad = 2
INVARIANT LoadPatchKeepsFlags
