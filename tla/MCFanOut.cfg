SPECIFICATION FairSpec
CONSTANTS
  Node <- FanNode
  Inst <- FanInst
  Kind <- FanKind
  Path <- FanPath
  Decl <- FanDecl
  Data <- Nothing
  Cond <- Nothing
  InstGen <- FanGen
  InstDeps <- FanDeps
  MaxPar = 2
  GenMax <- FanMax
  LaneOf <- FanLane
  LaneMax <- FanLanes
  When <- Nothing
  Cands <- None
  Iters <- FanIters
  Loops <- Nothing
  Seeded <- Nothing
  MaxDefer = 0
  AppendFails = FALSE
  Cancels = FALSE
  Pauses = FALSE
  CmdFails = TRUE
INVARIANTS
  PoolsExact
  WorkConserving
PROPERTIES
  KeepsWorkflow
  RunEnds
