SPECIFICATION FairSpec
CONSTANTS
  Node <- FaultsNode
  Inst <- Nothing
  Kind <- FaultsKind
  Path <- FaultsPath
  Decl <- FaultsDecl
  Data <- FaultsDecl
  Cond <- Nothing
  InstGen <- None
  InstDeps <- Nothing
  MaxPar = 2
  GenMax <- None
  LaneOf <- FaultsLane
  LaneMax <- None
  When <- Nothing
  Cands <- None
  Iters <- FaultsIters
  Loops <- Nothing
  Seeded <- Nothing
  MaxDefer = 1
  AppendFails = TRUE
  Cancels = TRUE
  Pauses = TRUE
  CmdFails = TRUE
INVARIANTS
  OutstandingExact
  NeverStuck
  RunEndSound
PROPERTIES
  PausedStartsNothing
  RunEnds
