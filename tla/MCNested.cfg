SPECIFICATION Spec
CONSTANTS
  Node <- NestedNode
  Inst <- Nothing
  Kind <- NestedKind
  Path <- NestedPath
  Decl <- NestedDecl
  Data <- NestedData
  Cond <- NestedCond
  InstGen <- None
  InstDeps <- Nothing
  MaxPar = 0
  GenMax <- None
  LaneOf <- NestedLane
  LaneMax <- None
  When <- NestedWhen
  Cands <- NestedCands
  Iters <- NestedIters
  Loops <- NestedLoops
  Seeded <- NestedSeed
  MaxDefer = 0
  AppendFails = FALSE
  Cancels = FALSE
  Pauses = FALSE
  CmdFails = TRUE
INVARIANTS
  IndegExact
  
  ExpectBeforeWork
