SPECIFICATION Spec
SYMMETRY Sym
CHECK_DEADLOCK FALSE
CONSTANTS
  Execs = {e1, e2, e3}
  Steps = {s1}
  Pauser = pauser
  Pruner = pruner
  NoProc = noProc
  NoStep = noStep
  Tools = {pauser, pruner}
  Verdicts = {"ok"}
  AppendFaults = {}
  Crashes = TRUE
INVARIANTS
  SingleAppender LiveJournalKept PauseIsCurrent
PROPERTIES
  LivePauseKept
