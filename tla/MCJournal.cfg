SPECIFICATION Spec
SYMMETRY Sym
CHECK_DEADLOCK FALSE
CONSTANTS
  Execs = {e1, e2}
  Steps = {s1, s2}
  Pauser = pauser
  Pruner = pruner
  NoProc = noProc
  NoStep = noStep
  Tools = {}
  Verdicts = {"ok", "failed"}
  AppendFaults = {"nothing", "unsynced"}
  Crashes = TRUE
INVARIANTS
  AuditHonest OkIsFinal Replayable
PROPERTIES
  KeepsLog
