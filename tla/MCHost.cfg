CONSTANTS
  Releases = {1, 2}
  Installable = {1}
  RunIds = {"r"}
  Ups = {"u"}
  Plans <- MCPlans
  MovesThatFail = {"in"}
  MaxUpgrades = 3
  Builders = {"b"}
  Templates <- OneTemplate
  Hooks = {"h1", "broken"}
  Legs = {"absent", "files"}
  MaxEdits = 1
  MaxBuilds = 2
  MaxResumes = 1
SPECIFICATION Spec
INVARIANTS
  PairKept
  ImagesKept
CHECK_DEADLOCK FALSE
