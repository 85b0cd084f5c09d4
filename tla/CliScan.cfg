SPECIFICATION Spec
CONSTANTS
  Walk <- MCWalk
  Priority <- MCPriority
  Waivers <- MCWaivers
  Modes = {"path", "repo"}
  Unreadable = {"poetry.lock"}
  Thresholds = {2, 3}
INVARIANTS
  TypeOK
  GateIsSound
  BaselineIsQuiet
  ResolvedAreGone
