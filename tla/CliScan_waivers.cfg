SPECIFICATION Spec
CONSTANTS
  Walk <- MCWalk
  Priority <- MCPriority
  Waivers <- MCWaivers
  Modes = {"path", "repo"}
  Unreadable = {}
  Thresholds = {2, 3}
INVARIANT WaiversSuppress
