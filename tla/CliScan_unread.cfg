SPECIFICATION Spec
CONSTANTS
  Walk <- MCWalk
  Priority <- MCPriority
  Waivers <- MCWaivers
  Modes = {"path"}
  Unreadable = {"a.py"}
  Thresholds = {2, 3}
INVARIANT ZeroIsClean
