SPECIFICATION Spec
CONSTANTS
  Walk <- MCWalk
  Priority <- MCPriority
  Waivers <- MCWaivers
  Modes = {"repo"}
  Unreadable = {}
  Thresholds = {2, 3}
INVARIANT FetchedIsRemoved
