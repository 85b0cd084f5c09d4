SPECIFICATION Spec
CONSTANTS
  hi = hi
  lo = lo
  d1 = d1
  d2 = d2
  Targets = {t1, t2}
  NoTarget = NoTarget
  QueueCap = 1
  Faults = {"list", "get", "save", "update", "audit"}
  Stops = {"crash"}
  Images = {}
  Issues = {}
  Severity <- MCSeverity
  Dests = {}
  MinSeverity <- MCMinSeverity
  ScansMayFail = TRUE
  ClientStamps = {2}
  MaxScans = 2
INVARIANTS
  StampIsSaved
  AuditMatchesRecord
SYMMETRY TargetSymmetry
