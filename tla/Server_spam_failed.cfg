SPECIFICATION Spec
CONSTANTS
  hi = hi
  lo = lo
  d1 = d1
  d2 = d2
  Targets = {t1}
  NoTarget = NoTarget
  QueueCap = 1
  Faults = {}
  Stops = {}
  Images = {t1}
  Issues = {hi}
  Severity <- MCSeverity
  Dests = {d1}
  MinSeverity <- MCMinSeverity
  ScansMayFail = TRUE
  ClientStamps = {}
  MaxScans = 3
INVARIANTS
  NoSpam
