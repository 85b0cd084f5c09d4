SPECIFICATION FairSpec
CONSTANTS
  Targets = {t1, t2}
  NoTarget = NoTarget
  QueueCap = 3
  Faults = {"list", "get", "save", "update"}
  Stops = {"signal", "crash"}
INVARIANTS
  TypeOK
  RunningIsCurrent
  SweepListStillDue
PROPERTIES
  NoResurrection
  ImplementsService
  DueIsAttempted
  QueuedIsScanned
  DueIsStamped
