SPECIFICATION Spec
CONSTANTS
  Procs = {p1, p2}
  NoProc = NoProc
  Items = {i1, i2}
  Records = {r1}
  Inodes = {n1, n2, n3}
  NoInode = NoInode
  Faults = {"open", "write", "rename"}
SYMMETRY Symmetry
INVARIANTS
  TypeOK
  FileIsWhole
  ReadsAreWhole
  NoLostUpdate
PROPERTIES
  ImplementsRegister
