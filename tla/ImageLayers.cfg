SPECIFICATION Spec
CONSTANTS
  db = db
  mk = mk
  bin1 = bin1
  bin2 = bin2
  dir = dir
  elf = elf
  lib = lib
  txt = txt
  openssl = openssl
  bash = bash
  libcrypto = libcrypto
  libssl = libssl
  Interesting = {db, mk}
  Candidates = {bin1, bin2}
  Dirs = {dir}
  Below <- MCBelow
  Contents = {elf, lib, txt}
  Absent = Absent
  Databases = {db}
  Marker = mk
  Installed <- MCInstalled
  Executables = {elf, lib}
  Fitting = {elf, lib, txt}
  Needed <- MCNeeded
  Catalogued = {openssl, libcrypto, libssl}
  MaxInspections = 3
  MaxLayers = 3
  MaxEntries = 3
INVARIANTS
  TypeOK
  FilesMatchImage
  NeedsAreSeen
  ReportIsComplete
CHECK_DEADLOCK FALSE
