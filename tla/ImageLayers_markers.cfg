SPECIFICATION Spec
CONSTANTS
  db = db
  mk = mk
  bin1 = bin1
  bin2 = bin2
  dir = dir
  elf = elf
  lib = lib
  txt = txt
  openssl = openssl
  bash = bash
  libcrypto = libcrypto
  libssl = libssl
  Interesting = {db, bin1, mk}
  Candidates = {bin2}
  Dirs = {dir}
  Below <- MCBelow
  Contents = {elf, lib, txt}
  Absent = Absent
  Databases = {db}
  Marker = mk
  Installed <- MCInstalled
  Executables = {elf, lib}
  Fitting = {txt}
  Needed <- MCNeeded
  Catalogued = {openssl, libcrypto, libssl}
  MaxInspections = 0
  MaxLayers = 3
  MaxEntries = 3
INVARIANT SomeMarkerIsHonored
CHECK_DEADLOCK FALSE
