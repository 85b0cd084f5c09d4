-------------------------- MODULE StoreFiles_proofs --------------------------
(***************************************************************************)
(* Theorems about module StoreFiles, for every set of goroutines, entries, *)
(* records, inodes and failing system calls, with crashes at every step.   *)
(***************************************************************************)
EXTENDS StoreFiles, TLAPS

Writing == {"open", "write", "rename"}

\* The goroutine between Lock and Unlock holds the mutex, and no other is there.
MutexHeld == \A p \in Procs : at[p] \in Holding <=> mutex = p

\* Each goroutine is in an operation that can be where it is.
InOp == \A p \in Procs :
  /\ at[p] = "idle" => op[p] = None
  /\ at[p] \in {"lock"} \cup Holding => op[p] \in Ops /\ op[p][1] # "get"
  /\ at[p] = "read" => op[p][1] # "save"
  /\ at[p] \in Writing => op[p] \in Changes
  /\ op[p] \in Changes => op[p] \in begun

\* The names and the temporary names lead to different inodes, each to its own.
OwnInode == \A q, r \in Paths :
  /\ name[q] # NoInode => /\ name[q] = name[r] => q = r
                          /\ name[q] # tmp[r]
  /\ tmp[q] # NoInode /\ tmp[q] = tmp[r] => q = r

\* Only a temporary file is open for writing, only a whole record for reading.
OpenFiles == \A p \in Procs :
  /\ at[p] = "write" => /\ fd[p] \in Inodes
                        /\ fd[p] = tmp[Path(op[p])]
  /\ at[p] = "get" => /\ fd[p] \in Inodes
                      /\ \A q \in Paths : fd[p] # tmp[q]
                      /\ data[fd[p]] = Filed

\* What is being written is the operation applied to the list as it still is,
\* and what is about to be renamed is exactly that.
Pending == \A p \in Procs :
  /\ at[p] \in Writing =>
       buf[p] = IF op[p][1] = "save" THEN Filed
                ELSE Listed(Applied(op[p], data[name["list"]].list))
  /\ at[p] = "rename" => /\ tmp[Path(op[p])] # NoInode
                         /\ data[tmp[Path(op[p])]] = buf[p]

Whole == /\ data[name["list"]].kind = "list"
         /\ \A r \in Records : name[r] # NoInode => data[name[r]] = Filed

FInv == TypeOK /\ MutexHeld /\ InOp /\ OwnInode /\ OpenFiles /\ Pending /\ Whole

-----------------------------------------------------------------------------
(* The bytes. *)

LEMMA BytesTypes ==
  /\ Empty \in Lists /\ Blank \in Bytes /\ Partial \in Bytes /\ Filed \in Bytes
  /\ \A l \in Lists : Listed(l) \in Bytes
  /\ \A b \in Bytes : b.list \in Lists
BY DEF Empty, Lists, Blank, Partial, Filed, Listed, Bytes

LEMMA AppliedType ==
  ASSUME NEW o \in Ops, NEW l \in Lists
  PROVE  Applied(o, l) \in Lists
<1>1. o[1] \in ListOps => o[2] \in Items
  BY RecordsAssumption DEF Ops, ListOps
<1> QED
  BY <1>1 DEF Applied, Lists, ListOps

LEMMA NoneIsNoChange == None \notin Changes
BY DEF None, Changes, ListOps

LEMMA PathType == ASSUME NEW o \in Ops PROVE Path(o) \in Paths
BY DEF Path, Paths, Ops, ListOps

\* Any operation but a save or a get is one of the list file.
LEMMA PathOfList ==
  ASSUME NEW o \in Ops, o[1] # "get"
  PROVE  IF o[1] = "save" THEN Path(o) \in Records ELSE Path(o) = "list"
BY DEF Path, Ops, ListOps

\* A change that is not a save changes an entry of the list.
LEMMA ListChange ==
  ASSUME NEW o \in Changes, o[1] # "save"
  PROVE  \E e \in ListOps, i \in Items : o = <<e, i>>
<1>1. o[1] \in ListOps /\ o \in Ops
  BY DEF Changes
<1>2. o[1] # "get" /\ o[1] # "list"
  BY <1>1 DEF ListOps
<1>3. o \in ListOps \X Items
  BY <1>1, <1>2 DEF Ops
<1>4. o = <<o[1], o[2]>> /\ o[2] \in Items
  BY <1>3
<1> QED
  BY <1>1, <1>4

LEMMA InitFInv == Init => FInv
<1> SUFFICES ASSUME Init PROVE FInv
  OBVIOUS
<1>1. TypeOK
  BY BytesTypes, NoInodeAssumption DEF Init, TypeOK, Paths, Holding
<1>2. MutexHeld /\ InOp /\ OpenFiles /\ Pending
  BY NoProcAssumption, NoneIsNoChange DEF Init, MutexHeld, InOp, OpenFiles, Pending, Holding, Writing
<1>3. OwnInode /\ Whole
  BY RecordsAssumption, NoInodeAssumption DEF Init, OwnInode, Whole, Paths, Listed
<1> QED
  BY <1>1, <1>2, <1>3 DEF FInv

-----------------------------------------------------------------------------
(* Steps that leave the files alone. *)

LEMMA KeepsBegin ==
  ASSUME FInv, NEW p \in Procs, NEW o \in Ops, Begin(p, o)
  PROVE  FInv'
<1>1. TypeOK'
  BY DEF Begin, FInv, TypeOK, disk, Holding
<1>2. (MutexHeld /\ InOp)'
  BY DEF Begin, FInv, TypeOK, MutexHeld, InOp, disk, Holding, Writing
<1>3. (OwnInode /\ Whole)'
  BY DEF Begin, FInv, OwnInode, Whole, disk
<1>4. (OpenFiles /\ Pending)'
  BY DEF Begin, FInv, TypeOK, OpenFiles, Pending, disk, Writing
<1> QED
  BY <1>1, <1>2, <1>3, <1>4 DEF FInv

LEMMA KeepsAcquire ==
  ASSUME FInv, NEW p \in Procs, Acquire(p)
  PROVE  FInv'
<1>1. op[p] \in Ops /\ op[p][1] # "get"
  BY DEF Acquire, FInv, InOp
<1>2. op[p][1] = "save" => op[p] \in Changes
  BY <1>1 DEF Changes
<1>3. TypeOK'
  BY BytesTypes DEF Acquire, First, FInv, TypeOK, disk, Holding
<1>4. (MutexHeld /\ InOp)'
  BY <1>1, <1>2, NoProcAssumption
     DEF Acquire, First, FInv, TypeOK, MutexHeld, InOp, disk, Holding, Writing
<1>5. (OwnInode /\ Whole)'
  BY DEF Acquire, FInv, OwnInode, Whole, disk
<1>6. (OpenFiles /\ Pending)'
  BY DEF Acquire, First, FInv, TypeOK, OpenFiles, Pending, disk, Writing
<1> QED
  BY <1>3, <1>4, <1>5, <1>6 DEF FInv

LEMMA KeepsRead ==
  ASSUME FInv, NEW p \in Procs, Read(p)
  PROVE  FInv'
<1> DEFINE found == data[name["list"]]
<1>1. found \in Bytes /\ found.list \in Lists /\ found.kind = "list"
  BY BytesTypes DEF FInv, TypeOK, Whole, Paths
<1>2. /\ at[p] = "read"
      /\ buf' = [buf EXCEPT ![p] = Listed(Applied(op[p], found.list))]
      /\ at' = [at EXCEPT ![p] = IF op[p][1] = "list" THEN "ok" ELSE "open"]
      /\ UNCHANGED <<mutex, op, fd, name, tmp, data, begun, acked>>
  BY <1>1 DEF Read, disk
<1>3. op[p] \in Ops /\ op[p][1] # "get" /\ op[p][1] # "save"
  BY <1>2 DEF FInv, InOp, Holding
<1>4. op[p][1] # "list" => op[p] \in Changes
  BY <1>3 DEF Changes, Ops
<1>5. Listed(Applied(op[p], found.list)) \in Bytes
  BY <1>1, <1>3, AppliedType, BytesTypes
<1>6. TypeOK'
  BY <1>2, <1>5 DEF FInv, TypeOK, Holding
<1>7. (MutexHeld /\ InOp)'
  BY <1>2, <1>3, <1>4 DEF FInv, TypeOK, MutexHeld, InOp, Holding, Writing
<1>8. (OwnInode /\ Whole)'
  BY <1>2 DEF FInv, OwnInode, Whole
<1>9. (OpenFiles /\ Pending)'
  BY <1>2, <1>3 DEF FInv, TypeOK, OpenFiles, Pending, Writing
<1> QED
  BY <1>6, <1>7, <1>8, <1>9 DEF FInv

LEMMA KeepsFailOrReturn ==
  ASSUME FInv, NEW p \in Procs, Fail(p) \/ Return(p)
  PROVE  FInv'
<1>1. TypeOK'
  BY BytesTypes DEF Fail, Return, FInv, TypeOK, InOp, disk, Holding
<1>2. (MutexHeld /\ InOp)'
  <2>1. CASE Fail(p)
    <3>1. at[p] \in Holding /\ at' = [at EXCEPT ![p] = "err"] /\ UNCHANGED <<mutex, op, begun>>
      BY <2>1 DEF Fail, Holding
    <3> QED
      BY <3>1 DEF FInv, TypeOK, MutexHeld, InOp, Holding, Writing
  <2>2. CASE Return(p)
    <3>1. /\ at[p] \in Holding /\ at' = [at EXCEPT ![p] = "idle"]
          /\ mutex' = NoProc /\ op' = [op EXCEPT ![p] = None] /\ UNCHANGED begun
      BY <2>2 DEF Return, Holding
    <3>2. MutexHeld'
      BY <3>1, NoProcAssumption DEF FInv, TypeOK, MutexHeld, Holding
    <3>3. InOp'
      BY <3>1, NoneIsNoChange DEF FInv, TypeOK, InOp, Holding, Writing
    <3> QED
      BY <3>2, <3>3
  <2> QED
    BY <2>1, <2>2
<1>3. (OwnInode /\ Whole)'
  BY DEF Fail, Return, FInv, OwnInode, Whole, disk
<1>4. (OpenFiles /\ Pending)'
  BY DEF Fail, Return, FInv, TypeOK, OpenFiles, Pending, disk, Writing
<1> QED
  BY <1>1, <1>2, <1>3, <1>4 DEF FInv

LEMMA KeepsGet ==
  ASSUME FInv, NEW p \in Procs,
         (\E r \in Records : GetOpen(p, r)) \/ GetRead(p)
  PROVE  FInv'
<1>1. TypeOK'
  BY DEF GetOpen, GetRead, FInv, TypeOK, disk, Holding, Ops, Paths
<1>2. (MutexHeld /\ InOp)'
  <2>1. None \notin Changes /\ \A r : <<"get", r>> \notin Changes
    BY NoneIsNoChange DEF Changes, ListOps
  <2> QED
    BY <2>1 DEF GetOpen, GetRead, FInv, TypeOK, MutexHeld, InOp, disk, Holding, Writing
<1>3. (OwnInode /\ Whole)'
  BY DEF GetOpen, GetRead, FInv, OwnInode, Whole, disk
<1>4. OpenFiles'
  <2>1. ASSUME NEW r \in Records, GetOpen(p, r)
        PROVE  OpenFiles'
    <3>1. /\ name[r] \in Inodes /\ data[name[r]] = Filed
          /\ \A q \in Paths : name[r] # tmp[q]
      BY <2>1 DEF GetOpen, FInv, TypeOK, OwnInode, Whole, Paths
    <3>2. /\ at' = [at EXCEPT ![p] = "get"] /\ op' = [op EXCEPT ![p] = <<"get", r>>]
          /\ fd' = [fd EXCEPT ![p] = name[r]] /\ UNCHANGED <<tmp, data>>
      BY <2>1 DEF GetOpen, disk
    <3> QED
      BY <3>1, <3>2 DEF FInv, TypeOK, OpenFiles
  <2>2. CASE GetRead(p)
    BY <2>2 DEF GetRead, FInv, TypeOK, OpenFiles, disk
  <2> QED
    BY <2>1, <2>2
<1>5. Pending'
  BY DEF GetOpen, GetRead, FInv, TypeOK, Pending, disk, Writing
<1> QED
  BY <1>1, <1>2, <1>3, <1>4, <1>5 DEF FInv

LEMMA KeepsCrash == ASSUME FInv, Crash PROVE FInv'
<1>1. TypeOK'
  BY BytesTypes DEF Crash, FInv, TypeOK, disk
<1>2. (MutexHeld /\ InOp /\ OpenFiles /\ Pending)'
  BY NoProcAssumption, NoneIsNoChange DEF Crash, MutexHeld, InOp, OpenFiles, Pending, Holding, Writing
<1>3. (OwnInode /\ Whole)'
  BY DEF Crash, FInv, OwnInode, Whole, disk
<1> QED
  BY <1>1, <1>2, <1>3 DEF FInv

-----------------------------------------------------------------------------
(* writeJSONAtomic. *)

\* Among the goroutines, only the one that holds the mutex is writing.
LEMMA OneWriter ==
  ASSUME FInv, NEW p \in Procs, at[p] \in Holding, NEW q \in Procs, q # p
  PROVE  at[q] \notin Holding
BY DEF FInv, MutexHeld

LEMMA KeepsOpen ==
  ASSUME FInv, NEW p \in Procs, Open(p)
  PROVE  FInv'
<1> DEFINE q == Path(op[p])
<1>1. at[p] = "open" /\ op[p] \in Ops /\ q \in Paths
  BY PathType DEF Open, FInv, InOp, Holding
<1>2. PICK i \in IF tmp[q] = NoInode THEN Inodes \ InUse ELSE {tmp[q]} :
        /\ tmp' = [tmp EXCEPT ![q] = i]
        /\ data' = [data EXCEPT ![i] = Blank]
        /\ fd' = [fd EXCEPT ![p] = i]
        /\ at' = [at EXCEPT ![p] = "write"]
        /\ UNCHANGED <<mutex, op, buf, name, begun, acked>>
  BY DEF Open
<1> HIDE DEF q
<1>3. /\ i \in Inodes
      /\ \A r \in Paths : name[r] # i /\ (r # q => tmp[r] # i)
      /\ \A g \in Procs : at[g] = "get" => fd[g] # i
  <2>1. CASE tmp[q] = NoInode
    BY <1>1, <1>2, <2>1 DEF InUse, Range, FInv, TypeOK
  <2>2. CASE tmp[q] # NoInode
    BY <1>1, <1>2, <2>2 DEF FInv, TypeOK, OwnInode, OpenFiles
  <2> QED
    BY <2>1, <2>2
<1>4. \A r \in Paths : name[r] # NoInode => data'[name[r]] = data[name[r]]
  BY <1>2, <1>3 DEF FInv, TypeOK
<1>5. "list" \in Paths /\ Records \subseteq Paths
  BY DEF Paths
<1>6. TypeOK'
  BY <1>1, <1>2, <1>3, BytesTypes DEF FInv, TypeOK, Holding
<1>7. (MutexHeld /\ InOp)'
  BY <1>1, <1>2 DEF FInv, TypeOK, MutexHeld, InOp, Holding, Writing
<1>8. OwnInode'
  BY <1>1, <1>2, <1>3, NoInodeAssumption DEF FInv, TypeOK, OwnInode
<1>9. Whole'
  BY <1>2, <1>4, <1>5 DEF FInv, TypeOK, Whole
<1>10. \A g \in Procs : g # p => at[g] \notin Holding
  BY <1>1, OneWriter DEF Holding
<1>11. OpenFiles'
  <2>1. ASSUME NEW g \in Procs, at'[g] = "write" PROVE fd'[g] \in Inodes /\ fd'[g] = tmp'[Path(op'[g])]
    BY <1>1, <1>2, <1>3, <1>10, <2>1 DEF FInv, TypeOK, Holding, q
  <2>2. ASSUME NEW g \in Procs, at'[g] = "get"
        PROVE  /\ fd'[g] \in Inodes /\ data'[fd'[g]] = Filed
               /\ \A r \in Paths : fd'[g] # tmp'[r]
    BY <1>1, <1>2, <1>3, <2>2 DEF FInv, TypeOK, OpenFiles
  <2> QED
    BY <2>1, <2>2 DEF OpenFiles
<1>12. Pending'
  BY <1>1, <1>2, <1>4, <1>5, <1>10 DEF FInv, TypeOK, Pending, Holding, Writing
<1> QED
  BY <1>6, <1>7, <1>8, <1>9, <1>11, <1>12 DEF FInv

LEMMA KeepsWrite ==
  ASSUME FInv, NEW p \in Procs, WriteSome(p) \/ WriteAll(p)
  PROVE  FInv'
<1> DEFINE q == Path(op[p])
<1>1. /\ at[p] = "write" /\ op[p] \in Ops /\ q \in Paths /\ buf[p] \in Bytes
      /\ fd[p] \in Inodes /\ fd[p] = tmp[q]
  BY PathType DEF WriteSome, WriteAll, FInv, TypeOK, InOp, OpenFiles, Holding
<1>2. UNCHANGED <<mutex, op, buf, name, tmp, begun, acked>>
  BY DEF WriteSome, WriteAll, procs
<1>3. \/ /\ data' = [data EXCEPT ![fd[p]] = Partial]
         /\ UNCHANGED <<at, fd>>
      \/ /\ data' = [data EXCEPT ![fd[p]] = buf[p]]
         /\ fd' = [fd EXCEPT ![p] = NoInode]
         /\ at' = [at EXCEPT ![p] = "rename"]
  BY DEF WriteSome, WriteAll, procs
<1> HIDE DEF q
<1>4. \A r \in Paths : name[r] # NoInode => data'[name[r]] = data[name[r]]
  BY <1>1, <1>3, NoInodeAssumption DEF FInv, TypeOK, OwnInode
<1>5. "list" \in Paths /\ Records \subseteq Paths
  BY DEF Paths
<1>6. \A g \in Procs : g # p => at[g] \notin Holding
  BY <1>1, OneWriter DEF Holding
<1>7. TypeOK'
  BY <1>1, <1>2, <1>3, BytesTypes DEF FInv, TypeOK, Holding
<1>8. (MutexHeld /\ InOp)'
  BY <1>1, <1>2, <1>3 DEF FInv, TypeOK, MutexHeld, InOp, Holding, Writing
<1>9. OwnInode'
  BY <1>2 DEF FInv, OwnInode
<1>10. Whole'
  BY <1>2, <1>4, <1>5 DEF FInv, TypeOK, Whole
<1>11. OpenFiles'
  <2>1. ASSUME NEW g \in Procs, at'[g] = "write" PROVE fd'[g] \in Inodes /\ fd'[g] = tmp'[Path(op'[g])]
    BY <1>1, <1>2, <1>3, <1>6, <2>1 DEF FInv, TypeOK, OpenFiles, Holding
  <2>2. ASSUME NEW g \in Procs, at'[g] = "get"
        PROVE  /\ fd'[g] \in Inodes /\ data'[fd'[g]] = Filed
               /\ \A r \in Paths : fd'[g] # tmp'[r]
    BY <1>1, <1>2, <1>3, <2>2 DEF FInv, TypeOK, OpenFiles
  <2> QED
    BY <2>1, <2>2 DEF OpenFiles
<1>12. Pending'
  <2>1. \A g \in Procs : at'[g] \in Writing => g = p
    BY <1>1, <1>3, <1>6 DEF FInv, TypeOK, Holding, Writing
  <2>2. buf'[p] = IF op'[p][1] = "save" THEN Filed
                  ELSE Listed(Applied(op'[p], data'[name'["list"]].list))
    BY <1>1, <1>2, <1>4, <1>5 DEF FInv, TypeOK, Pending, Writing
  <2>3. at'[p] = "rename" => tmp'[Path(op'[p])] # NoInode /\ data'[tmp'[Path(op'[p])]] = buf'[p]
    BY <1>1, <1>2, <1>3, NoInodeAssumption DEF FInv, TypeOK, q
  <2> QED
    BY <2>1, <2>2, <2>3 DEF Pending, Writing
<1> QED
  BY <1>7, <1>8, <1>9, <1>10, <1>11, <1>12 DEF FInv

\* The rename publishes exactly the pending operation: the list becomes what
\* the operation makes of it, or the record appears, and nothing else changes.
LEMMA RenamePublishes ==
  ASSUME FInv, NEW p \in Procs, Rename(p)
  PROVE  /\ at[p] = "rename" /\ op[p] \in Changes /\ Path(op[p]) \in Paths
         /\ op[p] \in Ops /\ op[p][1] # "get"
         /\ tmp[Path(op[p])] \in Inodes
         /\ name' = [name EXCEPT ![Path(op[p])] = tmp[Path(op[p])]]
         /\ tmp' = [tmp EXCEPT ![Path(op[p])] = NoInode]
         /\ at' = [at EXCEPT ![p] = "ok"]
         /\ UNCHANGED <<mutex, op, buf, fd, data, begun, acked>>
         /\ IF op[p][1] = "save"
            THEN /\ Path(op[p]) \in Records
                 /\ name'["list"] = name["list"]
                 /\ data'[tmp[Path(op[p])]] = Filed
            ELSE /\ Path(op[p]) = "list"
                 /\ data'[name'["list"]] = Listed(Applied(op[p], data[name["list"]].list))
<1>1. /\ at[p] = "rename" /\ op[p] \in Ops /\ op[p][1] # "get" /\ op[p] \in Changes
      /\ Path(op[p]) \in Paths
  BY PathType DEF Rename, FInv, InOp, Holding, Writing
<1>2. /\ name' = [name EXCEPT ![Path(op[p])] = tmp[Path(op[p])]]
      /\ tmp' = [tmp EXCEPT ![Path(op[p])] = NoInode]
      /\ at' = [at EXCEPT ![p] = "ok"]
      /\ UNCHANGED <<mutex, op, buf, fd, data, begun, acked>>
  BY DEF Rename
<1>3. /\ tmp[Path(op[p])] # NoInode
      /\ data[tmp[Path(op[p])]] = IF op[p][1] = "save" THEN Filed
                                 ELSE Listed(Applied(op[p], data[name["list"]].list))
  BY <1>1 DEF FInv, Pending, Writing
<1>4. tmp[Path(op[p])] \in Inodes
  BY <1>1, <1>3 DEF FInv, TypeOK
<1>5. IF op[p][1] = "save" THEN Path(op[p]) \in Records /\ Path(op[p]) # "list"
                           ELSE Path(op[p]) = "list"
  BY <1>1, PathOfList, RecordsAssumption
<1>6. name \in [Paths -> Inodes \cup {NoInode}] /\ "list" \in Paths
  BY DEF FInv, TypeOK, Paths
<1> QED
  BY <1>1, <1>2, <1>3, <1>4, <1>5, <1>6

LEMMA KeepsRename ==
  ASSUME FInv, NEW p \in Procs, Rename(p)
  PROVE  FInv'
<1> DEFINE q == Path(op[p])
<1>1. /\ at[p] = "rename" /\ op[p] \in Changes /\ op[p] \in Ops /\ op[p][1] # "get"
      /\ q \in Paths /\ tmp[q] \in Inodes
      /\ name' = [name EXCEPT ![q] = tmp[q]]
      /\ tmp' = [tmp EXCEPT ![q] = NoInode]
      /\ at' = [at EXCEPT ![p] = "ok"]
      /\ UNCHANGED <<mutex, op, buf, fd, data, begun, acked>>
  BY RenamePublishes
<1>2. IF op[p][1] = "save"
        THEN /\ q \in Records /\ name'["list"] = name["list"] /\ data'[tmp[q]] = Filed
        ELSE /\ q = "list"
             /\ data'[name'["list"]] = Listed(Applied(op[p], data[name["list"]].list))
  BY RenamePublishes
<1> HIDE DEF q
<1>3. \A g \in Procs : g # p => at[g] \notin Holding
  BY <1>1, OneWriter DEF Holding
<1>4. TypeOK'
  BY <1>1, NoInodeAssumption DEF FInv, TypeOK, Holding
<1>5. (MutexHeld /\ InOp)'
  BY <1>1 DEF FInv, TypeOK, MutexHeld, InOp, Holding, Writing
<1>6. OwnInode'
  <2>1. ASSUME NEW r \in Paths, NEW s \in Paths, name'[r] # NoInode
        PROVE  (name'[r] = name'[s] => r = s) /\ name'[r] # tmp'[s]
    BY <1>1, <2>1, NoInodeAssumption DEF FInv, TypeOK, OwnInode
  <2>2. ASSUME NEW r \in Paths, NEW s \in Paths, tmp'[r] # NoInode, tmp'[r] = tmp'[s]
        PROVE  r = s
    BY <1>1, <2>2 DEF FInv, TypeOK, OwnInode
  <2> QED
    BY <2>1, <2>2 DEF OwnInode
<1>7. Whole'
  <2>1. data'[name'["list"]].kind = "list"
    BY <1>1, <1>2 DEF FInv, Whole, Listed
  <2>2. ASSUME NEW r \in Records, name'[r] # NoInode
        PROVE  data'[name'[r]] = Filed
    BY <1>1, <1>2, <2>2, RecordsAssumption DEF FInv, TypeOK, Whole, Paths
  <2> QED
    BY <2>1, <2>2 DEF Whole
<1>8. OpenFiles'
  <2>1. ASSUME NEW g \in Procs, at'[g] = "write"
        PROVE  FALSE
    BY <1>1, <1>3, <2>1 DEF FInv, TypeOK, Holding
  <2>2. ASSUME NEW g \in Procs, at'[g] = "get"
        PROVE  /\ fd'[g] \in Inodes /\ data'[fd'[g]] = Filed
               /\ \A r \in Paths : fd'[g] # tmp'[r]
    BY <1>1, <2>2, NoInodeAssumption DEF FInv, TypeOK, OpenFiles
  <2> QED
    BY <2>1, <2>2 DEF OpenFiles
<1>9. Pending'
  BY <1>1, <1>3 DEF FInv, TypeOK, Pending, Holding, Writing
<1> QED
  BY <1>4, <1>5, <1>6, <1>7, <1>8, <1>9 DEF FInv

LEMMA StepFInv == FInv /\ [Next]_vars => FInv'
<1> SUFFICES ASSUME FInv, [Next]_vars PROVE FInv'
  OBVIOUS
<1>1. ASSUME NEW p \in Procs, Step(p) PROVE FInv'
  BY <1>1, KeepsBegin, KeepsAcquire, KeepsRead, KeepsOpen, KeepsWrite, KeepsRename,
     KeepsFailOrReturn, KeepsGet DEF Step
<1>2. CASE UNCHANGED vars
  <2>1. UNCHANGED <<mutex, at, op, buf, fd, name, tmp, data, begun, acked>>
    BY <1>2 DEF vars, procs, disk
  <2>2. (TypeOK /\ MutexHeld /\ InOp)'
    BY <2>1 DEF FInv, TypeOK, MutexHeld, InOp
  <2>3. (OwnInode /\ OpenFiles /\ Pending /\ Whole)'
    BY <2>1 DEF FInv, OwnInode, OpenFiles, Pending, Whole
  <2> QED
    BY <2>2, <2>3 DEF FInv
<1> QED
  BY <1>1, <1>2, KeepsCrash DEF Next

THEOREM FilesInvariant == Spec => []FInv
BY InitFInv, StepFInv, PTL DEF Spec

\* The state of Store and of the files stays in its types.
THEOREM TypeCorrect == Spec => []TypeOK
<1>1. FInv => TypeOK
  BY DEF FInv
<1> QED
  BY <1>1, FilesInvariant, PTL

\* Whatever call a crash or an error comes after, the name of every file leads
\* to a complete one (writeJSONAtomic).
THEOREM FilesAreWhole == Spec => []FileIsWhole
<1>1. FInv => FileIsWhole
  BY DEF FInv, Whole, FileIsWhole, Filed
<1> QED
  BY <1>1, FilesInvariant, PTL

\* GetScan and ListScansForTarget may read without the mutex: an open record is
\* whole and no writer touches its inode.
THEOREM ReadersSeeWhole == Spec => []ReadsAreWhole
<1>1. FInv => ReadsAreWhole
  BY DEF FInv, OpenFiles, ReadsAreWhole
<1> QED
  BY <1>1, FilesInvariant, PTL

-----------------------------------------------------------------------------
(* No update is lost. *)

Entry(i) == data[name["list"]].list[i]

\* Only an entry whose add returned is ever deleted or stamped; an add is begun
\* once, and until its rename the entry is not there.
Ordered == \A i \in Items :
  /\ <<"delete", i>> \in begun \/ <<"stamp", i>> \in begun => <<"add", i>> \in acked
  /\ <<"add", i>> \notin begun => Entry(i) = "absent"
  /\ \A p \in Procs : op[p] = <<"add", i>> =>
       /\ <<"add", i>> \notin acked
       /\ \A q \in Procs : op[q] = op[p] => q = p
       /\ at[p] \in {"lock", "read"} \cup Writing => Entry(i) = "absent"

\* A change that is about to return is in the list.
Applies == \A p \in Procs, i \in Items : at[p] = "ok" =>
  /\ op[p] = <<"delete", i>> => Entry(i) = "absent"
  /\ <<"delete", i>> \notin begun => /\ op[p] = <<"add", i>> => Entry(i) # "absent"
                                     /\ op[p] = <<"stamp", i>> => Entry(i) = "stamped"

HInv == Ordered /\ Applies /\ NoLostUpdate

\* A step that is not a rename changes nothing a name leads to.
LEMMA OnlyRenamePublishes ==
  ASSUME FInv, NEW p \in Procs, Step(p), ~Rename(p)
  PROVE  name' = name /\ data'[name["list"]] = data[name["list"]]
<1>1. ASSUME Open(p) \/ WriteSome(p) \/ WriteAll(p)
      PROVE  name' = name /\ data'[name["list"]] = data[name["list"]]
  <2>1. name["list"] \in Inodes /\ "list" \in Paths
    BY DEF FInv, TypeOK, Paths
  <2>2. CASE Open(p)
    <3>1. Path(op[p]) \in Paths
      BY <2>2, PathType DEF Open, FInv, InOp, Holding
    <3>2. PICK i \in IF tmp[Path(op[p])] = NoInode THEN Inodes \ InUse
                     ELSE {tmp[Path(op[p])]} :
            data' = [data EXCEPT ![i] = Blank] /\ name' = name
      BY <2>2 DEF Open
    <3>3. i # name["list"]
      BY <2>1, <3>1, <3>2, NoInodeAssumption DEF FInv, TypeOK, OwnInode, InUse, Range
    <3> QED
      BY <2>1, <3>2, <3>3 DEF FInv, TypeOK
  <2>3. CASE WriteSome(p) \/ WriteAll(p)
    <3>1. /\ Path(op[p]) \in Paths /\ fd[p] = tmp[Path(op[p])] /\ fd[p] \in Inodes
      BY <2>3, PathType DEF WriteSome, WriteAll, FInv, InOp, OpenFiles, Holding
    <3>2. fd[p] # name["list"]
      BY <2>1, <3>1, NoInodeAssumption DEF FInv, TypeOK, OwnInode
    <3> QED
      BY <2>1, <2>3, <3>2 DEF WriteSome, WriteAll, FInv, TypeOK
  <2> QED
    BY <1>1, <2>2, <2>3
<1> QED
  BY <1>1 DEF Step, Begin, Acquire, Read, Fail, Return, GetOpen, GetRead, disk

LEMMA InitHInv == Init => HInv
<1> SUFFICES ASSUME Init PROVE HInv
  OBVIOUS
<1>1. \A i \in Items : Entry(i) = "absent"
  BY RecordsAssumption DEF Init, Entry, Listed, Empty, Paths
<1>2. \A p \in Procs, i \in Items : op[p] # <<"add", i>> /\ at[p] # "ok"
  BY DEF Init, None
<1> QED
  BY <1>1, <1>2 DEF Init, HInv, Ordered, Applies, NoLostUpdate

LEMMA HKeepsBegin ==
  ASSUME FInv, HInv, NEW p \in Procs, NEW o \in Ops, Begin(p, o)
  PROVE  HInv'
<1>1. /\ at[p] = "idle" /\ op[p] = None /\ o[1] # "get" /\ MayBegin(o)
      /\ at' = [at EXCEPT ![p] = "lock"] /\ op' = [op EXCEPT ![p] = o]
      /\ begun' = begun \cup ({o} \cap Changes)
      /\ UNCHANGED <<name, data, acked>>
  BY DEF Begin, disk, FInv, InOp
<1>2. /\ acked \subseteq begun
      /\ \A q \in Procs : op[q] \in Changes => op[q] \in begun
      /\ at \in [Procs -> {"idle", "lock", "get"} \cup Holding]
      /\ op \in [Procs -> Ops \cup {None}]
  BY DEF FInv, TypeOK, InOp
<1>3. \A i \in Items : /\ <<"add", i>> \in Changes /\ <<"delete", i>> \in Changes
                        /\ <<"stamp", i>> \in Changes
  BY DEF Changes, Ops, ListOps
<1>4. \A i \in Items : Entry(i)' = Entry(i)
  BY <1>1 DEF Entry
<1>5. Ordered'
  <2> SUFFICES ASSUME NEW i \in Items
               PROVE  /\ <<"delete", i>> \in begun' \/ <<"stamp", i>> \in begun'
                            => <<"add", i>> \in acked'
                      /\ <<"add", i>> \notin begun' => Entry(i)' = "absent"
                      /\ \A q \in Procs : op'[q] = <<"add", i>> =>
                           /\ <<"add", i>> \notin acked'
                           /\ \A r \in Procs : op'[r] = op'[q] => r = q
                           /\ at'[q] \in {"lock", "read"} \cup Writing => Entry(i)' = "absent"
    BY DEF Ordered
  <2>1. <<"delete", i>> \in begun' \/ <<"stamp", i>> \in begun' => <<"add", i>> \in acked'
    BY <1>1 DEF HInv, Ordered, MayBegin
  <2>2. <<"add", i>> \notin begun' => Entry(i)' = "absent"
    BY <1>1, <1>4 DEF HInv, Ordered
  <2>3. o = <<"add", i>> => <<"add", i>> \notin begun
    BY <1>1 DEF MayBegin
  <2>4. ASSUME NEW q \in Procs, op'[q] = <<"add", i>>
        PROVE  /\ <<"add", i>> \notin acked'
               /\ \A r \in Procs : op'[r] = op'[q] => r = q
               /\ at'[q] \in {"lock", "read"} \cup Writing => Entry(i)' = "absent"
    <3>1. CASE q = p
      <4>1. o = <<"add", i>>
        BY <1>1, <1>2, <2>4, <3>1
      <4>2. \A r \in Procs : op[r] # o
        BY <1>2, <1>3, <2>3, <4>1
      <4> QED
        BY <1>1, <1>2, <1>4, <2>3, <3>1, <4>1, <4>2 DEF HInv, Ordered
    <3>2. CASE q # p
      <4>1. op[q] = <<"add", i>> /\ at'[q] = at[q] /\ op'[p] = o
        BY <1>1, <1>2, <2>4, <3>2
      <4>2. o # op[q]
        BY <1>2, <1>3, <2>3, <4>1
      <4> QED
        BY <1>1, <1>2, <1>4, <4>1, <4>2 DEF HInv, Ordered
    <3> QED
      BY <3>1, <3>2
  <2> QED
    BY <2>1, <2>2, <2>4
<1>6. Applies'
  BY <1>1, <1>2, <1>4 DEF HInv, Applies
<1>7. NoLostUpdate'
  BY <1>1 DEF HInv, NoLostUpdate
<1> QED
  BY <1>5, <1>6, <1>7 DEF HInv

\* An operation that goes on, fails or is forgotten: the list, the history and
\* the operations of the others stay, and it does not claim more than it did.
LEMMA HKeeps ==
  ASSUME FInv, HInv,
         UNCHANGED <<begun, acked>>, data'[name'["list"]] = data[name["list"]],
         \A p \in Procs : \/ UNCHANGED <<at[p], op[p]>>
                          \/ /\ op'[p] = op[p]
                             /\ at[p] \in {"lock", "read"} \cup Writing
                             /\ \/ at'[p] \in {"read", "err"} \cup Writing
                                \/ \A i \in Items : op[p] \notin {<<e, i>> : e \in ListOps}
                          \/ \A i \in Items : op'[p] \notin {<<e, i>> : e \in ListOps}
  PROVE  HInv'
<1>1. \A i \in Items : Entry(i)' = Entry(i)
  BY DEF Entry
<1>2. \A p \in Procs, i \in Items, e \in ListOps : op'[p] = <<e, i>> =>
        /\ op[p] = <<e, i>>
        /\ at'[p] = at[p] \/ /\ at[p] \in {"lock", "read"} \cup Writing
                             /\ at'[p] \in {"read", "err"} \cup Writing
  OBVIOUS
<1>3. Ordered'
  <2>1. ASSUME NEW p \in Procs, NEW i \in Items, op'[p] = <<"add", i>>
        PROVE  /\ <<"add", i>> \notin acked
               /\ \A q \in Procs : op'[q] = op'[p] => q = p
               /\ at'[p] \in {"lock", "read"} \cup Writing => Entry(i)' = "absent"
    <3>1. "add" \in ListOps
      BY DEF ListOps
    <3>2. \A q \in Procs : op'[q] = <<"add", i>> => op[q] = <<"add", i>>
      BY <1>2, <3>1
    <3>3. op[p] = <<"add", i>>
      BY <2>1, <3>2
    <3>4. /\ <<"add", i>> \notin acked
          /\ \A q \in Procs : op[q] = <<"add", i>> => q = p
          /\ at[p] \in {"lock", "read"} \cup Writing => Entry(i) = "absent"
      BY <3>3 DEF HInv, Ordered
    <3>5. at'[p] = at[p] \/ at[p] \in {"lock", "read"} \cup Writing
      BY <1>2, <2>1, <3>1
    <3> QED
      BY <1>1, <2>1, <3>2, <3>4, <3>5
  <2> QED
    BY <1>1, <2>1 DEF HInv, Ordered
<1>4. Applies'
  BY <1>1, <1>2 DEF HInv, Applies, ListOps, Writing
<1>5. NoLostUpdate'
  BY DEF HInv, NoLostUpdate
<1> QED
  BY <1>3, <1>4, <1>5 DEF HInv

\* The operations of one goroutine that do not rename and do not return.
LEMMA HKeepsQuiet ==
  ASSUME FInv, HInv, NEW p \in Procs,
         \/ Acquire(p) \/ Read(p) \/ Open(p) \/ WriteSome(p) \/ WriteAll(p) \/ Fail(p)
         \/ \E r \in Records : GetOpen(p, r)
         \/ GetRead(p)
  PROVE  HInv'
<1>1. ~Rename(p) /\ Step(p)
  <2>1. CASE at[p] # "rename"
    BY <2>1 DEF Step, Rename
  <2>2. CASE at[p] = "rename"
    <3>1. Fail(p) /\ at'[p] = "err"
      BY <2>2 DEF Acquire, Read, Open, WriteSome, WriteAll, Fail, GetOpen, GetRead, FInv, TypeOK
    <3>2. Rename(p) => at'[p] = "ok"
      BY DEF Rename, FInv, TypeOK
    <3> QED
      BY <3>1, <3>2 DEF Step
  <2> QED
    BY <2>1, <2>2
<1>2. data'[name'["list"]] = data[name["list"]]
  BY <1>1, OnlyRenamePublishes
<1>3. UNCHANGED <<begun, acked>>
  BY DEF Acquire, Read, Open, WriteSome, WriteAll, Fail, GetOpen, GetRead
<1>4. \A q \in Procs : q # p => UNCHANGED <<at[q], op[q]>>
  BY DEF Acquire, Read, Open, WriteSome, WriteAll, Fail, GetOpen, GetRead, procs, FInv, TypeOK
<1>5. \/ UNCHANGED <<at[p], op[p]>>
      \/ /\ op'[p] = op[p]
         /\ at[p] \in {"lock", "read"} \cup Writing
         /\ \/ at'[p] \in {"read", "err"} \cup Writing
            \/ \A i \in Items : op[p] \notin {<<e, i>> : e \in ListOps}
      \/ \A i \in Items : op'[p] \notin {<<e, i>> : e \in ListOps}
  <2>1. at \in [Procs -> {"idle", "lock", "get"} \cup Holding] /\ op \in [Procs -> Ops \cup {None}]
    BY DEF FInv, TypeOK
  <2>2. CASE Acquire(p)
    BY <2>1, <2>2 DEF Acquire, First, Writing
  <2>3. CASE Read(p)
    <3>1. op[p][1] = "list" => \A i \in Items : op[p] \notin {<<e, i>> : e \in ListOps}
      BY DEF ListOps
    <3> QED
      BY <2>1, <2>3, <3>1 DEF Read, Writing
  <2>4. CASE Open(p) \/ WriteSome(p) \/ WriteAll(p) \/ Fail(p)
    BY <2>1, <2>4 DEF Open, WriteSome, WriteAll, Fail, procs, Writing
  <2>5. CASE (\E r \in Records : GetOpen(p, r)) \/ GetRead(p)
    <3>1. op'[p][1] \notin ListOps
      BY <2>1, <2>5 DEF GetOpen, GetRead, None, ListOps
    <3> QED
      BY <3>1
  <2> QED
    BY <2>2, <2>3, <2>4, <2>5
<1> QED
  BY <1>2, <1>3, <1>4, <1>5, HKeeps

LEMMA HKeepsCrash == ASSUME FInv, HInv, Crash PROVE HInv'
<1>1. UNCHANGED <<begun, acked>> /\ data'[name'["list"]] = data[name["list"]]
  BY DEF Crash, disk
<1>2. \A p \in Procs, i \in Items : op'[p] \notin {<<e, i>> : e \in ListOps}
  BY DEF Crash, None, ListOps
<1> QED
  BY <1>1, <1>2, HKeeps

\* The operation returns: what it claims from now on, Applies already says.
LEMMA HKeepsReturn ==
  ASSUME FInv, HInv, NEW p \in Procs, Return(p)
  PROVE  HInv'
<1>1. /\ at[p] \in {"ok", "err"}
      /\ acked' = IF at[p] = "ok" THEN acked \cup ({op[p]} \cap Changes) ELSE acked
      /\ at' = [at EXCEPT ![p] = "idle"]
      /\ op' = [op EXCEPT ![p] = None]
      /\ UNCHANGED <<name, data, begun>>
  BY DEF Return, disk
<1>2. /\ at \in [Procs -> {"idle", "lock", "get"} \cup Holding]
      /\ op \in [Procs -> Ops \cup {None}]
  BY DEF FInv, TypeOK
<1>3. \A i \in Items : Entry(i)' = Entry(i)
  BY <1>1 DEF Entry
<1>4. \A i \in Items : None # <<"add", i>> /\ None # <<"delete", i>> /\ None # <<"stamp", i>>
  BY DEF None
<1>5. Ordered'
  <2> SUFFICES ASSUME NEW i \in Items
               PROVE  /\ <<"delete", i>> \in begun \/ <<"stamp", i>> \in begun
                            => <<"add", i>> \in acked'
                      /\ <<"add", i>> \notin begun => Entry(i)' = "absent"
                      /\ \A q \in Procs : op'[q] = <<"add", i>> =>
                           /\ <<"add", i>> \notin acked'
                           /\ \A r \in Procs : op'[r] = op'[q] => r = q
                           /\ at'[q] \in {"lock", "read"} \cup Writing => Entry(i)' = "absent"
    BY <1>1 DEF Ordered
  <2>1. <<"delete", i>> \in begun \/ <<"stamp", i>> \in begun => <<"add", i>> \in acked'
    BY <1>1 DEF HInv, Ordered
  <2>2. <<"add", i>> \notin begun => Entry(i)' = "absent"
    BY <1>3 DEF HInv, Ordered
  <2>3. ASSUME NEW q \in Procs, op'[q] = <<"add", i>>
        PROVE  /\ <<"add", i>> \notin acked'
               /\ \A r \in Procs : op'[r] = op'[q] => r = q
               /\ at'[q] \in {"lock", "read"} \cup Writing => Entry(i)' = "absent"
    <3>1. q # p /\ op[q] = <<"add", i>> /\ at'[q] = at[q]
      BY <1>1, <1>2, <1>4, <2>3
    <3>2. op[p] # op[q]
      BY <3>1 DEF HInv, Ordered
    <3>3. \A r \in Procs : op'[r] = op'[q] => op[r] = op[q]
      BY <1>1, <1>2, <1>4, <2>3, <3>1
    <3> QED
      BY <1>1, <1>3, <3>1, <3>2, <3>3 DEF HInv, Ordered
  <2> QED
    BY <2>1, <2>2, <2>3
<1>6. Applies'
  BY <1>1, <1>2, <1>3 DEF HInv, Applies
<1>7. NoLostUpdate'
  <2> SUFFICES ASSUME NEW i \in Items
               PROVE  /\ <<"delete", i>> \notin begun =>
                           /\ <<"add", i>> \in acked' => Entry(i) # "absent"
                           /\ <<"stamp", i>> \in acked' => Entry(i) = "stamped"
                      /\ <<"delete", i>> \in acked' => Entry(i) = "absent"
    BY <1>1 DEF NoLostUpdate, Entry
  <2>1. \A o : o \in acked' => o \in acked \/ (o = op[p] /\ at[p] = "ok")
    BY <1>1
  <2> QED
    BY <2>1 DEF HInv, NoLostUpdate, Applies, Entry
<1> QED
  BY <1>5, <1>6, <1>7 DEF HInv

\* The rename of a save leaves the list alone; that of a change of entry j
\* changes entry j, and then what the change claims is true.
LEMMA HKeepsRename ==
  ASSUME FInv, HInv, NEW p \in Procs, Rename(p)
  PROVE  HInv'
<1> DEFINE l == data[name["list"]].list
<1>1. /\ at[p] = "rename" /\ op[p] \in Changes /\ op[p] \in Ops
      /\ at' = [at EXCEPT ![p] = "ok"]
      /\ UNCHANGED <<mutex, op, buf, fd, data, begun, acked>>
      /\ IF op[p][1] = "save"
         THEN name'["list"] = name["list"]
         ELSE data'[name'["list"]] = Listed(Applied(op[p], l))
  BY RenamePublishes
<1>2. /\ at \in [Procs -> {"idle", "lock", "get"} \cup Holding] /\ l \in Lists
      /\ op[p] \in begun /\ acked \subseteq begun
  BY <1>1, BytesTypes DEF FInv, TypeOK, InOp, Paths
<1>3. CASE op[p][1] = "save"
  <2>1. \A i \in Items : op'[p] \notin {<<e, i>> : e \in ListOps}
    BY <1>1, <1>3 DEF ListOps
  <2>2. data'[name'["list"]] = data[name["list"]]
    BY <1>1, <1>3
  <2>3. \A q \in Procs : q # p => UNCHANGED <<at[q], op[q]>>
    BY <1>1, <1>2
  <2> QED
    BY <1>1, <2>1, <2>2, <2>3, HKeeps
<1>4. CASE op[p][1] # "save"
  <2>1. PICK e \in ListOps, j \in Items : op[p] = <<e, j>>
    BY <1>1, <1>4, ListChange
  <2>2. \A i \in Items : Entry(i) = l[i] /\ Entry(i)' = Applied(<<e, j>>, l)[i]
    BY <1>1, <1>4, <2>1 DEF Entry, Listed
  <2>3. \A i \in Items : i # j => Entry(i)' = Entry(i)
    BY <1>2, <2>2 DEF Applied, Lists
  <2>4. /\ e = "add" => Entry(j)' = "plain"
        /\ e = "delete" => Entry(j)' = "absent"
        /\ e = "stamp" => Entry(j)' = IF Entry(j) = "absent" THEN "absent" ELSE "stamped"
    BY <1>2, <2>2 DEF Applied, Lists
  <2>5. \A q \in Procs : q # p => at'[q] = at[q] /\ at[q] \notin Holding
    BY <1>1, <1>2, OneWriter DEF Holding
  <2>6. e \in {"add", "delete", "stamp"} /\ at'[p] = "ok"
    BY <1>1, <1>2, <2>1 DEF ListOps
  <2>7. /\ <<e, j>> \in begun
        /\ e # "add" => <<"add", j>> \in acked
        /\ e = "add" => /\ <<"add", j>> \notin acked
                        /\ <<"delete", j>> \notin begun /\ <<"stamp", j>> \notin begun
    BY <1>2, <2>1, <2>6 DEF HInv, Ordered
  <2>8. Ordered'
    <3> SUFFICES ASSUME NEW i \in Items
                 PROVE  /\ <<"delete", i>> \in begun \/ <<"stamp", i>> \in begun
                              => <<"add", i>> \in acked
                        /\ <<"add", i>> \notin begun => Entry(i)' = "absent"
                        /\ \A q \in Procs : op[q] = <<"add", i>> =>
                             /\ <<"add", i>> \notin acked
                             /\ \A r \in Procs : op[r] = op[q] => r = q
                             /\ at'[q] \in {"lock", "read"} \cup Writing => Entry(i)' = "absent"
      BY <1>1 DEF Ordered
    <3>1. <<"add", i>> \notin begun => Entry(i)' = "absent"
      BY <1>2, <2>3, <2>4, <2>6, <2>7 DEF HInv, Ordered
    <3>2. ASSUME NEW q \in Procs, op[q] = <<"add", i>>,
                 at'[q] \in {"lock", "read"} \cup Writing
          PROVE  Entry(i)' = "absent"
      <4>1. q # p /\ at'[q] = at[q] /\ at[q] = "lock"
        BY <1>2, <2>5, <2>6, <3>2 DEF Writing, Holding
      <4>2. i = j => e = "delete"
        BY <2>1, <2>6, <2>7, <3>2, <4>1 DEF HInv, Ordered
      <4> QED
        BY <2>3, <2>4, <3>2, <4>1, <4>2 DEF HInv, Ordered
    <3> QED
      BY <3>1, <3>2 DEF HInv, Ordered
  <2>9. Applies'
    <3>1. ASSUME NEW q \in Procs, NEW i \in Items, at'[q] = "ok"
          PROVE  /\ op[q] = <<"delete", i>> => Entry(i)' = "absent"
                 /\ <<"delete", i>> \notin begun =>
                       /\ op[q] = <<"add", i>> => Entry(i)' # "absent"
                       /\ op[q] = <<"stamp", i>> => Entry(i)' = "stamped"
      <4>1. q = p
        BY <2>5, <3>1 DEF Holding
      <4>2. \A f : op[q] = <<f, i>> => f = e /\ i = j
        BY <2>1, <4>1
      <4> QED
        BY <2>4, <2>7, <4>2 DEF HInv, NoLostUpdate, Entry
    <3> QED
      BY <1>1, <3>1 DEF Applies
  <2>10. NoLostUpdate'
    <3> SUFFICES ASSUME NEW i \in Items
                 PROVE  /\ <<"delete", i>> \notin begun =>
                             /\ <<"add", i>> \in acked => Entry(i)' # "absent"
                             /\ <<"stamp", i>> \in acked => Entry(i)' = "stamped"
                        /\ <<"delete", i>> \in acked => Entry(i)' = "absent"
      BY <1>1 DEF NoLostUpdate, Entry
    <3>1. /\ <<"delete", i>> \notin begun =>
               /\ <<"add", i>> \in acked => Entry(i) # "absent"
               /\ <<"stamp", i>> \in acked => Entry(i) = "stamped"
          /\ <<"delete", i>> \in acked => Entry(i) = "absent"
      BY DEF HInv, NoLostUpdate, Entry
    <3> QED
      BY <1>2, <2>3, <2>4, <2>6, <2>7, <3>1
  <2> QED
    BY <2>8, <2>9, <2>10 DEF HInv
<1> QED
  BY <1>3, <1>4

LEMMA StepHInv == FInv /\ HInv /\ [Next]_vars => HInv'
<1> SUFFICES ASSUME FInv, HInv, [Next]_vars PROVE HInv'
  OBVIOUS
<1>1. ASSUME NEW p \in Procs, Step(p) PROVE HInv'
  BY <1>1, HKeepsBegin, HKeepsQuiet, HKeepsRename, HKeepsReturn DEF Step
<1>2. CASE UNCHANGED vars
  BY <1>2, HKeeps DEF vars, procs, disk
<1> QED
  BY <1>1, <1>2, HKeepsCrash DEF Next

\* An update that returned survives the updates of other goroutines, failed
\* writes and crashes (AddTarget, DeleteTarget, UpdateTargetScan).
THEOREM NothingIsLost == Spec => []NoLostUpdate
<1>1. HInv => NoLostUpdate
  BY DEF HInv
<1> QED
  BY <1>1, InitFInv, InitHInv, StepFInv, StepHInv, PTL DEF Spec

-----------------------------------------------------------------------------
(* The register. *)

LEMMA InitImplements == Init => Files!Init
<1> SUFFICES ASSUME Init PROVE Files!Init
  OBVIOUS
<1>1. data[name["list"]].list = Empty
  BY DEF Init, Listed, Paths
<1>2. \A r \in Records : name[r] = NoInode
  BY RecordsAssumption DEF Init, Paths
<1> QED
  BY <1>1, <1>2 DEF Files!Init, Empty

\* The rename of a change is that change of the register, a record is saved
\* when it gets its name, and every other step changes nothing of it.
LEMMA StepImplements == FInv /\ HInv /\ [Next]_vars => [Files!Next]_(Files!rvars)
<1> SUFFICES ASSUME FInv, HInv, [Next]_vars PROVE [Files!Next]_(Files!rvars)
  OBVIOUS
<1> DEFINE l == data[name["list"]].list
           on == {r \in Records : name[r] # NoInode}
<1>1. ASSUME UNCHANGED name, data'[name["list"]] = data[name["list"]]
      PROVE  UNCHANGED Files!rvars
  BY <1>1 DEF Files!rvars
<1>2. ASSUME NEW p \in Procs, Rename(p)
      PROVE  [Files!Next]_(Files!rvars)
  <2> DEFINE q == Path(op[p])
  <2>1. /\ op[p] \in Changes /\ op[p] \in Ops /\ tmp[q] \in Inodes /\ q \in Paths
        /\ at[p] = "rename"
        /\ name' = [name EXCEPT ![q] = tmp[q]]
        /\ data' = data
        /\ IF op[p][1] = "save"
           THEN q \in Records /\ name'["list"] = name["list"]
           ELSE q = "list" /\ data'[name'["list"]] = Listed(Applied(op[p], l))
    BY <1>2, RenamePublishes
  <2>2. name \in [Paths -> Inodes \cup {NoInode}] /\ l \in Lists
    BY BytesTypes DEF FInv, TypeOK, Paths
  <2> HIDE DEF q
  <2>3. CASE op[p][1] = "save"
    <3>1. l' = l /\ q \in Records
      BY <2>1, <2>3
    <3>2. on' = on \cup {q}
      BY <2>1, <2>2, <3>1, NoInodeAssumption DEF Paths
    <3>3. CASE q \in on
      <4>1. on' = on
        BY <3>2, <3>3
      <4> QED
        BY <3>1, <4>1 DEF Files!rvars
    <3>4. CASE q \notin on
      BY <3>1, <3>2, <3>4 DEF Files!Next, Files!Save
    <3> QED
      BY <3>3, <3>4
  <2>4. CASE op[p][1] # "save"
    <3>1. PICK e \in ListOps, j \in Items : op[p] = <<e, j>>
      BY <2>1, <2>4, ListChange
    <3>2. l' = Applied(<<e, j>>, l)
      BY <2>1, <2>4, <3>1 DEF Listed
    <3>3. on' = on
      BY <2>1, <2>2, <2>4, RecordsAssumption DEF Paths
    <3>4. CASE e = "delete"
      BY <3>2, <3>3, <3>4 DEF Files!Next, Files!Change, Files!Erase, Applied
    <3>5. CASE e = "stamp"
      BY <3>2, <3>3, <3>5 DEF Files!Next, Files!Change, Files!Stamp, Files!rvars, Applied
    <3>6. CASE e = "add"
      <4>1. l[j] = "absent"
        BY <2>1, <3>1, <3>6 DEF HInv, Ordered, Entry, Writing
      <4> QED
        BY <3>2, <3>3, <3>6, <4>1 DEF Files!Next, Files!Change, Files!Enter, Applied
    <3> QED
      BY <3>4, <3>5, <3>6 DEF ListOps
  <2> QED
    BY <2>3, <2>4
<1>3. ASSUME NEW p \in Procs, Step(p)
      PROVE  [Files!Next]_(Files!rvars)
  BY <1>1, <1>2, <1>3, OnlyRenamePublishes
<1>4. CASE Crash \/ UNCHANGED vars
  BY <1>1, <1>4 DEF Crash, vars, disk
<1> QED
  BY <1>3, <1>4 DEF Next

\* The file operations implement the register of entries and records: a reader
\* of the directory sees one whole change at a time, whatever is interleaved,
\* fails or crashes (Store).
THEOREM FilesImplementRegister == Spec => ImplementsRegister
<1>1. Init /\ [][Next]_vars => [](FInv /\ HInv)
  BY InitFInv, InitHInv, StepFInv, StepHInv, PTL
<1> QED
  BY <1>1, InitImplements, StepImplements, PTL DEF Spec, ImplementsRegister, Files!Spec
=============================================================================
