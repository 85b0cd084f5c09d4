------------------------------ MODULE StoreFiles ------------------------------
(***************************************************************************)
(* The file level of Store: one mutex, read-modify-write of a list file    *)
(* (watchlist.json; alerts.json is another instance), scan records written *)
(* once and read without the mutex, and writeJSONAtomic, which fills       *)
(* <path>.tmp and renames it.  Modules Scheduler and Server take each of   *)
(* these operations for one atomic step; this module is why they may.      *)
(*                                                                         *)
(* A step is one system call, or the lock.  Files are inodes with names,   *)
(* so an open file keeps its inode when the name moves to another.  The    *)
(* process may crash between any two calls; what the kernel has taken      *)
(* survives (the loss of unsynced pages in a power failure is left out).   *)
(* An entry of the list is reduced to whether it is there and stamped.     *)
(***************************************************************************)
EXTENDS Naturals, FiniteSets, Functions

CONSTANTS Procs,     \* goroutines: handlers and the scheduler
          NoProc,    \* nobody holds the mutex
          Items,     \* identifiers of list entries
          Records,   \* identifiers of scan records
          Inodes,    \* enough of them (InodesAssumption)
          NoInode,   \* no such file
          Faults     \* the system calls that may fail

ASSUME NoProcAssumption  == NoProc \notin Procs
ASSUME NoInodeAssumption == NoInode \notin Inodes
ASSUME RecordsAssumption == "list" \notin Records
ASSUME InodesAssumption  == Inodes # {}
ASSUME FaultsAssumption  == Faults \subseteq {"open", "write", "rename"}

VARIABLES
  mutex,     \* Store.mu: its holder, or NoProc
  at,        \* where each goroutine is
  op,        \* the operation it is in
  buf,       \* what it will write
  fd,        \* the inode it has open, or NoInode
  name,      \* directory: the inode of each path, or NoInode
  tmp,       \* directory: the inode of each path's .tmp, or NoInode
  data       \* the bytes of each inode
VARIABLES    \* history, read by guards of clients and by properties
  begun,     \* changes ever begun
  acked      \* changes that returned without an error

procs == <<mutex, at, op, buf, fd>>
disk  == <<name, tmp, data>>
vars  == <<procs, disk, begun, acked>>

ListOps == {"add", "delete", "stamp"}
Ops  == (ListOps \X Items) \cup ({"save", "get"} \X Records) \cup {<<"list", "list">>}
None == <<"none", "none">>
Changes == {o \in Ops : o[1] \in ListOps \cup {"save"}}

Paths   == {"list"} \cup Records
Path(o) == IF o[1] \in {"save", "get"} THEN o[2] ELSE "list"

\* The bytes of a file.  A blank file decodes as the empty list, without an
\* error; a cut-off one does not decode.
Lists   == [Items -> {"absent", "plain", "stamped"}]
Empty   == [i \in Items |-> "absent"]
Bytes   == [kind: {"list", "record", "blank", "partial"}, list: Lists]
Blank   == [kind |-> "blank", list |-> Empty]
Partial == [kind |-> "partial", list |-> Empty]
Filed   == [kind |-> "record", list |-> Empty]
Listed(l) == [kind |-> "list", list |-> l]

Holding == {"read", "open", "write", "rename", "ok", "err"}

TypeOK ==
  /\ mutex \in Procs \cup {NoProc}
  /\ at \in [Procs -> {"idle", "lock", "get"} \cup Holding]
  /\ op \in [Procs -> Ops \cup {None}]
  /\ buf \in [Procs -> Bytes]
  /\ fd \in [Procs -> Inodes \cup {NoInode}]
  /\ name \in [Paths -> Inodes \cup {NoInode}] /\ name["list"] # NoInode
  /\ tmp \in [Paths -> Inodes \cup {NoInode}]
  /\ data \in [Inodes -> Bytes]
  /\ begun \subseteq Changes /\ acked \subseteq begun

-----------------------------------------------------------------------------
\* A data directory that NewStore has initialised.
Init == /\ mutex = NoProc
        /\ at = [p \in Procs |-> "idle"] /\ op = [p \in Procs |-> None]
        /\ buf = [p \in Procs |-> Blank] /\ fd = [p \in Procs |-> NoInode]
        /\ \E i \in Inodes :
             /\ name = [q \in Paths |-> IF q = "list" THEN i ELSE NoInode]
             /\ data = [j \in Inodes |-> IF j = i THEN Listed(Empty) ELSE Blank]
        /\ tmp = [q \in Paths |-> NoInode]
        /\ begun = {} /\ acked = {}

\* Identifiers are drawn once; only an entry whose add returned has a known id.
MayBegin(o) == CASE o[1] \in {"add", "save"}     -> o \notin begun
                 [] o[1] \in {"delete", "stamp"} -> <<"add", o[2]>> \in acked
                 [] OTHER -> TRUE

\* AddTarget, DeleteTarget, UpdateTargetScan, SaveScan, ListTargets, GetTarget:
\* all of them start by waiting for the mutex.
Begin(p, o) == /\ at[p] = "idle" /\ o[1] # "get"
               /\ MayBegin(o)
               /\ at' = [at EXCEPT ![p] = "lock"]
               /\ op' = [op EXCEPT ![p] = o]
               /\ begun' = begun \cup ({o} \cap Changes)
               /\ UNCHANGED <<mutex, buf, fd, disk, acked>>

First(o) == IF o[1] = "save" THEN "open" ELSE "read"

\* Mutant: the mutex left out.
AcquireAnyway(p) == /\ at[p] = "lock"
                    /\ mutex' = p
                    /\ at' = [at EXCEPT ![p] = First(op[p])]
                    /\ buf' = [buf EXCEPT ![p] = IF op[p][1] = "save" THEN Filed ELSE Blank]
                    /\ UNCHANGED <<op, fd, disk, begun, acked>>
\* s.mu.Lock.  SaveScan has what it writes, the others read the list first.
Acquire(p) == /\ at[p] = "lock"
              /\ mutex = NoProc
              /\ mutex' = p
              /\ at' = [at EXCEPT ![p] = First(op[p])]
              /\ buf' = [buf EXCEPT ![p] = IF op[p][1] = "save" THEN Filed ELSE Blank]
              /\ UNCHANGED <<op, fd, disk, begun, acked>>

\* What an operation makes of the list it read.  A delete or a stamp of an
\* entry that is not there rewrites the list as it is.
Applied(o, l) == CASE o[1] = "add"    -> [l EXCEPT ![o[2]] = "plain"]
                   [] o[1] = "delete" -> [l EXCEPT ![o[2]] = "absent"]
                   [] o[1] = "stamp" /\ l[o[2]] # "absent" -> [l EXCEPT ![o[2]] = "stamped"]
                   [] OTHER -> l

\* readWatchlist, readAlerts.
Read(p) ==
  /\ at[p] = "read"
  /\ LET found == data[name["list"]] IN
       \/ /\ found.kind \in {"list", "blank"}
          /\ buf' = [buf EXCEPT ![p] = Listed(Applied(op[p], found.list))]
          /\ at' = [at EXCEPT ![p] = IF op[p][1] = "list" THEN "ok" ELSE "open"]
       \/ /\ found.kind \notin {"list", "blank"}
          /\ at' = [at EXCEPT ![p] = "err"]
          /\ UNCHANGED buf
  /\ UNCHANGED <<mutex, op, fd, disk, begun, acked>>

InUse == Range(name) \cup Range(tmp) \cup Range(fd)

\* Mutant: no temporary file, the path itself is opened and truncated.
OpenInPlace(p) == LET q == Path(op[p]) IN
  /\ at[p] = "open"
  /\ \E i \in IF name[q] = NoInode THEN Inodes \ InUse ELSE {name[q]} :
       /\ name' = [name EXCEPT ![q] = i]
       /\ data' = [data EXCEPT ![i] = Blank]
       /\ fd' = [fd EXCEPT ![p] = i]
  /\ at' = [at EXCEPT ![p] = "write"]
  /\ UNCHANGED <<mutex, op, buf, tmp, begun, acked>>
\* os.WriteFile opens <path>.tmp, new or left over, and truncates it.
Open(p) == LET q == Path(op[p]) IN
  /\ at[p] = "open"
  /\ \E i \in IF tmp[q] = NoInode THEN Inodes \ InUse ELSE {tmp[q]} :
       /\ tmp' = [tmp EXCEPT ![q] = i]
       /\ data' = [data EXCEPT ![i] = Blank]
       /\ fd' = [fd EXCEPT ![p] = i]
  /\ at' = [at EXCEPT ![p] = "write"]
  /\ UNCHANGED <<mutex, op, buf, name, begun, acked>>

\* A part of the bytes is written.
WriteSome(p) == /\ at[p] = "write"
                /\ data' = [data EXCEPT ![fd[p]] = Partial]
                /\ UNCHANGED <<procs, name, tmp, begun, acked>>

WriteAll(p) == /\ at[p] = "write"
               /\ data' = [data EXCEPT ![fd[p]] = buf[p]]
               /\ fd' = [fd EXCEPT ![p] = NoInode]
               /\ at' = [at EXCEPT ![p] = "rename"]
               /\ UNCHANGED <<mutex, op, buf, name, tmp, begun, acked>>

\* Mutant: the old file removed before the new one takes its name.
RenameRemoves(p) == LET q == Path(op[p]) IN
  /\ at[p] = "rename"
  /\ IF name[q] # NoInode
       THEN /\ name' = [name EXCEPT ![q] = NoInode]
            /\ UNCHANGED <<tmp, at>>
       ELSE /\ name' = [name EXCEPT ![q] = tmp[q]]
            /\ tmp' = [tmp EXCEPT ![q] = NoInode]
            /\ at' = [at EXCEPT ![p] = "ok"]
  /\ UNCHANGED <<mutex, op, buf, fd, data, begun, acked>>
\* os.Rename: the name moves to the new inode in one step.
Rename(p) == LET q == Path(op[p]) IN
  /\ at[p] = "rename"
  /\ tmp[q] # NoInode
  /\ name' = [name EXCEPT ![q] = tmp[q]]
  /\ tmp' = [tmp EXCEPT ![q] = NoInode]
  /\ at' = [at EXCEPT ![p] = "ok"]
  /\ UNCHANGED <<mutex, op, buf, fd, data, begun, acked>>

\* A call that fails: the error is returned and the temporary file stays as it
\* is, blank, cut off or complete.
Fail(p) == /\ \/ at[p] \in {"open", "write", "rename"} /\ at[p] \in Faults
              \/ at[p] = "rename" /\ tmp[Path(op[p])] = NoInode
           /\ at' = [at EXCEPT ![p] = "err"]
           /\ fd' = [fd EXCEPT ![p] = NoInode]
           /\ UNCHANGED <<mutex, op, buf, disk, begun, acked>>

\* The deferred s.mu.Unlock, and the return to the caller.
Return(p) == /\ at[p] \in {"ok", "err"}
             /\ mutex' = NoProc
             /\ acked' = IF at[p] = "ok" THEN acked \cup ({op[p]} \cap Changes) ELSE acked
             /\ at' = [at EXCEPT ![p] = "idle"]
             /\ op' = [op EXCEPT ![p] = None]
             /\ buf' = [buf EXCEPT ![p] = Blank]
             /\ UNCHANGED <<fd, disk, begun>>

\* GetScan, ListScansForTarget: no mutex.  A record that does not exist is
\* simply not found; <id>.json.tmp does not have the extension .json.
GetOpen(p, r) == /\ at[p] = "idle"
                 /\ name[r] # NoInode
                 /\ at' = [at EXCEPT ![p] = "get"]
                 /\ op' = [op EXCEPT ![p] = <<"get", r>>]
                 /\ fd' = [fd EXCEPT ![p] = name[r]]
                 /\ UNCHANGED <<mutex, buf, disk, begun, acked>>

GetRead(p) == /\ at[p] = "get"
              /\ at' = [at EXCEPT ![p] = "idle"]
              /\ op' = [op EXCEPT ![p] = None]
              /\ fd' = [fd EXCEPT ![p] = NoInode]
              /\ UNCHANGED <<mutex, buf, disk, begun, acked>>

\* The process dies, and starts again on the same directory: NewStore finds
\* the list and leaves it alone.
Crash == /\ mutex' = NoProc
         /\ at' = [p \in Procs |-> "idle"] /\ op' = [p \in Procs |-> None]
         /\ buf' = [p \in Procs |-> Blank] /\ fd' = [p \in Procs |-> NoInode]
         /\ UNCHANGED <<disk, begun, acked>>

Step(p) == \/ \E o \in Ops : Begin(p, o)
           \/ Acquire(p) \/ Read(p) \/ Open(p) \/ WriteSome(p) \/ WriteAll(p)
           \/ Rename(p) \/ Fail(p) \/ Return(p)
           \/ \E r \in Records : GetOpen(p, r)
           \/ GetRead(p)

Next == (\E p \in Procs : Step(p)) \/ Crash

Spec == Init /\ [][Next]_vars

-----------------------------------------------------------------------------
\* At every moment, so also after every crash, the name of a file leads to a
\* complete one (writeJSONAtomic: temporary file, then rename).
FileIsWhole == /\ data[name["list"]].kind = "list"
               /\ \A r \in Records : name[r] # NoInode => data[name[r]].kind = "record"

\* A reader that does not hold the mutex reads a whole record, though other
\* goroutines write while it reads (GetScan, ListScansForTarget).
ReadsAreWhole == \A p \in Procs : at[p] = "get" => data[fd[p]] = Filed

\* An update that returned is never lost to another one that read the list
\* before it, to a failed write or to a crash: an entry is there from the return
\* of its add to the call of its delete, and stamped once its stamp returned,
\* and it stays away once its delete returned.
NoLostUpdate ==
  \A i \in Items :
    LET entry == data[name["list"]].list[i] IN
    /\ <<"delete", i>> \notin begun =>
         /\ <<"add", i>> \in acked => entry # "absent"
         /\ <<"stamp", i>> \in acked => entry = "stamped"
    /\ <<"delete", i>> \in acked => entry = "absent"

\* The files implement the register: each change of what a reader would find
\* is one operation's change, and a record once found stays.
Files == INSTANCE Register WITH list  <- data[name["list"]].list,
                                saved <- {r \in Records : name[r] # NoInode}
ImplementsRegister == Files!Spec
=============================================================================
