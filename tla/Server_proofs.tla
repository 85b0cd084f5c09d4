---------------------------- MODULE Server_proofs ----------------------------
(***************************************************************************)
(* Theorems about module Server, for every set of targets, issues and      *)
(* destinations, every number of scans, all faults and all ways to stop.   *)
(***************************************************************************)
EXTENDS Server, Sequences, TLAPS

-----------------------------------------------------------------------------
(* The scheduling half. *)

LEMMA StepIsScheduler == [Next]_vars => [Sched!Next]_schedVars
<1> SUFFICES ASSUME [Next]_vars PROVE [Sched!Next]_schedVars
  OBVIOUS
<1>1. CASE Environment
  BY <1>1 DEF Environment, Sched!Next
<1>2. CASE Die
  BY <1>2 DEF Die, Sched!Next
<1>3. ASSUME NEW t \in Targets,
             AddTarget(t) \/ RequestAdded(t) \/ ScanTarget(t) \/ DeleteTarget(t)
      PROVE  Sched!Next
  BY <1>3 DEF AddTarget, RequestAdded, ScanTarget, DeleteTarget, Sched!Next, Sched!Handlers
<1>4. ASSUME NEW d \in Dests, AddAlert(d) \/ DeleteAlert(d)
      PROVE  UNCHANGED schedVars
  BY <1>4 DEF AddAlert, DeleteAlert
<1>5. CASE Goroutine
  BY <1>5 DEF Goroutine, BeginRecord, Loop, ExecuteScan, SaveScan, SaveFails, UpdateTargetScan,
              UpdateFails, DispatchAlerts, Sched!Next, Sched!Goroutine
<1>6. CASE PostEnds \/ UNCHANGED vars
  BY <1>6 DEF PostEnds, vars
<1> QED
  BY <1>1, <1>2, <1>3, <1>4, <1>5, <1>6 DEF Next, Handlers

\* Whatever the data half adds, it neither adds a behaviour to the scheduling
\* half nor writes its state: what module Scheduler_proofs shows of every
\* behaviour of Scheduler holds of the whole server.
THEOREM ServerIsScheduler == Spec => Sched!Spec
<1>1. Init => Sched!Init
  BY DEF Init
<1> QED
  BY <1>1, StepIsScheduler, PTL DEF Spec, Sched!Spec, Sched!vars, schedVars

-----------------------------------------------------------------------------
(* The records, the stamps and the audit log. *)

\* The shape of the data the argument needs.
Shape == /\ drawn \in 0..MaxScans
         /\ stamp \in [Targets -> 0..MaxScans]
         /\ scans \in [ScanIds -> Record \cup {NoRecord}]
         /\ rec \in [id: 0..MaxScans, failed: BOOLEAN, found: SUBSET Findings]

\* A scan id is drawn once: one that is not drawn yet has left no trace.
Undrawn == \A s \in ScanIds : s > drawn => /\ scans[s] = NoRecord
                                           /\ <<"scan.failed", s>> \notin Emitted
                                           /\ <<"scan.completed", s>> \notin Emitted

\* What scanOne has done so far, by the place it is at.
Begun  == pc \in Sched!Scanning =>
            /\ cur \in Targets
            /\ rec.id \in 1..drawn
            /\ <<"scan.started", rec.id>> \in Emitted
Silent == pc = "scan" => /\ ~rec.failed
                         /\ <<"scan.failed", rec.id>> \notin Emitted
                         /\ <<"scan.completed", rec.id>> \notin Emitted
Told   == pc = "save" => /\ <<"scan.failed", rec.id>> \in Emitted <=> rec.failed
                         /\ <<"scan.completed", rec.id>> \in Emitted <=> ~rec.failed
Fresh  == pc \in {"scan", "save"} => scans[rec.id] = NoRecord
Filed  == pc \in {"stamp", "alerts"} => rec.id \in Saved /\ scans[rec.id].target = cur

IInv == /\ Shape /\ Undrawn /\ Begun /\ Silent /\ Told /\ Fresh /\ Filed
        /\ StampIsSaved /\ AuditMatchesRecord

LEMMA EmitAdds ==
  ASSUME NEW event, NEW id, Emit(event, id)
  PROVE  Emitted' = Emitted \cup {<<event, id>>}
BY DEF Emit, Emitted

LEMMA InitIInv == Init => IInv
<1> SUFFICES ASSUME Init PROVE IInv
  OBVIOUS
<1>1. Shape /\ Undrawn /\ StampIsSaved
  BY MaxScansAssumption
     DEF Init, Emitted, Shape, Undrawn, StampIsSaved, Saved, NoRecord, Record, NoScan, Idle, Findings
<1>2. pc = "off"
  BY DEF Init, Sched!Init
<1>3. Begun /\ Silent /\ Told /\ Fresh /\ Filed
  BY <1>2 DEF Begun, Silent, Told, Fresh, Filed, Sched!Scanning
<1>4. AuditMatchesRecord
  BY DEF Init, AuditMatchesRecord, Saved
<1> QED
  BY <1>1, <1>3, <1>4 DEF IInv

\* A step that leaves the data alone, and the scheduler either where it is with
\* the same target or outside of a scan, keeps the invariant.
LEMMA KeepData ==
  ASSUME IInv,
         UNCHANGED <<stamp, scans, drawn, audit, lost>>,
         \/ UNCHANGED <<pc, cur, rec>>
         \/ /\ pc' \notin Sched!Scanning
            /\ rec' \in [id: 0..MaxScans, failed: BOOLEAN, found: SUBSET Findings]
  PROVE  IInv'
<1>1. (Shape /\ Undrawn /\ StampIsSaved /\ AuditMatchesRecord)'
  BY DEF IInv, Shape, Undrawn, StampIsSaved, AuditMatchesRecord, Saved, Emitted
<1>2. (Begun /\ Silent /\ Told /\ Fresh /\ Filed)'
  BY DEF IInv, Begun, Silent, Told, Fresh, Filed, Saved, Emitted, Sched!Scanning
<1> QED
  BY <1>1, <1>2 DEF IInv

LEMMA IdleType ==
  Idle \in [id: 0..MaxScans, failed: BOOLEAN, found: SUBSET Findings]
BY MaxScansAssumption DEF Idle, NoScan

\* The goroutine between two scans.
LEMMA LoopStaysOut ==
  ASSUME Loop
  PROVE  pc \notin Sched!Scanning /\ pc' \notin Sched!Scanning
BY DEF Loop, Sched!Sweep, Sched!SweepFails, Sched!SweepDone, Sched!StopScheduler,
       Sched!TakeManual, Sched!SweepNext, Sched!ScanOne, Sched!GetFails, Sched!Return,
       Sched!Scanning

LEMMA KeepsEnvironment ==
  ASSUME IInv, \/ Environment \/ Loop \/ PostEnds \/ Die \/ UNCHANGED vars
               \/ \E t \in Targets : RequestAdded(t) \/ ScanTarget(t) \/ DeleteTarget(t)
               \/ \E d \in Dests : AddAlert(d) \/ DeleteAlert(d)
  PROVE  IInv'
<1>1. CASE Environment
  <2>1. (pc' = pc /\ cur' = cur) \/ pc' \notin Sched!Scanning
    BY <1>1 DEF Environment, Sched!Start, Sched!Signal, Sched!Lapse, Sched!procVars,
                Sched!Scanning
  <2> QED
    BY <1>1, <2>1, KeepData DEF Environment, data, procData, history, IInv, Shape
<1>2. CASE Loop
  <2>1. pc' \notin Sched!Scanning
    BY <1>2, LoopStaysOut
  <2> QED
    BY <1>2, <2>1, KeepData DEF Loop, data, procData, history, IInv, Shape
<1>3. CASE PostEnds \/ UNCHANGED vars
  BY <1>3, KeepData DEF PostEnds, vars, schedVars, procData, history
<1>4. CASE Die
  <2>1. pc' = "off"
    BY <1>4 DEF Die, Sched!Exit, Sched!Crash, Sched!Die
  <2>2. pc' \notin Sched!Scanning
    BY <2>1 DEF Sched!Scanning
  <2> QED
    BY <1>4, <2>2, KeepData, IdleType DEF Die
<1>5. ASSUME NEW t \in Targets, RequestAdded(t) \/ ScanTarget(t) \/ DeleteTarget(t)
      PROVE  IInv'
  BY <1>5, KeepData DEF RequestAdded, ScanTarget, DeleteTarget, data, procData, history,
                        Sched!RequestAdded, Sched!ScanTarget, Sched!DeleteTarget,
                        Sched!procVars
<1>6. ASSUME NEW d \in Dests, AddAlert(d) \/ DeleteAlert(d)
      PROVE  IInv'
  BY <1>6, KeepData DEF AddAlert, DeleteAlert, schedVars, procData, history
<1> QED
  BY <1>1, <1>2, <1>3, <1>4, <1>5, <1>6

LEMMA KeepsAddTarget ==
  ASSUME IInv, NEW t \in Targets, AddTarget(t)
  PROVE  IInv'
<1>1. PICK s \in {NoScan} \cup (ClientStamps \cap 1..drawn) :
        stamp' = [stamp EXCEPT ![t] = s]
  BY DEF AddTarget
<1>2. UNCHANGED <<scans, drawn, rec, Emitted, pc, cur>>
  BY DEF AddTarget, procData, history, Emitted, Sched!AddTarget
<1>3. Shape'
  BY <1>1, <1>2, MaxScansAssumption DEF IInv, Shape, NoScan
<1>4. StampIsSaved'
  BY <1>1, <1>2 DEF IInv, StampIsSaved, Saved, Shape
<1>5. (Undrawn /\ Begun /\ Silent /\ Told /\ Fresh /\ Filed /\ AuditMatchesRecord)'
  BY <1>2 DEF IInv, Undrawn, Begun, Silent, Told, Fresh, Filed, AuditMatchesRecord, Saved
<1> QED
  BY <1>3, <1>4, <1>5 DEF IInv

\* A scan that begins draws an id nothing mentions yet.
LEMMA KeepsBeginRecord ==
  ASSUME IInv, BeginRecord
  PROVE  IInv' /\ cur \in Targets
<1>1. /\ drawn < MaxScans /\ drawn' = drawn + 1
      /\ rec' = [Idle EXCEPT !.id = drawn']
      /\ Emitted' = Emitted \cup {<<"scan.started", drawn'>>}
      /\ pc' = "scan" /\ UNCHANGED <<stamp, scans, cur>>
  BY EmitAdds DEF BeginRecord, Sched!GetTarget
<1>2. cur \in Targets
  BY DEF BeginRecord, Sched!GetTarget, Sched!Watched
<1>3. /\ drawn \in 0..MaxScans /\ drawn' \in ScanIds /\ drawn' > drawn
      /\ drawn' \in 0..MaxScans /\ drawn' \in 1..drawn'
  BY <1>1, MaxScansAssumption DEF IInv, Shape, ScanIds
<1>4. rec'.id = drawn' /\ ~rec'.failed
  BY <1>1 DEF Idle
<1>5. Shape'
  BY <1>1, <1>3 DEF IInv, Shape, Idle
<1>6. \A s : /\ <<"scan.failed", s>> \in Emitted' <=> <<"scan.failed", s>> \in Emitted
             /\ <<"scan.completed", s>> \in Emitted' <=> <<"scan.completed", s>> \in Emitted
  BY <1>1
<1>7. Undrawn'
  BY <1>1, <1>3, <1>6, MaxScansAssumption DEF IInv, Undrawn, ScanIds
<1>8. (Begun /\ Silent /\ Told /\ Fresh /\ Filed)'
  BY <1>1, <1>2, <1>3, <1>4, <1>6
     DEF IInv, Undrawn, Begun, Silent, Told, Fresh, Filed
<1>9. (StampIsSaved /\ AuditMatchesRecord)'
  BY <1>1, <1>6 DEF IInv, StampIsSaved, AuditMatchesRecord, Saved
<1> QED
  BY <1>2, <1>5, <1>7, <1>8, <1>9 DEF IInv

\* The scan ends with the one event that says how, and nothing else moves.
LEMMA KeepsExecuteScan ==
  ASSUME IInv, ExecuteScan
  PROVE  IInv'
<1>1. /\ pc = "scan" /\ pc' = "save"
      /\ UNCHANGED <<cur, stamp, scans, drawn>>
  BY DEF ExecuteScan, Sched!ExecuteScan
<1>2. /\ cur \in Targets /\ rec.id \in 1..drawn /\ rec.id \in ScanIds
      /\ scans[rec.id] = NoRecord /\ ~rec.failed
      /\ <<"scan.started", rec.id>> \in Emitted
  BY <1>1, MaxScansAssumption DEF IInv, Shape, Begun, Fresh, Silent, Sched!Scanning, ScanIds
<1>3. rec' \in [id: 0..MaxScans, failed: BOOLEAN, found: SUBSET Findings] /\ rec'.id = rec.id
  <2>1. CASE ExecuteFails
    BY <2>1 DEF ExecuteFails, IInv, Shape
  <2>2. CASE ExecuteSucceeds
    <3>1. PICK found \in SUBSET Issues :
            rec' = [rec EXCEPT !.found = found \X {Place(cur, rec.id)}]
      BY <2>2 DEF ExecuteSucceeds
    <3>2. found \X {Place(cur, rec.id)} \subseteq Findings
      BY <1>2, MaxScansAssumption DEF Findings, Place, NoScan, ScanIds
    <3> QED
      BY <3>1, <3>2 DEF IInv, Shape
  <2> QED
    BY <2>1, <2>2 DEF ExecuteScan
<1>4. \E e \in {"scan.failed", "scan.completed"} :
        /\ Emitted' = Emitted \cup {<<e, rec.id>>}
        /\ rec'.failed <=> e = "scan.failed"
  BY <1>2, EmitAdds DEF ExecuteScan, ExecuteFails, ExecuteSucceeds, IInv, Shape
<1>5. \A e \in {"scan.failed", "scan.completed"} : \A s :
        s # rec.id => (<<e, s>> \in Emitted' <=> <<e, s>> \in Emitted)
  BY <1>4
<1>6. \A s : <<"scan.started", s>> \in Emitted' <=> <<"scan.started", s>> \in Emitted
  BY <1>4
<1>7. (Shape /\ StampIsSaved)'
  BY <1>1, <1>3 DEF IInv, Shape, StampIsSaved, Saved
<1>8. Undrawn'
  BY <1>1, <1>2, <1>5, MaxScansAssumption DEF IInv, Shape, Undrawn, ScanIds
<1>9. Told'
  BY <1>1, <1>2, <1>3, <1>4 DEF IInv, Silent, Told
<1>10. (Begun /\ Silent /\ Fresh /\ Filed)'
  BY <1>1, <1>2, <1>3, <1>6 DEF Begun, Silent, Fresh, Filed
<1>11. AuditMatchesRecord'
  <2>1. \A s \in Saved : s # rec.id
    BY <1>2 DEF Saved
  <2> QED
    BY <1>1, <1>5, <1>6, <2>1 DEF IInv, AuditMatchesRecord, Saved
<1> QED
  BY <1>7, <1>8, <1>9, <1>10, <1>11 DEF IInv

\* The record is filed under its own id, which nothing points at yet.
LEMMA KeepsSaveScan ==
  ASSUME IInv, SaveScan
  PROVE  IInv'
<1> DEFINE new == [target |-> cur, failed |-> rec.failed, found |-> rec.found]
<1>1. /\ pc = "save" /\ pc' = "stamp"
      /\ scans' = [scans EXCEPT ![rec.id] = new]
      /\ UNCHANGED <<cur, rec, stamp, drawn, Emitted>>
  BY DEF SaveScan, Sched!SaveScan, procData, history, Emitted
<1>2. /\ cur \in Targets /\ rec.id \in 1..drawn /\ rec.id \in ScanIds
      /\ scans[rec.id] = NoRecord
  BY <1>1, MaxScansAssumption DEF IInv, Shape, Begun, Fresh, Sched!Scanning, ScanIds
<1>3. new \in Record /\ new # NoRecord
  <2>1. new \in Record
    BY <1>2 DEF IInv, Shape, Record
  <2>2. new.target # NoRecord.target
    BY <1>2, SchedulerAssumption DEF NoRecord
  <2> QED
    BY <2>1, <2>2
<1>4. Shape'
  BY <1>1, <1>2, <1>3 DEF IInv, Shape
<1>5. scans'[rec.id] = new /\ \A s \in ScanIds : s # rec.id => scans'[s] = scans[s]
  BY <1>1, <1>2 DEF IInv, Shape
<1>6. Saved' = Saved \cup {rec.id}
  BY <1>2, <1>3, <1>5 DEF Saved
<1> HIDE DEF new
<1>7. Undrawn'
  BY <1>1, <1>2, <1>5, MaxScansAssumption DEF IInv, Shape, Undrawn, ScanIds
<1>8. (Begun /\ Silent /\ Told /\ Fresh)'
  BY <1>1 DEF IInv, Begun, Silent, Told, Fresh, Sched!Scanning
<1>9. Filed'
  BY <1>1, <1>2, <1>5, <1>6 DEF Filed, new
<1>10. StampIsSaved'
  BY <1>1, <1>2, <1>5, <1>6 DEF IInv, StampIsSaved, Saved
<1>11. AuditMatchesRecord'
  <2>1. ASSUME NEW s \in Saved PROVE s # rec.id /\ s \in ScanIds /\ scans'[s] = scans[s]
    BY <1>2, <1>5 DEF Saved
  <2>2. scans'[rec.id].failed = rec.failed
    BY <1>5 DEF new
  <2>3. <<"scan.started", rec.id>> \in Emitted
    BY <1>1 DEF IInv, Begun, Sched!Scanning
  <2> QED
    BY <1>1, <1>6, <2>1, <2>2, <2>3 DEF IInv, Told, AuditMatchesRecord
<1> QED
  BY <1>4, <1>7, <1>8, <1>9, <1>10, <1>11 DEF IInv

\* The watchlist comes to point at the record that was just filed.
LEMMA KeepsUpdateTargetScan ==
  ASSUME IInv, UpdateTargetScan \/ UpdateFails
  PROVE  IInv'
<1>1. /\ pc = "stamp" /\ pc' = "alerts"
      /\ UNCHANGED <<cur, rec, scans, drawn, Emitted>>
  BY DEF UpdateTargetScan, UpdateFails, Sched!UpdateTargetScan, Sched!UpdateFails, data,
         procData, history, Emitted
<1>2. stamp' = stamp \/ stamp' = [stamp EXCEPT ![cur] = rec.id]
  BY DEF UpdateTargetScan, UpdateFails, data
<1>3. rec.id \in Saved /\ scans[rec.id].target = cur /\ rec.id \in 0..MaxScans
  BY <1>1 DEF IInv, Filed, Shape
<1>4. (Shape /\ StampIsSaved)'
  BY <1>1, <1>2, <1>3 DEF IInv, Shape, StampIsSaved, Saved
<1>5. (Undrawn /\ Begun /\ Silent /\ Told /\ Fresh /\ Filed /\ AuditMatchesRecord)'
  BY <1>1 DEF IInv, Undrawn, Begun, Silent, Told, Fresh, Filed, AuditMatchesRecord, Saved,
              Sched!Scanning
<1> QED
  BY <1>4, <1>5 DEF IInv

LEMMA KeepsReturn ==
  ASSUME IInv, SaveFails \/ DispatchAlerts
  PROVE  IInv'
<1>1. pc' = "sweep"
  BY DEF SaveFails, DispatchAlerts, Sched!SaveFails, Sched!DispatchAlerts, Sched!Return
<1>2. pc' \notin Sched!Scanning
  BY <1>1 DEF Sched!Scanning
<1> QED
  BY <1>2, KeepData, IdleType DEF SaveFails, DispatchAlerts, Forget, history

LEMMA StepIInv == IInv /\ [Next]_vars => IInv'
<1> SUFFICES ASSUME IInv, [Next]_vars PROVE IInv'
  OBVIOUS
<1>1. CASE Handlers
  BY <1>1, KeepsAddTarget, KeepsEnvironment DEF Handlers
<1>2. CASE Goroutine
  BY <1>2, KeepsBeginRecord, KeepsExecuteScan, KeepsSaveScan, KeepsUpdateTargetScan, KeepsReturn,
     KeepsEnvironment DEF Goroutine
<1>3. CASE Environment \/ Die \/ PostEnds \/ UNCHANGED vars
  BY <1>3, KeepsEnvironment
<1> QED
  BY <1>1, <1>2, <1>3 DEF Next

\* A target's last_scan_id names a saved record of that target, at whatever
\* step the process dies and whichever writes fail (scanOne saves the record
\* before UpdateTargetScan points at it, and gives up if it cannot).
THEOREM StampsAreSaved == Spec => []StampIsSaved
<1>1. IInv => StampIsSaved
  BY DEF IInv
<1> QED
  BY <1>1, InitIInv, StepIInv, PTL DEF Spec

\* Every saved record was announced and has exactly the terminal event that says
\* how it ended (scanOne's three Emit calls), in the audit log or, when the write
\* of the line failed, which Emit does not tell, among the lost lines.
THEOREM AuditMatchesRecords == Spec => []AuditMatchesRecord
<1>1. IInv => AuditMatchesRecord
  BY DEF IInv
<1> QED
  BY <1>1, InitIInv, StepIInv, PTL DEF Spec
-----------------------------------------------------------------------------
(* Types. *)

\* A process that is down has no goroutine.
Off == life = "down" => pc = "off"

LEMMA QueueType ==
  ASSUME Sched!TypeOK, NEW t \in Targets, Sched!RequestScan(t)
  PROVE  manual' \in Seq(Targets) /\ Len(manual') <= QueueCap
<1>1. CASE Len(manual) < QueueCap
  BY <1>1, SchedulerAssumption DEF Sched!TypeOK, Sched!RequestScan
<1>2. CASE ~(Len(manual) < QueueCap)
  BY <1>2 DEF Sched!TypeOK, Sched!RequestScan
<1> QED BY <1>1, <1>2

LEMMA SchedulerTypes ==
  ASSUME Sched!TypeOK, Off, [Sched!Next]_schedVars
  PROVE  Sched!TypeOK' /\ Off'
<1> USE DEF Off, Sched!Labels, Sched!Marked, Sched!Scanning
<1>1. CASE Sched!Start \/ Sched!Signal \/ \E t \in Targets : Sched!Lapse(t)
  BY <1>1 DEF Sched!TypeOK, Sched!Start, Sched!Signal, Sched!Lapse, Sched!procVars
<1>2. CASE Sched!Exit \/ Sched!Crash
  <2>1. /\ manual' = <<>> /\ todo' = {} /\ cur' = NoTarget /\ running' = {} /\ adding' = {}
        /\ pc' = "off" /\ life' = "down" /\ watch' = watch
    BY <1>2 DEF Sched!Exit, Sched!Crash, Sched!Die
  <2> QED BY <2>1, SchedulerAssumption DEF Sched!TypeOK
<1>3. ASSUME NEW t \in Targets, Sched!AddTarget(t) \/ Sched!DeleteTarget(t)
      PROVE  Sched!TypeOK' /\ Off'
  BY <1>3 DEF Sched!TypeOK, Sched!AddTarget, Sched!DeleteTarget, Sched!procVars
<1>4. ASSUME NEW t \in Targets, Sched!RequestAdded(t) \/ Sched!ScanTarget(t)
      PROVE  Sched!TypeOK' /\ Off'
  BY <1>4, QueueType DEF Sched!TypeOK, Sched!RequestAdded, Sched!ScanTarget
<1>5. CASE Sched!Sweep \/ Sched!SweepFails \/ Sched!SweepDone \/ Sched!StopScheduler
  BY <1>5 DEF Sched!TypeOK, Sched!Sweep, Sched!SweepFails, Sched!SweepDone,
              Sched!StopScheduler, Sched!Due
<1>6. ASSUME NEW t \in Targets, Sched!SweepNext(t) PROVE Sched!TypeOK' /\ Off'
  BY <1>6 DEF Sched!TypeOK, Sched!SweepNext, Sched!ScanOne
<1>7. CASE Sched!TakeManual
  <2>1. /\ Head(manual) \in Targets
        /\ manual' \in Seq(Targets) /\ Len(manual') <= QueueCap
    BY <1>7, SchedulerAssumption DEF Sched!TakeManual, Sched!TypeOK
  <2> QED BY <1>7, <2>1 DEF Sched!TypeOK, Sched!TakeManual, Sched!ScanOne
<1>8. CASE Sched!GetTarget \/ Sched!ExecuteScan \/ Sched!SaveScan \/ Sched!UpdateFails
  BY <1>8 DEF Sched!TypeOK, Sched!GetTarget, Sched!ExecuteScan, Sched!SaveScan, Sched!UpdateFails
<1>9. CASE Sched!GetFails \/ Sched!SaveFails \/ Sched!DispatchAlerts
  BY <1>9 DEF Sched!TypeOK, Sched!GetFails, Sched!SaveFails, Sched!DispatchAlerts, Sched!Return
<1>10. CASE Sched!UpdateTargetScan
  BY <1>10 DEF Sched!TypeOK, Sched!UpdateTargetScan, Sched!Watched
<1>11. CASE UNCHANGED schedVars
  BY <1>11 DEF Sched!TypeOK, schedVars
<1> QED
  BY <1>1, <1>2, <1>3, <1>4, <1>5, <1>6, <1>7, <1>8, <1>9, <1>10, <1>11
     DEF Sched!Next, Sched!Handlers, Sched!Goroutine

\* A saved record stays as it is: each is written once, under an id of its own.
LEMMA RecordsStay ==
  ASSUME IInv, [Next]_vars
  PROVE  \A s \in Saved : s \in Saved' /\ scans'[s] = scans[s]
<1>1. CASE SaveScan
  <2>1. pc = "save" /\ scans' = [scans EXCEPT ![rec.id] =
                 [target |-> cur, failed |-> rec.failed, found |-> rec.found]]
    BY <1>1 DEF SaveScan, Sched!SaveScan
  <2>2. rec.id \notin Saved
    BY <2>1 DEF IInv, Fresh, Saved
  <2> QED
    BY <2>1, <2>2 DEF Saved, IInv, Shape
<1>2. CASE ~SaveScan
  <2>1. scans' = scans
    BY <1>2 DEF Next, Handlers, Goroutine, Environment, Die, PostEnds, vars, data, BeginRecord, Loop,
                ExecuteScan, SaveFails, UpdateTargetScan, UpdateFails, DispatchAlerts,
                AddTarget, RequestAdded, ScanTarget, DeleteTarget, AddAlert, DeleteAlert
  <2> QED
    BY <2>1 DEF Saved
<1> QED
  BY <1>1, <1>2

\* Scan ids only grow, and grow by one when a scan begins.
LEMMA DrawnGrows ==
  ASSUME IInv, [Next]_vars
  PROVE  \/ drawn' = drawn /\ (pc' \in Sched!Scanning => pc \in Sched!Scanning)
         \/ drawn' = drawn + 1
<1> USE DEF Sched!Scanning
<1>1. CASE BeginRecord
  BY <1>1 DEF BeginRecord
<1>2. CASE ~BeginRecord /\ Next
  <2>1. drawn' = drawn
    BY <1>2 DEF Next, Handlers, Goroutine, Environment, Die, PostEnds, data, Loop, procData,
                SaveScan, ExecuteScan, SaveFails, UpdateTargetScan, UpdateFails, DispatchAlerts,
                AddTarget, RequestAdded, ScanTarget, DeleteTarget, AddAlert, DeleteAlert
  <2>2. CASE Goroutine
    BY <1>2, <2>1, <2>2, LoopStaysOut
       DEF Goroutine, ExecuteScan, SaveScan, SaveFails, UpdateTargetScan, UpdateFails,
           DispatchAlerts, Sched!ExecuteScan, Sched!SaveScan, Sched!SaveFails,
           Sched!UpdateTargetScan, Sched!UpdateFails, Sched!DispatchAlerts, Sched!Return
  <2>3. CASE Environment \/ Die \/ PostEnds
    BY <2>1, <2>3 DEF Environment, Die, PostEnds, Sched!Start, Sched!Signal, Sched!Lapse,
                 Sched!Exit, Sched!Crash, Sched!Die, Sched!procVars, schedVars
  <2>4. CASE Handlers
    BY <2>1, <2>4 DEF Handlers, AddTarget, RequestAdded, ScanTarget, DeleteTarget, AddAlert,
                DeleteAlert, Sched!AddTarget, Sched!RequestAdded, Sched!ScanTarget,
                Sched!DeleteTarget, Sched!procVars, schedVars
  <2> QED
    BY <1>2, <2>2, <2>3, <2>4 DEF Next
<1> QED
  BY <1>1, <1>2 DEF vars, schedVars

\* What was posted is of a scan that was saved, and is over when the next begins.
SentPast == /\ posts \subseteq sent
            /\ \A p \in sent : /\ p.scan \in Saved /\ p.scan <= drawn
                               /\ pc \in Sched!Scanning => p.scan < drawn

TInv == IInv /\ TypeOK /\ Off /\ SentPast

LEMMA InitTInv == Init => TInv
<1> SUFFICES ASSUME Init PROVE TInv
  OBVIOUS
<1>1. Sched!TypeOK /\ Off
  BY SchedulerAssumption
     DEF Init, Sched!Init, Sched!TypeOK, Sched!Labels, Sched!Scanning, Off
<1>2. IInv
  BY InitIInv
<1>3. TypeOK
  BY <1>1, <1>2, MaxScansAssumption DEF Init, TypeOK, IInv, Shape, NoScan
<1>4. SentPast
  BY DEF Init, SentPast
<1> QED
  BY <1>1, <1>2, <1>3, <1>4 DEF TInv

\* A post is of the record in hand.
LEMMA AlertTypes ==
  ASSUME IInv, TypeOK, NEW diff \in BOOLEAN, NEW p \in Alerts(diff)
  PROVE  /\ p \in Posts /\ p.scan = rec.id /\ p.dest \in On /\ p.kind = Kind(diff)
         /\ p.found = Filtered(NewOnes(diff), p.dest) /\ p.found # {}
         /\ p.found \subseteq rec.found /\ ~rec.failed
<1>1. ~rec.failed
  BY DEF Alerts
<1>2. PICK d \in On : /\ p = [dest |-> d, scan |-> rec.id, kind |-> Kind(diff),
                              found |-> Filtered(NewOnes(diff), d)]
                      /\ Filtered(NewOnes(diff), d) # {}
  BY <1>1 DEF Alerts
<1>3. Filtered(NewOnes(diff), d) \subseteq rec.found
  BY DEF Filtered, NewOnes
<1> QED
  BY <1>1, <1>2, <1>3 DEF Posts, On, Kind, IInv, Shape

\* What dispatchAlerts posts: a diff with the previous record or, without one or
\* with one that cannot be read, everything; or its alerts are cut off.
LEMMA Dispatched ==
  ASSUME DispatchAlerts
  PROVE  \/ \E diff \in BOOLEAN : /\ posts' = posts \cup Alerts(diff)
                                  /\ sent' = sent \cup Alerts(diff)
                                  /\ cut' = cut
                                  /\ diff => HasPrev
                                  /\ HasPrev /\ ~diff => rec.id \in blind'
         \/ UNCHANGED <<posts, sent>> /\ cut' = cut \cup {rec.id}
<1>1. CASE Post(HasPrev) /\ UNCHANGED <<cut, blind>>
  <2>1. \E diff \in BOOLEAN : (diff <=> HasPrev) /\ Post(diff)
    <3>1. HasPrev \in BOOLEAN
      BY DEF HasPrev
    <3> WITNESS HasPrev \in BOOLEAN
    <3> QED
      BY <1>1
  <2> QED
    BY <1>1, <2>1 DEF Post
<1>2. CASE Post(FALSE) /\ blind' = blind \cup {rec.id} /\ UNCHANGED cut
  BY <1>2 DEF Post
<1> QED
  BY <1>1, <1>2 DEF DispatchAlerts

LEMMA StepSentPast ==
  ASSUME TInv, [Next]_vars
  PROVE  SentPast'
<1> USE DEF TInv
<1>1. drawn \in Nat /\ (drawn' = drawn \/ drawn' = drawn + 1)
  BY DrawnGrows, MaxScansAssumption DEF IInv, Shape
<1>2. \A p \in sent : /\ p.scan \in Saved' /\ p.scan <= drawn' /\ p.scan \in Nat
                      /\ pc' \in Sched!Scanning => p.scan < drawn'
  BY <1>1, RecordsStay, DrawnGrows, MaxScansAssumption DEF SentPast, Saved, ScanIds
<1>3. CASE DispatchAlerts
  <2>1. /\ pc = "alerts" /\ pc' = "sweep" /\ drawn' = drawn /\ scans' = scans
    BY <1>3 DEF DispatchAlerts, Sched!DispatchAlerts, Sched!Return
  <2>2. rec.id \in Saved /\ rec.id <= drawn /\ pc' \notin Sched!Scanning
    BY <2>1, <1>1 DEF IInv, Filed, Begun, Sched!Scanning
  <2>3. \/ \E diff \in BOOLEAN : posts' = posts \cup Alerts(diff) /\ sent' = sent \cup Alerts(diff)
        \/ posts' = posts /\ sent' = sent
    BY <1>3, Dispatched
  <2>4. \A diff \in BOOLEAN : \A p \in Alerts(diff) : p.scan = rec.id
    BY AlertTypes
  <2> QED
    BY <1>2, <2>1, <2>2, <2>3, <2>4 DEF SentPast, Saved
<1>4. CASE ~DispatchAlerts
  <2>1. sent' = sent /\ posts' \subseteq posts
    BY <1>4 DEF Next, Handlers, Goroutine, Environment, Die, PostEnds, vars, data, procData,
                history, BeginRecord, Loop, ExecuteScan, SaveScan, SaveFails, UpdateTargetScan,
                UpdateFails, AddTarget, RequestAdded, ScanTarget, DeleteTarget, AddAlert,
                DeleteAlert
  <2> QED
    BY <1>2, <2>1 DEF SentPast
<1> QED
  BY <1>3, <1>4

LEMMA StepTypes ==
  ASSUME TInv, [Next]_vars
  PROVE  TypeOK' /\ Off'
<1> USE DEF TInv
<1>1. Sched!TypeOK' /\ Off'
  BY SchedulerTypes, StepIsScheduler DEF TypeOK
<1>2. Shape' /\ SentPast'
  BY StepIInv, StepSentPast DEF IInv
<1>3. /\ prev \in 0..MaxScans /\ dest \in [Dests -> {"unused", "on", "gone"}]
      /\ posts \subseteq Posts /\ sent \subseteq Posts /\ cut \subseteq ScanIds
      /\ audit \subseteq Lines /\ lost \subseteq Lines /\ blind \subseteq ScanIds
      /\ stamped \subseteq ScanIds /\ since \in [Dests -> 0..MaxScans]
  BY DEF TypeOK
<1>4. pc \in Sched!Scanning => rec.id \in ScanIds
  BY MaxScansAssumption DEF IInv, Begun, Shape, ScanIds
<1>5. prev' \in 0..MaxScans
  <2>1. CASE BeginRecord
    <3>1. prev' = stamp[cur] /\ cur \in Targets
      BY <2>1, KeepsBeginRecord DEF BeginRecord
    <3> QED
      BY <3>1 DEF IInv, Shape
  <2>2. CASE ~BeginRecord
    <3>1. prev' = prev \/ prev' = NoScan
      BY <2>2 DEF Next, Handlers, Goroutine, Environment, Die, PostEnds, vars, data, procData,
                  Forget, Loop, ExecuteScan, SaveScan, SaveFails, UpdateTargetScan,
                  UpdateFails, DispatchAlerts, AddTarget, RequestAdded, ScanTarget,
                  DeleteTarget, AddAlert, DeleteAlert
    <3> QED
      BY <1>3, <3>1, MaxScansAssumption DEF NoScan
  <2> QED
    BY <2>1, <2>2
<1>6. dest' \in [Dests -> {"unused", "on", "gone"}] /\ since' \in [Dests -> 0..MaxScans]
  <2>1. ASSUME NEW d \in Dests, AddAlert(d) \/ DeleteAlert(d)
        PROVE  dest' \in [Dests -> {"unused", "on", "gone"}] /\ since' \in [Dests -> 0..MaxScans]
    BY <2>1, <1>3 DEF AddAlert, DeleteAlert, history, IInv, Shape
  <2>2. CASE ~\E d \in Dests : AddAlert(d) \/ DeleteAlert(d)
    <3>1. dest' = dest /\ since' = since
      BY <2>2 DEF Next, Handlers, Goroutine, Environment, Die, PostEnds, vars, data, history,
                  BeginRecord, Loop, ExecuteScan, SaveScan, SaveFails, UpdateTargetScan,
                  UpdateFails, DispatchAlerts, AddTarget, RequestAdded, ScanTarget,
                  DeleteTarget
    <3> QED
      BY <1>3, <3>1
  <2> QED
    BY <2>1, <2>2
<1>7. sent' \subseteq Posts /\ posts' \subseteq Posts
  <2>1. CASE DispatchAlerts
    <3>1. \E diff \in BOOLEAN : sent' \subseteq sent \cup Alerts(diff)
      BY <2>1, Dispatched
    <3> QED
      BY <3>1, <1>2, <1>3, AlertTypes DEF SentPast
  <2>2. CASE ~DispatchAlerts
    <3>1. sent' = sent
      BY <2>2 DEF Next, Handlers, Goroutine, Environment, Die, PostEnds, vars, data, history,
                  BeginRecord, Loop, ExecuteScan, SaveScan, SaveFails, UpdateTargetScan,
                  UpdateFails, AddTarget, RequestAdded, ScanTarget, DeleteTarget, AddAlert,
                  DeleteAlert
    <3> QED
      BY <3>1, <1>2, <1>3 DEF SentPast
  <2> QED
    BY <2>1, <2>2
<1>8. cut' \subseteq ScanIds
  <2>1. CASE Die
    <3>1. {p.scan : p \in posts} \subseteq ScanIds
      BY DEF SentPast, Saved
    <3>2. pc = "alerts" => rec.id \in ScanIds
      BY <1>4 DEF Sched!Scanning
    <3> QED
      BY <2>1, <1>3, <3>1, <3>2 DEF Die
  <2>2. CASE DispatchAlerts
    <3>1. rec.id \in ScanIds /\ cut' \subseteq cut \cup {rec.id}
      BY <2>2, <1>4, Dispatched DEF DispatchAlerts, Sched!DispatchAlerts, Sched!Scanning
    <3> QED
      BY <1>3, <3>1
  <2>3. CASE ~Die /\ ~DispatchAlerts
    <3>1. cut' = cut
      BY <2>3 DEF Next, Handlers, Goroutine, Environment, PostEnds, vars, data, history,
                  BeginRecord, Loop, ExecuteScan, SaveScan, SaveFails, UpdateTargetScan,
                  UpdateFails, AddTarget, RequestAdded, ScanTarget, DeleteTarget, AddAlert,
                  DeleteAlert
    <3> QED
      BY <3>1, <1>3
  <2> QED
    BY <2>1, <2>2, <2>3
<1>9. audit' \subseteq Lines /\ lost' \subseteq Lines
  <2>1. CASE BeginRecord
    <3>1. /\ audit' \cup lost' = audit \cup lost \cup {<<"scan.started", drawn'>>}
          /\ drawn' = drawn + 1
      BY <2>1, EmitAdds DEF BeginRecord, Emitted
    <3>2. drawn' \in ScanIds
      BY <1>2, <3>1, MaxScansAssumption DEF IInv, Shape, ScanIds
    <3> QED
      BY <1>3, <3>1, <3>2 DEF Lines, ScanEvents
  <2>2. CASE ExecuteScan
    <3>1. rec.id \in ScanIds
      BY <2>2, <1>4 DEF ExecuteScan, Sched!ExecuteScan, Sched!Scanning
    <3>2. \E e \in {"scan.failed", "scan.completed"} :
            audit' \cup lost' = audit \cup lost \cup {<<e, rec.id>>}
      BY <2>2, EmitAdds DEF ExecuteScan, ExecuteFails, ExecuteSucceeds, Emitted
    <3> QED
      BY <1>3, <3>1, <3>2 DEF Lines, ScanEvents
  <2>3. CASE ~BeginRecord /\ ~ExecuteScan
    <3>1. audit' = audit /\ lost' = lost
      BY <2>3 DEF Next, Handlers, Goroutine, Environment, Die, PostEnds, vars, data, history,
                  Loop, SaveScan, SaveFails, UpdateTargetScan, DispatchAlerts,
                  UpdateFails, AddTarget, RequestAdded, ScanTarget, DeleteTarget, AddAlert,
                  DeleteAlert
    <3> QED
      BY <3>1, <1>3
  <2> QED
    BY <2>1, <2>2, <2>3
<1>10. stamped' \subseteq ScanIds
  <2>1. CASE UpdateTargetScan
    <3>1. rec.id \in ScanIds
      BY <2>1, <1>4 DEF UpdateTargetScan, Sched!UpdateTargetScan, Sched!Scanning
    <3> QED
      BY <2>1, <1>3, <3>1 DEF UpdateTargetScan
  <2>2. CASE ~UpdateTargetScan
    <3>1. stamped' = stamped
      BY <2>2 DEF Next, Handlers, Goroutine, Environment, Die, PostEnds, vars, data, history,
                  BeginRecord, Loop, ExecuteScan, SaveScan, SaveFails, DispatchAlerts,
                  UpdateFails, AddTarget, RequestAdded, ScanTarget, DeleteTarget, AddAlert,
                  DeleteAlert
    <3> QED
      BY <3>1, <1>3
  <2> QED
    BY <2>1, <2>2
<1>11. blind' \subseteq ScanIds
  <2>1. CASE DispatchAlerts
    <3>1. rec.id \in ScanIds /\ blind' \subseteq blind \cup {rec.id}
      BY <2>1, <1>4 DEF DispatchAlerts, Sched!DispatchAlerts, Sched!Scanning
    <3> QED
      BY <3>1, <1>3
  <2>2. CASE ~DispatchAlerts
    <3>1. blind' = blind
      BY <2>2 DEF Next, Handlers, Goroutine, Environment, Die, PostEnds, vars, data, history,
                  BeginRecord, Loop, ExecuteScan, SaveScan, SaveFails, UpdateTargetScan,
                  UpdateFails, AddTarget, RequestAdded, ScanTarget, DeleteTarget, AddAlert,
                  DeleteAlert
    <3> QED
      BY <3>1, <1>3
  <2> QED
    BY <2>1, <2>2
<1> QED
  BY <1>1, <1>2, <1>5, <1>6, <1>7, <1>8, <1>9, <1>10, <1>11 DEF TypeOK, Shape

LEMMA StepTInv == TInv /\ [Next]_vars => TInv'
BY StepIInv, StepTypes, StepSentPast DEF TInv

\* The state of the server keeps its types, whatever the handlers, the goroutine
\* and the ways to stop do: the channel stays within its capacity, an id in the
\* watchlist, a record, a post or the audit log is one that was drawn.
THEOREM TypeCorrect == Spec => []TypeOK
<1>1. TInv => TypeOK
  BY DEF TInv
<1> QED
  BY <1>1, InitTInv, StepTInv, PTL DEF Spec

-----------------------------------------------------------------------------
(* The chain of stamps. *)

\* The scans a target was ever stamped with.
StampsOf(t) == {r \in stamped : scans[r].target = t}

\* They are saved records, older than the scan in hand until that is stamped
\* itself; last_scan_id is the last of them, and only that of a target without
\* any may be what a client sent.
Chain ==
  /\ stamped \subseteq Saved
  /\ \A r \in stamped : r <= drawn /\ (pc \in {"scan", "save", "stamp"} => r < drawn)
  /\ \A t \in Targets :
       /\ watch[t] = "unused" => StampsOf(t) = {}
       /\ StampsOf(t) # {} => stamp[t] \in StampsOf(t) /\ \A q \in StampsOf(t) : q <= stamp[t]
       /\ StampsOf(t) = {} => stamp[t] \in {NoScan} \cup ClientStamps

\* prevScanID is the last of those from before the scan in hand.
Earlier == {r \in StampsOf(cur) : r < rec.id}
Prev ==
  pc \in Sched!Scanning =>
    /\ rec.id = drawn
    /\ Earlier # {} => prev \in Earlier /\ \A q \in Earlier : q <= prev
    /\ Earlier = {} => prev \in {NoScan} \cup ClientStamps

\* The record in hand: empty until its scan ends and if that fails, and what
\* was filed once it is.
Kept == /\ pc \in {"stamp", "alerts"} => scans[rec.id].found = rec.found
        /\ rec.failed => rec.found = {}
        /\ pc = "scan" => rec.found = {}
        /\ pc \notin Sched!Scanning => rec = Idle

CInv == Chain /\ Prev /\ Kept

LEMMA InitCInv == Init => CInv
<1> SUFFICES ASSUME Init PROVE CInv
  OBVIOUS
<1>1. pc = "off" /\ stamped = {} /\ rec = Idle /\ \A t \in Targets : stamp[t] = NoScan
  BY DEF Init, Sched!Init
<1>2. Chain
  BY <1>1 DEF Chain, StampsOf
<1> QED
  BY <1>1, <1>2 DEF CInv, Prev, Kept, Idle, Sched!Scanning

\* An id once given out stays used.
LEMMA StaysUsed ==
  ASSUME TypeOK, [Next]_vars, NEW t \in Targets, watch'[t] = "unused"
  PROVE  watch[t] = "unused"
<1>1. [Sched!Next]_schedVars /\ watch \in [Targets -> {"unused", "due", "fresh", "gone"}]
  BY StepIsScheduler DEF TypeOK, Sched!TypeOK
<1>2. \A u \in Targets, w \in {"due", "fresh", "gone"} :
        watch' = [watch EXCEPT ![u] = w] => watch[t] = "unused"
  BY <1>1
<1>3. \/ watch' = watch
      \/ \E u \in Targets, w \in {"due", "fresh", "gone"} : watch' = [watch EXCEPT ![u] = w]
  BY <1>1
     DEF schedVars, Sched!Next, Sched!Start, Sched!Signal, Sched!Exit, Sched!Crash, Sched!Die,
         Sched!Lapse, Sched!Handlers, Sched!AddTarget, Sched!RequestAdded, Sched!ScanTarget,
         Sched!DeleteTarget, Sched!Goroutine, Sched!Sweep, Sched!SweepFails,
         Sched!SweepDone, Sched!TakeManual, Sched!StopScheduler, Sched!SweepNext,
         Sched!GetTarget, Sched!GetFails, Sched!ExecuteScan, Sched!SaveScan,
         Sched!SaveFails, Sched!UpdateTargetScan, Sched!UpdateFails,
         Sched!DispatchAlerts, Sched!Watched
<1> QED
  BY <1>2, <1>3

LEMMA KeepCInv ==
  ASSUME TInv, CInv, [Next]_vars,
         UNCHANGED <<stamp, scans, drawn, stamped>>,
         \/ UNCHANGED <<pc, cur, rec, prev>>
         \/ pc' \notin Sched!Scanning /\ rec' = Idle
  PROVE  CInv'
<1>1. Chain'
  BY StaysUsed DEF TInv, CInv, Chain, StampsOf, Saved, Sched!Scanning
<1>2. Prev' /\ Kept'
  BY DEF CInv, Prev, Kept, Earlier, StampsOf, Sched!Scanning, Idle
<1> QED
  BY <1>1, <1>2 DEF CInv

LEMMA ChainQuiet ==
  ASSUME TInv, CInv, [Next]_vars,
         \/ Environment \/ Loop \/ PostEnds \/ Die \/ UNCHANGED vars
         \/ SaveFails \/ DispatchAlerts
         \/ \E t \in Targets : RequestAdded(t) \/ ScanTarget(t) \/ DeleteTarget(t)
         \/ \E d \in Dests : AddAlert(d) \/ DeleteAlert(d)
  PROVE  CInv'
<1>1. UNCHANGED <<stamp, scans, drawn, stamped>>
  BY DEF Environment, Loop, PostEnds, Die, vars, SaveFails, DispatchAlerts, RequestAdded,
         ScanTarget, DeleteTarget, AddAlert, DeleteAlert, data, history
<1>2. CASE Environment
  BY <1>1, <1>2, KeepCInv
     DEF Environment, Sched!Start, Sched!Signal, Sched!Lapse, Sched!procVars, data, procData,
         TInv, CInv, Kept, Off, Sched!Scanning
<1>3. CASE Loop
  BY <1>1, <1>3, KeepCInv, LoopStaysOut DEF Loop, data, procData, CInv, Kept
<1>4. CASE Die \/ SaveFails \/ DispatchAlerts
  BY <1>1, <1>4, KeepCInv
     DEF Die, Sched!Exit, Sched!Crash, Sched!Die, SaveFails, DispatchAlerts, Sched!SaveFails,
         Sched!DispatchAlerts, Sched!Return, Forget, Sched!Scanning
<1>5. CASE \/ PostEnds \/ UNCHANGED vars
           \/ \E t \in Targets : RequestAdded(t) \/ ScanTarget(t) \/ DeleteTarget(t)
           \/ \E d \in Dests : AddAlert(d) \/ DeleteAlert(d)
  <2>1. UNCHANGED <<pc, cur, rec, prev>>
    BY <1>5 DEF PostEnds, vars, RequestAdded, ScanTarget, DeleteTarget, AddAlert, DeleteAlert,
         data, procData, schedVars, Sched!RequestAdded, Sched!ScanTarget, Sched!DeleteTarget,
         Sched!procVars
  <2> QED
    BY <1>1, <2>1, KeepCInv
<1> QED
  BY <1>2, <1>3, <1>4, <1>5

LEMMA ChainAddTarget ==
  ASSUME TInv, CInv, [Next]_vars, NEW t \in Targets, AddTarget(t)
  PROVE  CInv'
<1>1. PICK s \in {NoScan} \cup ClientStamps : stamp' = [stamp EXCEPT ![t] = s]
  BY DEF AddTarget
<1>2. watch[t] = "unused" /\ UNCHANGED <<scans, drawn, rec, prev, stamped, pc, cur>>
  BY DEF AddTarget, procData, history, Sched!AddTarget
<1>3. StampsOf(t) = {} /\ stamp'[t] = s /\ \A u \in Targets : u # t => stamp'[u] = stamp[u]
  BY <1>1, <1>2 DEF CInv, Chain, TInv, IInv, Shape
<1>4. \A u \in Targets : StampsOf(u)' = StampsOf(u)
  BY <1>2 DEF StampsOf
<1>5. Chain'
  BY <1>2, <1>3, <1>4, StaysUsed DEF CInv, Chain, TInv, Saved
<1>6. Prev' /\ Kept'
  BY <1>2 DEF CInv, Prev, Kept, Earlier, StampsOf
<1> QED
  BY <1>5, <1>6 DEF CInv

\* The target's last_scan_id is read after the id is drawn and before the scan,
\* so it is the last stamp of all the scans before this one.
LEMMA ChainBeginRecord ==
  ASSUME TInv, CInv, [Next]_vars, BeginRecord
  PROVE  CInv'
<1>1. /\ drawn' = drawn + 1 /\ rec' = [Idle EXCEPT !.id = drawn'] /\ prev' = stamp[cur]
      /\ pc' = "scan" /\ UNCHANGED <<stamp, scans, stamped, cur>>
  BY DEF BeginRecord, Sched!GetTarget
<1>2. cur' \in Targets
  BY <1>1, KeepsBeginRecord DEF TInv
<1>3. rec'.id = drawn' /\ ~rec'.failed /\ rec'.found = {} /\ drawn \in Nat
  BY <1>1, MaxScansAssumption DEF Idle, TInv, IInv, Shape
<1>4. \A r \in stamped : r \in Nat /\ r < drawn'
  BY <1>1, <1>3, MaxScansAssumption DEF CInv, Chain, Saved, ScanIds
<1>5. \A t \in Targets : StampsOf(t)' = StampsOf(t)
  BY <1>1 DEF StampsOf
<1>6. Chain'
  BY <1>1, <1>3, <1>4, <1>5, StaysUsed DEF CInv, Chain, TInv, Saved
<1>7. Earlier' = StampsOf(cur')
  BY <1>1, <1>2, <1>3, <1>4 DEF Earlier, StampsOf
<1>8. Prev'
  BY <1>1, <1>2, <1>3, <1>7 DEF CInv, Chain, Prev
<1>9. Kept'
  BY <1>1, <1>3 DEF Kept, Sched!Scanning
<1> QED
  BY <1>6, <1>8, <1>9 DEF CInv

LEMMA ChainExecuteScan ==
  ASSUME TInv, CInv, [Next]_vars, ExecuteScan
  PROVE  CInv'
<1>1. /\ pc = "scan" /\ pc' = "save"
      /\ UNCHANGED <<watch, cur, stamp, scans, drawn, prev, stamped>>
  BY DEF ExecuteScan, Sched!ExecuteScan, history
<1>2. rec.found = {} /\ ~rec.failed
  BY <1>1 DEF CInv, Kept, TInv, IInv, Silent
<1>3. rec'.id = rec.id /\ (rec'.failed => rec'.found = {})
  BY <1>2 DEF ExecuteScan, ExecuteFails, ExecuteSucceeds, TInv, IInv, Shape
<1>4. Chain'
  BY <1>1 DEF CInv, Chain, StampsOf, Saved
<1>5. Prev' /\ Kept'
  BY <1>1, <1>3 DEF CInv, Prev, Kept, Earlier, StampsOf, Sched!Scanning
<1> QED
  BY <1>4, <1>5 DEF CInv

LEMMA ChainSaveScan ==
  ASSUME TInv, CInv, [Next]_vars, SaveScan
  PROVE  CInv'
<1>1. /\ pc = "save" /\ pc' = "stamp"
      /\ scans' = [scans EXCEPT ![rec.id] =
                     [target |-> cur, failed |-> rec.failed, found |-> rec.found]]
      /\ UNCHANGED <<watch, cur, rec, stamp, drawn, prev, stamped>>
  BY DEF SaveScan, Sched!SaveScan, procData, history
<1>2. scans'[rec.id].found = rec.found
  BY <1>1, MaxScansAssumption
     DEF TInv, IInv, Shape, Begun, Sched!Scanning, ScanIds
<1>3. \A r \in stamped : r \in Saved' /\ scans'[r] = scans[r]
  BY RecordsStay DEF TInv, CInv, Chain
<1>4. \A t \in Targets : StampsOf(t)' = StampsOf(t)
  BY <1>1, <1>3 DEF StampsOf
<1>5. Chain'
  BY <1>1, <1>3, <1>4 DEF CInv, Chain
<1>6. cur \in Targets /\ Earlier' = Earlier
  BY <1>1, <1>4 DEF TInv, IInv, Begun, Sched!Scanning, Earlier
<1>7. Prev' /\ Kept'
  BY <1>1, <1>2, <1>6 DEF CInv, Prev, Kept, Sched!Scanning
<1> QED
  BY <1>5, <1>7 DEF CInv

LEMMA ChainUpdate ==
  ASSUME TInv, CInv, [Next]_vars, UpdateTargetScan \/ UpdateFails
  PROVE  CInv'
<1>1. /\ pc = "stamp" /\ pc' = "alerts"
      /\ UNCHANGED <<cur, rec, scans, drawn, prev>>
  BY DEF UpdateTargetScan, UpdateFails, Sched!UpdateTargetScan, Sched!UpdateFails, data, procData
<1>2. /\ cur \in Targets /\ rec.id \in Saved /\ scans[rec.id].target = cur
      /\ rec.id = drawn /\ drawn \in Nat
      /\ \A r \in stamped : r \in Nat /\ r < rec.id
  BY <1>1, MaxScansAssumption
     DEF TInv, IInv, Begun, Filed, CInv, Prev, Chain, Sched!Scanning, Shape, Saved, ScanIds
<1>3. Kept'
  BY <1>1 DEF CInv, Kept, Sched!Scanning
<1>4. CASE stamp' = stamp /\ stamped' = stamped
  <2>1. Chain'
    BY <1>1, <1>4, StaysUsed DEF CInv, Chain, TInv, StampsOf, Saved
  <2>2. Prev'
    BY <1>1, <1>4 DEF CInv, Prev, Earlier, StampsOf, Sched!Scanning
  <2> QED
    BY <1>3, <2>1, <2>2 DEF CInv
<1>5. CASE /\ cur \in Sched!Watched
           /\ stamp' = [stamp EXCEPT ![cur] = rec.id]
           /\ stamped' = stamped \cup {rec.id}
  <2>1. watch[cur] # "unused"
    BY <1>5 DEF Sched!Watched
  <2>2. StampsOf(cur)' = StampsOf(cur) \cup {rec.id}
    BY <1>1, <1>2, <1>5 DEF StampsOf
  <2>3. \A t \in Targets : t # cur => StampsOf(t)' = StampsOf(t)
    BY <1>1, <1>2, <1>5 DEF StampsOf
  <2>4. /\ stamp'[cur] = rec.id
        /\ \A t \in Targets : t # cur => stamp'[t] = stamp[t]
    BY <1>2, <1>5 DEF TInv, IInv, Shape
  <2>5. \A q \in StampsOf(cur)' : q <= rec.id
    BY <1>2, <2>2 DEF StampsOf
  <2>6. Chain'
    BY <1>1, <1>2, <1>5, <2>1, <2>2, <2>3, <2>4, <2>5, StaysUsed DEF CInv, Chain, TInv, Saved
  <2>7. Earlier' = Earlier
    BY <1>1, <1>2, <2>2 DEF Earlier
  <2>8. Prev'
    BY <1>1, <2>7 DEF CInv, Prev, Sched!Scanning
  <2> QED
    BY <1>3, <2>6, <2>8 DEF CInv
<1> QED
  BY <1>4, <1>5 DEF UpdateTargetScan, UpdateFails, data, history

LEMMA StepCInv == TInv /\ CInv /\ [Next]_vars => CInv'
<1> SUFFICES ASSUME TInv, CInv, [Next]_vars PROVE CInv'
  OBVIOUS
<1>1. CASE Handlers
  BY <1>1, ChainAddTarget, ChainQuiet DEF Handlers
<1>2. CASE Goroutine
  BY <1>2, ChainBeginRecord, ChainExecuteScan, ChainSaveScan, ChainUpdate, ChainQuiet DEF Goroutine
<1>3. CASE Environment \/ Die \/ PostEnds \/ UNCHANGED vars
  BY <1>3, ChainQuiet
<1> QED
  BY <1>1, <1>2, <1>3 DEF Next

-----------------------------------------------------------------------------
(* The alerts are diffs. *)

\* What a post is a diff against does not change any more once it is sent: only
\* the scan in hand is stamped, and that one is not older.
LEMMA DiffStands ==
  ASSUME TInv, CInv, [Next]_vars, NEW p \in sent
  PROVE  /\ p.scan \in Saved /\ p.scan \in Saved' /\ scans'[p.scan] = scans[p.scan]
         /\ LastStampedBefore(p.scan)' = LastStampedBefore(p.scan)
         /\ \A r \in LastStampedBefore(p.scan) : scans'[r] = scans[r]
         /\ blind \subseteq blind'
<1>1. /\ p.scan \in Saved /\ p.scan <= drawn /\ p.scan \in Nat /\ drawn \in Nat
      /\ stamped \subseteq Saved
  BY MaxScansAssumption DEF TInv, SentPast, Saved, ScanIds, IInv, Shape, CInv, Chain
<1>2. \A r \in Saved : r \in Saved' /\ scans'[r] = scans[r]
  BY RecordsStay DEF TInv
<1>3. stamped' = stamped \/ (stamped' = stamped \cup {rec.id} /\ rec.id = drawn)
  <2>1. CASE UpdateTargetScan
    BY <2>1 DEF UpdateTargetScan, Sched!UpdateTargetScan, CInv, Prev, Sched!Scanning
  <2>2. CASE ~UpdateTargetScan
    BY <2>2 DEF Next, Handlers, Goroutine, Environment, Die, PostEnds, vars, data, history,
                BeginRecord, Loop, ExecuteScan, SaveScan, SaveFails, DispatchAlerts, UpdateFails,
                AddTarget, RequestAdded, ScanTarget, DeleteTarget, AddAlert, DeleteAlert
  <2> QED
    BY <2>1, <2>2
<1>4. {r \in stamped' : r < p.scan} = {r \in stamped : r < p.scan}
  BY <1>1, <1>3
<1>5. \A r \in {q \in stamped : q < p.scan} : scans'[r] = scans[r]
  BY <1>1, <1>2
<1>6. LastStampedBefore(p.scan) =
        {r \in {q \in stamped : q < p.scan} :
           /\ scans[r].target = scans[p.scan].target
           /\ \A q \in {x \in stamped : x < p.scan} :
                scans[q].target = scans[p.scan].target => q <= r}
  BY DEF LastStampedBefore
<1>7. LastStampedBefore(p.scan)' =
        {r \in {q \in stamped' : q < p.scan} :
           /\ scans'[r].target = scans'[p.scan].target
           /\ \A q \in {x \in stamped' : x < p.scan} :
                scans'[q].target = scans'[p.scan].target => q <= r}
  BY DEF LastStampedBefore
<1>8. scans'[p.scan] = scans[p.scan]
  BY <1>1, <1>2
<1>9. blind \subseteq blind'
  BY DEF Next, Handlers, Goroutine, Environment, Die, PostEnds, vars, data, history,
         BeginRecord, Loop, ExecuteScan, SaveScan, SaveFails, DispatchAlerts, UpdateFails,
         UpdateTargetScan, AddTarget, RequestAdded, ScanTarget, DeleteTarget, AddAlert,
         DeleteAlert
<1> QED
  BY <1>1, <1>2, <1>4, <1>5, <1>6, <1>7, <1>8, <1>9

\* The scan in hand is compared with the last stamped one before it, if any.
LEMMA ComparedWithLast ==
  ASSUME TInv, CInv, pc = "alerts"
  PROVE  /\ rec.id \in Saved /\ scans[rec.id].target = cur
         /\ scans[rec.id].found = rec.found /\ rec.id = drawn /\ cur \in Targets
         /\ \/ prev \in Saved /\ LastStampedBefore(rec.id) = {prev} /\ prev \in Earlier
            \/ /\ LastStampedBefore(rec.id) = {}
               /\ prev \in {NoScan} \cup ClientStamps
<1>1. /\ rec.id \in Saved /\ scans[rec.id].target = cur /\ cur \in Targets
      /\ scans[rec.id].found = rec.found /\ rec.id = drawn
  BY DEF TInv, IInv, Filed, Begun, CInv, Kept, Prev, Sched!Scanning
<1>2. LastStampedBefore(rec.id) = {r \in Earlier : \A q \in Earlier : q <= r}
  BY <1>1 DEF LastStampedBefore, Earlier, StampsOf
<1>3. Earlier \subseteq Saved /\ \A q \in Earlier : q \in Nat
  BY DEF Earlier, StampsOf, CInv, Chain, Saved, ScanIds
<1>4. CASE Earlier # {}
  <2>1. prev \in Earlier /\ \A q \in Earlier : q <= prev
    BY <1>4 DEF CInv, Prev, Sched!Scanning
  <2>2. LastStampedBefore(rec.id) = {prev}
    BY <1>2, <1>3, <2>1
  <2> QED
    BY <1>1, <1>3, <2>1, <2>2
<1>5. CASE Earlier = {}
  BY <1>1, <1>2, <1>5 DEF CInv, Prev, Sched!Scanning
<1> QED
  BY <1>4, <1>5

LEMMA StepDiffs ==
  ASSUME TInv, CInv, AlertsAreDiffs, [Next]_vars
  PROVE  AlertsAreDiffs'
<1> DEFINE Diff(p, before) ==
      /\ p.scan \in Saved /\ p.found # {} /\ p.found \subseteq scans[p.scan].found
      /\ p.kind = "new" => \A r \in before : p.found \cap scans[r].found = {}
      /\ p.kind = "initial" => before = {} \/ p.scan \in blind
      /\ before = {} /\ ClientStamps = {} => p.kind = "initial"
<1>1. ASSUME NEW p \in sent
      PROVE  Diff(p, LastStampedBefore(p.scan))'
  <2>1. Diff(p, LastStampedBefore(p.scan))
    BY DEF AlertsAreDiffs
  <2> QED
    BY <2>1, DiffStands
<1>2. ASSUME DispatchAlerts, NEW diff \in BOOLEAN, diff => HasPrev,
             HasPrev /\ ~diff => rec.id \in blind', NEW p \in Alerts(diff)
      PROVE  Diff(p, LastStampedBefore(p.scan))'
  <2>1. pc = "alerts" /\ UNCHANGED <<scans, stamped>>
    BY <1>2 DEF DispatchAlerts, Sched!DispatchAlerts
  <2>2. /\ p.scan = rec.id /\ p.kind = Kind(diff) /\ p.found = Filtered(NewOnes(diff), p.dest)
        /\ p.found # {}
    BY AlertTypes DEF TInv
  <2>3. LastStampedBefore(p.scan)' = LastStampedBefore(rec.id) /\ Saved' = Saved
    BY <2>1, <2>2 DEF LastStampedBefore, Saved
  <2>4. p.found \subseteq NewOnes(diff) /\ p.found \subseteq rec.found
    BY <2>2 DEF Filtered, NewOnes
  <2>5. CASE prev \in Saved /\ LastStampedBefore(rec.id) = {prev}
    <3>1. CASE diff
      BY <2>1, <2>2, <2>3, <2>4, <2>5, <3>1, ComparedWithLast DEF NewOnes, Kind
    <3>2. CASE ~diff
      BY <1>2, <2>1, <2>2, <2>3, <2>4, <2>5, <3>2, ComparedWithLast DEF Kind, HasPrev
    <3> QED
      BY <3>1, <3>2
  <2>6. CASE LastStampedBefore(rec.id) = {} /\ prev \in {NoScan} \cup ClientStamps
    <3>1. ClientStamps = {} => ~diff
      BY <1>2, <2>6 DEF HasPrev, NoScan, Saved, ScanIds
    <3> QED
      BY <2>1, <2>2, <2>3, <2>4, <2>6, <3>1, ComparedWithLast DEF Kind
  <2> QED
    BY <2>1, <2>5, <2>6, ComparedWithLast
<1>3. \/ sent' = sent
      \/ /\ DispatchAlerts
         /\ \E diff \in BOOLEAN :
              /\ sent' = sent \cup Alerts(diff)
              /\ diff => HasPrev
              /\ HasPrev /\ ~diff => rec.id \in blind'
  <2>1. CASE DispatchAlerts
    BY <2>1, Dispatched
  <2>2. CASE ~DispatchAlerts
    BY <2>2 DEF Next, Handlers, Goroutine, Environment, Die, PostEnds, vars, data, history,
         BeginRecord, Loop, ExecuteScan, SaveScan, SaveFails, UpdateFails,
         UpdateTargetScan, AddTarget, RequestAdded, ScanTarget, DeleteTarget, AddAlert,
         DeleteAlert
  <2> QED
    BY <2>1, <2>2
<1>4. \A p \in sent' : Diff(p, LastStampedBefore(p.scan))'
  BY <1>1, <1>2, <1>3
<1> QED
  BY <1>4 DEF AlertsAreDiffs

\* An alert reports findings of its own saved scan; a "new" one those that the
\* last stamped scan before it did not have, for scanOne reads prevScanID before
\* it stamps the new scan and nothing stamps an older scan later; an "initial" one
\* is of a target without such a scan, or of one whose record could not be read.
THEOREM AlertsAreDifferences == Spec => []AlertsAreDiffs
<1>1. Init => AlertsAreDiffs
  BY DEF Init, AlertsAreDiffs
<1>2. TInv /\ CInv /\ AlertsAreDiffs /\ [Next]_vars => AlertsAreDiffs'
  BY StepDiffs
<1> QED
  BY <1>1, <1>2, InitTInv, StepTInv, InitCInv, StepCInv, PTL DEF Spec

-----------------------------------------------------------------------------
(* No finding is missed. *)

\* While scanOne works on a target, what the scan it will compare with found
\* has been heard of, or is excused.
NoGap ==
  pc \in Sched!Scanning /\ prev \in Saved =>
    \A d \in On : \A f \in Filtered(scans[prev].found, d) : ~Missing(cur, d, prev, f)

LEMMA ExcusedByClient ==
  ASSUME NEW t, NEW d, NEW s \in ClientStamps, NEW f, s \in Saved', f \in scans'[s].found
  PROVE  ~Missing(t, d, s, f)'
BY DEF Missing

LEMMA ExcusedHere ==
  ASSUME TypeOK', NEW t, NEW d, NEW s, NEW f,
         s \in Saved', scans'[s].target = t, f \in scans'[s].found,
         s \in cut' \/ ~(since'[d] < s)
  PROVE  ~Missing(t, d, s, f)'
<1>1. s \in Nat
  BY DEF Saved, ScanIds
<1> QED
  BY <1>1 DEF Missing

\* A destination that has heard stays so, and an excuse is never withdrawn.
LEMMA StaysHeard ==
  ASSUME TInv, [Next]_vars, NEW t, NEW d \in On, NEW s, NEW f, ~Missing(t, d, s, f)
  PROVE  ~Missing(t, d, s, f)'
<1>1. \A r \in Saved : r \in Saved' /\ scans'[r] = scans[r]
  BY RecordsStay DEF TInv
<1>2. sent \subseteq sent' /\ cut \subseteq cut'
  BY DEF Next, Handlers, Goroutine, Environment, Die, PostEnds, vars, data, history,
         BeginRecord, Loop, ExecuteScan, SaveScan, SaveFails, DispatchAlerts, UpdateFails,
         UpdateTargetScan, AddTarget, RequestAdded, ScanTarget, DeleteTarget, AddAlert,
         DeleteAlert, Post
<1>3. since'[d] = since[d]
  <2>1. since' = since \/ \E e \in Dests : dest[e] = "unused" /\ since' = [since EXCEPT ![e] = drawn]
    BY DEF Next, Handlers, Goroutine, Environment, Die, PostEnds, vars, data, history,
           BeginRecord, Loop, ExecuteScan, SaveScan, SaveFails, DispatchAlerts, UpdateFails,
           UpdateTargetScan, AddTarget, RequestAdded, ScanTarget, DeleteTarget, AddAlert,
           DeleteAlert
  <2>2. dest[d] = "on" /\ d \in Dests
    BY DEF On
  <2> QED
    BY <2>1, <2>2 DEF TInv, TypeOK
<1>4. \A p \in sent : p.scan \in Saved
  BY DEF TInv, SentPast
<1>5. ASSUME Missing(t, d, s, f)' PROVE Missing(t, d, s, f)
  <2>1. \A p \in sent : p.dest = d /\ p.scan <= s /\ scans[p.scan].target = t => f \notin p.found
    BY <1>5, <1>1, <1>2, <1>4 DEF Missing
  <2>2. \A r \in Saved : r <= s /\ scans[r].target = t /\ f \in scans[r].found
                           => since[d] < r /\ r \notin cut
    BY <1>5, <1>1, <1>2, <1>3 DEF Missing
  <2>3. \A r \in Saved \cap ClientStamps : f \notin scans[r].found
    BY <1>5, <1>1 DEF Missing
  <2> QED
    BY <2>1, <2>2, <2>3 DEF Missing
<1> QED
  BY <1>5

\* What a scan that is over found has been posted, now or earlier, or is excused.
LEMMA HeardAtEnd ==
  ASSUME TInv, CInv, NoGap, [Next]_vars, pc = "alerts", DispatchAlerts \/ Die,
         NEW d \in On, NEW f \in Filtered(scans[rec.id].found, d)
  PROVE  \A t, s : t = cur /\ s = rec.id => ~Missing(t, d, s, f)'
<1> SUFFICES ASSUME NEW t, NEW s, t = cur, s = rec.id PROVE ~Missing(t, d, s, f)'
  OBVIOUS
<1>1. /\ s \in Saved /\ scans[s].target = t /\ scans[s].found = rec.found
      /\ t \in Targets /\ s \in Nat
  BY ComparedWithLast DEF Saved, ScanIds
<1>2. s \in Saved' /\ scans'[s] = scans[s] /\ TypeOK'
  BY <1>1, RecordsStay, StepTInv DEF TInv
<1>3. f \in rec.found /\ Severity[f[1]] >= MinSeverity[d] /\ ~rec.failed
  BY <1>1 DEF Filtered, CInv, Kept
<1>4. CASE s \in cut'
  BY <1>1, <1>2, <1>3, <1>4, ExcusedHere
<1>5. CASE s \notin cut'
  <2>1. PICK diff \in BOOLEAN : DispatchAlerts /\ sent' = sent \cup Alerts(diff)
                               /\ scans' = scans /\ (diff => HasPrev)
    BY <1>5, Dispatched DEF DispatchAlerts, Die
  <2>2. CASE f \in NewOnes(diff)
    <3> DEFINE p == [dest |-> d, scan |-> rec.id, kind |-> Kind(diff),
                     found |-> Filtered(NewOnes(diff), d)]
    <3>1. f \in Filtered(NewOnes(diff), d)
      BY <1>3, <2>2 DEF Filtered
    <3>2. p \in Alerts(diff)
      BY <1>3, <3>1 DEF Alerts
    <3>3. p \in sent' /\ p.dest = d /\ p.scan = s /\ f \in p.found
      BY <2>1, <3>1, <3>2
    <3> HIDE DEF p
    <3> QED
      BY <1>1, <2>1, <3>3 DEF Missing
  <2>3. CASE f \notin NewOnes(diff)
    <3>1. PICK q : q = prev
      OBVIOUS
    <3>2. q \in Saved /\ f \in scans[q].found
      BY <1>3, <2>1, <2>3, <3>1 DEF NewOnes, HasPrev
    <3>3. f \in Filtered(scans[q].found, d)
      BY <1>3, <3>2 DEF Filtered
    <3>4. ~Missing(t, d, q, f)
      BY <3>1, <3>2, <3>3 DEF NoGap, Missing, Sched!Scanning
    <3>5. q \in Saved' /\ f \in scans'[q].found
      BY <3>2, RecordsStay DEF TInv
    <3>6. CASE q \in ClientStamps
      BY <3>5, <3>6 DEF Missing
    <3>7. CASE q \notin ClientStamps
      <4>1. q < s /\ q \in Nat
        BY <3>1, <3>2, <3>7, ComparedWithLast DEF NoScan, Earlier, Saved, ScanIds
      <4>2. ~Missing(t, d, q, f)'
        BY <3>4, StaysHeard
      <4>3. sent' \subseteq Posts /\ \A r \in Saved' : r \in Nat
        BY <1>2 DEF TypeOK, Saved, ScanIds
      <4>4. \A p \in sent' : p.scan \in Nat
        BY <4>3, MaxScansAssumption DEF Posts
      <4> QED
        BY <1>1, <4>1, <4>2, <4>3, <4>4 DEF Missing
    <3> QED
      BY <3>6, <3>7
  <2> QED
    BY <2>2, <2>3
<1> QED
  BY <1>4, <1>5

LEMMA StepMissed ==
  ASSUME TInv, CInv, NoGap, NoMissedAlert, [Next]_vars
  PROVE  NoMissedAlert'
<1> SUFFICES ASSUME NEW t \in Targets, NEW d \in On', NEW s, s = stamp'[t], s \in Saved',
                    rec'.id = s => pc' # "alerts",
                    NEW f \in Filtered(scans'[s].found, d)
             PROVE  ~Missing(t, d, s, f)'
  BY DEF NoMissedAlert, Missing
<1>1. f \in scans'[s].found /\ d \in Dests /\ Severity[f[1]] >= MinSeverity[d]
  BY DEF Filtered, On
<1>2. TInv' /\ s \in ScanIds /\ s # NoScan
  BY StepTInv DEF Saved, ScanIds, NoScan
<1>3. CASE s \in ClientStamps
  BY <1>1, <1>3, ExcusedByClient
<1>4. CASE s \notin ClientStamps
  <2>1. scans'[s].target = t
    BY <1>2, <1>4 DEF TInv, IInv, StampIsSaved
  <2>2. CASE AddAlert(d)
    <3>1. since'[d] = drawn /\ UNCHANGED <<scans, drawn>>
      BY <2>2, <1>1 DEF AddAlert, TInv, TypeOK
    <3>2. scans[s] # NoRecord /\ s \in Nat /\ drawn \in Nat
      BY <1>2, <3>1, MaxScansAssumption DEF TInv, IInv, Saved, ScanIds, Shape
    <3>3. s <= drawn
      <4>1. Undrawn /\ s \in ScanIds
        BY <1>2 DEF TInv, IInv
      <4>2. ~(s > drawn)
        BY <3>2, <4>1 DEF Undrawn
      <4> QED
        BY <3>2, <4>2
    <3>4. ~(since'[d] < s) /\ TypeOK'
      BY <1>2, <3>1, <3>2, <3>3 DEF TInv
    <3> QED
      BY <1>1, <2>1, <3>4, ExcusedHere
  <2>3. CASE ~AddAlert(d)
    <3>1. d \in On
      BY <2>3, <1>1
         DEF On, Next, Handlers, Goroutine, Environment, Die, PostEnds, vars, data, history,
             BeginRecord, Loop, ExecuteScan, SaveScan, SaveFails, DispatchAlerts, UpdateFails,
             UpdateTargetScan, AddTarget, RequestAdded, ScanTarget, DeleteTarget, AddAlert,
             DeleteAlert, TInv, TypeOK
    <3>2. stamp[t] = s
      <4>1. ~AddTarget(t)
        BY <1>2, <1>4 DEF AddTarget, TInv, IInv, Shape
      <4>2. ASSUME UpdateTargetScan PROVE stamp[t] = s
        BY <4>2, <1>2 DEF UpdateTargetScan, Sched!UpdateTargetScan, procData, TInv, IInv, Shape
      <4>3. ASSUME NEW u \in Targets, AddTarget(u) PROVE stamp[t] = s
        BY <4>1, <4>3 DEF AddTarget, TInv, IInv, Shape
      <4>4. CASE ~UpdateTargetScan /\ ~\E u \in Targets : AddTarget(u)
        BY <4>4 DEF Next, Handlers, Goroutine, Environment, Die, PostEnds, vars, data, history,
             BeginRecord, Loop, ExecuteScan, SaveScan, SaveFails, DispatchAlerts, UpdateFails,
             RequestAdded, ScanTarget, DeleteTarget, AddAlert, DeleteAlert
      <4> QED
        BY <4>2, <4>3, <4>4
    <3>3. s \in Saved /\ scans[s].target = t /\ scans'[s] = scans[s]
      BY <1>2, <1>4, <3>2, RecordsStay DEF TInv, IInv, StampIsSaved
    <3>4. CASE rec.id = s => pc # "alerts"
      <4>1. ~Missing(t, d, s, f)
        BY <1>1, <3>1, <3>2, <3>3, <3>4 DEF NoMissedAlert, Filtered, Missing
      <4> QED
        BY <3>1, <4>1, StaysHeard
    <3>5. CASE rec.id = s /\ pc = "alerts"
      <4>1. t = cur
        BY <3>3, <3>5, ComparedWithLast
      <4>2. DispatchAlerts \/ Die
        BY <3>5 DEF Next, Handlers, Goroutine, Environment, PostEnds, vars, data, procData,
             history, BeginRecord, Loop, ExecuteScan, SaveScan, SaveFails, UpdateFails, schedVars,
             UpdateTargetScan, AddTarget, RequestAdded, ScanTarget, DeleteTarget, AddAlert,
             DeleteAlert, Sched!Start, Sched!Signal, Sched!Lapse, Sched!AddTarget,
             Sched!RequestAdded, Sched!ScanTarget, Sched!DeleteTarget, Sched!SweepNext,
             Sched!TakeManual, Sched!Sweep, Sched!SweepFails, Sched!SweepDone,
             Sched!StopScheduler, Sched!GetTarget, Sched!GetFails, Sched!ExecuteScan, Sched!SaveScan, Sched!SaveFails,
             Sched!UpdateTargetScan, Sched!UpdateFails, Sched!procVars, TInv, Off
      <4> QED
        BY <3>1, <3>3, <3>5, <4>1, <4>2, HeardAtEnd
    <3> QED
      BY <3>4, <3>5
  <2> QED
    BY <2>2, <2>3
<1> QED
  BY <1>3, <1>4

LEMMA StepNoGap ==
  ASSUME TInv, CInv, NoGap, NoMissedAlert, [Next]_vars
  PROVE  NoGap'
<1> SUFFICES ASSUME pc' \in Sched!Scanning, NEW t, t = cur', NEW q, q = prev', q \in Saved',
                    NEW d \in On', NEW f \in Filtered(scans'[q].found, d)
             PROVE  ~Missing(t, d, q, f)'
  BY DEF NoGap, Missing
<1>1. f \in scans'[q].found /\ d \in Dests /\ Severity[f[1]] >= MinSeverity[d]
  BY DEF Filtered, On
<1>2. TInv' /\ CInv' /\ q \in ScanIds /\ q # NoScan
  BY StepTInv, StepCInv DEF Saved, ScanIds, NoScan
<1>3. CASE q \in ClientStamps
  BY <1>1, <1>3, ExcusedByClient
<1>4. CASE q \notin ClientStamps
  <2>1. q \in stamped' /\ scans'[q].target = t
    BY <1>2, <1>4 DEF CInv, Prev, Earlier, StampsOf
  <2>2. CASE AddAlert(d)
    <3>1. since'[d] = drawn /\ UNCHANGED <<scans, drawn>>
      BY <2>2, <1>1 DEF AddAlert, TInv, TypeOK
    <3>2. scans[q] # NoRecord /\ q \in Nat /\ drawn \in Nat
      BY <1>2, <3>1, MaxScansAssumption DEF TInv, IInv, Saved, ScanIds, Shape
    <3>3. q <= drawn
      <4>1. Undrawn /\ q \in ScanIds
        BY <1>2 DEF TInv, IInv
      <4>2. ~(q > drawn)
        BY <3>2, <4>1 DEF Undrawn
      <4> QED
        BY <3>2, <4>2
    <3>4. ~(since'[d] < q) /\ TypeOK'
      BY <1>2, <3>1, <3>2, <3>3 DEF TInv
    <3> QED
      BY <1>1, <2>1, <3>4, ExcusedHere
  <2>3. CASE ~AddAlert(d)
    <3>1. d \in On
      BY <2>3, <1>1
         DEF On, Next, Handlers, Goroutine, Environment, Die, PostEnds, vars, data, history,
             BeginRecord, Loop, ExecuteScan, SaveScan, SaveFails, DispatchAlerts, UpdateFails,
             UpdateTargetScan, AddTarget, RequestAdded, ScanTarget, DeleteTarget, AddAlert,
             DeleteAlert, TInv, TypeOK
    <3>2. CASE BeginRecord
      <4>1. /\ q = stamp[t] /\ t \in Targets /\ scans' = scans
            /\ pc \notin Sched!Scanning /\ pc # "alerts"
        BY <3>2, KeepsBeginRecord DEF BeginRecord, Sched!GetTarget, Sched!Scanning, TInv
      <4>2. ~Missing(t, d, q, f)
        BY <1>1, <3>1, <4>1 DEF NoMissedAlert, Filtered, Missing, Saved
      <4> QED
        BY <3>1, <4>2, StaysHeard
    <3>3. CASE ~BeginRecord
      <4>1. pc \in Sched!Scanning /\ cur = t /\ prev = q
        <5>1. CASE Loop
          BY <5>1, LoopStaysOut
        <5>2. CASE Goroutine /\ ~BeginRecord /\ ~Loop
          BY <5>2 DEF Goroutine, ExecuteScan, SaveScan, SaveFails, UpdateTargetScan,
             UpdateFails, DispatchAlerts, data, procData, Sched!ExecuteScan, Sched!SaveScan,
             Sched!SaveFails, Sched!UpdateTargetScan, Sched!UpdateFails,
             Sched!DispatchAlerts, Sched!Return, Sched!Scanning
        <5>3. CASE Environment \/ Die \/ PostEnds \/ UNCHANGED vars
          BY <5>3 DEF Environment, Die, PostEnds, vars, schedVars, data, procData,
             Sched!Start, Sched!Signal, Sched!Lapse, Sched!Exit, Sched!Crash, Sched!Die,
             Sched!procVars, Sched!Scanning
        <5>4. CASE Handlers
          BY <5>4 DEF Handlers, AddTarget, RequestAdded, ScanTarget, DeleteTarget, AddAlert,
             DeleteAlert, schedVars, data, procData, Sched!AddTarget, Sched!RequestAdded,
             Sched!ScanTarget, Sched!DeleteTarget, Sched!procVars, Sched!Scanning
        <5> QED
          BY <3>3, <5>1, <5>2, <5>3, <5>4 DEF Next
      <4>2. q \in Saved
        BY <1>4, <1>2, <4>1 DEF CInv, Prev, Earlier, StampsOf, Chain
      <4>3. scans'[q] = scans[q]
        BY <4>2, RecordsStay DEF TInv
      <4>4. ~Missing(t, d, q, f)
        BY <1>1, <3>1, <4>1, <4>2, <4>3 DEF NoGap, Filtered, Missing
      <4> QED
        BY <3>1, <4>4, StaysHeard
    <3> QED
      BY <3>2, <3>3
  <2> QED
    BY <2>2, <2>3
<1> QED
  BY <1>3, <1>4

\* What the last scan of a target found and a destination wants to know, that
\* destination was posted at this scan or before, or there is a named excuse: the
\* chain of prevScanIDs has no gap, whatever fails and whenever the process ends
\* (scanOne, dispatchAlerts, UpdateTargetScan).
THEOREM NothingIsMissed == Spec => []NoMissedAlert
<1>1. Init => NoGap /\ NoMissedAlert
  BY DEF Init, Sched!Init, Sched!Scanning, NoGap, NoMissedAlert, On
<1>2. TInv /\ CInv /\ NoGap /\ NoMissedAlert /\ [Next]_vars => NoGap' /\ NoMissedAlert'
  BY StepNoGap, StepMissed
<1> QED
  BY <1>1, <1>2, InitTInv, StepTInv, InitCInv, StepCInv, PTL DEF Spec
=============================================================================
