--------------------------- MODULE Scheduler_proofs ---------------------------
(***************************************************************************)
(* Theorems about module Scheduler, for every set of targets, every queue  *)
(* capacity, every set of failing store operations and every way to stop.  *)
(***************************************************************************)
EXTENDS Scheduler, TLAPS

\* What scanOne's mark and the sweep's list need to be inductive: there is a
\* current target exactly while scanOne is at work, the sweep has taken it off
\* its list, and a process that is down has no goroutine.
CurrentIsScanning == /\ cur # NoTarget <=> pc \in Marked
                     /\ cur \notin todo
                     /\ life = "down" => pc = "off"

IInv == TypeOK /\ RunningIsCurrent /\ CurrentIsScanning /\ SweepListStillDue

LEMMA RequestScanType ==
  ASSUME NEW t \in Targets, TypeOK, RequestScan(t)
  PROVE  manual' \in Seq(Targets) /\ Len(manual') <= QueueCap
<1>1. CASE Len(manual) < QueueCap
  BY <1>1, QueueCapAssumption DEF TypeOK, RequestScan
<1>2. CASE ~(Len(manual) < QueueCap)
  BY <1>2 DEF TypeOK, RequestScan
<1> QED BY <1>1, <1>2

LEMMA InitIInv == Init => IInv
BY QueueCapAssumption
   DEF Init, IInv, TypeOK, RunningIsCurrent, CurrentIsScanning, SweepListStillDue,
       Labels, Marked, Scanning

LEMMA StepIInv == IInv /\ [Next]_vars => IInv'
<1> SUFFICES ASSUME IInv, [Next]_vars PROVE IInv'
  OBVIOUS
<1> USE NoTargetAssumption
    DEF IInv, RunningIsCurrent, CurrentIsScanning, SweepListStillDue, Labels, Marked, Scanning
<1>1. CASE Start \/ Signal
  BY <1>1 DEF Start, Signal, procVars, TypeOK
<1>2. CASE Exit \/ Crash
  <2>1. Die
    BY <1>2 DEF Exit, Crash
  <2>2. manual' = <<>> /\ todo' = {} /\ cur' = NoTarget /\ running' = {} /\ pc' = "off"
    BY <2>1 DEF Die
  <2> QED BY <2>1, <2>2, QueueCapAssumption DEF Die, TypeOK
<1>3. ASSUME NEW t \in Targets, Lapse(t) PROVE IInv'
  BY <1>3 DEF Lapse, procVars, TypeOK
<1>4. ASSUME NEW t \in Targets, AddTarget(t) PROVE IInv'
  BY <1>4 DEF AddTarget, TypeOK
<1>5. ASSUME NEW t \in Targets, RequestAdded(t) PROVE IInv'
  BY <1>5, RequestScanType DEF RequestAdded, TypeOK
<1>6. ASSUME NEW t \in Targets, ScanTarget(t) PROVE IInv'
  BY <1>6, RequestScanType DEF ScanTarget, TypeOK
<1>7. ASSUME NEW t \in Targets, DeleteTarget(t) PROVE IInv'
  BY <1>7 DEF DeleteTarget, procVars, TypeOK
<1>8. CASE Sweep
  BY <1>8 DEF Sweep, Due, TypeOK
<1>9. CASE SweepFails \/ SweepDone \/ StopScheduler
  BY <1>9 DEF SweepFails, SweepDone, StopScheduler, TypeOK
<1>10. ASSUME NEW t \in Targets, SweepNext(t) PROVE IInv'
  BY <1>10 DEF SweepNext, ScanOne, TypeOK
<1>11. CASE TakeManual
  <2>1. /\ Head(manual) \in Targets
        /\ manual' \in Seq(Targets)
        /\ Len(manual') <= QueueCap
    BY <1>11, QueueCapAssumption DEF TakeManual, TypeOK
  <2>2. todo = {} /\ todo' = {} /\ running = {}
    BY <1>11 DEF TakeManual
  <2> QED BY <1>11, <2>1, <2>2 DEF TakeManual, ScanOne, TypeOK
<1>12. CASE GetTarget \/ ExecuteScan \/ SaveScan \/ UpdateFails
  BY <1>12 DEF GetTarget, ExecuteScan, SaveScan, UpdateFails, TypeOK
<1>13. CASE GetFails \/ SaveFails \/ DispatchAlerts
  BY <1>13 DEF GetFails, SaveFails, DispatchAlerts, Return, TypeOK
<1>14. CASE UpdateTargetScan
  BY <1>14 DEF UpdateTargetScan, Watched, TypeOK
<1>15. CASE UNCHANGED vars
  BY <1>15 DEF vars, TypeOK
<1> QED
  BY <1>1, <1>2, <1>3, <1>4, <1>5, <1>6, <1>7, <1>8, <1>9, <1>10, <1>11, <1>12,
     <1>13, <1>14, <1>15 DEF Next, Handlers, Goroutine

\* Every variable keeps its type; in particular the manual channel never holds
\* more than its capacity.
THEOREM TypeCorrect == Spec => []TypeOK
<1>1. IInv => TypeOK
  BY DEF IInv
<1> QED BY <1>1, InitIInv, StepIInv, PTL DEF Spec

THEOREM InvariantHolds == Spec => []IInv
BY InitIInv, StepIInv, PTL DEF Spec

\* scanOne's marks: nothing is marked running between scans, so the guard at the
\* top of scanOne never turns a scan away for ever.
THEOREM MarksAreCleared == Spec => []RunningIsCurrent
<1>1. IInv => RunningIsCurrent
  BY DEF IInv
<1> QED BY <1>1, InvariantHolds, PTL

\* A sweep's snapshot stays accurate up to deletions.
THEOREM SweepListAccurate == Spec => []SweepListStillDue
<1>1. IInv => SweepListStillDue
  BY DEF IInv
<1> QED BY <1>1, InvariantHolds, PTL
-----------------------------------------------------------------------------
(* The scheduler implements the service: each step is a step of ScanService, *)
(* or leaves what ScanService sees of the state as it is.                    *)

LEMMA InitImplements == Init => Service!Init
BY DEF Init, Service!Init, Watched, Due, Active

LEMMA StepImplements == IInv /\ [Next]_vars => [Service!Next]_(Service!svars)
<1> SUFFICES ASSUME IInv, [Next]_vars PROVE [Service!Next]_(Service!svars)
  OBVIOUS
<1> USE NoTargetAssumption DEF Watched, Due
<1>s. ASSUME UNCHANGED <<watch, Active>> PROVE UNCHANGED Service!svars
  BY <1>s DEF Service!svars
<1>w. watch \in [Targets -> {"unused", "due", "fresh", "gone"}]
  BY DEF IInv, TypeOK
<1>e. ASSUME UNCHANGED watch, Active' = NoTarget, Active # NoTarget PROVE Service!End
  BY <1>e DEF Service!End
<1>c. (cur # NoTarget <=> pc \in Marked) /\ (life = "down" => pc = "off")
  BY DEF IInv, CurrentIsScanning
<1>a. Active = NoTarget <=> pc \notin Scanning
  BY <1>c DEF Active, Marked, Scanning
<1>1. CASE Start \/ Signal \/ Sweep \/ SweepFails \/ SweepDone \/ StopScheduler
           \/ ExecuteScan \/ SaveScan \/ UpdateFails \/ UNCHANGED vars
  <2>1. UNCHANGED <<watch, Active>>
    BY <1>1, <1>c DEF Start, Signal, Sweep, SweepFails, SweepDone, StopScheduler,
                ExecuteScan, SaveScan, UpdateFails, procVars, vars, Active, Marked, Scanning
  <2> QED BY <2>1, <1>s
<1>2. CASE Exit \/ Crash
  <2>1. UNCHANGED watch /\ Active' = NoTarget
    BY <1>2 DEF Exit, Crash, Die, Active
  <2> QED BY <2>1, <1>s, <1>e DEF Service!Next
<1>3. ASSUME NEW t \in Targets, Lapse(t) PROVE Service!Next
  <2>1. Service!Lapse(t)
    BY <1>3, <1>w DEF Lapse, procVars, Service!Lapse, Active
  <2> QED BY <2>1 DEF Service!Next
<1>4. ASSUME NEW t \in Targets, AddTarget(t) PROVE Service!Next
  <2>1. PICK s \in {"due", "fresh"} : watch' = [watch EXCEPT ![t] = s]
    BY <1>4 DEF AddTarget
  <2>2. Service!Watch(t)
    BY <1>4, <1>w, <2>1 DEF AddTarget, Service!Watch, Active
  <2> QED BY <2>2 DEF Service!Next
<1>5. ASSUME NEW t \in Targets, RequestAdded(t) \/ ScanTarget(t)
      PROVE  UNCHANGED Service!svars
  BY <1>5, <1>s DEF RequestAdded, ScanTarget, Active
<1>6. ASSUME NEW t \in Targets, DeleteTarget(t) PROVE Service!Next
  <2>1. Service!Unwatch(t)
    BY <1>6, <1>w DEF DeleteTarget, procVars, Service!Unwatch, Active
  <2> QED BY <2>1 DEF Service!Next
<1>7. ASSUME NEW t, ScanOne(t), UNCHANGED watch, pc \notin Marked
      PROVE  UNCHANGED Service!svars
  <2>1. Active = NoTarget
    BY <1>7, <1>a DEF Marked
  <2>2. Active' = NoTarget
    BY <1>7, <1>c DEF ScanOne, Active
  <2> QED BY <1>7, <2>1, <2>2, <1>s
<1>8. (\E t \in Targets : SweepNext(t)) \/ TakeManual => UNCHANGED Service!svars
  BY <1>7 DEF SweepNext, TakeManual, Marked, Scanning
<1>9. CASE GetTarget
  <2>1. cur \in Targets /\ Active = NoTarget /\ Active' = cur
    BY <1>9, <1>a DEF GetTarget, Active, Scanning
  <2>2. Service!Begin(cur)
    BY <1>9, <2>1 DEF GetTarget, Service!Begin
  <2> QED BY <2>1, <2>2 DEF Service!Next
<1>10. CASE GetFails
  <2>1. UNCHANGED watch /\ Active = NoTarget /\ Active' = NoTarget
    BY <1>10, <1>a DEF GetFails, Return, Active, Scanning
  <2> QED BY <2>1, <1>s
<1>11. CASE SaveFails \/ DispatchAlerts
  <2>1. UNCHANGED watch /\ Active' = NoTarget /\ Active # NoTarget
    BY <1>11, <1>a DEF SaveFails, DispatchAlerts, Return, Active, Scanning
  <2> QED BY <2>1, <1>e DEF Service!Next
<1>12. CASE UpdateTargetScan
  <2>1. cur \in Targets /\ cur # NoTarget
    BY <1>12, <1>c DEF UpdateTargetScan, Marked, Scanning, IInv, TypeOK
  <2>2. Active = cur /\ Active' = cur
    BY <1>12 DEF UpdateTargetScan, Active
  <2>3. Service!Record
    BY <1>12, <1>w, <2>1, <2>2 DEF UpdateTargetScan, Service!Record
  <2> QED BY <2>3 DEF Service!Next
<1> QED
  BY <1>1, <1>2, <1>3, <1>4, <1>5, <1>6, <1>8, <1>9, <1>10, <1>11, <1>12
     DEF Next, Handlers, Goroutine

\* At any moment at most one scan runs, it began for a watched target, and only
\* recording it makes the target up to date.
THEOREM Implements == Spec => ImplementsService
BY InitImplements, InvariantHolds, StepImplements, PTL
   DEF Spec, ImplementsService, Service!Spec

-----------------------------------------------------------------------------
LEMMA StepNoResurrection ==
  TypeOK /\ [Next]_vars => \A t \in Targets : watch[t] = "gone" => watch'[t] = "gone"
<1> SUFFICES ASSUME TypeOK, [Next]_vars, NEW t \in Targets, watch[t] = "gone"
             PROVE  watch'[t] = "gone"
  OBVIOUS
<1>w. watch \in [Targets -> {"unused", "due", "fresh", "gone"}]
  BY DEF TypeOK
<1>1. ASSUME NEW u \in Targets, Lapse(u) \/ AddTarget(u) \/ DeleteTarget(u)
      PROVE  watch'[t] = "gone"
  BY <1>1, <1>w DEF Lapse, AddTarget, DeleteTarget, Watched
<1>2. CASE UpdateTargetScan
  BY <1>2, <1>w DEF UpdateTargetScan, Watched
<1>3. ASSUME NEW u \in Targets, RequestAdded(u) \/ ScanTarget(u) \/ SweepNext(u)
      PROVE  UNCHANGED watch
  BY <1>3 DEF RequestAdded, ScanTarget, SweepNext
<1>4. CASE Start \/ Signal \/ Exit \/ Crash \/ Sweep \/ SweepFails \/ SweepDone
           \/ TakeManual \/ StopScheduler \/ GetTarget \/ GetFails \/ ExecuteScan
           \/ SaveScan \/ SaveFails \/ UpdateFails \/ DispatchAlerts \/ UNCHANGED vars
  BY <1>4 DEF Start, Signal, Exit, Crash, Die, Sweep, SweepFails, SweepDone, TakeManual,
              StopScheduler, GetTarget, GetFails, ExecuteScan, SaveScan, SaveFails,
              UpdateFails, DispatchAlerts, vars
<1> QED
  BY <1>1, <1>2, <1>3, <1>4 DEF Next, Handlers, Goroutine

\* A target deleted while its scan runs is not written back by the scan's stamp.
THEOREM NothingComesBack == Spec => NoResurrection
<1>1. TypeOK /\ [Next]_vars
        => [\A t \in Targets : watch[t] = "gone" => watch'[t] = "gone"]_vars
  BY StepNoResurrection
<1> QED BY <1>1, TypeCorrect, PTL DEF Spec, NoResurrection
=============================================================================
