------------------------------ MODULE Scheduler ------------------------------
(***************************************************************************)
(* The scheduling half of `fipscan server`: the life of the process        *)
(* (server.Run), the one scheduler goroutine (Scheduler.Run, sweep,        *)
(* scanOne), the bounded channel of manual requests, and the HTTP handlers *)
(* that change the watchlist or queue a scan, each a goroutine of its own. *)
(*                                                                         *)
(* A step is one critical section of Store.mu, one channel operation, or   *)
(* one event of the environment; handlers and the scheduler interleave     *)
(* between steps.  What a scan finds is left to module Server.             *)
(*                                                                         *)
(* A watchlist entry is reduced to what sweep reads of it: whether its     *)
(* LastScan is missing or older than the interval ("due") or not           *)
(* ("fresh").  LastScan is the time the scan STARTED; that the interval    *)
(* may already have elapsed when it is written is Lapse right after.       *)
(***************************************************************************)
EXTENDS Naturals, Sequences, SequencesExt

CONSTANTS Targets,    \* the identifiers newID can draw for a target
          NoTarget,   \* no scan in flight
          QueueCap,   \* capacity of the manual channel (16 in the code)
          Faults,     \* the store operations that may fail (disk full, EIO)
          Stops       \* the ways the process may end

ASSUME NoTargetAssumption == NoTarget \notin Targets
ASSUME QueueCapAssumption == QueueCap \in Nat \ {0}
ASSUME FaultsAssumption   == Faults \subseteq {"list", "get", "save", "update", "alerts"}
ASSUME StopsAssumption    == Stops \subseteq {"signal", "crash"}

VARIABLES
  life,      \* the process: "down", "up", or "stopping" (SIGTERM received)
  watch,     \* watchlist.json: per id "unused", "due", "fresh" or "gone"
  manual,    \* the channel of manual scan requests
  pc,        \* where the scheduler goroutine is
  todo,      \* targets of the running sweep's snapshot still to be scanned
  cur,       \* the id scanOne has marked and is working on, or NoTarget
  running,   \* Scheduler.running: the set of ids marked mid-scan
  adding     \* ids whose add-handler is between AddTarget and RequestScan

vars == <<life, watch, manual, pc, todo, cur, running, adding>>
procVars == <<manual, pc, todo, cur, running, adding>>  \* die with the process

Scanning == {"scan", "save", "stamp", "alerts"}
Marked   == {"get"} \cup Scanning        \* scanOne, from its mark on
Labels   == {"off", "startup", "select", "sweep", "done"} \cup Marked

Watched == {t \in Targets : watch[t] \in {"due", "fresh"}}
Due     == {t \in Targets : watch[t] = "due"}
Queued  == ToSet(manual)
Active  == IF pc = "get" THEN NoTarget ELSE cur   \* the target being scanned

TypeOK ==
  /\ life \in {"down", "up", "stopping"}
  /\ watch \in [Targets -> {"unused", "due", "fresh", "gone"}]
  /\ manual \in Seq(Targets) /\ Len(manual) <= QueueCap
  /\ pc \in Labels
  /\ todo \subseteq Targets
  /\ cur \in Targets \cup {NoTarget}
  /\ running \subseteq Targets
  /\ adding \subseteq Targets

-----------------------------------------------------------------------------
(* The process. *)

Init == /\ life = "down"
        /\ watch = [t \in Targets |-> "unused"]
        /\ manual = <<>> /\ pc = "off" /\ todo = {} /\ cur = NoTarget
        /\ running = {} /\ adding = {}

\* Run: the scheduler goroutine starts with a sweep, then the listener opens.
Start == /\ life = "down"
         /\ life' = "up"
         /\ pc' = "startup"
         /\ UNCHANGED <<watch, manual, todo, cur, running, adding>>

\* SIGINT or SIGTERM cancels ctx; the listener closes.
Signal == /\ "signal" \in Stops
          /\ life = "up"
          /\ life' = "stopping"
          /\ UNCHANGED <<watch, procVars>>

Die == /\ life' = "down"
       /\ manual' = <<>> /\ pc' = "off" /\ todo' = {} /\ cur' = NoTarget
       /\ running' = {} /\ adding' = {}
       /\ UNCHANGED watch

\* Shutdown waits at most 5s, and for handlers only: whatever the scheduler
\* goroutine is doing ends with the process.
Exit == life = "stopping" /\ Die

\* A panic or a kill at any step.  The files stay as they are: what a power
\* failure takes of writes that were never synced is not a case here.
Crash == "crash" \in Stops /\ life = "up" /\ Die

\* The interval of a target elapses, whether or not the process is up.
Lapse(t) == /\ watch[t] = "fresh"
            /\ watch' = [watch EXCEPT ![t] = "due"]
            /\ UNCHANGED <<life, procVars>>

-----------------------------------------------------------------------------
(* The HTTP handlers.  A request accepted before the listener closed runs on *)
(* until the process exits.                                                 *)

\* Mutant: a queue that grows instead of a channel that drops.
RequestScanGrows(t) == manual' = Append(manual, t)
\* The send on the manual channel: dropped, silently, when the channel is full.
RequestScan(t) ==
  manual' = IF Len(manual) < QueueCap THEN Append(manual, t) ELSE manual

\* POST /targets/new, POST /api/v1/targets: the store write.  The API keeps a
\* last_scan the client sent, so a new entry may already count as fresh.
AddTarget(t) == /\ life # "down"
                /\ watch[t] = "unused"
                /\ \E s \in {"due", "fresh"} : watch' = [watch EXCEPT ![t] = s]
                /\ adding' = adding \cup {t}
                /\ UNCHANGED <<life, manual, pc, todo, cur, running>>

\* ... and the rest of that handler.
RequestAdded(t) == /\ t \in adding
                   /\ adding' = adding \ {t}
                   /\ RequestScan(t)
                   /\ UNCHANGED <<life, watch, pc, todo, cur, running>>

\* POST /targets/{id}/scan: no check that the target is (still) there.
ScanTarget(t) == /\ life # "down"
                 /\ watch[t] # "unused"
                 /\ RequestScan(t)
                 /\ UNCHANGED <<life, watch, pc, todo, cur, running, adding>>

\* POST /targets/{id}/delete, DELETE /api/v1/targets/{id}.
DeleteTarget(t) == /\ life # "down"
                   /\ t \in Watched
                   /\ watch' = [watch EXCEPT ![t] = "gone"]
                   /\ UNCHANGED <<life, procVars>>

-----------------------------------------------------------------------------
(* The scheduler goroutine. *)

\* Mutant: the interval test forgotten.
SweepAll == /\ pc \in {"startup", "select"}
            /\ todo' = Watched
            /\ pc' = "sweep"
            /\ UNCHANGED <<life, watch, manual, cur, running, adding>>
\* sweep's snapshot: ListTargets and now are read together, so the targets it
\* will scan are fixed here, however long the scans before them take.
Sweep == /\ pc \in {"startup", "select"}
         /\ todo' = Due
         /\ pc' = "sweep"
         /\ UNCHANGED <<life, watch, manual, cur, running, adding>>

SweepFails == /\ "list" \in Faults
              /\ pc \in {"startup", "select"}
              /\ pc' = "select"
              /\ UNCHANGED <<life, watch, manual, todo, cur, running, adding>>

\* scanOne, first half: an id that is marked running is skipped, any other is
\* marked, before anything is known of its target.
ScanOne(t) ==
  IF t \in running
  THEN pc' = "sweep" /\ UNCHANGED <<cur, running>>
  ELSE pc' = "get" /\ cur' = t /\ running' = running \cup {t}

SweepNext(t) == /\ pc = "sweep"
                /\ t \in todo
                /\ todo' = todo \ {t}
                /\ ScanOne(t)
                /\ UNCHANGED <<life, watch, manual, adding>>

\* Back to the select of Run.
SweepDone == /\ pc = "sweep"
             /\ todo = {}
             /\ pc' = "select"
             /\ UNCHANGED <<life, watch, manual, todo, cur, running, adding>>

\* Mutant: one request taken, the rest of the channel discarded.
TakeManualDrains == /\ pc = "select"
                    /\ manual # <<>>
                    /\ manual' = <<>>
                    /\ ScanOne(Head(manual))
                    /\ UNCHANGED <<life, watch, todo, adding>>
\* The manual case of the select.
TakeManual == /\ pc = "select"
              /\ manual # <<>>
              /\ manual' = Tail(manual)
              /\ ScanOne(Head(manual))
              /\ UNCHANGED <<life, watch, todo, adding>>

\* ctx.Done wins the select: no sweep and no manual request after that.
StopScheduler == /\ pc = "select"
                 /\ life = "stopping"
                 /\ pc' = "done"
                 /\ UNCHANGED <<life, watch, manual, todo, cur, running, adding>>

\* Mutant: the target taken from the snapshot or queue, not read again.
GetTargetUnchecked == /\ pc = "get"
                      /\ pc' = "scan"
                      /\ UNCHANGED <<life, watch, manual, todo, cur, running, adding>>
\* The target is read again: it may have been deleted since the snapshot was
\* taken or the request was queued.
GetTarget == /\ pc = "get"
             /\ cur \in Watched
             /\ pc' = "scan"
             /\ UNCHANGED <<life, watch, manual, todo, cur, running, adding>>

\* Mutant: the deferred delete forgotten.
ReturnKeepsMark == /\ cur' = NoTarget /\ pc' = "sweep" /\ UNCHANGED running
\* scanOne returns: the deferred function takes the id out of running.
Return == /\ running' = running \ {cur}
          /\ cur' = NoTarget
          /\ pc' = "sweep"

\* ... and is gone, or cannot be read: the early return, with the mark set.
GetFails == /\ pc = "get"
            /\ cur \notin Watched \/ "get" \in Faults
            /\ Return
            /\ UNCHANGED <<life, watch, manual, todo, adding>>

ExecuteScan == /\ pc = "scan"
               /\ pc' = "save"
               /\ UNCHANGED <<life, watch, manual, todo, cur, running, adding>>

SaveScan == /\ pc = "save"
            /\ pc' = "stamp"
            /\ UNCHANGED <<life, watch, manual, todo, cur, running, adding>>

\* A record that could not be written: no stamp, so the target stays due.
SaveFails == /\ "save" \in Faults
             /\ pc = "save"
             /\ Return
             /\ UNCHANGED <<life, watch, manual, todo, adding>>

\* Mutant: the target captured before the scan is written back.
StampAnyway == /\ pc = "stamp"
               /\ watch' = [watch EXCEPT ![cur] = "fresh"]
               /\ pc' = "alerts"
               /\ UNCHANGED <<life, manual, todo, cur, running, adding>>
\* UpdateTargetScan looks the id up again in the list it rewrites: a target
\* deleted during its scan stays deleted.
UpdateTargetScan ==
  /\ pc = "stamp"
  /\ watch' = IF cur \in Watched THEN [watch EXCEPT ![cur] = "fresh"] ELSE watch
  /\ pc' = "alerts"
  /\ UNCHANGED <<life, manual, todo, cur, running, adding>>

\* A watchlist that could not be written is only logged.
UpdateFails == /\ "update" \in Faults
               /\ pc = "stamp"
               /\ pc' = "alerts"
               /\ UNCHANGED <<life, watch, manual, todo, cur, running, adding>>

DispatchAlerts == /\ pc = "alerts"
                  /\ Return
                  /\ UNCHANGED <<life, watch, manual, todo, adding>>

-----------------------------------------------------------------------------
Goroutine == \/ Sweep \/ SweepFails \/ SweepDone \/ TakeManual \/ StopScheduler
             \/ \E t \in Targets : SweepNext(t)
             \/ GetTarget \/ GetFails \/ ExecuteScan \/ SaveScan \/ SaveFails
             \/ UpdateTargetScan \/ UpdateFails \/ DispatchAlerts

Handlers == \E t \in Targets : AddTarget(t) \/ RequestAdded(t) \/ ScanTarget(t)
                               \/ DeleteTarget(t)

Next == \/ Start \/ Signal \/ Exit \/ Crash
        \/ \E t \in Targets : Lapse(t)
        \/ Handlers
        \/ Goroutine

(* Fairness.  The goroutine runs whenever it can and every scan ends, for   *)
(* its HTTP clients have timeouts.  A Go select that finds several channels *)
(* ready picks one at random, so neither the ticker nor the manual channel  *)
(* loses for ever; and ListTargets does not fail for ever.  Nothing is      *)
(* assumed of the clients, of the intervals or of who starts the server.    *)
Fairness ==
  /\ WF_vars(SweepDone) /\ WF_vars(\E t \in Targets : SweepNext(t))
  /\ WF_vars(GetTarget \/ GetFails) /\ WF_vars(ExecuteScan)
  /\ WF_vars(SaveScan \/ SaveFails)
  /\ WF_vars(UpdateTargetScan \/ UpdateFails) /\ WF_vars(DispatchAlerts)
  /\ SF_vars(Sweep) /\ SF_vars(TakeManual)
  /\ \A t \in Targets : WF_vars(RequestAdded(t))

Spec     == Init /\ [][Next]_vars
FairSpec == Spec /\ Fairness

-----------------------------------------------------------------------------
(* Safety. *)

\* Between calls of scanOne no id is marked running, during one exactly its own
\* is: every return path of scanOne clears its mark, also those of a target that
\* is gone or cannot be read and those after a failed write.  A leftover mark
\* would make scanOne skip the target for the rest of the process's life
\* (Scheduler.scanOne, the deferred delete).
RunningIsCurrent == running = IF pc \in Marked THEN {cur} ELSE {}

\* The targets a sweep still has to scan were due when it took its snapshot and
\* have since at most been deleted, however many scans ago that was: nothing
\* but the goroutine itself stamps a target, and it takes no manual request
\* before its sweep is over, so no target of the list is scanned for nothing
\* (Scheduler.sweep, which tests the interval against a snapshot).
SweepListStillDue ==
  /\ \A t \in todo : watch[t] \in {"due", "gone"}
  /\ todo # {} => pc = "sweep" \/ pc \in Marked

\* A deleted target never comes back to the watchlist, whatever a scan that
\* was running when it was deleted writes (UpdateTargetScan against
\* DeleteTarget, both read-modify-write of watchlist.json).
NoResurrection ==
  [][\A t \in Targets : watch[t] = "gone" => watch'[t] = "gone"]_vars

\* The scheduler implements what the service promises: at most one scan at a
\* time, begun only for a target that is on the watchlist at that moment though
\* its id comes from a snapshot or a queue that may be hours old, and only a
\* recorded scan makes a target up to date.
Service == INSTANCE ScanService
             WITH watched <- Watched, due <- Due, active <- Active,
                  retired <- {t \in Targets : watch[t] = "gone"}
ImplementsService == Service!Spec

-----------------------------------------------------------------------------
(* Liveness, for a process that from some time on stays up. *)

StaysUp == <>[](life = "up")

\* From some time on GetTarget misses only targets that are gone.
ReadsWork == <>[][GetFails => cur \notin Watched]_vars

\* A due target is eventually scanned again, however many manual requests
\* compete with the sweep and whatever writes fail, unless it is deleted.
DueIsAttempted ==
  StaysUp /\ ReadsWork => \A t \in Targets : t \in Due ~> (t = Active \/ t \notin Due)

\* And once the store's writes work, it is eventually stamped, however often
\* they failed before (SaveScan, UpdateTargetScan).
WritesWork == <>[][~SaveFails /\ ~UpdateFails]_vars
DueIsStamped ==
  StaysUp /\ ReadsWork /\ WritesWork => \A t \in Targets : t \in Due ~> t \notin Due

\* A manual request the channel accepted is served: scanOne takes its target up
\* unless it is deleted or the process ends first; sweeps cannot starve the
\* channel and nothing else takes a request out of it.  (If scanOne then fails
\* to read the target, the request is gone.)
QueuedIsScanned ==
  \A t \in Targets :
     t \in Queued /\ t \in Watched ~> (t = cur \/ t \notin Watched \/ life # "up")
=============================================================================
