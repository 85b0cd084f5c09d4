-------------------------------- MODULE Server --------------------------------
(***************************************************************************)
(* `fipscan server` with its data: the scheduler of module Scheduler, plus *)
(* the scan records and stamps it writes, the alert destinations, the      *)
(* fire-and-forget webhook posts and the audit log.  Every step of the     *)
(* scheduling half is a Scheduler step conjoined with what the same code   *)
(* does to the data, so Server implements Scheduler by construction and    *)
(* the properties here are about the data.                                 *)
(*                                                                         *)
(* A finding is a pair <<issue, place>>.  diffFindings compares rule,      *)
(* algorithm and FILE: the file of an image finding is the image           *)
(* reference, the same in every scan, but the file of a repo finding is a  *)
(* path under the fresh temporary directory of its scan, here the scan id. *)
(***************************************************************************)
EXTENDS Naturals, FiniteSets

CONSTANTS Targets, NoTarget, QueueCap, Faults, Stops,
          Images,        \* the targets of type "image"; the others are repos
          Issues,        \* what a scan can find, up to the place
          Severity,      \* of each issue: 3 HIGH, 2 MEDIUM, 1 LOW
          Dests,         \* the identifiers alert destinations can get
          MinSeverity,   \* of each destination, as a rank
          ScansMayFail,  \* whether executeScan can return an error
          ClientStamps,  \* scan ids a client may send as last_scan_id
          MaxScans       \* bound: scans that can be started

ASSUME SchedulerAssumption ==
  /\ NoTarget \notin Targets
  /\ QueueCap \in Nat \ {0}
  /\ Faults \subseteq {"list", "get", "save", "update", "alerts", "read", "audit"}
  /\ Stops \subseteq {"signal", "crash"}
ASSUME ImagesAssumption == Images \subseteq Targets
ASSUME SeverityAssumption == /\ Severity \in [Issues -> 1..3]
                             /\ MinSeverity \in [Dests -> 1..3]
ASSUME ScansMayFailAssumption == ScansMayFail \in BOOLEAN
ASSUME MaxScansAssumption == /\ MaxScans \in Nat
                             /\ ClientStamps \subseteq 1..MaxScans

VARIABLES life, watch, manual, pc, todo, cur, running, adding  \* of Scheduler
VARIABLES
  stamp,     \* last_scan_id of each target, or NoScan
  scans,     \* the files under scans/: a record per saved id, else NoRecord
  drawn,     \* scan ids drawn so far are 1..drawn, in the order of StartedAt
  rec,       \* the record scanOne is filling in
  prev,      \* scanOne's prevScanID
  dest,      \* alerts.json: per id "unused", "on" or "gone"
  posts,     \* webhook posts in flight, a goroutine each
  audit      \* the scan.started, scan.completed and scan.failed lines of the
             \* audit log
VARIABLES    \* history, read by properties only
  sent,      \* every post ever begun
  since,     \* how many scans were drawn when a destination was added
  cut,       \* the scans whose alerts were cut off: the process ended while they
             \* were dispatched or posted, or alerts.json could not be read
  stamped,   \* every scan id UpdateTargetScan ever wrote
  blind,     \* the scans whose previous record existed and could not be read
  lost       \* audit lines that were emitted and never written

schedVars == <<life, watch, manual, pc, todo, cur, running, adding>>
procData  == <<rec, prev, posts>>                          \* dies with the process
history   == <<sent, since, cut, stamped, blind, lost>>
vars == <<schedVars, stamp, scans, drawn, procData, dest, audit, history>>

Sched == INSTANCE Scheduler

NoScan == 0
ScanIds == 1..MaxScans
Findings == Issues \X (0..MaxScans)
Record == [target: Targets, failed: BOOLEAN, found: SUBSET Findings]
NoRecord == [target |-> NoTarget, failed |-> FALSE, found |-> {}]
Idle == [id |-> NoScan, failed |-> FALSE, found |-> {}]

Saved == {s \in ScanIds : scans[s] # NoRecord}
On    == {d \in Dests : dest[d] = "on"}
Emitted == audit \cup lost

ScanEvents == {"scan.started", "scan.completed", "scan.failed"}
Lines == ScanEvents \X ScanIds
Posts == [dest: Dests, scan: 0..MaxScans, kind: {"initial", "new"},
          found: SUBSET Findings]

TypeOK ==
  /\ Sched!TypeOK
  /\ stamp \in [Targets -> 0..MaxScans]
  /\ scans \in [ScanIds -> Record \cup {NoRecord}]
  /\ drawn \in 0..MaxScans
  /\ rec \in [id: 0..MaxScans, failed: BOOLEAN, found: SUBSET Findings]
  /\ prev \in 0..MaxScans
  /\ dest \in [Dests -> {"unused", "on", "gone"}]
  /\ posts \subseteq Posts /\ sent \subseteq Posts /\ cut \subseteq ScanIds
  /\ audit \subseteq Lines /\ lost \subseteq Lines /\ blind \subseteq ScanIds
  /\ stamped \subseteq ScanIds /\ since \in [Dests -> 0..MaxScans]

-----------------------------------------------------------------------------
(* The process and the environment. *)

Init == /\ Sched!Init
        /\ stamp = [t \in Targets |-> NoScan]
        /\ scans = [s \in ScanIds |-> NoRecord]
        /\ drawn = 0 /\ rec = Idle /\ prev = NoScan
        /\ dest = [d \in Dests |-> "unused"]
        /\ posts = {} /\ audit = {}
        /\ sent = {} /\ cut = {} /\ stamped = {} /\ since = [d \in Dests |-> 0]
        /\ blind = {} /\ lost = {}

data == <<stamp, scans, drawn, procData, dest, audit, history>>

Environment == /\ \/ Sched!Start \/ Sched!Signal
                  \/ \E t \in Targets : Sched!Lapse(t)
               /\ UNCHANGED data

\* Memory is gone, and with it the goroutines of the posts in flight: Run waits
\* for neither them nor the scheduler.
Die == /\ Sched!Exit \/ Sched!Crash
       /\ rec' = Idle /\ prev' = NoScan /\ posts' = {}
       /\ cut' = cut \cup {p.scan : p \in posts} \cup (IF pc = "alerts" THEN {rec.id} ELSE {})
       /\ UNCHANGED <<stamp, scans, drawn, dest, audit, sent, since, stamped, blind, lost>>

-----------------------------------------------------------------------------
(* The HTTP handlers.  (Their audit lines are left out.) *)

\* The API keeps a last_scan_id the client sent.  An id that names no scan reads
\* like none at all, so what matters is that it may name an earlier scan.
AddTarget(t) == /\ Sched!AddTarget(t)
                /\ \E s \in {NoScan} \cup (ClientStamps \cap 1..drawn) :
                     stamp' = [stamp EXCEPT ![t] = s]
                /\ UNCHANGED <<scans, drawn, procData, dest, audit, history>>

RequestAdded(t) == Sched!RequestAdded(t) /\ UNCHANGED data

ScanTarget(t) == Sched!ScanTarget(t) /\ UNCHANGED data

DeleteTarget(t) == Sched!DeleteTarget(t) /\ UNCHANGED data

AddAlert(d) == /\ life # "down" /\ dest[d] = "unused"
               /\ dest' = [dest EXCEPT ![d] = "on"]
               /\ since' = [since EXCEPT ![d] = drawn]
               /\ UNCHANGED <<schedVars, stamp, scans, drawn, procData, audit, sent, cut, stamped,
                              blind, lost>>

DeleteAlert(d) == /\ life # "down" /\ d \in On
                  /\ dest' = [dest EXCEPT ![d] = "gone"]
                  /\ UNCHANGED <<schedVars, stamp, scans, drawn, procData, audit, history>>

-----------------------------------------------------------------------------
(* scanOne. *)

\* Logger.Emit: one write per line, whose error is dropped.
Emit(event, id) == \/ audit' = audit \cup {<<event, id>>} /\ UNCHANGED lost
                   \/ /\ "audit" \in Faults
                      /\ lost' = lost \cup {<<event, id>>}
                      /\ UNCHANGED audit

\* The target is there: scanOne remembers its last_scan_id and draws a scan id.
BeginRecord == /\ Sched!GetTarget
               /\ drawn < MaxScans
               /\ drawn' = drawn + 1
               /\ rec' = [Idle EXCEPT !.id = drawn']
               /\ prev' = stamp[cur]
               /\ Emit("scan.started", drawn')
               /\ UNCHANGED <<stamp, scans, posts, dest, sent, since, cut, stamped, blind>>

Loop == /\ \/ Sched!Sweep \/ Sched!SweepFails \/ Sched!SweepDone
           \/ Sched!StopScheduler \/ Sched!TakeManual \/ Sched!GetFails
           \/ \E t \in Targets : Sched!SweepNext(t)
        /\ UNCHANGED data

\* Mutant: image findings placed under a per-scan directory too.
PlaceFresh(t, s) == s
\* The File of a finding: the image reference, or a path under the scan's own
\* temporary directory.
Place(t, s) == IF t \in Images THEN NoScan ELSE s

\* Mutant: the else of `if err != nil` forgotten.
ExecuteFailsTwice ==
  /\ ScansMayFail
  /\ rec' = [rec EXCEPT !.failed = TRUE]
  /\ audit' = audit \cup {<<"scan.failed", rec.id>>, <<"scan.completed", rec.id>>}
  /\ UNCHANGED lost
ExecuteFails == /\ ScansMayFail
                /\ rec' = [rec EXCEPT !.failed = TRUE]
                /\ Emit("scan.failed", rec.id)
ExecuteSucceeds ==
  \E found \in SUBSET Issues :
    /\ rec' = [rec EXCEPT !.found = found \X {Place(cur, rec.id)}]
    /\ Emit("scan.completed", rec.id)
ExecuteScan == /\ Sched!ExecuteScan
               /\ ExecuteFails \/ ExecuteSucceeds
               /\ UNCHANGED <<stamp, scans, drawn, prev, posts, dest, sent, since, cut,
                              stamped, blind>>

SaveScan ==
  /\ Sched!SaveScan
  /\ scans' = [scans EXCEPT ![rec.id] =
                 [target |-> cur, failed |-> rec.failed, found |-> rec.found]]
  /\ UNCHANGED <<stamp, drawn, procData, dest, audit, history>>

Forget == rec' = Idle /\ prev' = NoScan

\* Mutant: the error of SaveScan ignored.
SaveIgnored == "save" \in Faults /\ Sched!SaveScan /\ UNCHANGED data
SaveFails == /\ Sched!SaveFails
             /\ Forget
             /\ UNCHANGED <<stamp, scans, drawn, posts, dest, audit, history>>

UpdateTargetScan ==
  /\ Sched!UpdateTargetScan
  /\ IF cur \in Sched!Watched
     THEN /\ stamp' = [stamp EXCEPT ![cur] = rec.id]
          /\ stamped' = stamped \cup {rec.id}
     ELSE UNCHANGED <<stamp, stamped>>
  /\ UNCHANGED <<scans, drawn, procData, dest, audit, sent, since, cut, blind, lost>>

UpdateFails == Sched!UpdateFails /\ UNCHANGED data

-----------------------------------------------------------------------------
(* dispatchAlerts and postAlert. *)

\* filterBySeverity.
Filtered(found, d) == {f \in found : Severity[f[1]] >= MinSeverity[d]}

\* Whether there is a record of prevScanID.
HasPrev == prev \in Saved
\* Mutant: the arguments of diffFindings swapped.
NewOnesSwapped(diff) == IF diff THEN scans[prev].found \ rec.found ELSE rec.found
\* Mutant: last_scan_id read after UpdateTargetScan has overwritten it.
NewOnesLate(diff) == IF stamp[cur] \in Saved THEN rec.found \ scans[stamp[cur]].found
                                              ELSE rec.found
\* The diff with that record, or everything.
NewOnes(diff) == IF diff THEN rec.found \ scans[prev].found ELSE rec.found
Kind(diff)    == IF diff THEN "new" ELSE "initial"

Alerts(diff) ==
  IF rec.failed THEN {}
  ELSE {[dest |-> d, scan |-> rec.id, kind |-> Kind(diff), found |-> Filtered(NewOnes(diff), d)] :
          d \in {e \in On : Filtered(NewOnes(diff), e) # {}}}

Post(diff) == posts' = posts \cup Alerts(diff) /\ sent' = sent \cup Alerts(diff)

\* The error of GetScan is dropped: a record that cannot be read or decoded
\* counts as none.
DispatchAlerts == /\ Sched!DispatchAlerts
                  /\ \/ Post(HasPrev) /\ UNCHANGED <<cut, blind>>
                     \/ /\ "read" \in Faults /\ HasPrev
                        /\ Post(FALSE)
                        /\ blind' = blind \cup {rec.id}
                        /\ UNCHANGED cut
                     \/ /\ "alerts" \in Faults
                        /\ cut' = cut \cup {rec.id}
                        /\ UNCHANGED <<posts, sent, blind>>
                  /\ Forget
                  /\ UNCHANGED <<stamp, scans, drawn, dest, audit, since, stamped, lost>>

\* The one attempt a post gets ends within its 5s: delivered, or failed.
PostEnds == \E p \in posts :
              /\ posts' = posts \ {p}
              /\ UNCHANGED <<schedVars, stamp, scans, drawn, rec, prev, dest, audit,
                             history>>

-----------------------------------------------------------------------------
Handlers == \/ \E t \in Targets : AddTarget(t) \/ RequestAdded(t) \/ ScanTarget(t)
                                  \/ DeleteTarget(t)
            \/ \E d \in Dests : AddAlert(d) \/ DeleteAlert(d)

Goroutine == \/ BeginRecord \/ Loop \/ ExecuteScan \/ SaveScan \/ SaveFails
             \/ UpdateTargetScan \/ UpdateFails \/ DispatchAlerts

Next == Environment \/ Die \/ Handlers \/ Goroutine \/ PostEnds

Spec == Init /\ [][Next]_vars

-----------------------------------------------------------------------------
(* What the dashboard and the diff rely on. *)

\* A target's last_scan_id names a saved record of that same target: the
\* record is on disk before the watchlist points at it, at every crash point
\* (the order of SaveScan and UpdateTargetScan in scanOne).  Only an id a
\* client sent with a new target can dangle.
StampIsSaved == \A t \in Targets : stamp[t] # NoScan /\ stamp[t] \notin ClientStamps
                   => stamp[t] \in Saved /\ scans[stamp[t]].target = t

\* The audit log agrees with the records: of a saved record it has the line of
\* its start and of the end it had, and of no other end.  A line that is not there
\* is one whose write failed, never one that was not emitted.
AuditMatchesRecord ==
  \A s \in Saved : /\ <<"scan.started", s>> \in Emitted
                   /\ <<"scan.failed", s>> \in Emitted <=> scans[s].failed
                   /\ <<"scan.completed", s>> \in Emitted <=> ~scans[s].failed

(* What the alerts promise. *)

LastStampedBefore(s) ==
  {r \in stamped : /\ r < s
                   /\ scans[r].target = scans[s].target
                   /\ \A q \in stamped : q < s /\ scans[q].target = scans[s].target => q <= r}

\* An alert reports findings of its own saved scan, none of them in the last
\* scan the target was stamped with before, and calls itself initial exactly
\* when there was none.  (A client's last_scan_id makes the first one a diff.)
\* Only a scan that could not read that record back posts them all again, and
\* then as initial.
AlertsAreDiffs ==
  \A p \in sent :
    LET before == LastStampedBefore(p.scan) IN
    /\ p.scan \in Saved /\ p.found # {} /\ p.found \subseteq scans[p.scan].found
    /\ p.kind = "new" => \A r \in before : p.found \cap scans[r].found = {}
    /\ p.kind = "initial" => before = {} \/ p.scan \in blind
    /\ before = {} /\ ClientStamps = {} => p.kind = "initial"

\* Alerts fire only on new findings: a destination hears twice of an issue of
\* a target only if a successful scan in between did not have it any more.
Reports(p, t, i) == scans[p.scan].target = t /\ \E f \in p.found : f[1] = i
Gone(t, i, a, b) == \E r \in Saved : /\ a < r /\ r < b
                                     /\ scans[r].target = t /\ ~scans[r].failed
                                     /\ \A f \in scans[r].found : f[1] # i
NoSpam ==
  \A p, q \in sent : p.dest = q.dest /\ p.scan < q.scan =>
    \A t \in Targets, i \in Issues :
      Reports(p, t, i) /\ Reports(q, t, i) => Gone(t, i, p.scan, q.scan)

\* Destination d has heard nothing of f, which target t had at scan s, and nothing
\* excuses that: no scan from before it was configured had it, none of those that
\* had it had its alerts cut off, and no client named a scan that had it.
Missing(t, d, s, f) ==
  /\ \A p \in sent : p.dest = d /\ p.scan <= s /\ scans[p.scan].target = t => f \notin p.found
  /\ \A r \in Saved : r <= s /\ scans[r].target = t /\ f \in scans[r].found
                      => since[d] < r /\ r \notin cut
  /\ \A r \in Saved \cap ClientStamps : f \notin scans[r].found

\* No finding is missed: what the last scan of a target found, at or above the
\* threshold of a destination, that destination was posted at this scan or an
\* earlier one, unless one of the excuses above holds.  The chain of diffs has no
\* gap, whatever scan fails and whichever record or stamp is not written
\* (prevScanID in scanOne, dispatchAlerts).
NoMissedAlert ==
  \A t \in Targets, d \in On :
    stamp[t] \in Saved /\ (rec.id = stamp[t] => pc # "alerts") =>
      \A f \in Filtered(scans[stamp[t]].found, d) : ~Missing(t, d, stamp[t], f)
=============================================================================
