----------------------------- MODULE ScanService -----------------------------
(***************************************************************************)
(* What the watchlist service promises, with no queue, no sweep, no store  *)
(* and no process life: a set of watched targets, those of them whose last *)
(* scan is too old, and at most one scan in flight.  A target is watched   *)
(* once (its id is 128 random bits, never drawn again), a scan begins only *)
(* for a target that is watched at that moment, and only recording a scan  *)
(* of a target makes the target up to date.                                *)
(***************************************************************************)
CONSTANTS Targets,   \* the identifiers targets can get
          NoTarget   \* "no scan in flight"

VARIABLES watched,   \* targets on the watchlist
          due,       \* watched targets whose last scan is missing or too old
          retired,   \* targets deleted from the watchlist
          active     \* the target being scanned, or NoTarget

svars == <<watched, due, retired, active>>

Init == /\ watched = {}
        /\ due = {}
        /\ retired = {}
        /\ active = NoTarget

\* A client adds a target; it may come with a stamp that is still recent.
Watch(t) == /\ t \notin watched \cup retired
            /\ watched' = watched \cup {t}
            /\ due' \in {due, due \cup {t}}
            /\ UNCHANGED <<retired, active>>

Unwatch(t) == /\ t \in watched
              /\ watched' = watched \ {t}
              /\ due' = due \ {t}
              /\ retired' = retired \cup {t}
              /\ UNCHANGED active

\* The scan interval of t elapses.
Lapse(t) == /\ t \in watched
            /\ due' = due \cup {t}
            /\ UNCHANGED <<watched, retired, active>>

Begin(t) == /\ active = NoTarget
            /\ t \in watched
            /\ active' = t
            /\ UNCHANGED <<watched, due, retired>>

\* The scan in flight is recorded: its target is up to date.
Record == /\ active # NoTarget
          /\ due' = due \ {active}
          /\ UNCHANGED <<watched, retired, active>>

\* The scan in flight ends, was abandoned, or died with the process.
End == /\ active # NoTarget
       /\ active' = NoTarget
       /\ UNCHANGED <<watched, due, retired>>

Next == \/ \E t \in Targets : Watch(t) \/ Unwatch(t) \/ Lapse(t) \/ Begin(t)
        \/ Record
        \/ End

Spec == Init /\ [][Next]_svars
=============================================================================
