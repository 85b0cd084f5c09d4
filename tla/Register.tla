------------------------------- MODULE Register -------------------------------
(***************************************************************************)
(* What the Store promises of its files, with no mutex, no temporary file  *)
(* and no system call: a list in which one entry at a time is added,       *)
(* stamped or removed, and records that are saved once and stay.           *)
(***************************************************************************)
CONSTANTS Items,     \* the identifiers list entries can get
          Records    \* the identifiers records can get

VARIABLES list,      \* of each entry "absent", "plain" or "stamped"
          saved      \* the records on file

rvars == <<list, saved>>

Init == /\ list = [i \in Items |-> "absent"]
        /\ saved = {}

Enter(i) == list[i] = "absent" /\ list' = [list EXCEPT ![i] = "plain"]
Stamp(i) == list[i] # "absent" /\ list' = [list EXCEPT ![i] = "stamped"]
Erase(i) == list' = [list EXCEPT ![i] = "absent"]

Change == /\ \E i \in Items : Enter(i) \/ Stamp(i) \/ Erase(i)
          /\ UNCHANGED saved

Save == /\ \E r \in Records \ saved : saved' = saved \cup {r}
        /\ UNCHANGED list

Next == Change \/ Save

Spec == Init /\ [][Next]_rvars
=============================================================================
