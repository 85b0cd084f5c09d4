------------------------------ MODULE ScanPromise ------------------------------
(***************************************************************************)
(* What executeScan promises its caller: it ends with an error, or with    *)
(* the whole report of one version of the thing it scans, a version that   *)
(* was the current one at some time during the scan.  Never part of a      *)
(* report, never parts of two.                                             *)
(***************************************************************************)
CONSTANTS Things,    \* what can be scanned
          Versions,  \* the versions of all of them
          Reports,   \* of each version: the reports that are right, none for one
                     \* that cannot be scanned
          Nothing, NoReport

VARIABLES tip,     \* the current version of each thing
          scanned, \* the thing being scanned, or Nothing
          shown,   \* its versions since the scan began
          answer   \* the last report, or NoReport

vars == <<tip, scanned, shown, answer>>

Init == /\ tip \in [Things -> Versions]
        /\ scanned = Nothing /\ shown = {} /\ answer = NoReport

\* Someone pushes; two things may have the new version in common.
Move == /\ tip' \in [Things -> Versions]
        /\ shown' = IF scanned = Nothing THEN {} ELSE shown \cup {tip'[scanned]}
        /\ UNCHANGED <<scanned, answer>>

Begin == /\ scanned = Nothing
         /\ scanned' \in Things
         /\ shown' = {tip[scanned']}
         /\ answer' = NoReport
         /\ UNCHANGED tip

\* The caller takes the answer.
Take == /\ scanned = Nothing
        /\ answer' = NoReport
        /\ UNCHANGED <<tip, scanned, shown>>

Ends == scanned # Nothing /\ scanned' = Nothing /\ shown' = {} /\ UNCHANGED tip

Succeed == Ends /\ \E v \in shown : answer' \in Reports[v]
Fail    == Ends /\ answer' = NoReport

Next == Move \/ Begin \/ Take \/ Succeed \/ Fail
Spec == Init /\ [][Next]_vars
=============================================================================
