------------------------------- MODULE MCServer -------------------------------
(* Module Server, ready for TLC. *)
EXTENDS Server, TLC

CONSTANTS hi, lo, d1, d2

\* One HIGH and one LOW issue; d1 wants HIGH only, d2 everything.
MCSeverity    == [i \in Issues |-> IF i = hi THEN 3 ELSE 1]
MCMinSeverity == [d \in Dests |-> IF d = d1 THEN 3 ELSE 1]

\* The targets may be exchanged where all are of one type.
TargetSymmetry == Permutations(Targets)
=============================================================================
