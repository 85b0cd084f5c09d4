----------------------------- MODULE MCStoreFiles -----------------------------
(* Module StoreFiles, ready for TLC. *)
EXTENDS StoreFiles, TLC

\* Nothing tells two goroutines, entries, records or inodes apart.
Symmetry == Permutations(Procs) \cup Permutations(Items) \cup Permutations(Inodes)
=============================================================================
