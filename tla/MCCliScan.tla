------------------------------ MODULE MCCliScan ------------------------------
(* Module CliScan, ready for TLC. *)
EXTENDS CliScan

Code(l) == [rule |-> "HASH", file |-> "a.py", name |-> "MD5", version |-> "",
            line |-> l, severity |-> 3, dep |-> FALSE]
Dep(f)  == [rule |-> "DEP", file |-> f, name |-> "bcrypt", version |-> "4.0.1",
            line |-> 2, severity |-> 2, dep |-> TRUE]

\* Two calls in one file, and a package in a lockfile and a lesser manifest.
MCWalk == <<Code(2), Code(4), Dep("poetry.lock"), Dep("requirements.txt")>>

MCPriority == [f \in {"a.py", "poetry.lock", "requirements.txt"} |->
                 CASE f = "poetry.lock" -> 40 [] f = "requirements.txt" -> 10 [] OTHER -> 0]

\* A comment above the package in the lockfile.
MCWaivers == {[file |-> "poetry.lock", line |-> 1, rule |-> "DEP"]}
=============================================================================
