------------------------------- MODULE Versions -------------------------------
(***************************************************************************)
(* How the dependency scanner compares versions and evaluates the version  *)
(* constraints of its catalog, how the OSV importer folds an advisory's    *)
(* range into such a constraint, and, as the reference, what the range     *)
(* means.  No state: every definition is an operator.                      *)
(*                                                                         *)
(* A version as it is written is a record: the numbers between its dots,   *)
(* and what follows them: tag -1 a pre-release ("-rc.1"), 1 a release of a *)
(* distribution ("-r1", "-11.el9"), 0 nothing.                             *)
(***************************************************************************)
EXTENDS Integers, Sequences

Written == [parts : Seq(Nat), tag : -1..1]

\* Components that are not written are zero, on both sides of a comparison.
Part(w, i) == IF i <= Len(w.parts) THEN w.parts[i] ELSE 0

-----------------------------------------------------------------------------
(* The scanner's versions: major, minor and patch, the rest truncated. *)

ParseVersion(w) == <<Part(w, 1), Part(w, 2), Part(w, 3)>>

Less(a, b) == \/ a[1] < b[1]
              \/ a[1] = b[1] /\ a[2] < b[2]
              \/ a[1] = b[1] /\ a[2] = b[2] /\ a[3] < b[3]

Compare(a, b) == IF Less(a, b) THEN -1 ELSE IF Less(b, a) THEN 1 ELSE 0

\* A clause is an operator and a version.
Matches(c, v) ==
  LET cmp == Compare(v, c.ver) IN
  \/ c.op = "<"  /\ cmp < 0
  \/ c.op = "<=" /\ cmp <= 0
  \/ c.op = ">"  /\ cmp > 0
  \/ c.op = ">=" /\ cmp >= 0
  \/ c.op = "==" /\ cmp = 0
  \/ c.op = "!=" /\ cmp # 0

MatchAll(cs, v) == \A c \in cs : Matches(c, v)

-----------------------------------------------------------------------------
(* The importer's constraints.  The events of a range are a set: a clause   *)
(* is written for each, and a constraint is the conjunction of its clauses. *)

Event == [kind : {"introduced", "fixed", "last_affected"}, at : Written]

\* "introduced": "0", the beginning of time.
Zero == [parts |-> <<0>>, tag |-> 0]

Bounding(e) == e.kind # "introduced" \/ e.at # Zero

\* Mutant: the fixed version itself taken for an affected one.
OpFixedIncluded(e) == IF e.kind = "introduced" THEN ">=" ELSE "<="
Op(e) == CASE e.kind = "fixed"         -> "<"
           [] e.kind = "last_affected" -> "<="
           [] e.kind = "introduced"    -> ">="

\* The clause as the catalog's init parses it back.
Clause(e) == [op |-> Op(e), ver |-> ParseVersion(e.at)]

Clauses(events) == {Clause(e) : e \in {f \in events : Bounding(f)}}

-----------------------------------------------------------------------------
(* What they should agree with: the order of the versions as written, and   *)
(* the meaning of an event list in the OSV schema.                          *)

SameParts(a, b) == \A i \in 1..Len(a.parts) \cup 1..Len(b.parts) : Part(a, i) = Part(b, i)

Before(a, b) ==
  \/ \E i \in 1..Len(a.parts) \cup 1..Len(b.parts) :
       /\ Part(a, i) < Part(b, i)
       /\ \A j \in 1..(i - 1) : Part(a, j) = Part(b, j)
  \/ SameParts(a, b) /\ a.tag < b.tag

NotAfter(a, b) == ~Before(b, a)

\* An event is reached by v when it is not after it; "0" precedes everything.
Reached(e, v) == e = [kind |-> "introduced", at |-> Zero] \/ NotAfter(e.at, v)

\* v is affected when some event introduced the flaw at or before v, and no
\* event between the two ended it.
AffectedBy(events, v) ==
  \E i \in events :
    /\ i.kind = "introduced" /\ Reached(i, v)
    /\ \A e \in events :
         Reached(i, e.at) => /\ e.kind = "fixed" => Before(v, e.at)
                             /\ e.kind = "last_affected" => NotAfter(v, e.at)

\* What the three components keep of a version is all there is of it.
Plain(w) == Len(w.parts) <= 3 /\ w.tag = 0

\* Truncation does not matter between v and the version of e: nothing was
\* truncated, or the three components that remain differ.
Decided(e, v) == \/ Plain(v) /\ Plain(e.at)
                 \/ ParseVersion(v) # ParseVersion(e.at)

\* One interval: one event introduces the flaw, the others are not before it.
OneInterval(events) ==
  \E i \in events :
    /\ i.kind = "introduced"
    /\ \A e \in events \ {i} : e.kind # "introduced" /\ Reached(i, e.at)
=============================================================================
