-------------------------- MODULE OsvCatalog_proofs --------------------------
(***************************************************************************)
(* Theorems about modules Versions and OsvCatalog.  For every version and  *)
(* every range: what the constraints the importer writes say of a version, *)
(* the scanner's comparison of three components and the clauses folded     *)
(* from an event list, against the order of the versions as written and    *)
(* the meaning of the list.  For every allowlist, feed and sequence of     *)
(* imports: the catalog holds what the dumps warrant and misses nothing    *)
(* they have, and what the scanner looks up in it agrees with them.        *)
(***************************************************************************)
EXTENDS OsvCatalog, Recursion, FiniteSetTheorems

LEMMA PartIsNat ==
  ASSUME NEW w \in Written, NEW i \in Nat \ {0}
  PROVE  /\ Part(w, i) \in Nat
         /\ i > Len(w.parts) => Part(w, i) = 0
BY DEF Part, Written

LEMMA ParsedParts ==
  ASSUME NEW w \in Written
  PROVE  /\ ParseVersion(w)[1] = Part(w, 1) /\ Part(w, 1) \in Nat
         /\ ParseVersion(w)[2] = Part(w, 2) /\ Part(w, 2) \in Nat
         /\ ParseVersion(w)[3] = Part(w, 3) /\ Part(w, 3) \in Nat
BY PartIsNat DEF ParseVersion

\* A smaller triple is an earlier version, whatever was truncated.
LEMMA LessIsBefore ==
  ASSUME NEW v \in Written, NEW w \in Written, Less(ParseVersion(v), ParseVersion(w))
  PROVE  Before(v, w)
<1>1. PICK i \in 1..3 : /\ Part(v, i) < Part(w, i)
                        /\ \A j \in 1..(i - 1) : Part(v, j) = Part(w, j)
  <2>1. CASE Part(v, 1) < Part(w, 1)
    BY <2>1
  <2>2. CASE Part(v, 1) = Part(w, 1) /\ Part(v, 2) < Part(w, 2)
    BY <2>2, \A j \in 1..(2 - 1) : j = 1
  <2>3. CASE Part(v, 1) = Part(w, 1) /\ Part(v, 2) = Part(w, 2) /\ Part(v, 3) < Part(w, 3)
    BY <2>3, \A j \in 1..(3 - 1) : j = 1 \/ j = 2
  <2>4. QED
    BY <2>1, <2>2, <2>3, ParsedParts DEF Less
<1>2. i \in 1..Len(w.parts)
  <2>1. Len(w.parts) \in Nat
    BY DEF Written
  <2>2. QED
    BY <1>1, <2>1, PartIsNat
<1>3. QED
  BY <1>1, <1>2 DEF Before

\* Where truncation does not matter, the triples are ordered as the versions are.
LEMMA DecidedOrder ==
  ASSUME NEW v \in Written, NEW w \in Written,
         \/ Plain(v) /\ Plain(w)
         \/ ParseVersion(v) # ParseVersion(w)
  PROVE  Before(v, w) <=> Less(ParseVersion(v), ParseVersion(w))
<1> DEFINE Same == /\ Part(v, 1) = Part(w, 1)
                   /\ Part(v, 2) = Part(w, 2)
                   /\ Part(v, 3) = Part(w, 3)
<1>0. Len(v.parts) \in Nat /\ Len(w.parts) \in Nat
  BY DEF Written
<1>1. Same => Plain(v) /\ Plain(w)
  BY DEF ParseVersion
<1>2. ASSUME NEW i \in 1..Len(v.parts) \cup 1..Len(w.parts),
             Part(v, i) < Part(w, i), \A j \in 1..(i - 1) : Part(v, j) = Part(w, j)
      PROVE  Less(ParseVersion(v), ParseVersion(w))
  <2>0. i \in Nat \ {0}
    BY <1>0
  <2>1. CASE i > 3
    <3>1. 1 \in 1..(i - 1) /\ 2 \in 1..(i - 1) /\ 3 \in 1..(i - 1)
      BY <2>0, <2>1
    <3>2. Plain(v) /\ Plain(w)
      BY <1>1, <1>2, <3>1
    <3>3. i > Len(v.parts) /\ i > Len(w.parts)
      BY <1>0, <2>0, <2>1, <3>2 DEF Plain
    <3>4. QED
      BY <1>2, <2>0, <3>3, PartIsNat
  <2>2. CASE i = 1
    BY <1>2, <2>2, ParsedParts DEF Less
  <2>3. CASE i = 2
    <3>1. Part(v, 1) = Part(w, 1)
      BY <1>2, <2>3
    <3>2. QED
      BY <1>2, <2>3, <3>1, ParsedParts DEF Less
  <2>4. CASE i = 3
    <3>1. Part(v, 1) = Part(w, 1) /\ Part(v, 2) = Part(w, 2)
      BY <1>2, <2>4
    <3>2. QED
      BY <1>2, <2>4, <3>1, ParsedParts DEF Less
  <2>5. QED
    BY <2>0, <2>1, <2>2, <2>3, <2>4
<1>3. ~(SameParts(v, w) /\ v.tag < w.tag)
  <2> SUFFICES ASSUME SameParts(v, w), v.tag < w.tag PROVE FALSE
    OBVIOUS
  <2>1. ASSUME NEW i \in 1..3 PROVE Part(v, i) = Part(w, i)
    <3>1. CASE i \in 1..Len(v.parts) \cup 1..Len(w.parts)
      BY <3>1 DEF SameParts
    <3>2. CASE i > Len(v.parts) /\ i > Len(w.parts)
      BY <3>2, PartIsNat
    <3>3. QED
      BY <1>0, <3>1, <3>2
  <2>2. Same
    BY <2>1
  <2>3. QED
    BY <1>1, <2>2 DEF Plain
<1>4. Before(v, w) => Less(ParseVersion(v), ParseVersion(w))
  BY <1>2, <1>3 DEF Before
<1>5. QED
  BY <1>4, LessIsBefore

LEMMA LessIsAsymmetric ==
  ASSUME NEW v \in Written, NEW w \in Written
  PROVE  ~(Less(ParseVersion(v), ParseVersion(w)) /\ Less(ParseVersion(w), ParseVersion(v)))
BY ParsedParts DEF Less

-----------------------------------------------------------------------------
(* One clause. *)

Admits(e, v) == /\ e.kind = "introduced" => NotAfter(e.at, v)
                /\ e.kind = "fixed" => Before(v, e.at)
                /\ e.kind = "last_affected" => NotAfter(v, e.at)

\* A clause holds of a version exactly when its event admits it: the operator
\* rangesToConstraint writes, read back by ParseConstraints and evaluated by
\* Matches, means what the event means.
THEOREM ClauseIsExact ==
  ASSUME NEW e \in Event, NEW v \in Written, Decided(e, v)
  PROVE  Matches(Clause(e), ParseVersion(v)) <=> Admits(e, v)
<1> DEFINE p == ParseVersion(v)
           q == ParseVersion(e.at)
<1>1. e.at \in Written /\ e.kind \in {"introduced", "fixed", "last_affected"}
  BY DEF Event
<1>2. Before(v, e.at) <=> Less(p, q)
  BY <1>1, DecidedOrder DEF Decided
<1>3. Before(e.at, v) <=> Less(q, p)
  BY <1>1, DecidedOrder DEF Decided
<1>4. ~(Less(p, q) /\ Less(q, p))
  BY <1>1, LessIsAsymmetric
<1>5. /\ Compare(p, q) < 0 <=> Less(p, q)
      /\ Compare(p, q) <= 0 <=> ~Less(q, p)
      /\ Compare(p, q) >= 0 <=> ~Less(p, q)
  BY <1>4 DEF Compare
<1> HIDE DEF p, q
<1>6. Clause(e) = [op |-> Op(e), ver |-> q]
  BY DEF Clause, q
<1>7. CASE e.kind = "introduced"
  <2>1. Op(e) = ">="
    BY <1>7 DEF Op
  <2>2. Matches(Clause(e), p) <=> Compare(p, q) >= 0
    BY <1>6, <2>1 DEF Matches
  <2>3. QED
    BY <1>2, <1>5, <1>7, <2>2 DEF Admits, NotAfter, p
<1>8. CASE e.kind = "fixed"
  <2>1. Op(e) = "<"
    BY <1>8 DEF Op
  <2>2. Matches(Clause(e), p) <=> Compare(p, q) < 0
    BY <1>6, <2>1 DEF Matches
  <2>3. QED
    BY <1>2, <1>5, <1>8, <2>2 DEF Admits, p
<1>9. CASE e.kind = "last_affected"
  <2>1. Op(e) = "<="
    BY <1>9 DEF Op
  <2>2. Matches(Clause(e), p) <=> Compare(p, q) <= 0
    BY <1>6, <2>1 DEF Matches
  <2>3. QED
    BY <1>3, <1>5, <1>9, <2>2 DEF Admits, NotAfter, p
<1>10. QED
  BY <1>1, <1>7, <1>8, <1>9

-----------------------------------------------------------------------------
(* One range. *)

LEMMA MatchedIsAdmitted ==
  ASSUME NEW events \in SUBSET Event, NEW v \in Written,
         \A e \in events : Bounding(e) => Decided(e, v)
  PROVE  MatchAll(Clauses(events), ParseVersion(v))
           <=> \A e \in events : Bounding(e) => Admits(e, v)
BY ClauseIsExact DEF MatchAll, Clauses

\* No false alarm: a constraint the importer writes matches no version outside the
\* range it was folded from, off the truncated bounds.  It holds of every event
\* list with an "introduced", those of several intervals too, whose conjunction
\* can only be too narrow.
THEOREM ClausesAreSound ==
  ASSUME NEW events \in SUBSET Event, NEW v \in Written,
         \E i \in events : i.kind = "introduced",
         \A e \in events : Bounding(e) => Decided(e, v),
         MatchAll(Clauses(events), ParseVersion(v))
  PROVE  AffectedBy(events, v)
<1>1. PICK i \in events : i.kind = "introduced"
  OBVIOUS
<1>2. \A e \in events : Bounding(e) => Admits(e, v)
  BY MatchedIsAdmitted
<1>3. Reached(i, v)
  <2>1. CASE Bounding(i)
    BY <1>1, <1>2, <2>1 DEF Admits, Reached
  <2>2. CASE ~Bounding(i)
    <3>1. i = [kind |-> "introduced", at |-> Zero]
      BY <1>1, <2>2 DEF Bounding, Event
    <3>2. QED
      BY <3>1 DEF Reached
  <2>3. QED
    BY <2>1, <2>2
<1>4. ASSUME NEW e \in events
      PROVE  /\ e.kind = "fixed" => Before(v, e.at)
             /\ e.kind = "last_affected" => NotAfter(v, e.at)
  BY <1>2 DEF Admits, Bounding
<1>5. QED
  BY <1>1, <1>3, <1>4 DEF AffectedBy

\* No miss: a range of one interval is folded into a constraint that matches every
\* version in it, off the truncated bounds.
THEOREM ClausesAreComplete ==
  ASSUME NEW events \in SUBSET Event, NEW v \in Written,
         OneInterval(events),
         \A e \in events : Bounding(e) => Decided(e, v),
         AffectedBy(events, v)
  PROVE  MatchAll(Clauses(events), ParseVersion(v))
<1>1. PICK i \in events : /\ i.kind = "introduced"
                          /\ \A e \in events \ {i} : e.kind # "introduced" /\ Reached(i, e.at)
  BY DEF OneInterval
<1>2. /\ Reached(i, v)
      /\ \A e \in events : Reached(i, e.at) => /\ e.kind = "fixed" => Before(v, e.at)
                                               /\ e.kind = "last_affected" => NotAfter(v, e.at)
  BY <1>1 DEF AffectedBy
<1>3. ASSUME NEW e \in events, Bounding(e) PROVE Admits(e, v)
  <2>1. CASE e = i
    <3>1. e.at # Zero
      BY <1>1, <1>3, <2>1 DEF Bounding
    <3>2. NotAfter(e.at, v)
      BY <1>2, <2>1, <3>1 DEF Reached
    <3>3. QED
      BY <1>1, <2>1, <3>2 DEF Admits
  <2>2. CASE e # i
    BY <1>1, <1>2, <2>2 DEF Admits
  <2>3. QED
    BY <2>1, <2>2
<1>4. QED
  BY <1>3, MatchedIsAdmitted

-----------------------------------------------------------------------------
(* One advisory. *)

\* The range a constraint is folded from is one that has clauses.
LEMMA SelectedRange ==
  ASSUME NEW ranges \in Seq(OsvRange), RangesToConstraint(ranges) # {}
  PROVE  LET i == SelectInSeq(ranges, Encodable) IN
         /\ i \in DOMAIN ranges
         /\ RangesToConstraint(ranges) = Clauses(ranges[i].events)
<1> DEFINE T == {i \in 1..Len(ranges) : Encodable(ranges[i])}
           k == SelectInSeq(ranges, Encodable)
<1>1. k = IF T # {} THEN Min(T) ELSE 0
  BY DEF SelectInSeq
<1>2. k # 0
  BY DEF RangesToConstraint
<1>3. T # {} /\ T \subseteq Nat
  BY <1>1, <1>2
<1>4. \E x \in T : \A y \in T : x <= y
  <2> HIDE DEF T
  <2> QED BY <1>3, LeastExists
<1>5. k \in T
  <2> HIDE DEF T
  <2> QED BY <1>1, <1>3, <1>4 DEF Min
<1> QED
  BY <1>2, <1>5 DEF RangesToConstraint

\* The ids the scanner has are not those of other ecosystems of OSV.
LEMMA OnlyItsOwn ==
  ASSUME NEW e \in Ecosystems, NEW f \in Ecosystems, Lower[e] = Ours[f]
  PROVE  e = f
BY DEF Ecosystems, Lower, Ours

\* A package found in the allowlist is listed, and a listed one is found when its
\* ecosystem has one name.
LEMMA KnownIsListed ==
  ASSUME NEW pkg \in Affected, pkg.eco \in Ecosystems
  PROVE  /\ Known(pkg) => <<pkg.eco, pkg.name>> \in Listed
         /\ <<pkg.eco, pkg.name>> \in Listed /\ Lower[pkg.eco] = Ours[pkg.eco] => Known(pkg)
<1>1. ASSUME Known(pkg) PROVE <<pkg.eco, pkg.name>> \in Listed
  <2>1. PICK p \in Listed : <<Lower[pkg.eco], pkg.name>> = <<Ours[p[1]], p[2]>>
    BY <1>1 DEF Known, KnownCryptoPackages
  <2>2. p \in Ecosystems \X STRING
    BY ListedAssumption
  <2>3. p[1] = pkg.eco /\ p[2] = pkg.name
    BY <2>1, <2>2, OnlyItsOwn
  <2> QED BY <2>2, <2>3
<1>2. ASSUME <<pkg.eco, pkg.name>> \in Listed, Lower[pkg.eco] = Ours[pkg.eco] PROVE Known(pkg)
  BY <1>2 DEF Known, KnownCryptoPackages
<1> QED
  BY <1>1, <1>2

LEMMA AppendedToSet ==
  ASSUME NEW S, NEW s \in Seq(S), NEW x \in S
  PROVE  ToSet(Append(s, x)) = ToSet(s) \cup {x}
<1> DEFINE t == Append(s, x)
<1>1. /\ DOMAIN s = 1..Len(s) /\ Len(s) \in Nat
      /\ DOMAIN t = 1..(Len(s) + 1) /\ t[Len(s) + 1] = x
      /\ \A i \in 1..Len(s) : t[i] = s[i]
  OBVIOUS
<1> HIDE DEF t
<1>2. \A i \in DOMAIN t : i \in 1..Len(s) \/ i = Len(s) + 1
  BY <1>1
<1>3. \A i \in 1..(Len(s) + 1) : t[i] \in ToSet(s) \cup {x}
  BY <1>1, <1>2 DEF ToSet
<1>4. \A i \in 1..Len(s) : i \in 1..(Len(s) + 1)
  BY <1>1
<1>5. Len(s) + 1 \in 1..(Len(s) + 1)
  BY <1>1
<1> QED
  BY <1>1, <1>3, <1>4, <1>5 DEF ToSet, t

\* The rows of an advisory are those of the packages that are kept, in a list
\* (ToEntries' loop).
LEMMA EntriesOfKept ==
  ASSUME NEW a, NEW v, NEW P, v.affected \in Seq(P)
  PROVE  LET rows == {Row(a, pkg) : pkg \in {q \in ToSet(v.affected) : Keep(q)}} IN
         ToEntries(a, v) \in Seq(rows) /\ ToSet(ToEntries(a, v)) = rows
<1> DEFINE N == Len(v.affected)
           R == {Row(a, pkg) : pkg \in {q \in ToSet(v.affected) : Keep(q)}}
           One(i, out) == IF Keep(v.affected[i]) THEN Append(out, Row(a, v.affected[i])) ELSE out
           step == [x \in (1..N) \X Seq(R) |-> One(x[1], x[2])]
           Loop(g) == [i \in 0..N |-> IF i = 0 THEN <<>> ELSE One(i, g[i - 1])]
           out == CHOOSE g : g = Loop(g)
<1>1. /\ N \in Nat /\ DOMAIN v.affected = 1..N /\ <<>> \in Seq(R)
      /\ \A i \in 1..N : Keep(v.affected[i]) => Row(a, v.affected[i]) \in R
  BY DEF ToSet
<1>2. \A i \in 1..N, s \in Seq(R) : One(i, s) \in Seq(R)
  <2> HIDE DEF R, N
  <2> QED BY <1>1
<1>3. out = Loop(out)
  <2>1. step \in [(1..N) \X Seq(R) -> Seq(R)]
    BY <1>2
  <2>2. \A i \in 1..N, s \in Seq(R) : step[<<i, s>>] = One(i, s)
    OBVIOUS
  <2> HIDE DEF step, One, R
  <2>3. PICK g : IsLoop(g, N, Seq(R), <<>>, step)
    <3> HIDE DEF N
    <3> QED BY <1>1, <2>1, LoopExists
  <2>4. g = Loop(g)
    <3>1. \A i \in 0..N : i # 0 => i \in 1..N /\ i - 1 \in 0..N /\ g[i - 1] \in Seq(R)
      <4> HIDE DEF N
      <4> QED BY <1>1, <2>3 DEF IsLoop
    <3> HIDE DEF N
    <3>2. \A i \in 0..N : i # 0 => g[i] = One(i, g[i - 1])
      BY <2>2, <2>3, <3>1 DEF IsLoop
    <3> QED BY <2>3, <3>2 DEF IsLoop
  <2> HIDE DEF Loop
  <2> QED BY <2>4
<1>4. ToEntries(a, v) = out[N]
  BY DEF ToEntries
<1> HIDE DEF out
<1>5. out[0] = <<>> /\ \A i \in 1..N : out[i] = One(i, out[i - 1])
  <2>1. 0 \in 0..N /\ \A i \in 1..N : i \in 0..N /\ i # 0
    BY <1>1
  <2> HIDE DEF N, One
  <2> QED BY <1>3, <2>1
<1> HIDE DEF R
<1> DEFINE Upto(n) == {j \in 1..n : Keep(v.affected[j])}
           Good(n) == /\ out[n] \in Seq(R)
                      /\ ToSet(out[n]) = {Row(a, v.affected[j]) : j \in Upto(n)}
           D == {n \in 0..N : Good(n)}
<1>6. 0 \in D
  <2>1. 0 \in 0..N /\ Upto(0) = {} /\ ToSet(<<>>) = {}
    BY <1>1 DEF ToSet
  <2> QED BY <1>1, <1>5, <2>1
<1>7. ASSUME NEW n \in 0..(N - 1), n \in D PROVE n + 1 \in D
  <2>1. Good(n) /\ n + 1 \in 1..N /\ n + 1 \in 0..N /\ n + 1 - 1 = n
    BY <1>1, <1>7
  <2>2. out[n + 1] = One(n + 1, out[n])
    BY <1>5, <2>1
  <2>3. out[n + 1] \in Seq(R)
    BY <1>2, <2>1, <2>2
  <2>4. CASE Keep(v.affected[n + 1])
    <3> DEFINE r == Row(a, v.affected[n + 1])
    <3>1. out[n + 1] = Append(out[n], r) /\ r \in R
      BY <1>1, <2>1, <2>2, <2>4
    <3>2. ToSet(out[n + 1]) = ToSet(out[n]) \cup {r}
      <4> DEFINE s == out[n]
      <4>1. s \in Seq(R) /\ r \in R
        BY <2>1, <3>1
      <4> HIDE DEF r, s
      <4>2. ToSet(Append(s, r)) = ToSet(s) \cup {r}
        BY <4>1, AppendedToSet
      <4> QED BY <3>1, <4>2 DEF s
    <3>3. Upto(n + 1) = Upto(n) \cup {n + 1}
      BY <2>1, <2>4
    <3> HIDE DEF Upto
    <3> QED BY <2>1, <2>3, <3>2, <3>3
  <2>5. CASE ~Keep(v.affected[n + 1])
    <3>1. out[n + 1] = out[n] /\ Upto(n + 1) = Upto(n)
      BY <2>1, <2>2, <2>5
    <3> QED BY <2>1, <2>3, <3>1
  <2> QED BY <2>4, <2>5
<1>8. Good(N)
  <2> HIDE DEF D, Good, N
  <2>1. 0..N \subseteq D
    BY <1>1, <1>6, <1>7, UpTo
  <2> QED BY <1>1, <2>1 DEF D
<1>9. {Row(a, v.affected[j]) : j \in Upto(N)}
        = {Row(a, pkg) : pkg \in {q \in ToSet(v.affected) : Keep(q)}}
  BY <1>1 DEF ToSet
<1> QED
  BY <1>4, <1>8, <1>9 DEF R

LEMMA ConcatenatedToSet ==
  ASSUME NEW S, NEW s \in Seq(S), NEW t \in Seq(S)
  PROVE  s \o t \in Seq(S) /\ ToSet(s \o t) = ToSet(s) \cup ToSet(t)
<1> DEFINE u == s \o t
<1>1. /\ DOMAIN s = 1..Len(s) /\ Len(s) \in Nat /\ DOMAIN t = 1..Len(t) /\ Len(t) \in Nat
      /\ DOMAIN u = 1..(Len(s) + Len(t)) /\ u \in Seq(S)
      /\ \A i \in 1..(Len(s) + Len(t)) : u[i] = IF i <= Len(s) THEN s[i] ELSE t[i - Len(s)]
  OBVIOUS
<1> HIDE DEF u
<1>2. ASSUME NEW i \in DOMAIN u PROVE u[i] \in ToSet(s) \cup ToSet(t)
  <2>1. CASE i <= Len(s)
    BY <1>1, <2>1 DEF ToSet
  <2>2. CASE ~(i <= Len(s))
    <3>1. i - Len(s) \in 1..Len(t)
      BY <1>1, <2>2
    <3> QED BY <1>1, <2>2, <3>1 DEF ToSet
  <2> QED BY <2>1, <2>2
<1>3. ASSUME NEW i \in 1..Len(s) PROVE i \in DOMAIN u /\ u[i] = s[i]
  BY <1>1
<1>4. ASSUME NEW i \in 1..Len(t)
      PROVE  i + Len(s) \in DOMAIN u /\ u[i + Len(s)] = t[i]
  BY <1>1
<1>5. ASSUME NEW x \in ToSet(s) \cup ToSet(t) PROVE x \in ToSet(u)
  <2>1. CASE x \in ToSet(s)
    <3>1. PICK i \in 1..Len(s) : s[i] = x
      BY <1>1, <2>1 DEF ToSet
    <3> QED BY <1>3, <3>1 DEF ToSet
  <2>2. CASE x \in ToSet(t)
    <3>1. PICK i \in 1..Len(t) : t[i] = x
      BY <1>1, <2>2 DEF ToSet
    <3> QED BY <1>4, <3>1 DEF ToSet
  <2> QED BY <1>5, <2>1, <2>2
<1>6. ToSet(u) = ToSet(s) \cup ToSet(t)
  BY <1>2, <1>5 DEF ToSet
<1> QED
  BY <1>1, <1>6 DEF u

LEMMA HeadAndTail ==
  ASSUME NEW S, NEW s \in Seq(S), s # <<>>
  PROVE  ToSet(s) \subseteq {Head(s)} \cup ToSet(Tail(s))
<1>1. /\ DOMAIN s = 1..Len(s) /\ Len(s) \in Nat /\ Head(s) = s[1]
      /\ DOMAIN Tail(s) = 1..(Len(s) - 1) /\ \A i \in 1..(Len(s) - 1) : Tail(s)[i] = s[i + 1]
  OBVIOUS
<1>2. ASSUME NEW i \in DOMAIN s, i # 1 PROVE s[i] \in ToSet(Tail(s))
  <2>1. i - 1 \in 1..(Len(s) - 1) /\ i - 1 + 1 = i
    BY <1>1, <1>2
  <2> QED BY <1>1, <2>1 DEF ToSet
<1> QED
  BY <1>1, <1>2 DEF ToSet

-----------------------------------------------------------------------------
(* The order of the file. *)

LEMMA KeyIsNumbers ==
  ASSUME NEW r \in Rows
  PROVE  /\ Key(r)[1] \in Nat /\ Key(r)[2] \in Nat /\ Key(r)[3] \in Nat
         /\ Key(r) = <<Key(r)[1], Key(r)[2], Key(r)[3]>>
BY RankAssumption DEF Key

\* Precedes is a strict total order of the places of a list.
LEMMA PrecedesIsOrder ==
  ASSUME NEW rows \in Seq(Rows), NEW i \in DOMAIN rows, NEW j \in DOMAIN rows,
         NEW k \in DOMAIN rows
  PROVE  /\ ~Precedes(rows, i, i)
         /\ Precedes(rows, i, j) /\ Precedes(rows, j, k) => Precedes(rows, i, k)
         /\ i # j => Precedes(rows, i, j) \/ Precedes(rows, j, i)
<1> DEFINE x == Key(rows[i])
           y == Key(rows[j])
           z == Key(rows[k])
<1>1. i \in Nat /\ j \in Nat /\ k \in Nat
  OBVIOUS
<1>2. /\ x[1] \in Nat /\ x[2] \in Nat /\ x[3] \in Nat
      /\ y[1] \in Nat /\ y[2] \in Nat /\ y[3] \in Nat
      /\ z[1] \in Nat /\ z[2] \in Nat /\ z[3] \in Nat
      /\ x = <<x[1], x[2], x[3]>> /\ y = <<y[1], y[2], y[3]>>
  BY KeyIsNumbers
<1>3. /\ Precedes(rows, i, i) => Less(x, x)
      /\ Precedes(rows, i, j) <=> Less(x, y) \/ (x = y /\ i < j)
      /\ Precedes(rows, j, i) <=> Less(y, x) \/ (y = x /\ j < i)
      /\ Precedes(rows, j, k) <=> Less(y, z) \/ (y = z /\ j < k)
      /\ Precedes(rows, i, k) <=> Less(x, z) \/ (x = z /\ i < k)
  <2>1. Precedes(rows, i, i) => Less(x, x)
    BY <1>1 DEF Precedes
  <2>2. Precedes(rows, i, j) <=> Less(x, y) \/ (x = y /\ i < j)
    BY DEF Precedes
  <2>3. Precedes(rows, j, i) <=> Less(y, x) \/ (y = x /\ j < i)
    BY DEF Precedes
  <2>4. Precedes(rows, j, k) <=> Less(y, z) \/ (y = z /\ j < k)
    BY DEF Precedes
  <2>5. Precedes(rows, i, k) <=> Less(x, z) \/ (x = z /\ i < k)
    BY DEF Precedes
  <2> QED BY <2>1, <2>2, <2>3, <2>4, <2>5
<1> HIDE DEF x, y, z
<1>4. ~Less(x, x)
  BY <1>2 DEF Less
<1>5. Less(x, y) /\ Less(y, z) => Less(x, z)
  BY <1>2, SMTT(30) DEF Less
<1>6. x # y => Less(x, y) \/ Less(y, x)
  BY <1>2 DEF Less
<1>7. Precedes(rows, i, j) /\ Precedes(rows, j, k) => Precedes(rows, i, k)
  BY <1>1, <1>3, <1>5
<1>8. i # j => Precedes(rows, i, j) \/ Precedes(rows, j, i)
  BY <1>1, <1>3, <1>6
<1> QED
  BY <1>3, <1>4, <1>7, <1>8

\* Where the sort puts the row at i.
Place(rows, i) == 1 + Cardinality({j \in DOMAIN rows : Precedes(rows, j, i)})

\* No two rows are put in one place, and none is left free.
LEMMA PlacesAreTaken ==
  ASSUME NEW rows \in Seq(Rows)
  PROVE  \E from \in Bijection(DOMAIN rows, DOMAIN rows) :
           /\ Sorted(rows) = [k \in DOMAIN rows |-> rows[from[k]]]
           /\ \A k \in DOMAIN rows : Place(rows, from[k]) = k
           /\ \A k, l \in DOMAIN rows : k < l => Precedes(rows, from[k], from[l])
<1> DEFINE N == Len(rows)
           I == DOMAIN rows
           Smaller(i) == {j \in I : Precedes(rows, j, i)}
           place == [i \in I |-> 1 + Cardinality(Smaller(i))]
           from == [k \in I |-> CHOOSE i \in I : place[i] = k]
<1>1. N \in Nat /\ I = 1..N /\ IsFiniteSet(I) /\ Cardinality(I) = N
  <2>1. N \in Nat /\ I = 1..N
    OBVIOUS
  <2> HIDE DEF N, I
  <2> QED BY <2>1, FS_Interval
<1> HIDE DEF N
<1>2. \A i \in I : /\ IsFiniteSet(Smaller(i)) /\ Cardinality(Smaller(i)) \in Nat
                   /\ IsFiniteSet(Smaller(i) \cup {i})
                   /\ Cardinality(Smaller(i) \cup {i}) = place[i]
                   /\ Smaller(i) \cup {i} \subseteq I
  <2> SUFFICES ASSUME NEW i \in I
               PROVE  /\ IsFiniteSet(Smaller(i)) /\ Cardinality(Smaller(i)) \in Nat
                      /\ IsFiniteSet(Smaller(i) \cup {i})
                      /\ Cardinality(Smaller(i) \cup {i}) = place[i]
                      /\ Smaller(i) \cup {i} \subseteq I
    OBVIOUS
  <2> DEFINE T == Smaller(i)
  <2>1. T \in SUBSET I /\ place[i] = 1 + Cardinality(T)
    OBVIOUS
  <2>2. i \notin T
    BY PrecedesIsOrder
  <2> HIDE DEF T, place, I
  <2>3. IsFiniteSet(T) /\ Cardinality(T) \in Nat
    BY <1>1, <2>1, FS_Subset, FS_CardinalityType
  <2>4. IsFiniteSet(T \cup {i}) /\ Cardinality(T \cup {i}) = Cardinality(T) + 1
    BY <2>2, <2>3, FS_AddElement
  <2> QED BY <2>1, <2>3, <2>4 DEF T
<1>3. \A i \in I : place[i] \in I
  <2> SUFFICES ASSUME NEW i \in I PROVE place[i] \in I
    OBVIOUS
  <2> DEFINE T == Smaller(i) \cup {i}
  <2>1. T \in SUBSET I /\ Cardinality(T) = place[i] /\ place[i] = 1 + Cardinality(Smaller(i))
    BY <1>2
  <2>2. Cardinality(Smaller(i)) \in Nat
    BY <1>2
  <2> HIDE DEF T, place, I, Smaller
  <2>3. Cardinality(T) <= N
    BY <1>1, <2>1, FS_Subset
  <2> QED BY <1>1, <2>1, <2>2, <2>3
<1>4. ASSUME NEW i \in I, NEW j \in I, Precedes(rows, i, j) PROVE place[i] < place[j]
  <2> DEFINE T == Smaller(i) \cup {i}
             U == Smaller(j)
  <2>1. T \in SUBSET U
    BY <1>4, PrecedesIsOrder
  <2>2. /\ IsFiniteSet(U) /\ Cardinality(U) \in Nat /\ place[j] = 1 + Cardinality(U)
        /\ Cardinality(T) = place[i] /\ place[i] \in I
    BY <1>2, <1>3
  <2> HIDE DEF T, U, place, I
  <2>3. Cardinality(T) <= Cardinality(U)
    BY <2>1, <2>2, FS_Subset
  <2> QED BY <1>1, <2>2, <2>3
<1>5. place \in Injection(I, I)
  <2>1. ASSUME NEW i \in I, NEW j \in I, place[i] = place[j] PROVE i = j
    <3>1. ~Precedes(rows, i, j) /\ ~Precedes(rows, j, i)
      <4>1. place[i] \in Nat
        BY <1>1, <1>3
      <4> HIDE DEF place
      <4> QED BY <1>4, <2>1, <4>1
    <3> QED BY <3>1, PrecedesIsOrder
  <2>2. place \in [I -> I]
    BY <1>3
  <2> HIDE DEF place, I
  <2> QED BY <2>1, <2>2 DEF Injection, IsInjective
<1>6. \A k \in I : \E i \in I : place[i] = k
  <2> HIDE DEF place, I
  <2>1. place \in Surjection(I, I)
    BY <1>1, <1>5, FS_Injection
  <2> QED BY <2>1 DEF Surjection
<1>7. \A k \in I : from[k] \in I /\ place[from[k]] = k
  <2> HIDE DEF place, I
  <2> QED BY <1>6
<1>8. \A i \in I : from[place[i]] = i
  <2> SUFFICES ASSUME NEW i \in I PROVE from[place[i]] = i
    OBVIOUS
  <2>1. place[i] \in I
    BY <1>3
  <2> HIDE DEF place, I, from
  <2>2. from[place[i]] \in I /\ place[from[place[i]]] = place[i]
    BY <1>7, <2>1
  <2> QED BY <1>5, <2>2 DEF Injection, IsInjective
<1>9. Sorted(rows) = [k \in I |-> rows[from[k]]]
  BY DEF Sorted
<1>10. from \in [I -> I]
  <2>1. \A k \in I : (CHOOSE i \in I : place[i] = k) \in I
    <3> HIDE DEF I, place
    <3> QED BY <1>6
  <2> HIDE DEF I, place
  <2> QED BY <2>1
<1> HIDE DEF from, place, I
<1>11. from \in Bijection(I, I)
  <2>1. \A k, l \in I : from[k] = from[l] => k = l
    BY <1>7
  <2>2. \A i \in I : \E k \in I : from[k] = i
    BY <1>3, <1>8
  <2> QED BY <1>10, <2>1, <2>2 DEF Bijection, Injection, IsInjective, Surjection
<1>12. ASSUME NEW k \in I, NEW l \in I, k < l PROVE Precedes(rows, from[k], from[l])
  <2>1. /\ from[k] \in I /\ from[l] \in I /\ place[from[k]] = k /\ place[from[l]] = l
        /\ k \in Nat /\ l \in Nat
    BY <1>1, <1>7
  <2>2. from[k] # from[l] /\ ~(l < k)
    BY <2>1, <1>12
  <2>3. ~Precedes(rows, from[l], from[k])
    BY <1>4, <2>1, <2>2
  <2> QED BY <2>1, <2>2, <2>3, PrecedesIsOrder DEF I
<1>13. \A k \in I : Place(rows, from[k]) = k
  <2>1. \A i \in I : Place(rows, i) = place[i]
    BY DEF Place, place, I
  <2> QED BY <1>7, <2>1
<1> QED
  BY <1>9, <1>11, <1>12, <1>13 DEF I

\* main's sort loses no row, repeats none, and puts them in order; of two with the
\* same key the one collected first stays first.
THEOREM SortIsStable ==
  ASSUME NEW rows \in Seq(Rows)
  PROVE  \E from \in Bijection(DOMAIN rows, DOMAIN rows) :
           /\ Sorted(rows) = [k \in DOMAIN rows |-> rows[from[k]]]
           /\ \A k, l \in DOMAIN rows : k < l => Precedes(rows, from[k], from[l])
BY PlacesAreTaken

LEMMA SortedKeepsRows ==
  ASSUME NEW rows \in Seq(Rows)
  PROVE  Sorted(rows) \in Seq(Rows) /\ ToSet(Sorted(rows)) = ToSet(rows)
<1>1. PICK from \in Bijection(DOMAIN rows, DOMAIN rows) :
        Sorted(rows) = [k \in DOMAIN rows |-> rows[from[k]]]
  BY SortIsStable
<1>2. /\ from \in [DOMAIN rows -> DOMAIN rows]
      /\ \A i \in DOMAIN rows : \E k \in DOMAIN rows : from[k] = i
  BY DEF Bijection, Injection, Surjection
<1>3. \A i \in DOMAIN rows : rows[i] \in Rows
  OBVIOUS
<1>4. DOMAIN rows = 1..Len(rows) /\ Len(rows) \in Nat
  OBVIOUS
<1> DEFINE t == [k \in DOMAIN rows |-> rows[from[k]]]
<1>5. t \in Seq(Rows)
  <2>1. t \in [1..Len(rows) -> Rows]
    BY <1>2, <1>3, <1>4
  <2> QED BY <1>4, <2>1
<1>6. ToSet(t) = ToSet(rows)
  <2>1. DOMAIN t = DOMAIN rows /\ \A k \in DOMAIN rows : t[k] = rows[from[k]]
    OBVIOUS
  <2> HIDE DEF t
  <2> QED BY <1>2, <2>1 DEF ToSet
<1> QED
  BY <1>1, <1>5, <1>6

-----------------------------------------------------------------------------
(* The import. *)

Feeds == {f \in [Advisories -> Nat] : \A a \in Advisories : f[a] <= Len(Revisions[a])}

\* Row r is that of a listed package of a revision its advisory had between the
\* feeds from and to.
Warranted(r, from, to) ==
  /\ r.rule \in Advisories /\ r.constraints # {}
  /\ \E n \in {m \in from[r.rule]..to[r.rule] : m > 0} : \E pkg \in Packages(r.rule, n) :
       <<pkg.eco, pkg.name>> \in Listed /\ pkg.eco \in Ecosystems /\ r = Row(r.rule, pkg)

\* The rows have all that revision n of advisory a gives.
Has(rows, a, n) ==
  IsCryptoRelevant(Revisions[a][n]) => ToSet(ToEntries(a, Revisions[a][n])) \subseteq ToSet(rows)

OTypes ==
  /\ feed \in Feeds /\ begun \in Feeds /\ basis.begun \in Feeds /\ basis.ended \in Feeds
  /\ pc \in {"idle", "import"}
  /\ left \in Seq(Ecosystems)
  /\ dump \subseteq {<<a, feed[a]>> : a \in {b \in Advisories : feed[b] > 0}}
  /\ all \in Seq(Rows) /\ former \in Seq(Rows)
  /\ asked \subseteq Ecosystems /\ lost \subseteq Ecosystems \X Advisories
  /\ pc = "idle" => left = <<>> /\ dump = {} /\ all = <<>>
  /\ pc = "import" => \A a \in Advisories : begun[a] <= feed[a]

\* What was collected, and what is in the file, was warranted.
AllWarranted ==
  /\ \A r \in ToSet(all) : Warranted(r, begun, feed)
  /\ \A r \in ToSet(former) : Warranted(r, basis.begun, basis.ended)

\* An advisory that has not moved since the import began and is in a dump that was
\* asked for and not lost: the dump is still to come, or the advisory is still to be
\* converted, or its rows are there.
Pending(a) == \A pkg \in Packages(a, feed[a]) :
                pkg.eco \in asked /\ <<pkg.eco, a>> \notin lost =>
                  \/ pkg.eco \in ToSet(left)
                  \/ <<a, feed[a]>> \in dump
                  \/ Has(all, a, feed[a])

NoneForgotten ==
  /\ pc = "import" => \A a \in Advisories : begun[a] = feed[a] /\ feed[a] > 0 => Pending(a)
  /\ \A a \in Advisories : Obtainable(a) => Has(former, a, basis.ended[a])

\* The file is torn, or has the table of the import that wrote it.
OneFile ==
  /\ file \in 0..Days /\ dated \in 1..Days
  /\ IF file = 0 THEN catalog = <<>> ELSE catalog = former /\ file = dated

OInv == OTypes /\ AllWarranted /\ NoneForgotten /\ OneFile

LEMMA RevisionTypes ==
  ASSUME NEW a \in Advisories, NEW n \in Nat, n > 0, n <= Len(Revisions[a])
  PROVE  /\ n \in DOMAIN Revisions[a]
         /\ Revisions[a][n].affected \in Seq(Affected)
         /\ Packages(a, n) \subseteq Affected
         /\ \A pkg \in Packages(a, n) : pkg.ranges \in Seq(OsvRange)
         /\ \A pkg \in Packages(a, n) : pkg.eco \in Ecosystems => Row(a, pkg) \in Rows
<1> DEFINE Revision == [crypto : BOOLEAN, affected : Seq(Affected)]
<1>1. Revisions[a] \in Seq(Revision)
  BY RevisionsAssumption
<1>2. n \in DOMAIN Revisions[a] /\ Revisions[a][n] \in Revision
  <2> HIDE DEF Revision
  <2> QED BY <1>1
<1>3. Revisions[a][n].affected \in Seq(Affected)
  BY <1>2
<1>4. Packages(a, n) \subseteq Affected
  <2> DEFINE s == Revisions[a][n].affected
  <2>1. s \in Seq(Affected)
    BY <1>3
  <2> HIDE DEF s
  <2>2. \A i \in DOMAIN s : s[i] \in Affected
    BY <2>1
  <2> QED BY <2>2 DEF Packages, ToSet, s
<1>5. \A pkg \in Affected : pkg.ranges \in Seq(OsvRange)
  BY DEF Affected
<1>6. \A pkg \in Packages(a, n) : pkg.eco \in Ecosystems => Row(a, pkg) \in Rows
  BY <1>2 DEF Rows
<1> QED
  BY <1>2, <1>3, <1>4, <1>5, <1>6

LEMMA EntriesAreRows ==
  ASSUME NEW a \in Advisories, NEW n \in Nat, n > 0, n <= Len(Revisions[a])
  PROVE  /\ ToEntries(a, Revisions[a][n]) \in Seq(Rows)
         /\ \A pkg \in Packages(a, n) :
              Keep(pkg) => Row(a, pkg) \in ToSet(ToEntries(a, Revisions[a][n]))
         /\ \A r \in ToSet(ToEntries(a, Revisions[a][n])) :
              /\ r.rule = a /\ r.constraints # {}
              /\ \E pkg \in Packages(a, n) :
                   /\ <<pkg.eco, pkg.name>> \in Listed /\ pkg.eco \in Ecosystems
                   /\ r = Row(a, pkg)
<1> DEFINE v == Revisions[a][n]
           rows == {Row(a, pkg) : pkg \in {q \in Packages(a, n) : Keep(q)}}
<1>1. ToEntries(a, v) \in Seq(rows) /\ ToSet(ToEntries(a, v)) = rows
  <2>1. v.affected \in Seq(Affected) /\ Packages(a, n) = ToSet(v.affected)
    BY RevisionTypes DEF Packages
  <2> HIDE DEF v
  <2> QED BY <2>1, EntriesOfKept
<1>2. rows \subseteq Rows
  BY RevisionTypes DEF Keep
<1>3. \A pkg \in Packages(a, n) : Keep(pkg) =>
        /\ <<pkg.eco, pkg.name>> \in Listed /\ pkg.eco \in Ecosystems
        /\ Row(a, pkg).rule = a /\ Row(a, pkg).constraints # {}
  BY RevisionTypes, KnownIsListed DEF Keep, Row
<1> HIDE DEF v
<1>4. ToEntries(a, v) \in Seq(Rows)
  <2> HIDE DEF rows
  <2> QED BY <1>1, <1>2
<1> QED
  BY <1>1, <1>3, <1>4 DEF v

\* At the start there is no advisory, no import and no file.
LEMMA OInit == Init => OInv
<1> SUFFICES ASSUME Init PROVE OInv
  OBVIOUS
<1>1. \A a \in Advisories : Len(Revisions[a]) \in Nat
  BY RevisionsAssumption
<1>2. NotBegun \in Feeds
  BY <1>1 DEF NotBegun, Feeds
<1>3. ToSet(<<>>) = {}
  BY DEF ToSet
<1>4. \A a \in Advisories : ~Obtainable(a)
  BY DEF Init, Obtainable, NotBegun
<1>5. 1 \in 1..Days /\ 1 \in 0..Days
  BY DaysAssumption
<1> QED
  BY <1>2, <1>3, <1>4, <1>5 DEF Init, OInv, OTypes, AllWarranted, NoneForgotten, OneFile

\* A later feed warrants what an earlier one did.
LEMMA StillWarranted ==
  ASSUME NEW from \in Feeds, NEW to \in Feeds, NEW later \in Feeds,
         \A a \in Advisories : to[a] <= later[a],
         NEW r, Warranted(r, from, to)
  PROVE  Warranted(r, from, later)
<1>1. r.rule \in Advisories
  BY DEF Warranted
<1>2. /\ from[r.rule] \in Nat /\ to[r.rule] \in Nat /\ later[r.rule] \in Nat
      /\ to[r.rule] <= later[r.rule]
  BY <1>1 DEF Feeds
<1>3. \A m \in from[r.rule]..to[r.rule] : m \in from[r.rule]..later[r.rule]
  BY <1>2
<1> QED
  BY <1>3 DEF Warranted

\* Publishing, starting, each way a download can end, converting a member, writing
\* the file and dying keep the types.
LEMMA StepTypes == OInv /\ [Next]_vars => OTypes'
<1> SUFFICES ASSUME OInv, [Next]_vars PROVE OTypes'
  OBVIOUS
<1>0. OTypes
  BY DEF OInv
<1>1. ASSUME NEW a \in Advisories, Publish(a) PROVE OTypes'
  <2>1. /\ feed \in [Advisories -> Nat] /\ feed' = [feed EXCEPT ![a] = @ + 1]
        /\ Len(Revisions[a]) \in Nat /\ feed[a] < Len(Revisions[a])
        /\ \A b \in Advisories : feed[b] <= Len(Revisions[b])
    BY <1>0, <1>1, RevisionsAssumption DEF OTypes, Publish, Feeds
  <2>2. feed' \in Feeds /\ \A b \in Advisories : feed[b] <= feed'[b]
    BY <2>1 DEF Feeds
  <2>3. /\ dump = {} /\ UNCHANGED <<importVars, former, basis>>
        /\ begun \in Feeds
    BY <1>0, <1>1 DEF OTypes, Publish, fileVars
  <2>4. \A b \in Advisories : begun[b] \in Nat /\ feed[b] \in Nat /\ feed'[b] \in Nat
    BY <2>1, <2>2, <2>3 DEF Feeds
  <2>5. pc = "import" => \A b \in Advisories : begun[b] <= feed'[b]
    BY <1>0, <2>2, <2>4 DEF OTypes
  <2> QED BY <1>0, <2>2, <2>3, <2>5 DEF OTypes, importVars
<1>2. CASE Start
  <2>1. /\ left' \in Seq(Ecosystems) /\ asked' = ToSet(left')
        /\ pc' = "import" /\ begun' = feed
        /\ UNCHANGED <<feed, dump, all, former, lost, basis>>
    BY <1>2, RequestsAssumption DEF Start
  <2>2. asked' \subseteq Ecosystems
    BY <2>1 DEF ToSet
  <2>3. \A a \in Advisories : feed[a] <= feed[a]
    BY <1>0 DEF OTypes, Feeds
  <2> QED BY <1>0, <2>1, <2>2, <2>3 DEF OTypes
<1>3. CASE FetchEcosystem
  <2>1. PICK skipped \in SUBSET (Dump(Head(left)) \cap Unreadable) :
          /\ dump' = {<<a, feed[a]>> : a \in Dump(Head(left)) \ skipped}
          /\ lost' = lost \cup ({Head(left)} \X skipped)
    BY <1>3 DEF FetchEcosystem
  <2>2. /\ pc = "import" /\ left # <<>> /\ left \in Seq(Ecosystems) /\ left' = Tail(left)
        /\ UNCHANGED <<feed, pc, all, former, begun, asked, basis>>
    BY <1>0, <1>3 DEF FetchEcosystem, OTypes, fileVars
  <2>3. Head(left) \in Ecosystems /\ left' \in Seq(Ecosystems)
    BY <2>2
  <2>4. Dump(Head(left)) \subseteq {b \in Advisories : feed[b] > 0}
    BY DEF Dump
  <2>5. lost' \subseteq Ecosystems \X Advisories
    BY <1>0, <2>1, <2>3, <2>4 DEF OTypes
  <2>6. dump' \subseteq {<<a, feed'[a]>> : a \in {b \in Advisories : feed'[b] > 0}}
    BY <2>1, <2>2, <2>4
  <2> QED BY <1>0, <2>2, <2>3, <2>5, <2>6 DEF OTypes
<1>4. CASE FetchFails
  <2>1. /\ pc = "import" /\ left # <<>> /\ left \in Seq(Ecosystems) /\ left' = Tail(left)
        /\ lost' = lost \cup ({Head(left)} \X Dump(Head(left)))
        /\ UNCHANGED <<feed, pc, dump, all, former, begun, asked, basis>>
    BY <1>0, <1>4 DEF FetchFails, OTypes, fileVars
  <2>2. Head(left) \in Ecosystems /\ left' \in Seq(Ecosystems)
    BY <2>1
  <2>3. Dump(Head(left)) \subseteq Advisories
    BY DEF Dump
  <2>4. lost' \subseteq Ecosystems \X Advisories
    BY <1>0, <2>1, <2>2, <2>3 DEF OTypes
  <2> QED BY <1>0, <2>1, <2>2, <2>4 DEF OTypes
<1>5. CASE Convert
  <2>1. PICK m \in dump :
          /\ dump' = dump \ {m}
          /\ all' = IF IsCryptoRelevant(Revisions[m[1]][m[2]])
                    THEN all \o ToEntries(m[1], Revisions[m[1]][m[2]]) ELSE all
          /\ UNCHANGED <<feed, pc, left, former, begun, asked, lost, basis>>
    BY <1>5 DEF Convert, fileVars
  <2>2. PICK a \in Advisories : m = <<a, feed[a]>> /\ feed[a] > 0
    BY <1>0 DEF OTypes
  <2>3. feed[a] \in Nat /\ feed[a] <= Len(Revisions[a])
    BY <1>0 DEF OTypes, Feeds
  <2>4. ToEntries(a, Revisions[a][feed[a]]) \in Seq(Rows)
    BY <2>2, <2>3, EntriesAreRows
  <2>5. all \in Seq(Rows)
    BY <1>0 DEF OTypes
  <2>6. all' \in Seq(Rows)
    BY <2>1, <2>2, <2>4, <2>5, ConcatenatedToSet
  <2>7. pc # "idle"
    BY <1>0, <2>1 DEF OTypes
  <2> QED BY <1>0, <2>1, <2>6, <2>7 DEF OTypes
<1>6. NotBegun \in Feeds
  <2>1. \A a \in Advisories : Len(Revisions[a]) \in Nat
    BY RevisionsAssumption
  <2> QED BY <2>1 DEF NotBegun, Feeds
<1>7. <<>> \in Seq(Rows) /\ <<>> \in Seq(Ecosystems)
  OBVIOUS
<1>8. CASE Emit
  <2>1. former' \in Seq(Rows)
    BY <1>0, <1>8, SortedKeepsRows DEF Emit, OTypes
  <2>2. /\ basis'.begun = begun /\ basis'.ended = feed
        /\ left = <<>> /\ dump = {} /\ UNCHANGED <<feed, left, dump>>
    BY <1>8 DEF Emit
  <2> QED BY <1>0, <1>6, <1>7, <1>8, <2>1, <2>2 DEF Emit, Ended, OTypes
<1>9. CASE Die
  BY <1>0, <1>6, <1>7, <1>9 DEF Die, Ended, OTypes, fileVars
<1>10. CASE UNCHANGED vars
  BY <1>0, <1>10 DEF OTypes, vars, importVars, fileVars
<1> QED
  BY <1>1, <1>2, <1>3, <1>4, <1>5, <1>8, <1>9, <1>10 DEF Next

\* Each step keeps the rows warranted: those collected by the feed of the moment,
\* those of the file by the feeds of its own import.
LEMMA StepWarranted == OInv /\ [Next]_vars => AllWarranted'
<1> SUFFICES ASSUME OInv, [Next]_vars PROVE AllWarranted'
  OBVIOUS
<1>0. OTypes /\ AllWarranted
  BY DEF OInv
<1>e. ToSet(<<>>) = {}
  BY DEF ToSet
<1>1. ASSUME NEW a \in Advisories, Publish(a) PROVE AllWarranted'
  <2>1. /\ feed \in Feeds /\ begun \in Feeds
        /\ UNCHANGED <<all, former, basis, begun>>
    BY <1>0, <1>1 DEF OTypes, Publish, importVars, fileVars
  <2>2. feed' \in Feeds
    BY StepTypes DEF OTypes
  <2>3. \A b \in Advisories : feed[b] <= feed'[b]
    BY <1>1, <2>1 DEF Publish, Feeds
  <2>4. \A r \in ToSet(all) : Warranted(r, begun, feed')
    BY <1>0, <2>1, <2>2, <2>3, StillWarranted DEF AllWarranted
  <2> QED BY <1>0, <2>1, <2>4 DEF AllWarranted
<1>2. CASE Start
  <2>1. all = <<>> /\ UNCHANGED <<all, former, basis>>
    BY <1>0, <1>2 DEF Start, OTypes
  <2> QED BY <1>0, <1>e, <2>1 DEF AllWarranted
<1>3. CASE FetchEcosystem \/ FetchFails
  <2>1. UNCHANGED <<all, former, basis, begun, feed>>
    BY <1>3 DEF FetchEcosystem, FetchFails, fileVars
  <2> QED BY <1>0, <2>1 DEF AllWarranted
<1>4. CASE Convert
  <2>1. PICK m \in dump :
          all' = IF IsCryptoRelevant(Revisions[m[1]][m[2]])
                 THEN all \o ToEntries(m[1], Revisions[m[1]][m[2]]) ELSE all
    BY <1>4 DEF Convert
  <2>2. UNCHANGED <<former, basis, begun, feed>>
    BY <1>4 DEF Convert, fileVars
  <2>3. PICK a \in Advisories : m = <<a, feed[a]>> /\ feed[a] > 0
    BY <1>0 DEF OTypes
  <2> DEFINE rows == ToEntries(a, Revisions[a][feed[a]])
  <2>4. /\ feed[a] \in Nat /\ feed[a] <= Len(Revisions[a])
        /\ begun[a] \in Nat /\ begun[a] <= feed[a]
    <3>1. pc = "import"
      BY <1>0, <2>1 DEF OTypes
    <3> QED BY <1>0, <3>1 DEF OTypes, Feeds
  <2>5. rows \in Seq(Rows) /\ all \in Seq(Rows)
    BY <1>0, <2>3, <2>4, EntriesAreRows DEF OTypes
  <2>6. \A r \in ToSet(rows) : Warranted(r, begun, feed)
    <3>1. feed[a] \in {x \in begun[a]..feed[a] : x > 0}
      BY <2>3, <2>4
    <3>2. \A r \in ToSet(rows) :
            /\ r.rule = a /\ r.constraints # {}
            /\ \E pkg \in Packages(a, feed[a]) :
                 /\ <<pkg.eco, pkg.name>> \in Listed /\ pkg.eco \in Ecosystems
                 /\ r = Row(a, pkg)
      BY <2>3, <2>4, EntriesAreRows
    <3> HIDE DEF rows
    <3> QED BY <3>1, <3>2 DEF Warranted
  <2>7. ToSet(all') \subseteq ToSet(all) \cup ToSet(rows)
    <3>1. all' = all \/ all' = all \o rows
      BY <2>1, <2>3
    <3>2. ToSet(all \o rows) = ToSet(all) \cup ToSet(rows)
      <4> HIDE DEF rows
      <4> QED BY <2>5, ConcatenatedToSet
    <3> HIDE DEF rows
    <3> QED BY <3>1, <3>2
  <2> HIDE DEF rows
  <2>8. \A r \in ToSet(all') : Warranted(r, begun, feed)
    BY <1>0, <2>6, <2>7 DEF AllWarranted
  <2> QED BY <1>0, <2>2, <2>8 DEF AllWarranted
<1>5. CASE Emit
  <2>1. /\ all' = <<>> /\ former' = Sorted(all)
        /\ basis'.begun = begun /\ basis'.ended = feed
    BY <1>5 DEF Emit, Ended
  <2>2. ToSet(former') = ToSet(all)
    BY <1>0, <2>1, SortedKeepsRows DEF OTypes
  <2> QED BY <1>0, <1>e, <2>1, <2>2 DEF AllWarranted
<1>6. CASE Die
  BY <1>0, <1>e, <1>6 DEF Die, Ended, AllWarranted, fileVars
<1>7. CASE UNCHANGED vars
  BY <1>0, <1>7 DEF AllWarranted, vars, importVars, fileVars
<1> QED
  BY <1>1, <1>2, <1>3, <1>4, <1>5, <1>6, <1>7 DEF Next

\* More rows have what fewer had.
LEMMA StillHas ==
  ASSUME NEW rows, NEW more, NEW a, NEW n, Has(rows, a, n), ToSet(rows) \subseteq ToSet(more)
  PROVE  Has(more, a, n)
BY DEF Has

\* Each step forgets nothing: a dump that was to come is fetched or lost, what was
\* fetched is converted, what was converted stays, and all of it goes into the file.
LEMMA StepNoneForgotten == OInv /\ [Next]_vars => NoneForgotten'
<1> SUFFICES ASSUME OInv, [Next]_vars PROVE NoneForgotten'
  OBVIOUS
<1>0. OTypes /\ NoneForgotten
  BY DEF OInv
<1> DEFINE Filed == \A a \in Advisories : Obtainable(a) => Has(former, a, basis.ended[a])
           Still(a) == begun[a] = feed[a] /\ feed[a] > 0
<1>f. UNCHANGED <<former, basis>> => Filed'
  BY <1>0 DEF NoneForgotten, Obtainable, Has
<1>1. ASSUME NEW a \in Advisories, Publish(a) PROVE NoneForgotten'
  <2>1. /\ feed \in [Advisories -> Nat] /\ begun \in [Advisories -> Nat]
        /\ feed' = [feed EXCEPT ![a] = @ + 1]
        /\ UNCHANGED <<pc, left, dump, all, begun, asked, lost, former, basis>>
    BY <1>0, <1>1 DEF OTypes, Publish, importVars, Feeds, fileVars
  <2>2. ASSUME pc = "import", NEW b \in Advisories, Still(b)' PROVE Pending(b)'
    <3>1. begun[a] <= feed[a] /\ feed'[a] = feed[a] + 1
      BY <1>0, <2>1, <2>2 DEF OTypes
    <3>2. b # a
      BY <2>1, <2>2, <3>1
    <3>3. feed'[b] = feed[b]
      BY <2>1, <3>2
    <3>4. Pending(b)
      BY <1>0, <2>1, <2>2, <3>3 DEF NoneForgotten
    <3> QED BY <2>1, <3>3, <3>4 DEF Pending, Has
  <2> QED BY <1>f, <2>1, <2>2 DEF NoneForgotten
<1>2. CASE Start
  <2>1. ASSUME NEW a \in Advisories PROVE Pending(a)'
    BY <1>2 DEF Start, Pending
  <2>2. UNCHANGED <<former, basis>>
    BY <1>2 DEF Start
  <2> QED BY <1>f, <2>1, <2>2 DEF NoneForgotten
<1>3. CASE FetchEcosystem \/ FetchFails
  <2> DEFINE e == Head(left)
  <2>1. /\ pc = "import" /\ left # <<>> /\ dump = {} /\ left' = Tail(left)
        /\ UNCHANGED <<feed, pc, all, former, begun, asked, basis>>
        /\ left \in Seq(Ecosystems)
    BY <1>0, <1>3 DEF FetchEcosystem, FetchFails, OTypes, fileVars
  <2>2. ToSet(left) \subseteq {e} \cup ToSet(left')
    BY <2>1, HeadAndTail
  <2>3. /\ lost \subseteq lost'
        /\ \A a \in Dump(e) : <<e, a>> \in lost' \/ <<a, feed[a]>> \in dump'
    <3>1. CASE FetchFails
      BY <3>1 DEF FetchFails
    <3>2. CASE FetchEcosystem
      <4>1. PICK skipped \in SUBSET (Dump(e) \cap Unreadable) :
              /\ dump' = {<<a, feed[a]>> : a \in Dump(e) \ skipped}
              /\ lost' = lost \cup ({e} \X skipped)
        BY <3>2 DEF FetchEcosystem
      <4> HIDE DEF e
      <4> QED BY <4>1
    <3> QED BY <1>3, <3>1, <3>2
  <2> HIDE DEF e
  <2>4. ASSUME NEW a \in Advisories, Still(a) PROVE Pending(a)'
    <3> SUFFICES ASSUME NEW pkg \in Packages(a, feed[a]),
                        pkg.eco \in asked, <<pkg.eco, a>> \notin lost'
                 PROVE  \/ pkg.eco \in ToSet(left')
                        \/ <<a, feed[a]>> \in dump'
                        \/ Has(all, a, feed[a])
      BY <2>1 DEF Pending, Has
    <3>1. \/ pkg.eco \in ToSet(left) \/ Has(all, a, feed[a])
      BY <1>0, <2>1, <2>3, <2>4 DEF NoneForgotten, Pending
    <3>2. pkg.eco = e => a \in Dump(e)
      BY <2>4 DEF Dump, Packages, ToSet
    <3> QED BY <2>2, <2>3, <3>1, <3>2
  <2> QED BY <1>f, <2>1, <2>4 DEF NoneForgotten
<1>4. CASE Convert
  <2>1. PICK m \in dump :
          /\ dump' = dump \ {m}
          /\ all' = IF IsCryptoRelevant(Revisions[m[1]][m[2]])
                    THEN all \o ToEntries(m[1], Revisions[m[1]][m[2]]) ELSE all
    BY <1>4 DEF Convert
  <2>2. UNCHANGED <<feed, pc, left, former, begun, asked, lost, basis>>
    BY <1>4 DEF Convert, fileVars
  <2>3. PICK c \in Advisories : m = <<c, feed[c]>> /\ feed[c] > 0
    BY <1>0 DEF OTypes
  <2> DEFINE v == Revisions[c][feed[c]]
             rows == ToEntries(c, v)
  <2>4. rows \in Seq(Rows) /\ all \in Seq(Rows) /\ pc = "import"
    <3>1. feed[c] \in Nat /\ feed[c] <= Len(Revisions[c])
      BY <1>0 DEF OTypes, Feeds
    <3> QED BY <1>0, <2>1, <2>3, <3>1, EntriesAreRows DEF OTypes
  <2>5. all' = IF IsCryptoRelevant(v) THEN all \o rows ELSE all
    BY <2>1, <2>3
  <2>6. ToSet(all \o rows) = ToSet(all) \cup ToSet(rows)
    <3> HIDE DEF rows
    <3> QED BY <2>4, ConcatenatedToSet
  <2>7. ToSet(all) \subseteq ToSet(all')
    <3> HIDE DEF rows
    <3> QED BY <2>5, <2>6
  <2>8. Has(all', c, feed[c])
    <3>1. IsCryptoRelevant(v) => ToSet(rows) \subseteq ToSet(all')
      <4> HIDE DEF rows, v
      <4> QED BY <2>5, <2>6
    <3> QED BY <3>1 DEF Has
  <2> HIDE DEF rows, v
  <2>9. ASSUME NEW a \in Advisories, Still(a) PROVE Pending(a)'
    <3>1. Pending(a)
      BY <1>0, <2>4, <2>9 DEF NoneForgotten
    <3>2. Has(all, a, feed[a]) => Has(all', a, feed[a])
      BY <2>7, StillHas
    <3>3. <<a, feed[a]>> \in dump => <<a, feed[a]>> \in dump' \/ a = c
      BY <2>1, <2>3
    <3>4. ASSUME NEW pkg \in Packages(a, feed[a]), pkg.eco \in asked, <<pkg.eco, a>> \notin lost
          PROVE  \/ pkg.eco \in ToSet(left)
                 \/ <<a, feed[a]>> \in dump'
                 \/ Has(all', a, feed[a])
      BY <2>8, <3>1, <3>2, <3>3, <3>4 DEF Pending
    <3> QED BY <2>2, <3>4 DEF Pending, Has
  <2> QED BY <1>f, <2>2, <2>9 DEF NoneForgotten
<1>5. CASE Emit
  <2>1. /\ pc = "import" /\ left = <<>> /\ dump = {} /\ pc' = "idle"
        /\ former' = Sorted(all)
        /\ basis' = [begun |-> begun, ended |-> feed, asked |-> asked, lost |-> lost]
    BY <1>5 DEF Emit, Ended
  <2>2. ToSet(former') = ToSet(all) /\ ToSet(left) = {}
    <3>1. all \in Seq(Rows)
      BY <1>0 DEF OTypes
    <3>2. ToSet(Sorted(all)) = ToSet(all)
      BY <3>1, SortedKeepsRows
    <3>3. ToSet(<<>>) = {}
      BY DEF ToSet
    <3> QED BY <2>1, <3>2, <3>3
  <2>3. ASSUME NEW a \in Advisories, Obtainable(a)' PROVE Has(former', a, feed[a])
    <3>1. /\ begun[a] = feed[a] /\ feed[a] > 0
          /\ \E pkg \in Packages(a, feed[a]) : pkg.eco \in asked /\ <<pkg.eco, a>> \notin lost
      BY <2>1, <2>3 DEF Obtainable
    <3>2. Pending(a)
      BY <1>0, <2>1, <3>1 DEF NoneForgotten
    <3>3. Has(all, a, feed[a])
      BY <2>1, <2>2, <3>1, <3>2 DEF Pending
    <3> QED BY <2>2, <3>3, StillHas
  <2> QED BY <2>1, <2>3 DEF NoneForgotten, Has
<1>6. CASE Die
  <2>1. pc' = "idle" /\ UNCHANGED <<former, basis>>
    BY <1>6 DEF Die, Ended, fileVars
  <2> QED BY <1>f, <2>1 DEF NoneForgotten
<1>7. CASE UNCHANGED vars
  <2>1. UNCHANGED <<feed, pc, left, dump, all, former, begun, asked, lost, basis>>
    BY <1>7 DEF vars, importVars, fileVars
  <2>2. \A a \in Advisories : Pending(a) => Pending(a)'
    BY <2>1 DEF Pending, Has
  <2> QED BY <1>0, <1>f, <2>1, <2>2 DEF NoneForgotten
<1> QED
  BY <1>1, <1>2, <1>3, <1>4, <1>5, <1>6, <1>7 DEF Next

\* An import tears the file, and only its end makes it whole.
LEMMA StepOneFile == OInv /\ [Next]_vars => OneFile'
<1> SUFFICES ASSUME OInv, [Next]_vars PROVE OneFile'
  OBVIOUS
<1> USE DEF OneFile, OInv
<1>1. CASE UNCHANGED fileVars
  BY <1>1 DEF fileVars
<1>2. CASE Start
  BY <1>2, DaysAssumption DEF Start
<1>3. CASE Emit
  BY <1>3, DaysAssumption DEF Emit
<1> QED
  BY <1>1, <1>2, <1>3 DEF Next, vars, Publish, FetchEcosystem, FetchFails, Convert, Die

LEMMA OInvariant == Spec => []OInv
<1>1. OInv /\ [Next]_vars => OInv'
  BY StepTypes, StepWarranted, StepNoneForgotten, StepOneFile DEF OInv
<1> QED
  BY <1>1, OInit, PTL DEF Spec

LEMMA TypesHold == OInv => TypeOK
<1> SUFFICES ASSUME OInv PROVE TypeOK
  OBVIOUS
<1>0. OTypes
  BY DEF OInv
<1>1. /\ feed \in [Advisories -> Nat] /\ begun \in [Advisories -> Nat]
      /\ \A a \in Advisories : feed[a] <= Len(Revisions[a])
  BY <1>0 DEF OTypes, Feeds
<1>2. ASSUME NEW m \in dump
      PROVE  m[1] \in Advisories /\ m[2] \in begun[m[1]]..feed[m[1]] /\ m[2] > 0
  <2>1. PICK a \in Advisories : m = <<a, feed[a]>> /\ feed[a] > 0
    BY <1>0, <1>2 DEF OTypes
  <2>2. pc = "import"
    BY <1>0, <1>2 DEF OTypes
  <2>3. begun[a] <= feed[a] /\ begun[a] \in Nat /\ feed[a] \in Nat
    BY <1>0, <1>1, <2>2 DEF OTypes
  <2> QED BY <2>1, <2>3
<1>3. OneFile /\ <<>> \in Seq(Rows)
  BY DEF OInv
<1> QED
  BY <1>0, <1>1, <1>2, <1>3 DEF OTypes, TypeOK, OneFile

\* For every allowlist, feed and order of the downloads: the variables keep their
\* types, and what is being converted was shown while the import ran.
THEOREM TypeCorrect == Spec => []TypeOK
  BY OInvariant, TypesHold, PTL

\* A row of the file is one of the import that wrote it.
LEMMA RowsOfFormer ==
  ASSUME OInv, NEW i \in DOMAIN catalog PROVE catalog = former
BY DEF OInv, OneFile

LEMMA RowsHold == OInv => RowsAreWarranted
<1> SUFFICES ASSUME OInv, NEW i \in DOMAIN catalog
             PROVE  LET r == catalog[i] IN
                    \E n \in Shown(r.rule) : \E pkg \in Packages(r.rule, n) :
                      /\ <<pkg.eco, pkg.name>> \in Listed /\ pkg.eco \in Ecosystems
                      /\ r = Row(r.rule, pkg)
  BY DEF RowsAreWarranted
<1>1. catalog[i] \in ToSet(former)
  BY RowsOfFormer DEF ToSet
<1>2. Warranted(catalog[i], basis.begun, basis.ended)
  BY <1>1 DEF OInv, AllWarranted
<1> QED
  BY <1>2 DEF Warranted, Shown

\* For every allowlist, feed and sequence of imports, with every download that fails
\* and every member that cannot be read: a row of the catalog is about a listed
\* package and comes from a revision shown while the import that wrote it ran.
THEOREM EveryRowIsWarranted == Spec => []RowsAreWarranted
  BY OInvariant, RowsHold, PTL

LEMMA CompleteHolds == OInv => CatalogIsComplete
<1> SUFFICES ASSUME OInv, file # 0, NEW a \in Advisories, Obtainable(a),
                    NEW pkg \in Packages(a, basis.ended[a]),
                    pkg.eco \in Ecosystems, <<pkg.eco, pkg.name>> \in Listed,
                    RangesToConstraint(pkg.ranges) # {}, Lower[pkg.eco] = Ours[pkg.eco]
             PROVE  Row(a, pkg) \in ToSet(catalog)
  BY DEF CatalogIsComplete, Complete, Wanted
<1> DEFINE n == basis.ended[a]
<1>1. n \in Nat /\ n > 0 /\ n <= Len(Revisions[a])
  BY DEF OInv, OTypes, Feeds, Obtainable
<1>2. Has(catalog, a, n)
  BY DEF OInv, NoneForgotten, OneFile
<1>3. Known(pkg)
  BY <1>1, RevisionTypes, KnownIsListed
<1>4. IsCryptoRelevant(Revisions[a][n])
  BY <1>3 DEF IsCryptoRelevant, Packages, ToSet
<1>5. Keep(pkg)
  BY <1>3 DEF Keep
<1>6. Row(a, pkg) \in ToSet(ToEntries(a, Revisions[a][n]))
  <2> HIDE DEF n
  <2> QED BY <1>1, <1>5, EntriesAreRows DEF n
<1> QED
  BY <1>2, <1>4, <1>6 DEF Has

\* For every allowlist, feed and sequence of imports, dead ones among them: an
\* advisory that did not move during the import, and is in one dump that was asked
\* for and read, has in a file that is whole all its listed packages of the ecosystems
\* with one name, whatever else failed and in whatever order the members came.
THEOREM NothingListedIsMissing == Spec => []CatalogIsComplete
  BY OInvariant, CompleteHolds, PTL

LEMMA LookupHolds == OInv => LookupAgrees
<1> SUFFICES ASSUME OInv, NEW i \in DOMAIN catalog, NEW v \in Probes
             PROVE  LET r == catalog[i]
                        hit == r \in Lookup(r.eco, r.name, v) IN
                    \E n \in Shown(r.rule) : \E pkg \in Packages(r.rule, n) :
                      /\ pkg.eco \in Ecosystems /\ r = Row(r.rule, pkg)
                      /\ LET events == pkg.ranges[SelectInSeq(pkg.ranges, Encodable)].events IN
                         AllDecided(events, v) =>
                           /\ hit => AnyAffected(pkg, v)
                           /\ OneInterval(events) /\ AffectedBy(events, v) => hit
  BY DEF LookupAgrees
<1> DEFINE r == catalog[i]
           hit == r \in Lookup(r.eco, r.name, v)
<1>1. r \in ToSet(catalog) /\ Warranted(r, basis.begun, basis.ended)
  BY RowsOfFormer DEF OInv, AllWarranted, ToSet
<1>2. v \in Written /\ v # Unpinned
  BY ProbesAssumption
<1>3. hit <=> MatchAll(r.constraints, ParseVersion(v))
  BY <1>1, <1>2 DEF Lookup
<1> HIDE DEF r, hit
<1>0. PICK n \in Shown(r.rule) :
        \E pkg \in Packages(r.rule, n) : pkg.eco \in Ecosystems /\ r = Row(r.rule, pkg)
  BY <1>1 DEF Warranted, Shown
<1>4. PICK pkg \in Packages(r.rule, n) : pkg.eco \in Ecosystems /\ r = Row(r.rule, pkg)
  BY <1>0
<1> DEFINE a == r.rule
           k == SelectInSeq(pkg.ranges, Encodable)
           events == pkg.ranges[k].events
<1>5. a \in Advisories /\ r.constraints = RangesToConstraint(pkg.ranges) /\ r.constraints # {}
  BY <1>1, <1>4 DEF Warranted, Row
<1>6. n \in Nat /\ n > 0 /\ n <= Len(Revisions[a])
  BY <1>5 DEF Shown, OInv, OTypes, Feeds
<1> HIDE DEF a
<1>7. n \in DOMAIN Revisions[a] /\ pkg \in Packages(a, n) /\ pkg.ranges \in Seq(OsvRange)
  BY <1>5, <1>6, RevisionTypes DEF a
<1>8. k \in DOMAIN pkg.ranges /\ r.constraints = Clauses(events)
  BY <1>5, <1>7, SelectedRange
<1>9. \E e \in events : e.kind = "introduced"
  BY <1>5, <1>7, <1>8, IntroducedAssumption
<1>10. events \in SUBSET Event
  <2> DEFINE s == pkg.ranges
  <2> HIDE DEF k
  <2>1. s \in Seq(OsvRange) /\ k \in DOMAIN s
    BY <1>7, <1>8
  <2> HIDE DEF s
  <2>2. s[k] \in OsvRange
    BY <2>1
  <2> QED BY <2>2 DEF OsvRange, s
<1> HIDE DEF k
<1>11. ASSUME AllDecided(events, v), hit PROVE AnyAffected(pkg, v)
  <2>1. MatchAll(Clauses(events), ParseVersion(v))
    BY <1>3, <1>8, <1>11
  <2>2. \A e \in events : Bounding(e) => Decided(e, v)
    BY <1>11 DEF AllDecided
  <2>3. AffectedBy(events, v)
    <3> HIDE DEF events
    <3> QED BY <1>2, <1>9, <1>10, <2>1, <2>2, ClausesAreSound
  <2> QED BY <1>8, <2>3 DEF AnyAffected
<1>12. ASSUME AllDecided(events, v), OneInterval(events), AffectedBy(events, v) PROVE hit
  <2>1. \A e \in events : Bounding(e) => Decided(e, v)
    BY <1>12 DEF AllDecided
  <2>2. MatchAll(Clauses(events), ParseVersion(v))
    <3> HIDE DEF events
    <3> QED BY <1>2, <1>10, <1>12, <2>1, ClausesAreComplete
  <2> QED BY <1>3, <1>8, <2>2
<1> QED
  BY <1>4, <1>11, <1>12 DEF r, hit, k

\* For every allowlist, feed and version a dependency is pinned to: the scanner
\* reports it for an advisory only if a range has the version, and does when the one
\* interval of the range has it, off the truncated bounds.
THEOREM LookupsAgree == Spec => []LookupAgrees
  BY OInvariant, LookupHolds, PTL

-----------------------------------------------------------------------------
(* An import of the same dumps writes the same file.  A row collected is known by  *)
(* its advisory, by which conversion of the advisory gave it (it has one in each   *)
(* dump it is in), and by its place in that conversion; with the feed and the      *)
(* number of conversions of each advisory these labels are the same in every       *)
(* import, and the sort does not look at anything else.                            *)

\* The rows one conversion of advisory a appends.
Gives(a, n) == IF IsCryptoRelevant(Revisions[a][n]) THEN ToEntries(a, Revisions[a][n]) ELSE <<>>

Labels(at, times) ==
  {l \in Advisories \X Nat \X Nat : l[2] \in 1..times[l[1]] /\ l[3] \in 1..Len(Gives(l[1], at[l[1]]))}

Sooner(l, m) == l[2] < m[2] \/ (l[2] = m[2] /\ l[3] < m[3])

Labelled(rows, at, times, lab) ==
  /\ lab \in Bijection(DOMAIN rows, Labels(at, times))
  /\ \A i \in DOMAIN rows : rows[i] = Gives(lab[i][1], at[lab[i][1]])[lab[i][3]]
  /\ \A i, j \in DOMAIN rows : i < j /\ lab[i][1] = lab[j][1] => Sooner(lab[i], lab[j])

LEMMA GivesRows ==
  ASSUME NEW a \in Advisories, NEW n \in Nat, n > 0, n <= Len(Revisions[a])
  PROVE  Gives(a, n) \in Seq(Rows) /\ \A p \in DOMAIN Gives(a, n) : Gives(a, n)[p].rule = a
<1> DEFINE s == ToEntries(a, Revisions[a][n])
<1>1. s \in Seq(Rows) /\ \A r \in ToSet(s) : r.rule = a
  BY EntriesAreRows
<1>2. Gives(a, n) = s \/ Gives(a, n) = <<>>
  BY DEF Gives
<1> HIDE DEF s
<1>3. \A p \in DOMAIN s : s[p].rule = a
  BY <1>1 DEF ToSet
<1>4. <<>> \in Seq(Rows) /\ DOMAIN <<>> = {}
  OBVIOUS
<1> QED
  BY <1>1, <1>2, <1>3, <1>4

\* Two lists with the same labels are sorted into the same file.
LEMMA SameLabelsSameFile ==
  ASSUME NEW rows \in Seq(Rows), NEW more \in Seq(Rows), NEW at, NEW times, NEW lab, NEW lab2,
         \A l \in Labels(at, times) : Gives(l[1], at[l[1]])[l[3]].rule = l[1],
         Labelled(rows, at, times, lab), Labelled(more, at, times, lab2)
  PROVE  Sorted(rows) = Sorted(more)
<1> DEFINE I == DOMAIN rows
           J == DOMAIN more
           L == Labels(at, times)
           f == [i \in I |-> CHOOSE j \in J : lab2[j] = lab[i]]
<1>1. /\ lab \in [I -> L] /\ lab2 \in [J -> L]
      /\ \A i, j \in I : lab[i] = lab[j] => i = j
      /\ \A i, j \in J : lab2[i] = lab2[j] => i = j
      /\ \A l \in L : (\E i \in I : lab[i] = l) /\ \E j \in J : lab2[j] = l
  BY DEF Labelled, Bijection, Injection, IsInjective, Surjection
<1>2. I = 1..Len(rows) /\ Len(rows) \in Nat /\ J = 1..Len(more) /\ Len(more) \in Nat
  OBVIOUS
<1>3. \A i \in I : f[i] \in J /\ lab2[f[i]] = lab[i]
  <2> HIDE DEF I, J, L
  <2> QED BY <1>1
<1>4. /\ \A i \in I : rows[i] = Gives(lab[i][1], at[lab[i][1]])[lab[i][3]]
      /\ \A j \in J : more[j] = Gives(lab2[j][1], at[lab2[j][1]])[lab2[j][3]]
  BY DEF Labelled
<1>5. \A i \in I : rows[i] = more[f[i]]
  <2> HIDE DEF I, J, f
  <2> QED BY <1>3, <1>4
<1>6. /\ \A i, j \in I : i < j /\ lab[i][1] = lab[j][1] => Sooner(lab[i], lab[j])
      /\ \A i, j \in J : i < j /\ lab2[i][1] = lab2[j][1] => Sooner(lab2[i], lab2[j])
  BY DEF Labelled
<1>7. \A l \in L : l[1] \in Advisories /\ l[2] \in Nat /\ l[3] \in 1..Len(Gives(l[1], at[l[1]])) /\ l[3] \in Nat
  BY DEF Labels
<1>8. \A i \in I : rows[i] \in Rows /\ rows[i].rule = lab[i][1]
  <2>1. \A i \in I : rows[i] \in Rows
    OBVIOUS
  <2> HIDE DEF I, L
  <2> SUFFICES ASSUME NEW i \in I PROVE rows[i].rule = lab[i][1]
    BY <2>1
  <2> DEFINE l == lab[i]
  <2>2. l \in L
    BY <1>1
  <2> HIDE DEF l
  <2>3. Gives(l[1], at[l[1]])[l[3]].rule = l[1]
    BY <2>2 DEF L
  <2>4. rows[i] = Gives(l[1], at[l[1]])[l[3]]
    BY <1>4 DEF l
  <2> QED BY <2>3, <2>4 DEF l
<1> HIDE DEF f, I, J, L
<1>9. f \in Bijection(I, J)
  <2>1. f \in [I -> J]
    BY <1>3 DEF f
  <2>2. \A i, j \in I : f[i] = f[j] => i = j
    BY <1>1, <1>3
  <2>3. ASSUME NEW j \in J PROVE \E i \in I : f[i] = j
    <3>1. PICK i \in I : lab[i] = lab2[j]
      BY <1>1
    <3> QED BY <1>1, <1>3, <3>1
  <2> QED BY <2>1, <2>2, <2>3 DEF Bijection, Injection, IsInjective, Surjection
<1>10. ASSUME NEW i \in I, NEW j \in I
       PROVE  Precedes(rows, i, j) <=> Precedes(more, f[i], f[j])
  <2>1. rows[i] = more[f[i]] /\ rows[j] = more[f[j]] /\ f[i] \in J /\ f[j] \in J
    BY <1>3, <1>5
  <2>2. ASSUME Key(rows[i]) = Key(rows[j]) PROVE i < j <=> f[i] < f[j]
    <3>1. lab[i][1] = lab[j][1]
      BY <1>8, <2>2, RankAssumption DEF Key
    <3>2. lab2[f[i]] = lab[i] /\ lab2[f[j]] = lab[j] /\ lab[i] \in L /\ lab[j] \in L
      BY <1>1, <1>3
    <3>3. ~(Sooner(lab[i], lab[j]) /\ Sooner(lab[j], lab[i]))
      BY <1>7, <3>2 DEF Sooner
    <3>4. i < j => Sooner(lab[i], lab[j])
      BY <1>6, <3>1
    <3>5. j < i => Sooner(lab[j], lab[i])
      BY <1>6, <3>1
    <3>6. f[i] < f[j] => Sooner(lab[i], lab[j])
      BY <1>6, <2>1, <3>1, <3>2
    <3>7. f[j] < f[i] => Sooner(lab[j], lab[i])
      BY <1>6, <2>1, <3>1, <3>2
    <3>8. i # j => f[i] # f[j]
      BY <1>1, <3>2
    <3>9. i \in Nat /\ j \in Nat /\ f[i] \in Nat /\ f[j] \in Nat
      BY <1>2, <2>1
    <3> QED BY <3>3, <3>4, <3>5, <3>6, <3>7, <3>8, <3>9
  <2>3. Precedes(rows, i, j) <=>
          Less(Key(rows[i]), Key(rows[j])) \/ (Key(rows[i]) = Key(rows[j]) /\ i < j)
    BY DEF Precedes
  <2>4. Precedes(more, f[i], f[j]) <=>
          Less(Key(rows[i]), Key(rows[j])) \/ (Key(rows[i]) = Key(rows[j]) /\ f[i] < f[j])
    BY <2>1 DEF Precedes
  <2> QED BY <2>2, <2>3, <2>4
<1>11. ASSUME NEW i \in I PROVE Place(rows, i) = Place(more, f[i])
  <2> DEFINE S == {j \in I : Precedes(rows, j, i)}
             T == {j \in J : Precedes(more, j, f[i])}
             g == [j \in S |-> f[j]]
  <2>1. /\ f \in [I -> J] /\ \A k, l \in I : f[k] = f[l] => k = l
        /\ \A j \in J : \E k \in I : f[k] = j
    BY <1>9 DEF Bijection, Injection, IsInjective, Surjection
  <2>2. S \subseteq I /\ \A j \in I : j \in S <=> f[j] \in T
    BY <1>10, <2>1
  <2>3. IsFiniteSet(S)
    <3>1. IsFiniteSet(I)
      BY <1>2, FS_Interval
    <3> HIDE DEF S
    <3> QED BY <2>2, <3>1, FS_Subset
  <2>4. T \subseteq J
    OBVIOUS
  <2> HIDE DEF S, T
  <2>5. g \in Bijection(S, T)
    <3>1. g \in [S -> T] /\ \A k \in S : g[k] = f[k]
      BY <2>2
    <3> HIDE DEF g
    <3>2. \A k, l \in S : g[k] = g[l] => k = l
      BY <2>1, <2>2, <3>1
    <3>3. \A j \in T : \E k \in S : g[k] = j
      BY <2>1, <2>2, <2>4, <3>1
    <3> QED BY <3>1, <3>2, <3>3 DEF Bijection, Injection, IsInjective, Surjection
  <2> HIDE DEF g
  <2>6. Cardinality(T) = Cardinality(S)
    BY <2>3, <2>5, FS_Bijection DEF ExistsBijection
  <2>7. Place(rows, i) = 1 + Cardinality(S) /\ Place(more, f[i]) = 1 + Cardinality(T)
    BY DEF Place, S, T, I, J
  <2> QED BY <2>6, <2>7
<1>12. I = J
  <2>0. \A n \in Nat : IsFiniteSet(1..n) /\ Cardinality(1..n) = n
    BY FS_Interval
  <2>1. IsFiniteSet(I) /\ Cardinality(I) = Len(rows)
    BY <1>2, <2>0
  <2>2. Cardinality(J) = Len(more)
    BY <1>2, <2>0
  <2>3. Cardinality(J) = Cardinality(I)
    BY <1>9, <2>1, FS_Bijection DEF ExistsBijection
  <2> QED BY <1>2, <2>1, <2>2, <2>3
<1>13. PICK from \in Bijection(I, I) :
         /\ Sorted(rows) = [k \in I |-> rows[from[k]]]
         /\ \A k \in I : Place(rows, from[k]) = k
  BY PlacesAreTaken DEF I
<1>14. PICK from2 \in Bijection(J, J) :
         /\ Sorted(more) = [k \in J |-> more[from2[k]]]
         /\ \A k \in J : Place(more, from2[k]) = k
  BY PlacesAreTaken DEF J
<1>15. ASSUME NEW k \in I PROVE rows[from[k]] = more[from2[k]]
  <2>1. from[k] \in I /\ Place(rows, from[k]) = k
    BY <1>13 DEF Bijection, Injection
  <2>2. f[from[k]] \in J /\ Place(more, f[from[k]]) = k
    BY <1>3, <1>11, <2>1
  <2>3. PICK l \in J : from2[l] = f[from[k]]
    BY <2>2 DEF Bijection, Surjection
  <2>4. l = k
    BY <1>14, <2>2, <2>3
  <2> QED BY <1>5, <2>1, <2>3, <2>4
<1> QED
  BY <1>12, <1>13, <1>14, <1>15

\* One more conversion of an advisory: its rows get the next number.
LEMMA OneMoreConversion ==
  ASSUME NEW rows \in Seq(Rows), NEW at, NEW times \in [Advisories -> Nat], NEW lab,
         NEW a \in Advisories, Gives(a, at[a]) \in Seq(Rows), Labelled(rows, at, times, lab)
  PROVE  \E more : Labelled(rows \o Gives(a, at[a]), at, [times EXCEPT ![a] = @ + 1], more)
<1> DEFINE g == Gives(a, at[a])
           n == Len(rows)
           new == rows \o g
           later == [times EXCEPT ![a] = @ + 1]
           more == [i \in 1..(n + Len(g)) |-> IF i <= n THEN lab[i] ELSE <<a, times[a] + 1, i - n>>]
           L == Labels(at, times)
           M == Labels(at, later)
<1>1. /\ lab \in [DOMAIN rows -> L]
      /\ \A i, j \in DOMAIN rows : lab[i] = lab[j] => i = j
      /\ \A l \in L : \E i \in DOMAIN rows : lab[i] = l
      /\ \A i \in DOMAIN rows : rows[i] = Gives(lab[i][1], at[lab[i][1]])[lab[i][3]]
      /\ \A i, j \in DOMAIN rows : i < j /\ lab[i][1] = lab[j][1] => Sooner(lab[i], lab[j])
  BY DEF Labelled, Bijection, Injection, IsInjective, Surjection
<1>2. \A l : l \in L <=> /\ l \in Advisories \X Nat \X Nat /\ l[2] \in 1..times[l[1]]
                         /\ l[3] \in 1..Len(Gives(l[1], at[l[1]]))
  BY DEF Labels
<1>3. \A l : l \in M <=> /\ l \in Advisories \X Nat \X Nat /\ l[2] \in 1..later[l[1]]
                         /\ l[3] \in 1..Len(Gives(l[1], at[l[1]]))
  BY DEF Labels
<1>4. /\ times[a] \in Nat /\ later \in [Advisories -> Nat]
      /\ \A b \in Advisories : /\ later[b] = IF b = a THEN times[a] + 1 ELSE times[b]
                              /\ times[b] \in Nat
  OBVIOUS
<1> HIDE DEF L, M, later
<1>5. L \subseteq M
  <2> SUFFICES ASSUME NEW l \in L PROVE l \in M
    OBVIOUS
  <2>1. /\ l \in Advisories \X Nat \X Nat /\ l[2] \in 1..times[l[1]]
        /\ l[3] \in 1..Len(Gives(l[1], at[l[1]])) /\ l[1] \in Advisories
    BY <1>2
  <2> DEFINE b == l[1]
  <2>2. b \in Advisories
    BY <2>1
  <2> HIDE DEF b
  <2>3. times[b] \in Nat /\ times[b] <= later[b] /\ later[b] \in Nat
    <3>1. CASE b = a
      BY <1>4, <3>1
    <3>2. CASE b # a
      <4>1. later[b] = times[b] /\ times[b] \in Nat
        BY <1>4, <2>2, <3>2
      <4> QED BY <4>1
    <3> QED BY <3>1, <3>2
  <2>4. l[2] \in 1..later[l[1]]
    BY <2>1, <2>3 DEF b
  <2> QED BY <1>3, <2>1, <2>4
<1>6. \A q \in 1..Len(g) : <<a, times[a] + 1, q>> \in M \ L
  <2> SUFFICES ASSUME NEW q \in 1..Len(g) PROVE <<a, times[a] + 1, q>> \in M \ L
    OBVIOUS
  <2>1. <<a, times[a] + 1, q>> \in Advisories \X Nat \X Nat
    BY <1>4
  <2>2. times[a] + 1 \in 1..later[a] /\ times[a] + 1 \notin 1..times[a]
    BY <1>4
  <2> DEFINE l == <<a, times[a] + 1, q>>
  <2>3. l[1] = a /\ l[2] = times[a] + 1 /\ l[3] \in 1..Len(Gives(l[1], at[l[1]]))
    OBVIOUS
  <2> HIDE DEF l, g
  <2>4. l \in M
    BY <1>3, <2>1, <2>2, <2>3 DEF l
  <2>5. l \notin L
    BY <1>2, <2>2, <2>3
  <2> QED BY <2>4, <2>5 DEF l
<1>7. ASSUME NEW l \in M, l \notin L
      PROVE  \E q \in 1..Len(g) : l = <<a, times[a] + 1, q>>
  <2>1. l \in Advisories \X Nat \X Nat /\ l[2] \in 1..later[l[1]] /\ l[3] \in 1..Len(Gives(l[1], at[l[1]]))
    BY <1>3, <1>7
  <2>2. l[2] \notin 1..times[l[1]]
    BY <1>2, <1>7, <2>1
  <2>3. l[1] = a
    BY <1>4, <2>1, <2>2
  <2>4. l[2] = times[a] + 1
    BY <1>4, <2>1, <2>2, <2>3
  <2>5. l[3] \in 1..Len(g) /\ l = <<l[1], l[2], l[3]>>
    BY <2>1, <2>3
  <2> HIDE DEF g
  <2> QED BY <2>3, <2>4, <2>5
<1>8. /\ n \in Nat /\ DOMAIN rows = 1..n /\ Len(g) \in Nat /\ DOMAIN g = 1..Len(g)
      /\ DOMAIN new = 1..(n + Len(g))
      /\ \A i \in 1..(n + Len(g)) : new[i] = IF i <= n THEN rows[i] ELSE g[i - n]
  OBVIOUS
<1>9. DOMAIN more = 1..(n + Len(g))
      /\ \A i \in 1..(n + Len(g)) : more[i] = IF i <= n THEN lab[i] ELSE <<a, times[a] + 1, i - n>>
  OBVIOUS
<1> HIDE DEF n, new
<1>10. ASSUME NEW i \in 1..(n + Len(g))
       PROVE  \/ i \in DOMAIN rows /\ i <= n /\ more[i] = lab[i] /\ new[i] = rows[i] /\ lab[i] \in L
              \/ /\ i > n /\ i - n \in 1..Len(g) /\ new[i] = g[i - n]
                 /\ more[i] = <<a, times[a] + 1, i - n>> /\ more[i] \in M \ L
  <2>1. CASE i <= n
    BY <1>1, <1>8, <1>9, <2>1
  <2>2. CASE ~(i <= n)
    <3>1. i > n /\ i - n \in 1..Len(g)
      BY <1>8, <2>2
    <3>2. new[i] = g[i - n] /\ more[i] = <<a, times[a] + 1, i - n>>
      BY <1>8, <1>9, <2>2
    <3> HIDE DEF g, more
    <3> QED BY <1>6, <3>1, <3>2
  <2> QED BY <2>1, <2>2
<1>17. \A i \in DOMAIN new :
         /\ i \in Nat /\ (i <= n \/ i > n)
         /\ i <= n => i \in DOMAIN rows /\ more[i] = lab[i] /\ lab[i] \in L
         /\ i > n => more[i] = <<a, times[a] + 1, i - n>> /\ more[i] \notin L
  <2> SUFFICES ASSUME NEW i \in DOMAIN new
               PROVE  /\ i \in Nat /\ (i <= n \/ i > n)
                      /\ i <= n => i \in DOMAIN rows /\ more[i] = lab[i] /\ lab[i] \in L
                      /\ i > n => more[i] = <<a, times[a] + 1, i - n>> /\ more[i] \notin L
    OBVIOUS
  <2>1. i \in 1..(n + Len(g)) /\ i \in Nat /\ (i <= n \/ i > n) /\ ~(i <= n /\ i > n)
    BY <1>8
  <2> HIDE DEF g, more
  <2> QED BY <1>10, <2>1
<1>11. more \in [DOMAIN new -> M]
  <2>1. \A i \in 1..(n + Len(g)) : more[i] \in M
    BY <1>5, <1>10
  <2> QED BY <1>8, <2>1
<1> HIDE DEF more
<1>12. ASSUME NEW i \in DOMAIN new, NEW j \in DOMAIN new, more[i] = more[j] PROVE i = j
  <2>0. i \in 1..(n + Len(g)) /\ j \in 1..(n + Len(g)) /\ i \in Nat /\ j \in Nat
    BY <1>8
  <2>1. CASE i <= n
    <3>1. more[i] \in L /\ more[i] = lab[i] /\ i \in DOMAIN rows
      BY <1>17, <2>1
    <3>2. more[j] = lab[j] /\ j \in DOMAIN rows
      BY <1>12, <1>17, <3>1
    <3> QED BY <1>1, <1>12, <3>1, <3>2
  <2>2. CASE i > n
    <3>1. more[i] = <<a, times[a] + 1, i - n>> /\ more[i] \notin L
      BY <1>17, <2>2
    <3>2. more[j] = <<a, times[a] + 1, j - n>>
      BY <1>12, <1>17, <3>1
    <3>3. more[i][3] = i - n /\ more[j][3] = j - n
      BY <3>1, <3>2
    <3>4. n \in Nat
      BY <1>8
    <3> QED BY <1>12, <2>0, <3>3, <3>4
  <2> QED BY <1>17, <2>1, <2>2
<1>13. ASSUME NEW l \in M PROVE \E i \in DOMAIN new : more[i] = l
  <2>1. CASE l \in L
    <3>1. PICK i \in DOMAIN rows : lab[i] = l
      BY <1>1, <2>1
    <3>2. i \in 1..(n + Len(g)) /\ i <= n
      BY <1>8
    <3> QED BY <1>8, <1>9, <3>1, <3>2
  <2>2. CASE l \notin L
    <3>1. PICK q \in 1..Len(g) : l = <<a, times[a] + 1, q>>
      BY <1>7, <2>2
    <3>0. n + q \in 1..(n + Len(g)) /\ ~(n + q <= n) /\ n + q - n = q
      BY <1>8
    <3>2. \E i \in 1..(n + Len(g)) : ~(i <= n) /\ i - n = q
      <4>1. n \in Nat /\ q \in Nat
        BY <1>8
      <4> HIDE DEF g
      <4> QED BY <3>0, <4>1
    <3>4. PICK i \in 1..(n + Len(g)) : ~(i <= n) /\ i - n = q
      BY <3>2
    <3>3. more[i] = <<a, times[a] + 1, i - n>>
      <4> HIDE DEF g
      <4> QED BY <1>9, <3>4
    <3> QED BY <1>8, <3>1, <3>3, <3>4
  <2> QED BY <2>1, <2>2
<1>14. ASSUME NEW i \in DOMAIN new PROVE new[i] = Gives(more[i][1], at[more[i][1]])[more[i][3]]
  <2>0. i \in 1..(n + Len(g))
    BY <1>8
  <2>1. CASE i \in DOMAIN rows /\ more[i] = lab[i] /\ new[i] = rows[i]
    BY <1>1, <2>1
  <2>2. CASE new[i] = g[i - n] /\ more[i] = <<a, times[a] + 1, i - n>>
    <3>1. more[i][1] = a /\ more[i][3] = i - n
      BY <2>2
    <3> QED BY <2>2, <3>1
  <2> QED BY <1>10, <2>0, <2>1, <2>2
<1>15. ASSUME NEW i \in DOMAIN new, NEW j \in DOMAIN new, i < j, more[i][1] = more[j][1]
       PROVE  Sooner(more[i], more[j])
  <2>0. i \in 1..(n + Len(g)) /\ j \in 1..(n + Len(g)) /\ i \in Nat /\ j \in Nat
    BY <1>8
  <2> HIDE DEF g
  <2>3. n \in Nat
    BY <1>8
  <2>1. CASE j <= n
    <3>1. i <= n
      BY <1>15, <2>0, <2>1, <2>3
    <3>2. more[i] = lab[i] /\ more[j] = lab[j] /\ i \in DOMAIN rows /\ j \in DOMAIN rows
      BY <1>17, <2>1, <3>1
    <3> QED BY <1>1, <1>15, <3>2
  <2>2. CASE j > n /\ i <= n
    <3>1. more[i] \in L /\ more[j] = <<a, times[a] + 1, j - n>>
      BY <1>17, <2>2
    <3>2. more[i][1] = a /\ more[i][2] \in 1..times[a]
      BY <1>2, <1>15, <3>1
    <3> QED BY <1>4, <3>1, <3>2 DEF Sooner
  <2>4. CASE j > n /\ i > n
    <3>1. more[i] = <<a, times[a] + 1, i - n>> /\ more[j] = <<a, times[a] + 1, j - n>>
      BY <1>17, <2>4
    <3>2. i - n < j - n
      BY <1>15, <2>0, <2>3
    <3> QED BY <3>1, <3>2 DEF Sooner
  <2> QED BY <1>17, <2>1, <2>2, <2>4
<1>16. more \in Bijection(DOMAIN new, M)
  BY <1>11, <1>12, <1>13 DEF Bijection, Injection, IsInjective, Surjection
<1> QED
  BY <1>14, <1>15, <1>16 DEF Labelled, new, later, M

\* The dumps, among those of the ecosystems given, that advisory a was got from.
Holders(a, at, among, out) ==
  {e \in among : <<e, a>> \notin out /\ at[a] > 0 /\ \E pkg \in Packages(a, at[a]) : pkg.eco = e}

\* The rows are those of one conversion per dump of each advisory, but for the
\* advisories that are still due one.
Counted(rows, at, due, among, out, times, lab) ==
  /\ times \in [Advisories -> Nat]
  /\ Labelled(rows, at, times, lab)
  /\ \A a \in Advisories :
       times[a] + (IF a \in due THEN 1 ELSE 0) = Cardinality(Holders(a, at, among, out))

Due == {a \in Advisories : <<a, feed[a]>> \in dump}

\* An ecosystem that is left to download was not read before, and lost nothing.
NoneTwice ==
  /\ IsInjective(left) /\ asked \subseteq Ecosystems /\ ToSet(left) \subseteq Ecosystems
  /\ pc = "import" => ToSet(left) \subseteq asked
  /\ \A e \in ToSet(left), a \in Advisories : <<e, a>> \notin lost
  /\ pc = "idle" => lost = {}

Collecting ==
  pc = "import" /\ begun = feed =>
    \E times, lab : Counted(all, feed, Due, asked \ ToSet(left), lost, times, lab)

Filed ==
  basis.begun = basis.ended =>
    \E rows \in Seq(Rows) : \E times, lab :
      /\ former = Sorted(rows)
      /\ Counted(rows, basis.ended, {}, basis.asked, basis.lost, times, lab)

QInv == NoneTwice /\ Collecting /\ Filed

\* Nothing collected, nothing converted.
LEMMA NothingCounted ==
  ASSUME NEW at, NEW out
  PROVE  \E times, lab : Counted(<<>>, at, {}, {}, out, times, lab)
<1> DEFINE times == [a \in Advisories |-> 0]
           lab == [i \in {} |-> 0]
<1>1. times \in [Advisories -> Nat] /\ \A a \in Advisories : times[a] = 0
  OBVIOUS
<1>2. Labels(at, times) = {}
  BY <1>1 DEF Labels
<1>3. DOMAIN <<>> = {}
  OBVIOUS
<1>4. lab \in Bijection({}, {})
  BY DEF Bijection, Injection, IsInjective, Surjection
<1>5. Labelled(<<>>, at, times, lab)
  BY <1>2, <1>3, <1>4 DEF Labelled
<1>6. \A a : Holders(a, at, {}, out) = {}
  BY DEF Holders
<1> HIDE DEF times, lab
<1>7. \A a \in Advisories :
        times[a] + (IF a \in {} THEN 1 ELSE 0) = Cardinality(Holders(a, at, {}, out))
  <2> SUFFICES ASSUME NEW a \in Advisories PROVE times[a] = Cardinality(Holders(a, at, {}, out))
    BY <1>1
  <2>1. Cardinality(Holders(a, at, {}, out)) = 0
    BY <1>6, FS_EmptySet
  <2> QED BY <1>1, <2>1
<1> QED
  BY <1>1, <1>5, <1>7 DEF Counted

LEMMA QInit == ASSUME Init PROVE QInv
<1>1. ToSet(<<>>) = {} /\ IsInjective(<<>>)
  BY DEF ToSet, IsInjective
<1>2. NoneTwice
  BY <1>1 DEF Init, NoneTwice
<1>3. Collecting
  BY DEF Init, Collecting
<1>4. Sorted(<<>>) = <<>> /\ <<>> \in Seq(Rows)
  <2>0. <<>> \in Seq(Rows)
    OBVIOUS
  <2>1. Sorted(<<>>) \in Seq(Rows) /\ ToSet(Sorted(<<>>)) = ToSet(<<>>)
    BY <2>0, SortedKeepsRows
  <2> DEFINE s == Sorted(<<>>)
  <2> HIDE DEF s
  <2>2. s \in Seq(Rows) /\ ToSet(s) = {}
    BY <1>1, <2>1 DEF s
  <2>3. DOMAIN s = {}
    BY <2>2 DEF ToSet
  <2>4. s = <<>>
    BY <2>2, <2>3
  <2> QED BY <2>4 DEF s
<1>5. Filed
  <2>1. former = <<>> /\ basis.asked = {}
    BY DEF Init
  <2>2. \E times, lab : Counted(<<>>, basis.ended, {}, {}, basis.lost, times, lab)
    BY NothingCounted
  <2> QED BY <1>4, <2>1, <2>2 DEF Filed
<1> QED
  BY <1>2, <1>3, <1>5 DEF QInv

LEMMA EcosystemsAreFinite == IsFiniteSet(Ecosystems)
<1> DEFINE s == <<"PyPI", "npm", "Go", "Maven", "crates.io", "RubyGems", "Packagist", "NuGet">>
<1>1. s \in [1..8 -> Ecosystems] /\ \A e \in Ecosystems : \E i \in 1..8 : s[i] = e
  BY DEF Ecosystems
<1>2. s \in Surjection(1..8, Ecosystems)
  <2> HIDE DEF s
  <2> QED BY <1>1 DEF Surjection
<1>3. IsFiniteSet(1..8)
  <2>1. \A n \in Nat : IsFiniteSet(1..n)
    BY FS_Interval
  <2> QED BY <2>1
<1> HIDE DEF s
<1> QED
  BY <1>2, <1>3, FS_Surjection

LEMMA HeadIsOnlyFirst ==
  ASSUME NEW S, NEW s \in Seq(S), s # <<>>, IsInjective(s)
  PROVE  /\ ToSet(s) = {Head(s)} \cup ToSet(Tail(s))
         /\ Head(s) \notin ToSet(Tail(s)) /\ IsInjective(Tail(s))
<1>1. /\ DOMAIN s = 1..Len(s) /\ Len(s) \in Nat /\ Len(s) > 0 /\ Head(s) = s[1]
      /\ DOMAIN Tail(s) = 1..(Len(s) - 1) /\ \A i \in 1..(Len(s) - 1) : Tail(s)[i] = s[i + 1]
  OBVIOUS
<1>2. \A i \in 1..(Len(s) - 1) : i + 1 \in 1..Len(s) /\ i + 1 # 1
  BY <1>1
<1>3. 1 \in 1..Len(s)
  BY <1>1
<1> DEFINE t == Tail(s)
<1> HIDE DEF t
<1>4. DOMAIN t = 1..(Len(s) - 1) /\ \A i \in 1..(Len(s) - 1) : t[i] = s[i + 1]
  BY <1>1 DEF t
<1>5. Head(s) \notin ToSet(t)
  BY <1>1, <1>2, <1>3, <1>4 DEF ToSet, IsInjective
<1>6. ToSet(t) \subseteq ToSet(s) /\ Head(s) \in ToSet(s)
  <2>1. Head(s) \in ToSet(s)
    BY <1>1, <1>3 DEF ToSet
  <2>2. \A i \in DOMAIN t : t[i] = s[i + 1] /\ i + 1 \in DOMAIN s
    BY <1>1, <1>2, <1>4
  <2> QED BY <2>1, <2>2 DEF ToSet
<1>7. ToSet(s) \subseteq {Head(s)} \cup ToSet(t)
  BY HeadAndTail DEF t
<1>8. ASSUME NEW i \in DOMAIN t, NEW j \in DOMAIN t, t[i] = t[j] PROVE i = j
  <2>1. s[i + 1] = s[j + 1] /\ i + 1 \in DOMAIN s /\ j + 1 \in DOMAIN s
    BY <1>1, <1>2, <1>4, <1>8
  <2>2. i + 1 = j + 1
    BY <2>1 DEF IsInjective
  <2> QED BY <1>1, <1>4, <2>2
<1>9. IsInjective(t)
  BY <1>8 DEF IsInjective
<1> QED
  BY <1>5, <1>6, <1>7, <1>9 DEF t

\* A download, whole or in part or not at all, adds its ecosystem to the dumps each
\* advisory was got from, or to those that were lost.
LEMMA DownloadCounts ==
  ASSUME NEW rows, NEW at, NEW among, IsFiniteSet(among), NEW e, e \notin among,
         NEW out, NEW skipped, NEW due,
         \A a \in Advisories : <<e, a>> \notin out,
         \A a \in Advisories : a \in due <=>
           a \notin skipped /\ at[a] > 0 /\ \E pkg \in Packages(a, at[a]) : pkg.eco = e,
         NEW times, NEW lab, Counted(rows, at, {}, among, out, times, lab)
  PROVE  Counted(rows, at, due, among \cup {e}, out \cup ({e} \X skipped), times, lab)
<1> DEFINE H(a) == Holders(a, at, among, out)
           G(a) == Holders(a, at, among \cup {e}, out \cup ({e} \X skipped))
<1> SUFFICES ASSUME NEW a \in Advisories
             PROVE  times[a] + (IF a \in due THEN 1 ELSE 0) = Cardinality(G(a))
  BY DEF Counted
<1>1. times[a] \in Nat /\ times[a] = Cardinality(H(a))
  BY DEF Counted
<1>2. \A x : <<x, a>> \in {e} \X skipped <=> x = e /\ a \in skipped
  OBVIOUS
<1>3. G(a) = IF a \in due THEN H(a) \cup {e} ELSE H(a)
  <2>1. \A x \in among : x \in G(a) <=> x \in H(a)
    BY <1>2 DEF Holders
  <2>2. e \in G(a) <=> a \in due
    BY <1>2 DEF Holders
  <2>3. H(a) \subseteq among /\ G(a) \subseteq among \cup {e}
    BY DEF Holders
  <2> DEFINE X == H(a)
             Y == G(a)
  <2>4. /\ \A x \in among : x \in Y <=> x \in X
        /\ e \in Y <=> a \in due
        /\ X \subseteq among /\ Y \subseteq among \cup {e}
    BY <2>1, <2>2, <2>3
  <2> HIDE DEF X, Y
  <2>5. CASE a \in due
    <3>1. Y = X \cup {e}
      BY <2>4, <2>5
    <3> QED BY <2>5, <3>1 DEF X, Y
  <2>6. CASE a \notin due
    <3>1. Y = X
      BY <2>4, <2>6
    <3> QED BY <2>6, <3>1 DEF X, Y
  <2> QED BY <2>5, <2>6
<1>4. H(a) \in SUBSET among
  BY DEF Holders
<1> HIDE DEF H, G
<1>5. IsFiniteSet(H(a)) /\ e \notin H(a)
  BY <1>4, FS_Subset
<1>6. Cardinality(H(a) \cup {e}) = Cardinality(H(a)) + 1
  BY <1>5, FS_AddElement
<1> QED
  BY <1>1, <1>3, <1>6

Once == \A q \in Requests : IsInjective(q)

LEMMA StepNoneTwice == ASSUME Once, OInv, NoneTwice, [Next]_vars PROVE NoneTwice'
<1>0. OTypes
  BY DEF OInv
<1>e. ToSet(<<>>) = {} /\ IsInjective(<<>>)
  BY DEF ToSet, IsInjective
<1>1. ASSUME NEW a \in Advisories, Publish(a) PROVE NoneTwice'
  BY <1>1 DEF Publish, importVars, NoneTwice
<1>2. CASE Start
  <2>1. IsInjective(left') /\ left' \in Seq(Ecosystems) /\ asked' = ToSet(left') /\ lost' = {}
        /\ pc' = "import"
    BY <1>2, RequestsAssumption DEF Start, Once, NoneTwice
  <2>2. ToSet(left') \subseteq Ecosystems
    BY <2>1 DEF ToSet
  <2> QED BY <2>1, <2>2 DEF NoneTwice
<1>3. CASE FetchEcosystem \/ FetchFails
  <2>1. /\ pc = "import" /\ pc' = pc /\ left # <<>> /\ left' = Tail(left) /\ asked' = asked
        /\ left \in Seq(Ecosystems)
    BY <1>0, <1>3 DEF FetchEcosystem, FetchFails, OTypes
  <2>2. /\ ToSet(left) = {Head(left)} \cup ToSet(left')
        /\ Head(left) \notin ToSet(left') /\ IsInjective(left')
    BY <2>1, HeadIsOnlyFirst DEF NoneTwice
  <2>3. \E skipped : lost' = lost \cup ({Head(left)} \X skipped)
    BY <1>3 DEF FetchEcosystem, FetchFails
  <2>4. \A e \in ToSet(left'), a \in Advisories : <<e, a>> \notin lost'
    BY <2>2, <2>3 DEF NoneTwice
  <2> QED BY <2>1, <2>2, <2>4 DEF NoneTwice
<1>4. CASE Convert
  BY <1>4 DEF Convert, NoneTwice
<1>5. CASE Emit
  <2>1. left' = <<>> /\ lost' = {} /\ asked' = {}
    BY <1>5 DEF Emit, Ended
  <2> QED BY <1>e, <2>1 DEF NoneTwice
<1>6. CASE Die
  <2>1. left' = <<>> /\ lost' = {} /\ asked' = {}
    BY <1>6 DEF Die, Ended
  <2> QED BY <1>e, <2>1 DEF NoneTwice
<1>7. CASE UNCHANGED vars
  BY <1>7 DEF vars, importVars, fileVars, NoneTwice
<1> QED
  BY <1>1, <1>2, <1>3, <1>4, <1>5, <1>6, <1>7 DEF Next

LEMMA StepCollecting == ASSUME OInv, NoneTwice, Collecting, [Next]_vars PROVE Collecting'
<1>0. OTypes
  BY DEF OInv
<1>1. ASSUME NEW a \in Advisories, Publish(a) PROVE Collecting'
  <2>1. /\ feed \in [Advisories -> Nat] /\ begun \in [Advisories -> Nat] /\ pc' = pc
        /\ feed' = [feed EXCEPT ![a] = @ + 1] /\ begun' = begun
    BY <1>0, <1>1 DEF OTypes, Publish, importVars, Feeds
  <2>2. pc = "import" => begun[a] <= feed[a]
    BY <1>0 DEF OTypes
  <2>3. pc = "import" => begun'[a] # feed'[a]
    BY <2>1, <2>2
  <2> QED BY <2>1, <2>3 DEF Collecting
<1>2. CASE Start
  <2>1. all' = <<>> /\ Due' = {} /\ asked' \ ToSet(left') = {}
    BY <1>0, <1>2 DEF Start, OTypes, Due
  <2>2. \E times, lab : Counted(<<>>, feed', {}, {}, lost', times, lab)
    BY NothingCounted
  <2> QED BY <2>1, <2>2 DEF Collecting
<1>3. CASE FetchEcosystem \/ FetchFails
  <2> DEFINE e == Head(left)
             among == asked \ ToSet(left)
  <2> SUFFICES ASSUME pc = "import", begun = feed
               PROVE  \E times, lab : Counted(all, feed, Due', asked \ ToSet(left'), lost', times, lab)
    BY <1>3 DEF Collecting, FetchEcosystem, FetchFails
  <2>1. /\ left # <<>> /\ dump = {} /\ left' = Tail(left) /\ feed' = feed
        /\ left \in Seq(Ecosystems)
    BY <1>0, <1>3 DEF FetchEcosystem, FetchFails, OTypes
  <2>2. /\ ToSet(left) = {e} \cup ToSet(left') /\ e \notin ToSet(left')
        /\ e \in asked
    BY <2>1, HeadIsOnlyFirst DEF NoneTwice
  <2>3. asked \ ToSet(left') = among \cup {e} /\ e \notin among /\ among \in SUBSET Ecosystems
    BY <2>2 DEF NoneTwice
  <2>4. IsFiniteSet(among)
    <3> HIDE DEF among
    <3> QED BY <2>3, EcosystemsAreFinite, FS_Subset
  <2>5. \A a \in Advisories : <<e, a>> \notin lost
    BY <2>2 DEF NoneTwice
  <2>6. PICK skipped :
          /\ lost' = lost \cup ({e} \X skipped)
          /\ dump' = {<<a, feed[a]>> : a \in Dump(e) \ skipped}
    <3>1. CASE FetchFails
      <4>1. Dump(e) \ Dump(e) = {}
        OBVIOUS
      <4>2. dump' = {<<a, feed[a]>> : a \in Dump(e) \ Dump(e)}
        BY <2>1, <3>1, <4>1 DEF FetchFails
      <4> QED BY <3>1, <4>2 DEF FetchFails
    <3>2. CASE FetchEcosystem
      BY <3>2 DEF FetchEcosystem
    <3> QED BY <1>3, <3>1, <3>2
  <2>7. \A a \in Advisories : a \in Due' <=>
          a \notin skipped /\ feed[a] > 0 /\ \E pkg \in Packages(a, feed[a]) : pkg.eco = e
    <3>1. \A a \in Advisories : a \in Due' <=> a \in Dump(e) \ skipped
      BY <2>1, <2>6 DEF Due, Dump
    <3>2. \A a \in Advisories :
            a \in Dump(e) <=> feed[a] > 0 /\ \E pkg \in Packages(a, feed[a]) : pkg.eco = e
      BY DEF Dump, Packages, ToSet
    <3> HIDE DEF e
    <3> QED BY <3>1, <3>2
  <2>8. Due = {}
    BY <2>1 DEF Due
  <2>9. PICK times, lab : Counted(all, feed, {}, among, lost, times, lab)
    BY <2>8 DEF Collecting
  <2> HIDE DEF e, among
  <2> DEFINE due == Due'
  <2> HIDE DEF due
  <2>10. \A a \in Advisories : a \in due <=>
          a \notin skipped /\ feed[a] > 0 /\ \E pkg \in Packages(a, feed[a]) : pkg.eco = e
    BY <2>7 DEF due
  <2>11. Counted(all, feed, due, among \cup {e}, lost \cup ({e} \X skipped), times, lab)
    BY <2>3, <2>4, <2>5, <2>9, <2>10, DownloadCounts
  <2> QED BY <2>3, <2>6, <2>11 DEF due
<1>4. CASE Convert
  <2> SUFFICES ASSUME pc = "import", begun = feed
               PROVE  \E times, lab :
                        Counted(all', feed, Due', asked \ ToSet(left), lost, times, lab)
    BY <1>4 DEF Collecting, Convert
  <2>1. PICK m \in dump :
          /\ dump' = dump \ {m} /\ feed' = feed
          /\ all' = IF IsCryptoRelevant(Revisions[m[1]][m[2]])
                    THEN all \o ToEntries(m[1], Revisions[m[1]][m[2]]) ELSE all
    BY <1>4 DEF Convert
  <2>2. PICK c \in Advisories : m = <<c, feed[c]>> /\ feed[c] > 0
    BY <1>0 DEF OTypes
  <2>3. all \in Seq(Rows) /\ feed[c] \in Nat /\ feed[c] <= Len(Revisions[c])
    BY <1>0 DEF OTypes, Feeds
  <2>4. Gives(c, feed[c]) \in Seq(Rows)
    BY <2>2, <2>3, GivesRows
  <2>5. all' = all \o Gives(c, feed[c])
    <3>1. CASE IsCryptoRelevant(Revisions[c][feed[c]])
      BY <2>1, <2>2, <3>1 DEF Gives
    <3>2. CASE ~IsCryptoRelevant(Revisions[c][feed[c]])
      <4>1. all' = all /\ Gives(c, feed[c]) = <<>>
        BY <2>1, <2>2, <3>2 DEF Gives
      <4> QED BY <2>3, <4>1
    <3> QED BY <3>1, <3>2
  <2>6. c \in Due /\ Due' = Due \ {c}
    BY <2>1, <2>2 DEF Due
  <2> DEFINE among == asked \ ToSet(left)
  <2>7. PICK times, lab : Counted(all, feed, Due, among, lost, times, lab)
    BY DEF Collecting
  <2> HIDE DEF among
  <2>8. times \in [Advisories -> Nat] /\ Labelled(all, feed, times, lab)
    BY <2>7 DEF Counted
  <2> DEFINE later == [times EXCEPT ![c] = @ + 1]
  <2>9. PICK more : Labelled(all \o Gives(c, feed[c]), feed, later, more)
    BY <2>3, <2>4, <2>8, OneMoreConversion
  <2>10. ASSUME NEW a \in Advisories
         PROVE  later[a] + (IF a \in Due' THEN 1 ELSE 0) = Cardinality(Holders(a, feed, among, lost))
    <3>1. times[a] + (IF a \in Due THEN 1 ELSE 0) = Cardinality(Holders(a, feed, among, lost))
      BY <2>7 DEF Counted
    <3>2. CASE a = c
      <4>1. later[a] = times[a] + 1 /\ times[a] \in Nat /\ a \in Due /\ a \notin Due'
        BY <2>6, <2>8, <3>2
      <4> HIDE DEF later
      <4> QED BY <3>1, <4>1
    <3>3. CASE a # c
      <4>1. later[a] = times[a] /\ (a \in Due <=> a \in Due')
        BY <2>6, <2>8, <3>3
      <4> HIDE DEF later
      <4> QED BY <3>1, <4>1
    <3> QED BY <3>2, <3>3
  <2>11. later \in [Advisories -> Nat]
    BY <2>8
  <2> HIDE DEF later
  <2>12. Counted(all', feed, Due', among, lost, later, more)
    BY <2>5, <2>9, <2>10, <2>11 DEF Counted
  <2> QED BY <2>12 DEF among
<1>5. CASE Emit \/ Die
  BY <1>5 DEF Emit, Die, Ended, Collecting
<1>6. CASE UNCHANGED vars
  <2>1. Due' = Due /\ UNCHANGED <<pc, begun, feed, all, asked, left, lost>>
    BY <1>6 DEF vars, importVars, fileVars, Due
  <2> QED BY <2>1 DEF Collecting
<1> QED
  BY <1>1, <1>2, <1>3, <1>4, <1>5, <1>6 DEF Next

LEMMA StepFiled == ASSUME OInv, Collecting, Filed, [Next]_vars PROVE Filed'
<1>1. CASE UNCHANGED <<former, basis>>
  BY <1>1 DEF Filed
<1>2. CASE Emit
  <2>1. /\ pc = "import" /\ left = <<>> /\ dump = {} /\ former' = Sorted(all)
        /\ basis'.begun = begun /\ basis'.ended = feed
        /\ basis'.asked = asked /\ basis'.lost = lost
    BY <1>2 DEF Emit
  <2>2. asked \ ToSet(left) = asked /\ Due = {}
    BY <2>1 DEF ToSet, Due
  <2>3. all \in Seq(Rows)
    BY DEF OInv, OTypes
  <2>4. begun = feed => \E times, lab : Counted(all, feed, {}, asked, lost, times, lab)
    BY <2>1, <2>2 DEF Collecting
  <2> QED BY <2>1, <2>3, <2>4 DEF Filed
<1> QED
  BY <1>1, <1>2 DEF Next, vars, Publish, Start, FetchEcosystem, FetchFails, Convert, Die, fileVars

\* One step writes the file anew only from the same labels.
LEMMA StepQuiet ==
  ASSUME OInv, Collecting, Filed, [Next]_vars, Again
  PROVE  catalog' = former
<1>1. CASE file' = 0 \/ file' = file
  BY <1>1 DEF Again
<1>2. CASE Emit
  <2>1. /\ pc = "import" /\ left = <<>> /\ dump = {} /\ catalog' = Sorted(all)
        /\ basis.begun = begun /\ basis.ended = feed
        /\ basis.asked = asked /\ basis.lost = lost /\ basis.begun = basis.ended
    BY <1>2 DEF Emit, Again
  <2>2. asked \ ToSet(left) = asked /\ Due = {}
    BY <2>1 DEF ToSet, Due
  <2>3. PICK times, lab : Counted(all, feed, {}, asked, lost, times, lab)
    BY <2>1, <2>2 DEF Collecting
  <2>10. PICK rows \in Seq(Rows) :
           \E t, l : former = Sorted(rows) /\ Counted(rows, feed, {}, asked, lost, t, l)
    BY <2>1 DEF Filed
  <2>4. PICK times2, lab2 :
          former = Sorted(rows) /\ Counted(rows, feed, {}, asked, lost, times2, lab2)
    BY <2>10
  <2>5. times2 = times
    <3>1. \A a \in Advisories : times[a] = times2[a]
      <4> SUFFICES ASSUME NEW a \in Advisories PROVE times[a] = times2[a]
        OBVIOUS
      <4>1. times[a] \in Nat /\ times[a] + 0 = Cardinality(Holders(a, feed, asked, lost))
        BY <2>3 DEF Counted
      <4>2. times2[a] \in Nat /\ times2[a] + 0 = Cardinality(Holders(a, feed, asked, lost))
        BY <2>4 DEF Counted
      <4> QED BY <4>1, <4>2
    <3> QED BY <2>3, <2>4, <3>1 DEF Counted
  <2>6. Labelled(all, feed, times, lab) /\ Labelled(rows, feed, times, lab2)
    BY <2>3, <2>4, <2>5 DEF Counted
  <2>7. ASSUME NEW l \in Labels(feed, times) PROVE Gives(l[1], feed[l[1]])[l[3]].rule = l[1]
    <3>1. /\ l[1] \in Advisories /\ l[2] \in 1..times[l[1]]
          /\ l[3] \in 1..Len(Gives(l[1], feed[l[1]]))
      BY DEF Labels
    <3> DEFINE a == l[1]
               held == Holders(a, feed, asked, lost)
    <3>2. a \in Advisories /\ times[a] # 0
      <4>1. times[a] \in Nat
        BY <2>3, <3>1 DEF Counted
      <4> QED BY <3>1, <4>1
    <3>3. times[a] = Cardinality(held)
      <4>1. times[a] \in Nat /\ times[a] + 0 = Cardinality(held)
        BY <2>3, <3>2 DEF Counted
      <4> HIDE DEF a, held
      <4> QED BY <4>1
    <3>4. held # {}
      <4>1. Cardinality({}) = 0
        BY FS_EmptySet
      <4>2. Cardinality(held) # 0
        BY <3>2, <3>3
      <4> QED BY <4>1, <4>2
    <3>5. feed[a] > 0
      BY <3>4 DEF Holders
    <3>6. feed[a] \in Nat /\ feed[a] <= Len(Revisions[a])
      BY <3>2 DEF OInv, OTypes, Feeds
    <3> HIDE DEF a
    <3>7. Gives(a, feed[a]) \in Seq(Rows) /\ \A q \in DOMAIN Gives(a, feed[a]) : Gives(a, feed[a])[q].rule = a
      BY <3>2, <3>5, <3>6, GivesRows
    <3>8. l[3] \in DOMAIN Gives(a, feed[a])
      <4> DEFINE g == Gives(a, feed[a])
      <4>1. g \in Seq(Rows) /\ l[3] \in 1..Len(g)
        BY <3>1, <3>7 DEF a
      <4> HIDE DEF g
      <4>2. l[3] \in DOMAIN g
        BY <4>1
      <4> QED BY <4>2 DEF g
    <3> QED BY <3>7, <3>8 DEF a
  <2>8. all \in Seq(Rows)
    BY DEF OInv, OTypes
  <2>9. Sorted(all) = Sorted(rows)
    BY <2>4, <2>6, <2>7, <2>8, SameLabelsSameFile
  <2> QED BY <2>1, <2>4, <2>9
<1> QED
  BY <1>1, <1>2 DEF Next, vars, Publish, Start, FetchEcosystem, FetchFails, Convert, Die, fileVars

\* For every allowlist and feed, and requests that name each ecosystem once: an
\* import of the same dumps writes the same table as the file had when it was last
\* whole, whatever the order of the ecosystems and of the members of the archives,
\* and whichever runs died in between (main's stable sort).
THEOREM ReimportsAreQuiet ==
  ASSUME \A q \in Requests : IsInjective(q)
  PROVE  Spec => ReimportIsQuiet
<1>0. Once
  BY DEF Once
<1>1. Init => QInv
  BY QInit
<1>2. OInv /\ QInv /\ [Next]_vars => QInv'
  BY <1>0, StepNoneTwice, StepCollecting, StepFiled DEF QInv
<1>3. OInv /\ QInv /\ [Next]_vars =>
        [Again => catalog' = former]_vars
  BY StepQuiet DEF QInv
<1> QED
  BY <1>1, <1>2, <1>3, OInvariant, PTL DEF Spec, ReimportIsQuiet
=============================================================================
