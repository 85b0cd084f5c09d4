------------------------------ MODULE OsvCatalog ------------------------------
(***************************************************************************)
(* The catalog of advisories: fipscan-osv-import reads the dumps of        *)
(* osv.dev, one per ecosystem, keeps what affects the packages of its      *)
(* allowlist, and writes the table the scanner is built with; the scanner  *)
(* looks dependencies up in it.  Meanwhile advisories are published and    *)
(* amended upstream, a download may fail (the importer goes on without     *)
(* it), a member of a dump may be unreadable (it is skipped), and a run    *)
(* may die: its output is redirected onto osv_entries.go, which is empty   *)
(* or cut off from then on.                                                *)
(*                                                                         *)
(* Names and identifiers are values in lower case; an advisory is a        *)
(* sequence of revisions, each [crypto, affected]: whether its text has a  *)
(* keyword, and the packages it affects, each with its ranges.             *)
(***************************************************************************)
EXTENDS Versions, SequencesExt

CONSTANTS
  Advisories, \* their identifiers
  Revisions,  \* of each, in the order they are published
  Listed,     \* the packages the allowlist is about: <<OSV ecosystem, name>>
  Requests,   \* values of -ecosystems
  Failing,    \* the ecosystems whose download may fail
  Unreadable, \* the advisories whose member of an archive may be unreadable
  Rank,       \* the order of strings: ecosystem ids, names and identifiers
  Curated,    \* the rows of the hand-written catalog
  Probes,     \* the versions dependencies are pinned to
  Days        \* bound of the model: the dates an import may be made on

\* BulkEcosystems: what can be downloaded.
Ecosystems == {"PyPI", "npm", "Go", "Maven", "crates.io", "RubyGems", "Packagist", "NuGet"}

\* osvEcosystemToOurs.
Ours == [e \in Ecosystems |->
           CASE e = "PyPI"      -> "pypi"  [] e = "npm"       -> "npm"
             [] e = "Go"        -> "go"    [] e = "Maven"     -> "maven"
             [] e = "crates.io" -> "cargo" [] e = "RubyGems"  -> "rubygems"
             [] e = "Packagist" -> "composer" [] e = "NuGet"  -> "nuget"]

\* strings.ToLower of an ecosystem of OSV.
Lower == [e \in Ecosystems \cup {"Debian"} |->
            CASE e = "crates.io" -> "crates.io" [] e = "Packagist" -> "packagist"
              [] e = "Debian"    -> "debian"    [] OTHER           -> Ours[e]]

OsvRange == [type : {"SEMVER", "ECOSYSTEM", "GIT"}, events : SUBSET Event]
Affected == [eco : DOMAIN Lower, name : STRING, ranges : Seq(OsvRange)]

ASSUME RevisionsAssumption ==
  \A a \in Advisories : Revisions[a] \in Seq([crypto : BOOLEAN, affected : Seq(Affected)])

\* The empty version.
Unpinned == [parts |-> <<>>, tag |-> 0]

Encodable(r) == r.type # "GIT" /\ Clauses(r.events) # {}

\* The clauses of the first range that has any; {} when there is none.
RangesToConstraint(ranges) ==
  LET i == SelectInSeq(ranges, Encodable) IN
  IF i = 0 THEN {} ELSE Clauses(ranges[i].events)

Row(a, pkg) == [eco |-> Ours[pkg.eco], name |-> pkg.name, rule |-> a,
                constraints |-> RangesToConstraint(pkg.ranges)]

Packages(a, n) == ToSet(Revisions[a][n].affected)

Rows == UNION {UNION {{Row(a, pkg) : pkg \in {q \in Packages(a, n) : q.eco \in Ecosystems}}
                        : n \in DOMAIN Revisions[a]} : a \in Advisories}

\* The schema of OSV: a range says where it begins.
ASSUME IntroducedAssumption ==
  \A a \in Advisories : \A n \in DOMAIN Revisions[a] : \A pkg \in Packages(a, n) :
    \A i \in DOMAIN pkg.ranges : \E e \in pkg.ranges[i].events : e.kind = "introduced"
ASSUME RankAssumption ==
  /\ \A r \in Rows : Rank[r.eco] \in Nat /\ Rank[r.name] \in Nat /\ Rank[r.rule] \in Nat
  /\ \A r, s \in Rows : Rank[r.rule] = Rank[s.rule] => r.rule = s.rule
ASSUME ListedAssumption == Listed \subseteq Ecosystems \X STRING
ASSUME RequestsAssumption == Requests \subseteq Seq(Ecosystems)
ASSUME ProbesAssumption == Probes \subseteq Written \ {Unpinned}
ASSUME DaysAssumption == Days \in Nat \ {0}

VARIABLES
  feed,     \* osv.dev: how many revisions of each advisory it has published
  pc,       \* the importer: "idle" or "import"
  left,     \* the ecosystems it has not downloaded yet
  dump,     \* the members of the last dump it has not converted yet
  all,      \* the rows so far
  file,     \* osv_entries.go: the date in its header, 0 when it is torn
  catalog   \* the table in it
VARIABLES   \* history, read by properties only
  former,   \* the table it had when it was last whole
  dated,    \* the date it had then
  begun,    \* the feed when the import began
  asked,    \* the ecosystems it is to download
  lost,     \* <<e, a>>: it could not get a from the dump of e
  basis     \* all this, and the feed at the end, of the import of former

importVars == <<pc, left, dump, all, begun, asked, lost>>
fileVars == <<file, catalog, former, dated, basis>>
vars == <<feed, importVars, fileVars>>

-----------------------------------------------------------------------------
(* One advisory into rows. *)

\* The allowlist: its keys begin with the scanner's own ecosystem ids ...
KnownCryptoPackages == {<<Ours[p[1]], p[2]>> : p \in Listed}

\* ... and are looked up by OSV's, in lower case.
Known(pkg) == <<Lower[pkg.eco], pkg.name>> \in KnownCryptoPackages

IsCryptoRelevant(v) == v.crypto \/ \E i \in DOMAIN v.affected : Known(v.affected[i])

\* Mutant: the packages of a relevant advisory are not filtered.
KeepUnlisted(pkg) == pkg.eco \in Ecosystems /\ RangesToConstraint(pkg.ranges) # {}
Keep(pkg) == /\ pkg.eco \in Ecosystems
             /\ Known(pkg)
             /\ RangesToConstraint(pkg.ranges) # {}

\* Mutant: a package off the list ends the loop instead of being skipped.
ToEntriesUpTo(a, v) ==
  LET stop == SelectInSeq(v.affected, LAMBDA pkg : ~Keep(pkg)) IN
  [i \in 1..(IF stop = 0 THEN Len(v.affected) ELSE stop - 1) |-> Row(a, v.affected[i])]
ToEntries(a, v) ==
  LET out[i \in 0..Len(v.affected)] ==
        IF i = 0 THEN <<>>
        ELSE IF Keep(v.affected[i]) THEN Append(out[i - 1], Row(a, v.affected[i])) ELSE out[i - 1]
  IN out[Len(v.affected)]

-----------------------------------------------------------------------------
(* The import. *)

\* The archive of an ecosystem has every advisory that affects a package of it.
Dump(e) == {a \in Advisories :
              /\ feed[a] > 0
              /\ \E i \in DOMAIN Revisions[a][feed[a]].affected :
                   Revisions[a][feed[a]].affected[i].eco = e}

NotBegun == [a \in Advisories |-> 0]

Init == /\ feed = NotBegun
        /\ pc = "idle" /\ left = <<>> /\ dump = {} /\ all = <<>>
        /\ file = 1 /\ catalog = <<>> /\ former = <<>> /\ dated = 1
        /\ begun = feed /\ asked = {} /\ lost = {}
        /\ basis = [begun |-> feed, ended |-> feed, asked |-> {}, lost |-> {}]

\* Between two downloads: the conversion of an archive does not look at the feed.
Publish(a) == /\ dump = {}
              /\ feed[a] < Len(Revisions[a])
              /\ feed' = [feed EXCEPT ![a] = @ + 1]
              /\ UNCHANGED <<importVars, fileVars>>

\* The shell empties the file before the importer runs (make update-catalog).
Start == /\ pc = "idle"
         /\ pc' = "import" /\ begun' = feed
         /\ left' \in Requests
         /\ asked' = ToSet(left')
         /\ file' = 0 /\ catalog' = <<>>
         /\ UNCHANGED <<feed, dump, all, lost, former, dated, basis>>

\* FetchEcosystem, and the members it cannot open, read or decode.
FetchEcosystem ==
  /\ pc = "import" /\ left # <<>> /\ dump = {}
  /\ left' = Tail(left)
  /\ \E skipped \in SUBSET (Dump(Head(left)) \cap Unreadable) :
       /\ dump' = {<<a, feed[a]>> : a \in Dump(Head(left)) \ skipped}
       /\ lost' = lost \cup ({Head(left)} \X skipped)
  /\ UNCHANGED <<feed, pc, all, begun, asked, fileVars>>

\* Logged, and the loop continues.
FetchFails == /\ pc = "import" /\ left # <<>> /\ dump = {} /\ Head(left) \in Failing
              /\ left' = Tail(left)
              /\ lost' = lost \cup ({Head(left)} \X Dump(Head(left)))
              /\ UNCHANGED <<feed, pc, dump, all, begun, asked, fileVars>>

\* The members of an archive come in any order.
Convert == \E m \in dump :
             LET v == Revisions[m[1]][m[2]] IN
             /\ dump' = dump \ {m}
             /\ all' = IF IsCryptoRelevant(v) THEN all \o ToEntries(m[1], v) ELSE all
             /\ UNCHANGED <<feed, pc, left, begun, asked, lost, fileVars>>

\* Mutant: the rule left out of the sort.
KeyWithoutRule(r) == <<Rank[r.eco], Rank[r.name], 0>>
\* sort.SliceStable by ecosystem, name and rule.
Key(r) == <<Rank[r.eco], Rank[r.name], Rank[r.rule]>>
\* Stable: of two rows with the same key the one collected first stays first.
Precedes(rows, i, j) == \/ Less(Key(rows[i]), Key(rows[j]))
                        \/ Key(rows[i]) = Key(rows[j]) /\ i < j
Sorted(rows) ==
  LET place == [i \in DOMAIN rows |->
                  1 + Cardinality({j \in DOMAIN rows : Precedes(rows, j, i)})]
  IN [k \in DOMAIN rows |-> rows[CHOOSE i \in DOMAIN rows : place[i] = k]]

\* The process ends, and its memory is gone.
Ended == pc' = "idle" /\ all' = <<>> /\ begun' = NotBegun /\ asked' = {} /\ lost' = {}

\* Mutant: the table written after each download.
EmitEach == /\ pc = "import" /\ dump = {}
            /\ Ended
            /\ file' \in 1..Days /\ catalog' = Sorted(all)
            /\ former' = catalog' /\ dated' = file'
            /\ basis' = [begun |-> begun, asked |-> asked, lost |-> lost, ended |-> feed]
            /\ UNCHANGED <<feed, left, dump>>
\* All of the file is written: its header, with the date, and the table.
Emit == /\ pc = "import" /\ left = <<>> /\ dump = {}
        /\ Ended
        /\ file' \in 1..Days /\ catalog' = Sorted(all)
        /\ former' = catalog' /\ dated' = file'
        /\ basis' = [begun |-> begun, ended |-> feed, asked |-> asked, lost |-> lost]
        /\ UNCHANGED <<feed, left, dump>>

\* Killed at any point, or what emit writes does not arrive: it looks at no error of
\* a write or of Flush.  What there is of the file is no Go source.
Die == /\ pc = "import"
       /\ Ended /\ left' = <<>> /\ dump' = {}
       /\ UNCHANGED <<feed, fileVars>>

Next == \/ \E a \in Advisories : Publish(a)
        \/ Start \/ FetchEcosystem \/ FetchFails \/ Convert \/ Emit \/ Die

Spec == Init /\ [][Next]_vars

-----------------------------------------------------------------------------
(* The scanner built with the catalog; with a torn one, none is built. *)

\* The index holds the rows of both tables; without a version only those
\* without a constraint apply.
Lookup(eco, name, v) ==
  {r \in Curated \cup ToSet(catalog) :
     /\ r.eco = eco /\ r.name = name
     /\ IF v = Unpinned THEN r.constraints = {}
                        ELSE MatchAll(r.constraints, ParseVersion(v))}

-----------------------------------------------------------------------------
(* Properties. *)

\* The revisions an import may have read: those osv.dev showed while it ran.
Shown(a) == {n \in basis.begun[a]..basis.ended[a] : n > 0}

TypeOK ==
  /\ feed \in [Advisories -> Nat] /\ \A a \in Advisories : feed[a] <= Len(Revisions[a])
  /\ pc \in {"idle", "import"}
  /\ left \in Seq(Ecosystems) /\ (pc = "idle" => left = <<>> /\ dump = {})
  /\ \A m \in dump : m[1] \in Advisories /\ m[2] \in begun[m[1]]..feed[m[1]] /\ m[2] > 0
  /\ all \in Seq(Rows) /\ catalog \in Seq(Rows)
  /\ file \in 0..Days /\ dated \in 1..Days
  /\ IF file = 0 THEN catalog = <<>> ELSE catalog = former /\ file = dated
  /\ begun \in [Advisories -> Nat]
  /\ asked \subseteq Ecosystems /\ lost \subseteq Ecosystems \X Advisories

\* Every row of the catalog is about a package of the allowlist, and comes from a
\* revision osv.dev showed during the import that wrote it: nothing survives from
\* an older catalog or a run that died (ToEntries' filter, main's empty all).
RowsAreWarranted ==
  \A i \in DOMAIN catalog :
    LET r == catalog[i] IN
    \E n \in Shown(r.rule) : \E pkg \in Packages(r.rule, n) :
      <<pkg.eco, pkg.name>> \in Listed /\ pkg.eco \in Ecosystems /\ r = Row(r.rule, pkg)

\* Advisory a was there all the time, and an ecosystem it affects was asked for,
\* could be downloaded, and had it in readable form.
Obtainable(a) ==
  /\ basis.begun[a] = basis.ended[a] /\ basis.ended[a] > 0
  /\ \E pkg \in Packages(a, basis.ended[a]) :
       pkg.eco \in basis.asked /\ <<pkg.eco, a>> \notin basis.lost

Wanted(a, Pkg(_)) ==
  {pkg \in Packages(a, basis.ended[a]) :
     /\ pkg.eco \in Ecosystems /\ <<pkg.eco, pkg.name>> \in Listed
     /\ RangesToConstraint(pkg.ranges) # {} /\ Pkg(pkg)}

Complete(Pkg(_)) == \A a \in {b \in Advisories : Obtainable(b)} :
                      \A pkg \in Wanted(a, Pkg) : Row(a, pkg) \in ToSet(catalog)

\* No advisory is missed: a file that compiles has all the listed packages of each
\* advisory of which one dump was read, those of other ecosystems too, whatever
\* other downloads failed, in whatever order, and whichever runs died before.  This
\* holds of the ecosystems OSV and the scanner call by the same name.
CatalogIsComplete ==
  file # 0 => Complete(LAMBDA pkg : Lower[pkg.eco] = Ours[pkg.eco])

\* The same of every ecosystem: "a CVE on cryptography / openssl / bouncycastle is
\* always crypto-relevant" (IsCryptoRelevant).
KnownIsImported == file # 0 => Complete(LAMBDA pkg : TRUE)

\* The next whole file is one of the same dumps.
Again == file = 0 /\ file' # 0 /\ basis' = basis /\ basis.begun = basis.ended

\* An import of the same dumps writes the same table as the file had when it was
\* last whole, whatever the order of the ecosystems on the command line and of the
\* members in the archives, and whichever runs died in between ("Stable sort so the
\* generated file diffs cleanly across re-runs", main).
ReimportIsQuiet == [][Again => catalog' = former]_vars

\* What the catalog-refresh workflow relies on: nothing but a change of the
\* advisories makes a difference to the file.
RefreshIsQuiet == [][Again => catalog' = former /\ file' = dated]_vars

\* The bounds of a range against which v is compared as if nothing were truncated.
AllDecided(events, v) == \A e \in events : Bounding(e) => Decided(e, v)
AnyAffected(pkg, v) == \E i \in DOMAIN pkg.ranges : AffectedBy(pkg.ranges[i].events, v)

\* A dependency is reported for an advisory only if a range of it has the version,
\* and is reported for an advisory of one interval that has it: truncation to three
\* components can only be wrong at a bound.
LookupAgrees ==
  \A i \in DOMAIN catalog, v \in Probes :
    LET r == catalog[i]
        hit == r \in Lookup(r.eco, r.name, v) IN
    \E n \in Shown(r.rule) : \E pkg \in Packages(r.rule, n) :
      /\ pkg.eco \in Ecosystems /\ r = Row(r.rule, pkg)
      /\ LET events == pkg.ranges[SelectInSeq(pkg.ranges, Encodable)].events IN
         AllDecided(events, v) =>
           /\ hit => AnyAffected(pkg, v)
           /\ OneInterval(events) /\ AffectedBy(events, v) => hit
=============================================================================
