----------------------------- MODULE ImageLayers -----------------------------
(***************************************************************************)
(* The image scan once the manifest is known: ScanImage streams the layers *)
(* from the lowest to the highest, MergeLayer applies the tar entries of   *)
(* one layer to a small ImageFS, analyseFS turns that into findings.       *)
(*                                                                         *)
(* A step is one tar entry.  Entries of a layer come in any order, one for *)
(* each name; a layer may have a file and a whiteout of it.  image is what *)
(* the layers describe: an entry of a layer hides what lower layers have   *)
(* at its place, never what its own layer has.  The program never builds   *)
(* it; the properties compare with it.                                     *)
(***************************************************************************)
EXTENDS Naturals, FiniteSets

CONSTANTS
  Interesting,     \* the closed set of paths whose contents are kept
  Candidates,      \* paths in the directories inspected for ELF binaries
  Dirs, Below,     \* directories, and the paths somewhere beneath each
  Contents,        \* what a regular file may contain
  Absent,          \* no such file
  Databases,       \* the interesting paths that are package databases
  Marker,          \* etc/system-fips
  Installed,       \* per contents, the packages it lists when a database
  Executables,     \* the contents that begin with the ELF magic
  Fitting,         \* the contents neither empty nor above maxELFBytes
  Needed,          \* per contents, its DT_NEEDED names (none if not ELF)
  Catalogued,      \* the packages and sonames Lookup has an entry for
  MaxInspections,  \* maxELFInspections, 100 in the code
  MaxLayers,       \* bound of the model: layers of a manifest
  MaxEntries       \* bound of the model: tar entries of a layer

Paths    == Interesting \cup Candidates
Sonames  == UNION {Needed[c] : c \in Contents}
Packages == UNION {Installed[c] : c \in Contents}

ASSUME PathAssumption ==
  /\ Interesting \cap Candidates = {}
  /\ Dirs \cap Paths = {} /\ Below \in [Dirs -> SUBSET Paths]
  /\ Databases \subseteq Interesting /\ Marker \in Interesting
ASSUME ContentAssumption ==
  /\ Absent \notin Contents
  /\ DOMAIN Installed = Contents /\ DOMAIN Needed = Contents
  /\ Executables \subseteq Contents /\ Fitting \subseteq Contents
ASSUME BoundAssumption == {MaxInspections, MaxLayers, MaxEntries} \subseteq Nat

VARIABLES
  pc,         \* "merging", "done" or "failed"
  layers,     \* number of layers in the manifest
  merged,     \* number of layers merged so far
  files,      \* ImageFS.Files
  needed,     \* ImageFS.ELFNeeded; a path that is no key has none
  inspected,  \* ImageFS.elfInspected
  report,     \* the findings
  seen,       \* history: the names the open layer has had, as kind and place
  image,      \* history: the image the layers so far describe
  hidden,     \* history: by what kind of entry other than a whiteout of its
              \* own an interesting file was last removed, if it was
  wiped       \* history: files of the image that a whiteout in their own
              \* layer came after

fsVars   == <<files, needed, inspected>>
scanVars == <<pc, layers, merged, report>>
vars     == <<fsVars, scanVars, seen, image, hidden, wiped>>

Kinds == {"entry", "whiteout", "opaque"}

TypeOK ==
  /\ pc \in {"merging", "done", "failed"}
  /\ layers \in 0..MaxLayers /\ merged \in 0..layers
  /\ files \in [Interesting -> Contents \cup {Absent}]
  /\ needed \in [Candidates -> SUBSET Sonames]
  /\ inspected \in 0..MaxInspections
  /\ report \in [packages : SUBSET Packages,
                 elf : SUBSET (Candidates \X Sonames), fips : BOOLEAN]
  /\ seen \subseteq Kinds \X (Paths \cup Dirs) /\ wiped \subseteq Paths
  /\ image \in [Paths -> Contents \cup {Absent}]
  /\ hidden \in [Interesting -> {"no", "whiteout", "opaque", "special"}]

Init ==
  /\ pc = "merging"
  /\ layers \in 0..MaxLayers /\ merged = 0
  /\ files = [p \in Interesting |-> Absent]
  /\ needed = [p \in Candidates |-> {}]
  /\ inspected = 0
  /\ report = [packages |-> {}, elf |-> {}, fips |-> FALSE]
  /\ seen = {}
  /\ image = [p \in Paths |-> Absent]
  /\ hidden = [p \in Interesting |-> "no"]
  /\ wiped = {}

-----------------------------------------------------------------------------
(* What an entry means. *)

\* The open layer has an entry at place x, which is a path or a directory, a
\* whiteout of x, or an opaque marker in x.
Entry(kind, x) == /\ pc = "merging" /\ merged < layers
                  /\ <<kind, x>> \notin seen /\ Cardinality(seen) < MaxEntries
                  /\ seen' = seen \cup {<<kind, x>>}
                  /\ UNCHANGED scanVars

\* What the open layer itself has brought.
Own == {p \in Paths : <<"entry", p>> \in seen /\ image[p] # Absent}

\* A regular file at p.
Put(p, c) == /\ Entry("entry", p)
             /\ image' = [image EXCEPT ![p] = c]
             /\ hidden' = [q \in Interesting |-> IF q = p THEN "no" ELSE hidden[q]]
             /\ wiped' = wiped \ {p}

\* Nothing of lower layers is left at the paths ps.
Hide(ps, kind) ==
  LET gone == {p \in ps \ Own : image[p] # Absent} IN
  /\ image' = [p \in Paths |-> IF p \in gone THEN Absent ELSE image[p]]
  /\ hidden' = [p \in Interesting |-> IF p \in gone THEN kind ELSE hidden[p]]

Under(x) == IF x \in Dirs THEN Below[x] ELSE {x}

-----------------------------------------------------------------------------
(* MergeLayer, one entry. *)

\* A regular file on the list of interesting paths.
StoreFile(p, c) == /\ p \in Interesting
                   /\ Put(p, c)
                   /\ files' = [files EXCEPT ![p] = c]
                   /\ UNCHANGED <<needed, inspected>>

\* Mutant: the cap forgotten.
InspectableUncapped(p, c) == p \in Candidates /\ c \in Fitting /\ c \in Executables
\* Worth reading: by place, cap, size and magic.
Inspectable(p, c) == /\ p \in Candidates
                     /\ inspected < MaxInspections
                     /\ c \in Fitting /\ c \in Executables

\* Mutant: a binary an upper layer replaces is not inspected again.
InspectELFOnce(p, c) ==
  /\ Inspectable(p, c)
  /\ Put(p, c)
  /\ needed' = IF needed[p] = {} THEN [needed EXCEPT ![p] = Needed[c]] ELSE needed
  /\ inspected' = inspected + 1
  /\ UNCHANGED files
\* A binary with no needed library leaves an older entry of its path alone.
InspectELF(p, c) ==
  /\ Inspectable(p, c)
  /\ Put(p, c)
  /\ needed' = IF Needed[c] # {} THEN [needed EXCEPT ![p] = Needed[c]] ELSE needed
  /\ inspected' = inspected + 1
  /\ UNCHANGED files

\* Any other regular file: not ELF, empty, too large, or above the cap.
SkipFile(p, c) == /\ p \in Candidates /\ ~Inspectable(p, c)
                  /\ Put(p, c)
                  /\ UNCHANGED fsVars

\* .wh.<name> deletes what is stored under exactly that path, also if the same
\* layer has just stored it; of a directory nothing is stored.  (No path here has
\* a base name that begins with a dot: its whiteout would be rejected like the
\* opaque marker below.)
Whiteout(x) ==
  /\ Entry("whiteout", x)
  /\ Hide(Under(x), IF x \in Dirs THEN "whiteout" ELSE "no")
  /\ wiped' = IF x \in Own THEN wiped \cup {x} ELSE wiped \ (Under(x) \ Own)
  /\ files' = [p \in Interesting |-> IF p = x THEN Absent ELSE files[p]]
  /\ needed' = [p \in Candidates |-> IF p = x THEN {} ELSE needed[p]]
  /\ UNCHANGED inspected

\* Mutant: normalizePath lets the opaque marker through, whose branch also
\* drops what the same layer has stored before.
OpaqueDrops(d) ==
  /\ Entry("opaque", d)
  /\ Hide(Below[d], "opaque")
  /\ wiped' = wiped \ (Below[d] \ Own)
  /\ files' = [p \in Interesting |-> IF p \in Below[d] THEN Absent ELSE files[p]]
  /\ needed' = [p \in Candidates |-> IF p \in Below[d] THEN {} ELSE needed[p]]
  /\ UNCHANGED inspected
\* .wh..wh..opq in directory d: normalizePath rejects every name with two
\* dots in a row, so the branch for opaque markers is never reached.
Opaque(d) == /\ Entry("opaque", d)
             /\ Hide(Below[d], "opaque")
             /\ wiped' = wiped \ (Below[d] \ Own)
             /\ UNCHANGED fsVars

\* Neither regular nor whiteout (a link, a device) takes the place of x: the
\* entry is passed over.
Special(x) == /\ Entry("entry", x)
              /\ Hide(Under(x), "special")
              /\ wiped' = wiped \ (Under(x) \ Own)
              /\ UNCHANGED fsVars

-----------------------------------------------------------------------------
(* ScanImage, around the entries. *)

\* io.EOF of the tar stream, and the next FetchBlob.
EndLayer == /\ pc = "merging" /\ merged < layers
            /\ merged' = merged + 1
            /\ seen' = {}
            /\ UNCHANGED <<fsVars, pc, layers, report, image, hidden, wiped>>

\* No layers, a blob that cannot be fetched, a broken or cut off stream: the
\* scan has no findings at all.
Fail == /\ pc = "merging" /\ (merged < layers \/ layers = 0)
        /\ pc' = "failed"
        /\ UNCHANGED <<fsVars, layers, merged, report, seen, image, hidden, wiped>>

\* Lookup of every package of every database that is there.
PackageFindings ==
  Catalogued \cap UNION {Installed[files[d]] : d \in {e \in Databases : files[e] # Absent}}

\* Mutant: one finding for each binary instead of one for each soname.
ElfFindingsPerBinary ==
  LET hits == {h \in Candidates \X Sonames : h[2] \in needed[h[1]] \cap Catalogued}
  IN  {E \in SUBSET hits : /\ \A h \in hits : \E e \in E : e[1] = h[1]
                           /\ \A e, f \in E : e[1] = f[1] => e = f}
\* elfFindings: each catalogued soname once, with whichever of its binaries
\* the iteration over the map meets first.
ElfFindings ==
  LET hits == {h \in Candidates \X Sonames : h[2] \in needed[h[1]] \cap Catalogued}
  IN  {E \in SUBSET hits : /\ \A h \in hits : \E e \in E : e[2] = h[2]
                           /\ \A e, f \in E : e[2] = f[2] => e = f}

\* analyseFS; the severity of posturFinding is LOW exactly if fips.
Analyse == /\ pc = "merging" /\ merged = layers /\ layers > 0
           /\ pc' = "done"
           /\ \E E \in ElfFindings :
                report' = [packages |-> PackageFindings, elf |-> E,
                           fips |-> files[Marker] # Absent]
           /\ UNCHANGED <<fsVars, layers, merged, seen, image, hidden, wiped>>

Next ==
  \/ \E p \in Paths, c \in Contents :
       StoreFile(p, c) \/ InspectELF(p, c) \/ SkipFile(p, c)
  \/ \E x \in Paths \cup Dirs : Whiteout(x) \/ Special(x)
  \/ \E d \in Dirs : Opaque(d)
  \/ EndLayer \/ Fail \/ Analyse

Spec == Init /\ [][Next]_vars

-----------------------------------------------------------------------------
(* Properties. *)

\* What is stored of an interesting path is what the image has there, at any
\* point of the stream.  The exceptions are named: a file removed with its
\* directory or by an entry of another type may still be stored, and one that a
\* whiteout in its own layer came after is not.
FilesMatchImage ==
  \A p \in Interesting :
    \/ files[p] = image[p]
    \/ hidden[p] # "no" /\ image[p] = Absent
    \/ p \in wiped /\ files[p] = Absent

\* As long as the cap on inspections is not used up, no needed library of a
\* binary of the image is missing, however often layers replaced, deleted or
\* restored that binary, unless its own layer also has a whiteout of it.
NeedsAreSeen ==
  inspected < MaxInspections =>
    \A p \in Candidates \ wiped :
      image[p] \in Executables \cap Fitting => Needed[image[p]] \subseteq needed[p]

\* A finished report covers the whole image: every catalogued package of its
\* databases, every catalogued library of its binaries (below the cap), and
\* the FIPS marker if the image has it.  Of what no whiteout of its own layer
\* has wiped, nothing is left out.
ReportIsComplete ==
  pc = "done" =>
    /\ merged = layers
    /\ \A d \in Databases \ wiped : image[d] # Absent =>
         Installed[image[d]] \cap Catalogued \subseteq report.packages
    /\ Marker \notin wiped /\ image[Marker] # Absent => report.fips
    /\ inspected < MaxInspections =>
         \A p \in Candidates \ wiped : image[p] \in Executables \cap Fitting =>
           \A so \in Needed[image[p]] \cap Catalogued :
             \E e \in report.elf : e[2] = so

\* The comment on MergeLayer says of its markers that "upper layers can delete files /
\* directory contents from lower layers".  So a whiteout deletes what lower layers have
\* in a directory of that name, an opaque marker what they have in its directory, and
\* what the open layer itself has brought stays.  The property asks for just one of the
\* three, so that a behaviour that violates it violates each.
SomeMarkerIsHonored ==
  \/ \A p \in Interesting : hidden[p] = "whiteout" => files[p] = Absent
  \/ \A p \in Interesting : hidden[p] = "opaque" => files[p] = Absent
  \/ \A p \in Interesting \cap Own : files[p] = image[p]
=============================================================================
