-------------------------- MODULE ImageLayers_proofs --------------------------
(***************************************************************************)
(* Theorems about the image scan, for any image, any number of layers and  *)
(* any cap on inspections.                                                 *)
(***************************************************************************)
EXTENDS ImageLayers, TLAPS

\* Each step leaves every variable in its type.
LEMMA TypeStep == TypeOK /\ [Next]_vars => TypeOK'
<1> SUFFICES ASSUME TypeOK, [Next]_vars PROVE TypeOK'
  OBVIOUS
<1> USE DEF TypeOK, vars, fsVars, scanVars, Entry, Paths, Kinds
<1>1. ASSUME NEW p \in Paths, NEW c \in Contents, StoreFile(p, c) PROVE TypeOK'
  BY <1>1 DEF StoreFile, Put
<1>2. ASSUME NEW p \in Paths, NEW c \in Contents, InspectELF(p, c) PROVE TypeOK'
  <2>1. Needed[c] \subseteq Sonames
    BY DEF Sonames
  <2>2. inspected + 1 \in 0..MaxInspections
    BY <1>2, BoundAssumption DEF InspectELF, Inspectable
  <2>3. needed' \in [Candidates -> SUBSET Sonames]
    BY <1>2, <2>1 DEF InspectELF
  <2> QED
    BY <1>2, <2>2, <2>3 DEF InspectELF, Put
<1>3. ASSUME NEW p \in Paths, NEW c \in Contents, SkipFile(p, c) PROVE TypeOK'
  BY <1>3 DEF SkipFile, Put
<1>4. ASSUME NEW x \in Paths \cup Dirs, Whiteout(x) PROVE TypeOK'
  <2>1. Own \subseteq Paths
    BY DEF Own
  <2>2. wiped' \subseteq Paths
    BY <1>4, <2>1 DEF Whiteout
  <2> QED
    BY <1>4, <2>2 DEF Whiteout, Hide
<1>5. ASSUME NEW x \in Paths \cup Dirs, Special(x) PROVE TypeOK'
  BY <1>5 DEF Special, Hide
<1>6. ASSUME NEW d \in Dirs, Opaque(d) PROVE TypeOK'
  BY <1>6 DEF Opaque, Hide
<1>7. CASE EndLayer
  BY <1>7, BoundAssumption DEF EndLayer
<1>8. CASE Fail
  BY <1>8 DEF Fail
<1>9. CASE Analyse
  <2>1. PICK E \in ElfFindings :
          report' = [packages |-> PackageFindings, elf |-> E,
                     fips |-> files[Marker] # Absent]
    BY <1>9 DEF Analyse
  <2>2. E \subseteq Candidates \X Sonames
    BY DEF ElfFindings
  <2>3. PackageFindings \subseteq Packages
    BY PathAssumption DEF PackageFindings, Packages
  <2> QED
    BY <1>9, <2>1, <2>2, <2>3 DEF Analyse
<1> QED
  BY <1>1, <1>2, <1>3, <1>4, <1>5, <1>6, <1>7, <1>8, <1>9 DEF Next

\* The variables of ImageLayers keep their types.
THEOREM TypeCorrect == Spec => []TypeOK
<1>1. Init => TypeOK
  BY BoundAssumption, PathAssumption DEF Init, TypeOK
<1> QED
  BY <1>1, TypeStep, PTL DEF Spec

-----------------------------------------------------------------------------
\* An entry about a directory or of another type names what it hides.
LEMMA HiddenStep ==
  ASSUME TypeOK, FilesMatchImage,
         NEW ps \in SUBSET Paths, NEW kind \in {"whiteout", "opaque", "special"},
         Hide(ps, kind), UNCHANGED files, wiped' = wiped \ (ps \ Own)
  PROVE  FilesMatchImage'
<1> SUFFICES ASSUME NEW p \in Interesting
             PROVE  \/ files'[p] = image'[p]
                    \/ hidden'[p] # "no" /\ image'[p] = Absent
                    \/ p \in wiped' /\ files'[p] = Absent
  BY DEF FilesMatchImage
<1>1. CASE p \in ps \ Own /\ image[p] # Absent
  BY <1>1 DEF Hide, Paths
<1>2. CASE ~(p \in ps \ Own /\ image[p] # Absent)
  <2>1. image'[p] = image[p] /\ hidden'[p] = hidden[p] /\ files'[p] = files[p]
    BY <1>2 DEF Hide, Paths
  <2>2. CASE image[p] = Absent
    BY <2>1, <2>2 DEF FilesMatchImage
  <2>3. CASE image[p] # Absent
    BY <1>2, <2>1, <2>3 DEF FilesMatchImage
  <2> QED
    BY <2>2, <2>3
<1> QED
  BY <1>1, <1>2

\* The paths an entry is about.
LEMMA UnderPaths == \A x \in Paths \cup Dirs : Under(x) \in SUBSET Paths
BY PathAssumption DEF Under, Paths

\* A whiteout deletes the file of its own path; it names what it hides of a
\* directory, and a file of its own layer.
LEMMA WhiteoutStep ==
  ASSUME TypeOK, FilesMatchImage, NEW x \in Paths \cup Dirs, Whiteout(x)
  PROVE  FilesMatchImage'
<1>1. CASE x \in Dirs
  <2>1. files' = files
    BY <1>1, PathAssumption DEF Whiteout, TypeOK, Paths
  <2>2. x \notin Own
    BY <1>1, PathAssumption DEF Own
  <2> QED
    BY <1>1, <2>1, <2>2, HiddenStep, UnderPaths DEF Whiteout
<1>2. CASE x \in Paths /\ x \notin Dirs
  <2>1. Under(x) = {x}
    BY <1>2 DEF Under
  <2>2. \A p \in Interesting : p # x =>
          /\ image'[p] = image[p] /\ hidden'[p] = hidden[p]
          /\ files'[p] = files[p] /\ (p \in wiped' <=> p \in wiped)
    BY <1>2, <2>1 DEF Whiteout, Hide, TypeOK, Paths
  <2>3. x \in Interesting => files'[x] = Absent
    BY <1>2 DEF Whiteout
  <2>4. x \in Interesting => x \in wiped' \/ image'[x] = Absent
    BY <1>2, <2>1 DEF Whiteout, Hide
  <2> QED
    BY <2>2, <2>3, <2>4 DEF FilesMatchImage
<1> QED
  BY <1>1, <1>2

\* What is stored of an interesting path is what the image has there, but for
\* the files a directory's whiteout, an opaque marker or an entry of another type
\* removed, and those a whiteout in their own layer came after.
THEOREM FilesAreTheImage == Spec => []FilesMatchImage
<1>1. Init => FilesMatchImage
  BY DEF Init, FilesMatchImage, Paths
<1>2. TypeOK /\ FilesMatchImage /\ [Next]_vars => FilesMatchImage'
  <2> SUFFICES ASSUME TypeOK, FilesMatchImage, [Next]_vars PROVE FilesMatchImage'
    OBVIOUS
  <2>1. ASSUME NEW p \in Paths, NEW c \in Contents, StoreFile(p, c)
        PROVE  FilesMatchImage'
    BY <2>1 DEF StoreFile, Put, FilesMatchImage, TypeOK, Paths
  <2>2. ASSUME NEW p \in Paths, NEW c \in Contents, InspectELF(p, c) \/ SkipFile(p, c)
        PROVE  FilesMatchImage'
    BY <2>2, PathAssumption
       DEF InspectELF, SkipFile, Inspectable, Put, FilesMatchImage, TypeOK, Paths, fsVars
  <2>3. ASSUME NEW x \in Paths \cup Dirs, Whiteout(x) PROVE FilesMatchImage'
    BY <2>3, WhiteoutStep
  <2>4. ASSUME NEW x \in Paths \cup Dirs, Special(x) PROVE FilesMatchImage'
    BY <2>4, HiddenStep, UnderPaths DEF Special, fsVars
  <2>5. ASSUME NEW d \in Dirs, Opaque(d) PROVE FilesMatchImage'
    BY <2>5, HiddenStep, PathAssumption DEF Opaque, fsVars, Paths
  <2>6. CASE EndLayer \/ Fail \/ Analyse \/ UNCHANGED vars
    BY <2>6 DEF EndLayer, Fail, Analyse, FilesMatchImage, vars, fsVars
  <2> QED
    BY <2>1, <2>2, <2>3, <2>4, <2>5, <2>6 DEF Next
<1> QED
  BY <1>1, <1>2, TypeCorrect, PTL DEF Spec

-----------------------------------------------------------------------------
\* Entries that hide something take no binary's needed libraries away but
\* their own.
LEMMA HideNeeds ==
  ASSUME TypeOK, NeedsAreSeen, NEW ps \in SUBSET Paths, NEW kind,
         Hide(ps, kind), inspected' = inspected,
         \A p \in Candidates \ wiped' : image'[p] # Absent =>
            needed'[p] = needed[p] /\ p \notin wiped
  PROVE  NeedsAreSeen'
<1>1. \A p \in Candidates : image'[p] # Absent => image'[p] = image[p]
  BY DEF Hide, TypeOK, Paths
<1>2. Absent \notin Executables
  BY ContentAssumption
<1> QED
  BY <1>1, <1>2 DEF NeedsAreSeen

\* Below the cap, no needed library of a binary of the image is missing.
THEOREM NeedsAreInTheImage == Spec => []NeedsAreSeen
<1>1. Init => NeedsAreSeen
  BY ContentAssumption DEF Init, NeedsAreSeen, Paths
<1>2. TypeOK /\ NeedsAreSeen /\ [Next]_vars => NeedsAreSeen'
  <2> SUFFICES ASSUME TypeOK, NeedsAreSeen, [Next]_vars PROVE NeedsAreSeen'
    OBVIOUS
  <2>1. ASSUME NEW p \in Paths, NEW c \in Contents, StoreFile(p, c)
        PROVE  NeedsAreSeen'
    BY <2>1, PathAssumption DEF StoreFile, Put, NeedsAreSeen, TypeOK, Paths
  <2>2. ASSUME NEW p \in Paths, NEW c \in Contents, InspectELF(p, c)
        PROVE  NeedsAreSeen'
    <3>1. p \in Candidates /\ inspected \in Nat /\ inspected' = inspected + 1
      BY <2>2, BoundAssumption DEF InspectELF, Inspectable, TypeOK
    <3>2. inspected' < MaxInspections => inspected < MaxInspections
      BY <3>1, BoundAssumption
    <3>3. image' = [image EXCEPT ![p] = c]
      BY <2>2 DEF InspectELF, Put
    <3>4. Needed[c] \subseteq needed'[p]
      BY <2>2, <3>1 DEF InspectELF, TypeOK
    <3>5. \A q \in Candidates : q # p => needed'[q] = needed[q] /\ image'[q] = image[q]
      BY <2>2, <3>1, <3>3 DEF InspectELF, TypeOK, Paths
    <3>6. image'[p] = c
      BY <3>3 DEF TypeOK
    <3>7. wiped' = wiped \ {p}
      BY <2>2 DEF InspectELF, Put
    <3> QED
      BY <3>2, <3>4, <3>5, <3>6, <3>7 DEF NeedsAreSeen
  <2>3. ASSUME NEW p \in Paths, NEW c \in Contents, SkipFile(p, c)
        PROVE  NeedsAreSeen'
    BY <2>3 DEF SkipFile, Inspectable, Put, NeedsAreSeen, TypeOK, Paths, fsVars
  <2>4. ASSUME NEW x \in Paths \cup Dirs, Whiteout(x) PROVE NeedsAreSeen'
    <3>1. ASSUME NEW p \in Candidates \ wiped', image'[p] # Absent
          PROVE  needed'[p] = needed[p] /\ p \notin wiped
      <4>1. CASE p = x
        <5>1. Under(x) = {x} /\ x \in Paths
          BY <4>1, PathAssumption DEF Under, Paths
        <5>2. x \notin Own
          BY <2>4, <3>1, <4>1 DEF Whiteout
        <5> QED
          BY <2>4, <3>1, <4>1, <5>1, <5>2 DEF Whiteout, Hide
      <4>2. CASE p # x
        <5>1. needed'[p] = needed[p]
          BY <2>4, <4>2 DEF Whiteout
        <5>2. p \notin Under(x) \ Own
          BY <2>4, <3>1 DEF Whiteout, Hide, Paths
        <5> QED
          BY <2>4, <3>1, <5>1, <5>2 DEF Whiteout
      <4> QED
        BY <4>1, <4>2
    <3> QED
      BY <2>4, <3>1, HideNeeds, UnderPaths DEF Whiteout
  <2>5. ASSUME NEW x \in Paths \cup Dirs, Special(x) PROVE NeedsAreSeen'
    <3>1. ASSUME NEW p \in Candidates \ wiped', image'[p] # Absent
          PROVE  needed'[p] = needed[p] /\ p \notin wiped
      BY <2>5, <3>1 DEF Special, Hide, Paths, fsVars
    <3> QED
      BY <2>5, <3>1, HideNeeds, UnderPaths DEF Special, fsVars
  <2>6. ASSUME NEW d \in Dirs, Opaque(d) PROVE NeedsAreSeen'
    <3>1. ASSUME NEW p \in Candidates \ wiped', image'[p] # Absent
          PROVE  needed'[p] = needed[p] /\ p \notin wiped
      BY <2>6, <3>1 DEF Opaque, Hide, Paths, fsVars
    <3> QED
      BY <2>6, <3>1, HideNeeds, PathAssumption DEF Opaque, fsVars, Paths
  <2>7. CASE EndLayer \/ Fail \/ Analyse \/ UNCHANGED vars
    BY <2>7 DEF EndLayer, Fail, Analyse, NeedsAreSeen, vars, fsVars
  <2> QED
    BY <2>1, <2>2, <2>3, <2>4, <2>5, <2>6, <2>7 DEF Next
<1> QED
  BY <1>1, <1>2, TypeCorrect, PTL DEF Spec

-----------------------------------------------------------------------------
\* Once there is a report, no entry and no layer follows.
LEMMA NothingAfterDone ==
  ASSUME pc = "done", [Next]_vars PROVE UNCHANGED vars
BY DEF Next, StoreFile, InspectELF, SkipFile, Whiteout, Special, Opaque, Put, Hide,
       Entry, EndLayer, Fail, Analyse

\* A report made from files and needed libraries that match the image covers
\* the image.
LEMMA AnalyseStep ==
  ASSUME TypeOK, FilesMatchImage, NeedsAreSeen, Analyse PROVE ReportIsComplete'
<1>1. PICK E \in ElfFindings :
        report' = [packages |-> PackageFindings, elf |-> E,
                   fips |-> files[Marker] # Absent]
  BY DEF Analyse
<1>2. /\ merged' = layers' /\ image' = image
      /\ inspected' = inspected /\ wiped' = wiped
  BY DEF Analyse, fsVars
<1>3. ASSUME NEW d \in Databases \ wiped, image[d] # Absent
      PROVE  Installed[image[d]] \cap Catalogued \subseteq PackageFindings
  <2>1. files[d] = image[d]
    BY <1>3, PathAssumption DEF FilesMatchImage
  <2> QED
    BY <1>3, <2>1 DEF PackageFindings
<1>4. Marker \notin wiped /\ image[Marker] # Absent => files[Marker] # Absent
  BY PathAssumption DEF FilesMatchImage
<1>5. ASSUME NEW p \in Candidates \ wiped, inspected < MaxInspections,
             image[p] \in Executables \cap Fitting,
             NEW so \in Needed[image[p]] \cap Catalogued
      PROVE  \E e \in E : e[2] = so
  <2>1. so \in needed[p] /\ so \in Sonames
    BY <1>5 DEF NeedsAreSeen, TypeOK
  <2>2. <<p, so>> \in Candidates \X Sonames /\ so \in needed[p] \cap Catalogued
    BY <1>5, <2>1
  <2> QED
    BY <2>2 DEF ElfFindings
<1> QED
  BY <1>1, <1>2, <1>3, <1>4, <1>5 DEF ReportIsComplete

\* A finished report covers the whole image.
THEOREM ReportsAreComplete == Spec => []ReportIsComplete
<1>1. Init => ReportIsComplete
  BY DEF Init, ReportIsComplete
<1>2. TypeOK /\ FilesMatchImage /\ NeedsAreSeen /\ ReportIsComplete /\ [Next]_vars
        => ReportIsComplete'
  <2> SUFFICES ASSUME TypeOK, FilesMatchImage, NeedsAreSeen, ReportIsComplete,
                      [Next]_vars
               PROVE  ReportIsComplete'
    OBVIOUS
  <2>1. CASE pc = "done"
    BY <2>1, NothingAfterDone
       DEF ReportIsComplete, vars, fsVars, scanVars
  <2>2. CASE Analyse
    BY <2>2, AnalyseStep
  <2>3. CASE pc # "done" /\ ~Analyse
    <3>1. pc' # "done"
      BY <2>3 DEF Next, StoreFile, InspectELF, SkipFile, Whiteout, Special, Opaque,
                  Put, Hide, Entry, EndLayer, Fail, vars, scanVars
    <3> QED
      BY <3>1 DEF ReportIsComplete
  <2> QED
    BY <2>1, <2>2, <2>3
<1> QED
  BY <1>1, <1>2, TypeCorrect, FilesAreTheImage, NeedsAreInTheImage, PTL DEF Spec
=============================================================================
