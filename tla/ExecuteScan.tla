----------------------------- MODULE ExecuteScan -----------------------------
(***************************************************************************)
(* executeScan: the branch for an image composed with the branch for a     *)
(* repository.  The scheduler's goroutine runs one scan after the other;   *)
(* the registry, the repository host and the life of the process go on     *)
(* beside it.  Module Scheduler takes for granted what is shown here: a    *)
(* scan ends, with a report or with an error.                              *)
(***************************************************************************)
EXTENDS Naturals, Sequences

CONSTANTS  \* of module RegistryClient
  Digests, Manifest, Pushed, None, References, Platforms, Malformed, Challenges
CONSTANTS  \* of module RepoFetch
  Commits, Archive, Paths, Escaping, Sources, Manifests, SkipDirs, Oversized,
  Unscanned, Hits, Dedup(_), NoDir, Dirs

VARIABLES latest, challenge, pc, ref, plat, want, left, pulled, cache, hand,
          given, seen, granted
VARIABLES head, stage, entries, dirs, dir, disk, found, heads, orphans

Pull == INSTANCE RegistryClient
Repo == INSTANCE RepoFetch

\* An index names each of its images by a digest, as the image specification has it:
\* ManifestName would take an empty one for the tag.
ASSUME RegistryAssumption ==
  /\ Pushed \subseteq Digests /\ None \notin Digests
  /\ Challenges \subseteq {"open", "basic", "missing", "bearer", "wider"}
  /\ References \subseteq [tag : {"", "latest"}, digest : Digests \cup {None}]
  /\ \A d \in Digests :
       \/ Manifest[d] \in [layers : Seq(STRING)]
       \/ Manifest[d] \in [index : Seq([platform : Pull!Platform, digest : Digests])]
ASSUME ArchiveAssumption ==
  /\ \A c \in Commits : Archive[c] \in Seq(Repo!Entry)
  /\ NoDir \notin Dirs

imageVars == <<latest, challenge, pc, ref, plat, want, left, pulled, cache, hand,
               given, seen, granted>>
repoVars  == <<head, stage, entries, dirs, dir, disk, found, heads, orphans>>
vars      == <<imageVars, repoVars>>

Idle == pc = "idle" /\ stage = "idle"

TypeOK == Pull!TypeOK /\ Repo!TypeOK /\ (pc = "idle" \/ stage = "idle")

Init == Pull!Init /\ Repo!Init

ScanImage == Idle /\ Pull!Begin /\ UNCHANGED repoVars
ScanRepo  == Idle /\ Repo!Begin /\ UNCHANGED imageVars

InImage == Pull!Client /\ UNCHANGED repoVars
InRepo  == Repo!Scanner /\ UNCHANGED imageVars

\* Others push images and commits; tokens expire.
Outside == \/ Pull!Registry /\ UNCHANGED repoVars
           \/ \E c \in Commits : Repo!Commit(c) /\ UNCHANGED imageVars

\* The process dies in a scan, and is started again.
Die == \/ Pull!Die /\ UNCHANGED repoVars
       \/ Repo!Die /\ UNCHANGED imageVars

Next == ScanImage \/ ScanRepo \/ InImage \/ InRepo \/ Outside \/ Die

Spec == Init /\ [][Next]_vars

\* Each request has its time limit (defaultTimeout, fetchTimeout), and the archive
\* its size limit: a step of the scan is taken, if only to fail.
FairSpec == Spec /\ WF_vars(InImage) /\ WF_vars(InRepo)

-----------------------------------------------------------------------------
(* Properties. *)

\* The layers of a pull are all those of one image the reference named during it
\* (RegistryClient).
OneImage == Pull!OneImage

\* A token is fetched only when the last one has expired (RegistryClient).
TokensAreReused == Pull!TokensAreReused

\* Each temporary directory belongs to the running scan or to one that died, or could
\* not be removed (RepoFetch).
DirsAreOwned == Repo!DirsAreOwned

\* A scan ends, however often tags are pushed and tokens expire meanwhile: authedGet
\* asks for a token once per request, and an archive is finite.
ScanEnds == ~Idle ~> Idle

\* executeScan keeps ScanPromise: an error, or all of one version.
Asked == {<<"image", Pull!ParseReference(r), Pull!ParsePlatform(p)>> :
            r \in References, p \in Platforms \ {Malformed}}

Tip(t) == IF t[1] = "image" THEN <<"image", Pull!Named(t[2]), t[3]>>
                            ELSE <<"commit", head>>

Rights(v) ==
  IF v[1] = "image"
  THEN {<<"image", Manifest[i].layers>> :
          i \in {j \in Pull!Images(v[2], v[3]) : Pull!IsImage(j)}}
  ELSE {<<"repo", Repo!RepoReport(v[2])>>}

Nothing  == <<"nothing">>
NoReport == <<"error">>
Things   == Asked \cup {<<"repo">>}
Versions == {<<"image", d, t[3]>> : d \in Digests, t \in Asked}
              \cup {<<"commit", c>> : c \in Commits}

Reports == [v \in Versions |-> Rights(v)]
Tips    == [t \in Things |-> Tip(t)]
Scanned == CASE Pull!Active  -> <<"image", given, plat>>
             [] Repo!Running -> <<"repo">>
             [] OTHER        -> Nothing
Shown   == CASE Pull!Active  -> {<<"image", d, plat>> : d \in seen}
             [] Repo!Running -> {<<"commit", c>> : c \in heads}
             [] OTHER        -> {}
Answer  == CASE pc = "done"      -> <<"image", pulled>>
             [] stage = "return" -> <<"repo", found>>
             [] OTHER            -> NoReport

Promise == INSTANCE ScanPromise WITH
  tip <- Tips, scanned <- Scanned, shown <- Shown, answer <- Answer

ImplementsPromise == Promise!Spec
=============================================================================
