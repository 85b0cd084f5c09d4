------------------------------ MODULE RepoFetch ------------------------------
(***************************************************************************)
(* executeScan of a repository: the archive of a ref is downloaded and     *)
(* extracted into a fresh temporary directory, the directory is walked by  *)
(* the source-code scanner and by the dependency scanner, and removed.     *)
(* The process may die at any point, and nothing cleans up after it.       *)
(*                                                                         *)
(* An archive is a sequence of entries [type, path]; a path stands for the *)
(* file with its content, and the constants say what there is to say of    *)
(* it.                                                                     *)
(***************************************************************************)
EXTENDS Naturals, Sequences, SequencesExt

CONSTANTS
  Commits,    \* what the ref may point at
  Archive,    \* of each commit: its entries
  Paths,      \* the paths of the entries
  Escaping,   \* those that, joined to a directory, lead out of it
  Sources,    \* the files of a language the code scanner knows
  Manifests,  \* the files the dependency scanner has a parser for
  SkipDirs,   \* the paths below a directory of skipDirs
  Oversized,  \* the files above 5 MiB
  Unscanned,  \* the files scanFile or a parser gives up on, with an error
  Hits,       \* of each path: the findings of a walk of it
  Dedup(_),   \* deps.Dedup, as in module CliScan, on sets
  NoDir, Dirs \* the names MkdirTemp may pick

Entry == [type : {"dir", "reg", "link"}, path : Paths]

VARIABLES
  head,     \* the host: the commit of the ref
  stage,    \* the scan: "idle", "request", "extract", "code", "deps", "return", "failed"
  entries,  \* the entries not extracted yet
  dirs,     \* the temporary directories that exist
  dir,      \* the one of the scan, or NoDir
  disk,     \* the files written below dir
  found     \* the findings
VARIABLES   \* history, read by properties only
  heads,    \* the commits of the ref since the scan began
  orphans   \* the directories of scans that died, and those that could not be removed

history  == <<heads, orphans>>
scanVars == <<stage, entries, dirs, dir, disk, found, history>>
vars     == <<head, scanVars>>

Running == stage \in {"request", "extract", "code", "deps"}

TypeOK ==
  /\ head \in Commits
  /\ stage \in {"idle", "request", "extract", "code", "deps", "return", "failed"}
  /\ dirs \subseteq Dirs /\ dir \in dirs \cup {NoDir} /\ orphans \subseteq Dirs
  /\ heads \subseteq Commits /\ (Running => head \in heads)
  /\ disk \subseteq Paths
  /\ (dir # NoDir <=> stage \in {"extract", "code", "deps"})
  /\ (stage # "extract" => entries = <<>>)

Init == /\ head \in Commits
        /\ stage = "idle" /\ entries = <<>> /\ dirs = {} /\ dir = NoDir
        /\ disk = {} /\ found = {} /\ heads = {} /\ orphans = {}

\* The ref is pushed to.
Commit(c) == /\ c \in Commits \ {head}
             /\ head' = c
             /\ heads' = IF Running THEN heads \cup {c} ELSE heads
             /\ UNCHANGED <<stage, entries, dirs, dir, disk, found, orphans>>

-----------------------------------------------------------------------------
(* FetchRepo. *)

\* Choose refuses an unknown host, and each fetcher a spec it cannot take apart.
Begin == /\ stage = "idle"
         /\ stage' \in {"request", "failed"}
         /\ found' = {} /\ heads' = {head}
         /\ UNCHANGED <<head, entries, dirs, dir, disk, orphans>>

Leave == dir' = NoDir /\ disk' = {} /\ entries' = <<>>

\* Both callers pass over an error of os.RemoveAll.
RemoveAll == /\ \/ dirs' = dirs \ {dir} /\ UNCHANGED orphans
                \/ UNCHANGED dirs /\ orphans' = orphans \cup {dir}
             /\ Leave

Fails == stage' = "failed" /\ UNCHANGED <<head, found, heads>>

\* No answer, another status than 200, or no temporary directory.
RequestFails == /\ stage = "request"
                /\ Fails
                /\ UNCHANGED <<entries, dirs, dir, disk, orphans>>

Download == /\ stage = "request"
            /\ stage' = "extract"
            /\ dir' \in Dirs \ dirs
            /\ dirs' = dirs \cup {dir'}
            /\ entries' = Archive[head]
            /\ UNCHANGED <<head, disk, found, history>>

\* Mutant: the directory of an extraction that failed is left behind.
ExtractFailsLeaving == /\ stage = "extract"
                       /\ Fails
                       /\ Leave /\ UNCHANGED <<dirs, orphans>>
\* The stream is cut off, by the host, the time limit or the 500 MiB limit, or the
\* disk is full.
ExtractFails == stage = "extract" /\ Fails /\ RemoveAll

\* Mutant: the end of a stream that was cut off taken for the end of the archive.
ExtractShort == /\ stage = "extract"
                /\ stage' = "code" /\ entries' = <<>>
                /\ UNCHANGED <<head, dirs, dir, disk, found, history>>
ExtractEnds == /\ stage = "extract" /\ entries = <<>>
               /\ stage' = "code"
               /\ UNCHANGED <<head, entries, dirs, dir, disk, found, history>>

\* A path that escapes, of whatever type, ends the extraction before anything of it is
\* written; links and devices are skipped; a file is written over an older one of its
\* path.
ExtractEntry ==
  /\ stage = "extract" /\ entries # <<>>
  /\ LET e == Head(entries) IN
     \/ e.path \in Escaping /\ Fails /\ RemoveAll
     \/ /\ e.path \notin Escaping
        /\ disk' = IF e.type = "reg" THEN disk \cup {e.path} ELSE disk
        /\ entries' = Tail(entries)
        /\ UNCHANGED <<head, stage, dirs, dir, found, history>>

-----------------------------------------------------------------------------
(* The two walks, and executeScan's return. *)

Walked(paths) == paths \ SkipDirs

\* code.ScanPath: neither it nor deps.ScanPath ever returns an error; what a walk
\* cannot read or parse it passes over.
CodeFindings(paths) ==
  UNION {Hits[p] : p \in ((Walked(paths) \cap Sources) \ Oversized) \ Unscanned}
DepFindings(paths) == UNION {Hits[p] : p \in (Walked(paths) \cap Manifests) \ Unscanned}

ScanCode == /\ stage = "code"
            /\ stage' = "deps"
            /\ found' = CodeFindings(disk)
            /\ UNCHANGED <<head, entries, dirs, dir, disk, history>>

\* Dedup over both walks' findings, and the deferred RemoveAll.
ScanDeps == /\ stage = "deps"
            /\ stage' = "return"
            /\ found' = Dedup(found \cup DepFindings(disk))
            /\ RemoveAll
            /\ UNCHANGED <<head, heads>>

\* What the call kept is gone once it is over; what is on disk is not.
Return == /\ stage \in {"return", "failed"}
          /\ stage' = "idle" /\ found' = {} /\ heads' = {}
          /\ UNCHANGED <<head, entries, dirs, dir, disk, orphans>>

Die == /\ Running
       /\ stage' = "idle" /\ found' = {} /\ heads' = {}
       /\ orphans' = orphans \cup ({dir} \ {NoDir})
       /\ Leave
       /\ UNCHANGED <<head, dirs>>

Scanner == RequestFails \/ Download \/ ExtractFails \/ ExtractEnds \/ ExtractEntry
           \/ ScanCode \/ ScanDeps \/ Return

-----------------------------------------------------------------------------
(* Properties. *)

\* Every temporary directory there is belongs to the running scan, to one that died, or
\* could not be removed: whichever step fails, executeScan and downloadAndExtract try to
\* remove it ("must os.RemoveAll it when done", Fetcher), and never another one's.
DirsAreOwned == dirs = orphans \cup ({dir} \ {NoDir}) /\ dir \notin orphans

\* The whole report of a commit: both walks over all regular files of its archive.
Files(c) == {Archive[c][i].path : i \in {j \in DOMAIN Archive[c] : Archive[c][j].type = "reg"}}
RepoReport(c) == Dedup(CodeFindings(Files(c)) \cup DepFindings(Files(c)))
=============================================================================
