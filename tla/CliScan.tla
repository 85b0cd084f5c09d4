------------------------------- MODULE CliScan -------------------------------
(***************************************************************************)
(* The command line: runScan from its flags to its exit code, over and     *)
(* over, while the scanned project changes between runs and the baseline   *)
(* file passes from one run to a later one.                                *)
(*                                                                         *)
(* A step is one stage of runScan with its error exit.  A finding is a     *)
(* record [rule, file, name, version, line, severity, dep]; its Algorithm  *)
(* field is name and version, dep says that the rule begins "FIPS-DEP-".   *)
(* Reports are the sets they list.                                         *)
(***************************************************************************)
EXTENDS Naturals, Sequences, SequencesExt

CONSTANTS
  Walk,       \* every finding the project may give, in the order of the walk
  Priority,   \* manifestPriority, per file
  Waivers,    \* the waiver comments that may be written: [file, line, rule]
  Modes,      \* what is scanned: "path", "repo", "image"
  Unreadable, \* the files that a walk may be unable to read or parse
  Thresholds  \* -fail-on: 1 low, 2 medium, 3 high, 4 none

Findings == ToSet(Walk)

ASSUME WalkAssumption ==
  /\ Walk \in Seq([rule : STRING, file : STRING, name : STRING, version : STRING,
                   line : Nat, severity : 1..3, dep : BOOLEAN])
  /\ \A f, g \in Findings : f.rule = g.rule => f.severity = g.severity /\ f.dep = g.dep
ASSUME PriorityAssumption == \A f \in Findings : Priority[f.file] \in Nat
ASSUME FlagsAssumption ==
  Modes \subseteq {"path", "repo", "image"} /\ Thresholds \subseteq 1..4

VARIABLES
  tree,      \* the project: the findings in all of its files
  comments,  \* the waiver comments in its files
  here,      \* the waiver comments in files of these names below the
             \* working directory, when that is not the project
  base,      \* the baseline file: "none", "torn" or "whole"
  based,     \* its findings when whole
  made,      \* history: what the file was made from
  pc,        \* the stage of the run, or "idle"
  flags,     \* its flags
  unread,    \* history: the files its walks could not read
  results,   \* the findings in hand
  waived, resolved,
  code,      \* the exit code
  tmp        \* the run's temporary directory exists

projectVars  == <<tree, comments, here>>
baselineVars == <<base, based, made>>
runVars      == <<pc, flags, unread, results, waived, resolved, code, tmp>>
vars         == <<projectVars, baselineVars, runVars>>

Flags == [mode : Modes, dedup : BOOLEAN, write : BOOLEAN, read : BOOLEAN,
          failOn : Thresholds]

TypeOK ==
  /\ tree \subseteq Findings
  /\ comments \subseteq Waivers /\ here \subseteq Waivers
  /\ base \in {"none", "torn", "whole"} /\ based \subseteq Findings
  /\ base # "whole" => based = {} /\ made = <<>>
  /\ made \in [tree : SUBSET Findings, waivers : SUBSET Waivers,
               mode : Modes, dedup : BOOLEAN] \cup {<<>>}
  /\ pc \in {"fetch", "scan", "dedup", "waive", "write", "writing", "read",
             "render", "exited", "idle"}
  /\ flags \in Flags \cup {<<>>} /\ unread \subseteq Unreadable
  /\ results \subseteq Findings
  /\ waived \subseteq Findings /\ resolved \subseteq Findings
  /\ code \in 0..2
  /\ tmp \in BOOLEAN

-----------------------------------------------------------------------------
(* Findings. *)

\* Dedup: the key of a dependency finding.
DepKey(f) == <<f.rule, f.name>>

\* Mutant: the last manifest wins, whatever its rank.
DedupAddLast(out, f) ==
  LET same == {i \in DOMAIN out : f.dep /\ out[i].dep /\ DepKey(out[i]) = DepKey(f)} IN
  IF same = {} THEN Append(out, f)
  ELSE [i \in DOMAIN out |-> IF i \in same THEN f ELSE out[i]]
\* One round of the loop in Dedup: the finding takes the place of the kept one
\* of its key if its manifest ranks higher, and is dropped otherwise.
DedupAdd(out, f) ==
  LET same == {i \in DOMAIN out : f.dep /\ out[i].dep /\ DepKey(out[i]) = DepKey(f)} IN
  IF same = {} THEN Append(out, f)
  ELSE [i \in DOMAIN out |->
          IF i \in same /\ Priority[f.file] > Priority[out[i].file] THEN f ELSE out[i]]

\* Dedup, in the order of the walk.
Dedup(fs) ==
  LET kept[i \in 0..Len(Walk)] ==
        IF i = 0 THEN <<>>
        ELSE IF Walk[i] \in fs THEN DedupAdd(kept[i - 1], Walk[i]) ELSE kept[i - 1]
  IN ToSet(kept[Len(Walk)])

\* ApplyWaivers: a marker on the line of the finding or the line above it.
WaivedBy(ws, f) ==
  /\ f.line # 0
  /\ \E w \in ws : /\ w.file = f.file
                   /\ w.line \in {f.line, f.line - 1}
                   /\ w.rule \in {"*", f.rule}

Waived(ws, fs) == {f \in fs : WaivedBy(ws, f)}

\* fingerprint: no line, no version.
Fingerprint(f) == <<f.rule, f.file, f.name>>

\* Diff, and with the arguments swapped Resolved.
Diff(fs, gs) == {f \in fs : \A g \in gs : Fingerprint(f) # Fingerprint(g)}

\* shouldFail.
AtLeast(fs, th) == {f \in fs : f.severity >= th}

-----------------------------------------------------------------------------
\* The project without these files, and as this run could read it.
Without(fs) == {f \in tree : f.file \notin fs}
Seen == Without(unread)

Init ==
  /\ tree = {} /\ comments = {} /\ here \in SUBSET Waivers
  /\ base = "none" /\ based = {} /\ made = <<>>
  /\ pc = "idle" /\ flags = <<>> /\ unread = {} /\ results = {}
  /\ waived = {} /\ resolved = {} /\ code = 0 /\ tmp = FALSE

Between == pc \in {"idle", "exited"}

\* A run leaves nothing in memory for the next.
Fresh == /\ unread' = {} /\ results' = {} /\ waived' = {} /\ resolved' = {}
         /\ code' = 0 /\ tmp' = FALSE

\* Between runs someone adds or removes a finding or a comment.
Edit == /\ Between
        /\ \/ /\ \E f \in Findings : tree' = SymDiff(tree, {f})
              /\ UNCHANGED <<comments, here>>
           \/ /\ \E w \in Waivers : comments' = SymDiff(comments, {w})
              /\ UNCHANGED <<tree, here>>
        /\ pc' = "idle" /\ flags' = <<>> /\ Fresh
        /\ UNCHANGED baselineVars

Start == /\ Between
         /\ \E fl \in Flags :
              /\ flags' = fl
              /\ pc' = IF fl.mode = "repo" THEN "fetch" ELSE "scan"
         /\ Fresh
         /\ UNCHANGED <<projectVars, baselineVars>>

\* os.Exit at the stage: deferred calls do not run.
Die(stage, c) == /\ pc = stage
                 /\ pc' = "exited" /\ code' = c
                 /\ UNCHANGED <<projectVars, flags, unread, results, waived, resolved, tmp>>

\* resolveScanRoot, FetchRepo.
Fetch == /\ pc = "fetch"
         /\ tmp' = TRUE
         /\ pc' = "scan"
         /\ UNCHANGED <<projectVars, baselineVars, flags, unread, results, waived, resolved, code>>

\* The two walks, which pass over every directory they cannot list and every file
\* they cannot read or parse, even a root that is not there; or ScanImage, which
\* gives up on such an image (ToolError).
Scan == /\ pc = "scan"
        /\ \E fs \in SUBSET Unreadable :
             /\ flags.mode = "image" => fs = {}
             /\ unread' = fs /\ results' = Without(fs)
        /\ pc' = IF flags.mode # "image" /\ flags.dedup THEN "dedup" ELSE "waive"
        /\ UNCHANGED <<projectVars, baselineVars, flags, waived, resolved, code, tmp>>

DedupResults == /\ pc = "dedup"
                /\ results' = Dedup(results)
                /\ pc' = "waive"
                /\ UNCHANGED <<projectVars, baselineVars, flags, unread, waived, resolved, code, tmp>>

\* The comments ApplyWaivers finds when it opens a finding's file.  For a
\* repository relativizePaths has cut the path down to the one inside the
\* repository, which is then looked up below the working directory.
Readable(mode) == IF mode = "path" THEN comments ELSE here

ApplyWaivers ==
  /\ pc = "waive"
  /\ waived' = Waived(Readable(flags.mode), results)
  /\ results' = results \ Waived(Readable(flags.mode), results)
  /\ pc' = IF flags.write THEN "write" ELSE IF flags.read THEN "read" ELSE "render"
  /\ UNCHANGED <<projectVars, baselineVars, flags, unread, resolved, code, tmp>>

\* Mutant: the file is not truncated.
OpenBaselineKeeps == /\ pc = "write"
                     /\ base' = "torn"
                     /\ pc' = "writing"
                     /\ UNCHANGED <<projectVars, based, made, flags, unread, results, waived,
                                    resolved, code, tmp>>
\* WriteBaseline: os.WriteFile truncates the file first.
OpenBaseline == /\ pc = "write"
                /\ base' = "torn" /\ based' = {} /\ made' = <<>>
                /\ pc' = "writing"
                /\ UNCHANGED <<projectVars, flags, unread, results, waived, resolved, code, tmp>>

\* Mutant: the baseline is captured before the waivers are applied.
WriteBaselineAll ==
  /\ pc = "writing"
  /\ base' = "whole" /\ based' = results \cup waived
  /\ made' = [tree |-> Seen, waivers |-> Readable(flags.mode),
              mode |-> flags.mode, dedup |-> flags.dedup]
  /\ pc' = IF flags.read THEN "read" ELSE "render"
  /\ UNCHANGED <<projectVars, flags, unread, results, waived, resolved, code, tmp>>
WriteBaseline ==
  /\ pc = "writing"
  /\ base' = "whole" /\ based' = results
  /\ made' = [tree |-> Seen, waivers |-> Readable(flags.mode),
              mode |-> flags.mode, dedup |-> flags.dedup]
  /\ pc' = IF flags.read THEN "read" ELSE "render"
  /\ UNCHANGED <<projectVars, flags, unread, results, waived, resolved, code, tmp>>

\* Mutant: a baseline that cannot be read counts as an empty scan.
ReadBaselineAnyway ==
  /\ pc = "read"
  /\ results' = IF base = "whole" THEN Diff(results, based) ELSE {}
  /\ resolved' = Diff(based, results)
  /\ pc' = "render"
  /\ UNCHANGED <<projectVars, baselineVars, flags, unread, waived, code, tmp>>
\* ReadBaseline and the two differences.
ReadBaseline ==
  /\ pc = "read" /\ base = "whole"
  /\ results' = Diff(results, based)
  /\ resolved' = Diff(based, results)
  /\ pc' = "render"
  /\ UNCHANGED <<projectVars, baselineVars, flags, unread, waived, code, tmp>>

\* The report is out; shouldFail decides between os.Exit(1) and a return,
\* and only the return runs the deferred clean-up.
Finish == /\ pc = "render"
          /\ pc' = "exited"
          /\ LET fails == AtLeast(results, flags.failOn) # {} IN
             /\ code' = IF fails THEN 1 ELSE 0
             /\ tmp' = (tmp /\ fails)
          /\ UNCHANGED <<projectVars, baselineVars, flags, unread, results, waived, resolved>>

\* Exit 2: no download, an image that cannot be scanned, a baseline that cannot be
\* written or read, a report that cannot be written, an unknown format.  The walks of
\* a path or a repository never return the error main.go asks them for.
ToolError == /\ \E stage \in {"fetch", "scan", "write", "writing", "read", "render"} :
                  Die(stage, 2) /\ (stage = "scan" => flags.mode = "image")
             /\ UNCHANGED baselineVars

\* Interrupted, or killed.
Kill == /\ ~Between
        /\ pc' = "idle" /\ flags' = <<>> /\ Fresh
        /\ UNCHANGED <<projectVars, baselineVars>>

Next == \/ Edit \/ Start \/ Fetch \/ Scan \/ DedupResults \/ ApplyWaivers
        \/ OpenBaseline \/ WriteBaseline \/ ReadBaseline \/ Finish
        \/ ToolError \/ Kill

Spec == Init /\ [][Next]_vars

-----------------------------------------------------------------------------
(* Properties. *)

\* The gate is sound: when a run exits with 0, each finding at or above the
\* threshold in what the run could read has been waived or is in the baseline,
\* itself or through a finding of the same rule and package in a manifest that was
\* read, too, and ranks at least as high.
GateIsSound ==
  pc = "exited" /\ code = 0 =>
    \A f \in AtLeast(Seen, flags.failOn) :
      \E g \in Seen :
        /\ g = f \/ (f.dep /\ DepKey(g) = DepKey(f) /\ Priority[g.file] >= Priority[f.file])
        /\ \/ WaivedBy(Readable(flags.mode), g)
           \/ flags.read /\ base = "whole"
              /\ \E b \in based : Fingerprint(b) = Fingerprint(g)

\* A baseline is quiet: a run that can read of the project what the baseline was
\* made from, in the same way, reports nothing new and nothing resolved.
BaselineIsQuiet ==
  pc = "exited" /\ code # 2 /\ flags.read
    /\ made = [tree |-> Seen, waivers |-> Readable(flags.mode),
               mode |-> flags.mode, dedup |-> flags.dedup]
    => results = {} /\ resolved = {}

\* What is reported as resolved is gone from the project, or its author said
\* so in a comment, or a manifest that ranks higher reports it, or its file could
\* not be read this time.
ResolvedAreGone ==
  pc = "exited" => \A r \in resolved : \A f \in tree :
    Fingerprint(f) = Fingerprint(r) =>
      \/ f.file \in unread
      \/ WaivedBy(Readable(flags.mode), f)
      \/ \E g \in Seen : f.dep /\ g # f /\ DepKey(g) = DepKey(f)
                         /\ Priority[g.file] >= Priority[f.file]

\* What the README says of the exit codes: 0 is no findings at or above the
\* threshold (that no one has accepted), 2 a tool error.
ZeroIsClean ==
  pc = "exited" /\ code = 0 /\ comments = {} /\ ~flags.read =>
    AtLeast(tree, flags.failOn) = {}

\* What the comment on Fetcher says: who fetches a repository removes its directory
\* when done.
FetchedIsRemoved == pc = "exited" => ~tmp

\* The changelog on waivers: one suppresses a finding on its own line or the
\* next, in the file it is written in.
WaiversSuppress ==
  pc = "exited" /\ flags.mode # "image" /\ code # 2 =>
    /\ \A f \in results : ~WaivedBy(comments, f)
    /\ \A f \in waived : WaivedBy(comments, f)
=============================================================================
