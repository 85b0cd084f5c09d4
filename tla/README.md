# A verification model of fipscan

fipscan looks for cryptography that is not FIPS-approved in source trees, dependency
manifests and container images. It runs once, as a command, or as a server that keeps a
watchlist of repositories and images, scans each again when its interval has passed and
posts what is new to webhooks. This directory holds TLA+ modules translated from the Go
code, the TLC configurations that check them and TLAPS proofs about them.

Modelled are the server, with its goroutines, shared files, failures and restarts; the scan
it runs, of an image through the registry and its layers and of a repository through a
temporary directory; the one-shot command with its baseline and waivers; and the catalog of
advisories, from the importer to the lookup of a version. What is left is in *Plan*.

## Inventory

All paths are under `src/`.

| Component | State it keeps | Operations | Works with | What is hard |
|---|---|---|---|---|
| Scheduler, `internal/server/scheduler.go` | `running` (ids being scanned), the `manual` channel (16), the position of its goroutine | `Run`, `sweep`, `RequestScan`, `scanOne` | reads and stamps the Store, calls the scanners, `dispatchAlerts`, the audit log | one goroutine for ticks, requests and scans; snapshots that get old; every return path of `scanOne`; shutdown does not wait for it |
| Process, `internal/server/server.go` | the context, the listener | `Run`: start, SIGINT/SIGTERM, shutdown within 5 s | starts scheduler and handlers | what dies with the process, what is on disk |
| Store, `internal/server/storage.go` | `watchlist.json`, `alerts.json`, `scans/<id>.json`, one mutex | add, delete, get, list, stamp, save | called by scheduler, handlers and alerts | read-modify-write of whole files, readers without the mutex, crashes between write and rename |
| Alerts, `internal/server/alerts.go` | none of its own; posts in flight are goroutines | `dispatchAlerts`, `diffFindings`, `filterBySeverity`, `postAlert` | reads destinations and the previous record | which record is the previous one after failures; fire-and-forget posts |
| Handlers and pages, `internal/server/handlers.go`, `ui.go` | none | add, delete, scan a target; add, delete, test a destination; read-only pages | Store, Scheduler, audit log | several store calls per request, interleaved with the scheduler |
| Authentication, `internal/server/auth.go` | none | hash, verify, `basicAuth` | wraps the handlers | constant-time comparison, hash format |
| Audit log, `internal/audit` | an append-only JSONL file | one line per event | scheduler, handlers, alerts | order of a line and of the change it reports |
| Findings, `internal/findings` | baseline file, waiver comments | `Diff`, `Resolved`, `ApplyWaivers` | command line | multisets compared as sets of fingerprints |
| Dependency scanner, `internal/deps` | catalog index | a parser per manifest kind, version constraints, `Dedup` | command line, `executeScan` | version order, constraint boundaries, line-oriented parsers |
| OSV importer, `internal/osv`, `cmd/fipscan-osv-import` | the rows collected so far | download per ecosystem, filter, ranges to constraints, sort, write | writes `osv_entries.go`, read by `Lookup` | advisories amended between downloads, failed downloads, one advisory in several dumps, ranges with several events |
| Image scanner, `internal/container` | `ImageFS` built layer by layer | `MergeLayer`, package databases, RPM headers, ELF | registry client | whiteouts, replaced files, caps |
| Registry client, `internal/registry` | token cache | manifests, blobs, 401 and retry | image scanner | tags that move between requests, tokens that expire, one retry |
| Fetchers, `internal/source` | a temporary directory | download, extract, clean up | command line, `executeScan` | cleanup on every error path, refs that move, archives with escaping paths |
| Code scanner, `internal/scan/code` | none | walk, one regular expression per pattern and line | command line, `executeScan` | exclusions, text matching |
| Reports, `internal/report` | none | terminal, JSON, SARIF, CSAF | command line | CSAF product tree and statuses |
| Command line, `cmd/fipscan/main.go` | none | `runScan`, `runServer`, `runHashPassword` | everything | order of the stages, exit codes, clean-up before `os.Exit` |

What makes each of them correct:

* *Scheduler*: a due target is scanned again, a request that was accepted is served, nothing
  is scanned that is not watched, a mark never outlives its scan, a deleted target stays
  deleted.
* *Store*: no update is lost, a reader always finds a whole file, a crash leaves the old or
  the new state.
* *Records and audit*: the watchlist points at saved records of the same target; the audit
  log tells of every record how it ended.
* *Alerts*: what is posted is the difference to the scan the target was last stamped with;
  no finding falls between two scans; unchanged code is not reported twice.
* *Findings, dependencies, versions, OSV*: `Diff` and `Resolved` split current and baseline;
  `Dedup` loses no finding a rule does not name; version order is total and a constraint
  means what its advisory says.
* *Images*: the merged layers equal the file system they describe.
* *Registry, fetchers*: a scan ends, with all of one version of what was asked for or with an
  error; one retry with a fresh token; no directory left behind but by a process that died.
* *Command line*: the exit code follows the threshold after waivers and baseline.
* *Importer*: every row is warranted by an advisory, no listed advisory is missed, the same
  dumps give the same file.

## Modules

| Module | Models | Status |
|---|---|---|
| `ScanService` | what the scheduling half promises: watched targets, due ones, at most one scan in flight | abstract specification |
| `Scheduler` | process life, scheduler goroutine, manual channel, handlers that change the watchlist or queue a scan | implements `ScanService` |
| `Server` | `Scheduler` with the data: records, stamps, destinations, posts, audit log | implements `Scheduler` |
| `Register` | what the Store promises of a list file and of record files | abstract specification |
| `StoreFiles` | Store at the level of system calls: mutex, inodes, temporary file, rename, crash | implements `Register` |
| `ImageLayers` | `ScanImage` after the manifest: the layers merged entry by entry, then the report | beside it the image as the layers describe it |
| `CliScan` | `runScan` from flags to exit code, run after run over a changing project and one baseline file | `Dedup`, `Diff`, `Resolved`, `ApplyWaivers`, `shouldFail` as operators |
| `ScanPromise` | what `executeScan` promises: an error, or the whole report of one version | abstract specification |
| `RegistryClient` | the requests of `ScanImage`: reference, index, manifest, layers, tokens | a component of `ExecuteScan` |
| `RepoFetch` | fetch, extraction, the two walks and the removal of a repository | a component of `ExecuteScan` |
| `ExecuteScan` | `executeScan`: the two branches, one scan after the other | composes both, implements `ScanPromise` |
| `Versions` | versions, constraints and OSV events; beside them the order of versions and the meaning of an event list | operators only |
| `OsvCatalog` | the importer, import after import over a changing feed, and `Lookup` in what it wrote | uses `Versions` |
| `Scheduler_proofs`, `Server_proofs`, `StoreFiles_proofs`, `ImageLayers_proofs`, `CliScan_proofs`, `ExecuteScan_proofs`, `OsvCatalog_proofs` | theorems | proofs |
| `Recursion` | least numbers, induction up to a bound and loops, over sets and functions: what the proofs about `Dedup`, `ToEntries` and the selection of a range rest on | lemmas |
| `MCServer`, `MCStoreFiles`, `MCImageLayers`, `MCCliScan`, `MCExecuteScan`, `MCOsvCatalog` | the above, ready for TLC | constants and symmetry |

How they fit together: `Scheduler` takes a Store method for one atomic step, which is what
`StoreFiles` shows, and a call of `executeScan` for a step that ends with a result or an
error, which is what `ExecuteScan` shows. `RegistryClient` ends where `ImageLayers` begins,
with the list of layers; `RepoFetch` and `CliScan` take what a parser or a pattern finds in a
file for a constant, and `OsvCatalog` is about the table that `Lookup` finds it in.

### Scheduler

State: `life` is the process (`server.Run`), `watch` is `watchlist.json` reduced to what
`sweep` reads of an entry: never there, due (no `LastScan`, or one older than the
interval), fresh, or deleted. `manual` is the channel, `pc`, `todo` and `cur` the position
of the goroutine and its locals, `running` the map of marked ids, `adding` the add-handlers
that have written the target and not yet queued its first scan.

Actions follow the code one critical section or channel operation at a time: `Sweep` is
`ListTargets` and the interval test on the same snapshot; `SweepNext`/`TakeManual` call
`ScanOne`, which skips marked ids and marks the others; `GetTarget`, `ExecuteScan`,
`SaveScan`, `UpdateTargetScan`, `DispatchAlerts` are the calls of `scanOne` in order, with
`GetFails` (the target is gone or cannot be read), `SaveFails` and `UpdateFails` as their
error paths and `Return` as its deferred function, which all of them run.
After each of its targets and after each manual request the goroutine is at `"sweep"`; with
an empty `todo` it goes back to the `select`. `AddTarget`, `RequestAdded`, `ScanTarget` and
`DeleteTarget` are handlers. `Start`, `Signal`, `Exit`, `Crash` are the process, `Lapse` is
the passage of time.

Abstractions. A handler whose store write fails answers 500 and changes nothing: a
stutter, so no action. Of an update that fails the code only logs the error. An id is
drawn once (128 random bits). An API client may send a `last_scan` and a `last_scan_id` of
its own with a new target, for the handler decodes the whole record and `AddTarget` only
overwrites id and time: `AddTarget` has these cases. A listener that cannot bind ends the
process like a crash. A request that was accepted before the shutdown runs on until the
process exits, so handlers are enabled while the process is stopping.

### Server

Each action is a `Scheduler` action conjoined with what the same code does to the data:
`stamp` is `last_scan_id`, `scans` the files under `scans/`, `rec` and `prev` the locals of
`scanOne`, `dest` is `alerts.json`, `posts` the goroutines of `postAlert`, `audit` the lines
`scan.started`, `scan.completed`, `scan.failed` of the audit log. `sent`, `since`, `cut`,
`stamped`, `blind` and `lost` are history, read by properties only.

Two errors that the code drops are faults here. `Logger.Emit` ignores a line that could not be
written: with the fault `"audit"` the line goes to `lost`. `dispatchAlerts` ignores the error of
`GetScan`: with the fault `"read"` a previous record that is there counts as none, the scan
posts everything as initial, and is remembered in `blind`.

A finding is an issue and a place. `diffFindings` compares rule, algorithm and file; the
file of an image finding is the image reference, the file of a repository finding is a path
under the temporary directory of its scan (`Place`). The audit lines of the handlers are left
out. A save that fails when the record is marshalled and one that fails on the disk are the same.

### StoreFiles

A step is one system call or the mutex. Files are inodes with names, so that a reader that
opened a record keeps its inode when the name moves. `Acquire` … `Return` is any method of
`Store`; `GetOpen`/`GetRead` are `GetScan` and one file of `ListScansForTarget`, which take no
mutex. An entry of the list is reduced to whether it is there and stamped, which is enough
to tell a lost update. A short write, a failed write and a failed rename leave the temporary
file behind; the next writer of that path truncates it. This module is the reason why
`Scheduler` and `Server` may take a Store method for one atomic step.

What the kernel has accepted survives a crash here. `writeJSONAtomic` does not call fsync,
so after a power failure a renamed file may be blank, and a blank `watchlist.json` decodes
as an empty list; this depends on the file system and is left out.

### ImageLayers

A step is one tar entry of the layer that `MergeLayer` is reading: a file that is stored,
one that is inspected as an ELF binary, one that is skipped, a whiteout, an opaque marker,
anything else. `files` and `needed` are the two maps of `ImageFS`, `inspected` the counter
that caps the inspections; `EndLayer` goes to the next layer, `Fail` is a layer that cannot
be fetched or read to its end, `Analyse` is `analyseFS` with the findings it makes. `image`
is history: the file system as the image format defines it. `seen` are the names the open
layer has had so far, an entry, a whiteout of it and an opaque marker in it being three names of
one place, in any order. `hidden` and `wiped` are where the scan departs from the image:
`hidden` the files under a whited-out or opaque directory or replaced by something that is no
regular file, which it keeps, and `wiped` those that a whiteout in their own layer comes after,
which it drops. These are the named exceptions of `FilesMatchImage`; for whiteouts of
directories, opaque markers and whiteouts in a file's own layer, the comment on `MergeLayer`
promises otherwise, and `image_markers` shows that the code does not do it.

Abstractions. A package database is the set of packages it lists, a binary the set of
libraries it needs. A name with `..` in it and the whiteout of a file whose name begins with
a dot are not followed either (`normalizePath`) and are left out, and so is the truncation of
a file at its size limit. A layer larger than its limit ends in the middle of an entry:
`Fail`.

### CliScan

A step is one stage of `runScan`, and the stages have their error exits (`ToolError`, `Die`).
The walks have none: both pass over whatever they cannot list, read or parse. `Scan` picks the
files that are passed over, `unread`; `Seen` is what the project has in the other files.
`tree` is the project, as the list of findings a walk of it gives, and `comments` the waiver
comments in it; `Edit` changes both between runs. `here` is what lies in files of the same
names below the working directory, which is where `ApplyWaivers` looks when the paths of a
fetched repository have been made relative. `base` and `based` are the baseline file, torn
between `OpenBaseline` and `WriteBaseline`; `made` is history, what the file was made from.
`tmp` is the temporary directory of the run, which `os.Exit` leaves behind. `Kill` may come at
any stage.

Abstractions. One file serves `-baseline` and `-baseline-write`. The `Algorithm` field is
the name and version that `fingerprint` and `depPackageName` take it apart into. The report
is a set; `Dedup` works on the sequence, since there the order decides which finding stays.
`resolved` is computed whenever a baseline is read, `-show-resolved` only shows it; formats
and wording are left out. The runs take paths and repositories; an image differs in that it
is not deduplicated and has no file to look for comments in.

### RegistryClient

`latest` is where the registry's tag points, `challenge` what it answers to a request without
a good token. `pc`, `want` and `left` are the position in `ScanImage`: the manifest that the
reference names, the platform's manifest, the layers one by one. A GET is `Get`, and after a
401 `FetchToken` and `Retry` as in `authedGet`; `cache` is `Client.tokens` reduced to the one
scope that is ever looked up, `hand` the token of the retry. `Push` moves the tag and `Expire`
ends a token's life between any two steps. `given`, `seen` and `granted` are history: the
reference, the manifests it has named since the pull began, and the last token fetched.

Abstractions. There is one registry and one repository: a client serves one image. A
reference is a tag and a digest, a challenge one of five kinds. A lost connection, a status
other than 200 and 401 and a body that does not parse end the scan in the same way and are
one disjunct of `Get`, `FetchToken` and `Retry`. An entry of an index names an image or an
index, which is then read as a manifest without layers. It has a digest, as the specification of
images demands (`RegistryAssumption`): an empty one would make `ManifestName` ask for the tag
`latest` again, whatever the platform.

### RepoFetch

`Begin` is `Choose` and the fetcher's parsing of the spec, `Download` the request and
`MkdirTemp`, `ExtractEntry` one entry of the archive, `ExtractEnds` and `ExtractFails` the end
of it, `ScanCode` and `ScanDeps` the two walks, the latter with `Dedup` and the deferred
`RemoveAll`. `dirs` are the temporary directories that exist. `heads` and `orphans` are history:
the commits the ref pointed at during the scan, and the directories of scans that died or that
`RemoveAll` failed on, for its error is dropped.

Abstractions. A path stands for the file and its content: `Hits` is what a walk finds in it,
`Unscanned` the files it gives up on. `Escaping` are the paths that the comparison of the joined
path with the directory refuses; the comparison itself (`filepath.Join`, `HasPrefix`) is
abstracted to its outcome, and nothing is claimed of it. `ScanPath` of either kind never returns
an error, for the function it walks with returns nil for each of them, so the error exits of
`executeScan` after it are not there. A file cut off at 50 MiB is not told from a whole one.

### ExecuteScan

The composition of the two, with `Idle` in between; variables of the branch that does not run
are unchanged. `Promise` maps it to `ScanPromise`: the thing scanned is the reference with
its platform or the repository, its versions are manifests or commits, `shown` is history
(`seen`, `heads`), and a right report is the list of layers of an image for that platform, or
`Dedup` of what both walks find in all regular files of the commit's archive.

### Versions and OsvCatalog

A version as written is its numbers and the sign of what follows them (a pre-release comes
before, a distribution's release after). `ParseVersion`, `Compare`, `Matches`, `MatchAll` are
the functions of `internal/deps/version.go`, `Clauses` what `rangesToConstraint` writes and
`ParseConstraints` reads back. The reference is the order `Before` and the meaning of an event
list, `AffectedBy`.

In `OsvCatalog`, `feed` is osv.dev: how many revisions of each advisory it has published.
`Start`, `FetchEcosystem` or `FetchFails` per ecosystem, `Convert` per member of the archive in
any order, and `Emit`, sort included, are `main`. Its output is redirected onto
`osv_entries.go`: `file` is 0 from `Start` to `Emit`, for the shell has emptied it, and stays so
when the run dies (`Die`) or `emit`, which looks at no error, does not get all of it written;
a whole file has the date of its import, and `catalog` is the table in it. The scanner is the
operator `Lookup` over `catalog` and the hand-written rows; with a torn file none is built.
`begun`, `asked`, `lost`, `former`, `dated` and `basis` are history: what the import could have
read, and of the last whole file its table, its date and what it was made from.

Abstractions. Names are values in lower case; the text of an advisory is the bit whether it
has a keyword. The allowlist is the set of packages it is about, with its keys made from the
ecosystem ids it uses. A feed that is published to during the conversion of an archive is the
same as one that is published to before the next download, for the conversion does not read
it. The counts in the header of the generated file are left out. The sort is stated by the
place each row ends up at, which is what a stable sort does; strings are compared by `Rank`.

`ReimportIsQuiet` compares imports by the *set* of ecosystems asked for. `-ecosystems` may name
one twice, and `main` then downloads it twice and writes its rows twice; no request of the run
does, and the theorem about the property has that as its hypothesis.

## Runs

| Run | Instance | Shows |
|---|---|---|
| `scheduler` | 2 targets, queue of 3, failing list, get, save and stamp, shutdown, crash and restart, under fairness | `RunningIsCurrent`, `SweepListStillDue`, `NoResurrection`; `Scheduler` implements `ScanService`; a due target is attempted, an accepted request is served, and once writes work a due target is stamped |
| `server_records` | 2 targets, 2 scans, failing reads, writes, audit lines and scans, crash, a client stamp, targets up to symmetry | `StampIsSaved`, `AuditMatchesRecord` |
| `server_alerts` | 1 target, 3 scans, 1 destination added and deleted at any time, failing scans, saves, stamps, reads of the destinations and of the previous record, crash | `AlertsAreDiffs`, `NoMissedAlert` |
| `store_files` | 2 goroutines, 2 entries, 1 record, 3 inodes, every call failing, crash | `FileIsWhole`, `ReadsAreWhole`, `NoLostUpdate`; `StoreFiles` implements `Register` |
| `image_layers` | 3 layers, a database, the FIPS marker, 2 binaries and a directory, 3 entries per layer, a cap of 3 | `FilesMatchImage`, `NeedsAreSeen`, `ReportIsComplete` |
| `cli_scan` | 2 code findings in a file, a package in a lockfile and a lesser manifest, a waiver comment, a lockfile that may be unreadable, paths and repositories, all flags | `GateIsSound`, `BaselineIsQuiet`, `ResolvedAreGone` |
| `osv_catalog` | 2 advisories, one of them amended, in 3 ecosystems, 2 of them downloaded in either order, ranges of one and two intervals, truncated and pre-release bounds, 5 versions looked up | `RowsAreWarranted`, `CatalogIsComplete`, `LookupAgrees`, `ReimportIsQuiet` |
| `execute_scan` | 3 images and an index, 3 references, 4 platforms, 5 challenges; 3 commits with all kinds of entries; 2 directory names | `OneImage`, `TokensAreReused`, `DirsAreOwned`, `ScanEnds`; `ExecuteScan` implements `ScanPromise` |
| `server_spam_repo` | a repository, 2 scans | a violation: the same finding is posted after two identical scans |
| `image_markers` | 3 layers of 3 entries, a database, the FIPS marker and a binary in a directory | a violation: whiteouts of directories and opaque markers hide nothing, and a whiteout deletes a file of its own layer |
| `cli_waivers` | as `cli_scan`, all files readable | a violation: waivers of a fetched repository are looked for in the wrong place |
| `osv_known` | as `osv_catalog` | a violation: an advisory of a listed crate, in the dumps of the other ecosystems it affects, is not imported |

Why the bounds are enough. Targets meet in one place only, the single goroutine with its
list and queue, so two of them already compete, and a queue of three holds a target twice
beside the other one. The capacity 16 matters only as *full* or *not full*. A diff involves
the scan, the last one stamped before it and one in between whose save or stamp failed:
three scans. Scans are compared issue by issue, so one issue is enough for
`server_alerts`, and `server_records` needs none; since the lines that are lost multiply its
states, it has the crash only, which stops the process at every step where a shutdown can, and a
client that names scan 2 only. Two writers and one reader of a file meet
in `store_files` since a goroutine is writer or reader as it pleases; three inodes are
the list, its temporary file and one more for the record: the properties do not depend on a
file that cannot be created for lack of inodes, for then `Open` is disabled and the path
through `Fail` is taken. A layer meets the ones below it one file at a time; three of them
give a file that is stored, removed and stored again, and the cap of three is within reach
of two binaries; three entries of a layer are a file, a whiteout of it and a marker of its
directory, in any order. In `cli_scan` two findings differ in their line only, two are one package
in files of different rank, and one of them may be waived: every pair of stages has a
finding on which they meet. A pull passes three points where a tag or a token may have
changed: the manifest, the platform's manifest, and a layer; the images have two layers, so
that the token of one may serve the next, and the first in common, so that mixing two images
is not seen at once. `seen` grows to all manifests, and pushes and expiries are not bounded.
Two directory names make a third scan fail where the first two died; that is the full disk of
`MkdirTemp`, and the properties do not need a third. Two dumps with one advisory in both are
the least that can be read in two orders with an amendment in between; the range with two
intervals and the bound with four numbers are what `LookupAgrees` is about, and what makes
two rows of one package, name and rule is an advisory with two entries of it.
One day (`Days`) suffices, for the table does not depend on it.
In the proofs none of these bounds is there.

TLC checks deadlock in all runs but those of `ImageLayers`, where a scan ends: `Start`,
`Crash`, new requests and new runs keep the other models going.

### What the violations say

* `NoSpam` on a repository – the server compares `File`, which contains the name of the
  scan's own temporary directory; `executeScan` does not make paths relative (the command
  line does). README promises no alerts for unchanged code.
* `SomeMarkerIsHonored` – the comment on `MergeLayer` says that the two kinds of markers let
  upper layers delete files and the contents of directories from lower layers. `normalizePath`
  rejects a name with `..` in it, and so the marker `.wh..wh..opq`, before `MergeLayer` gets to
  its branch for such markers; the whiteout of a directory deletes only what is stored under
  the directory's own name, which is nothing; and a whiteout takes away a file that its own
  layer has brought before it. The property is the disjunction of the three promises, so that
  its counterexample breaks each.
* `WaiversSuppress` – `relativizePaths` comes before `ApplyWaivers`. With paths only
  (`Modes = {"path"}`) the property holds.
* `KnownIsImported` – the keys of the allowlist begin with the scanner's ecosystem ids
  (`cargo:`, `composer:`) and are looked up by OSV's lower-cased names (`crates.io:`,
  `packagist:`). No advisory of these two ecosystems passes the filter, and the generated
  table has none. `CatalogIsComplete` is the same property of the other ecosystems, and holds.

Five more configurations are kept beside the runs. TLC finds a counterexample with each of
them, too; they show that a property is not claimed for good reason, or a second way to
break one:

| Configuration | Violated | Behaviour |
|---|---|---|
| `Server_spam_failed.cfg` | `NoSpam` | a failed scan is saved and stamped like any other (`scheduler.go:124`) and becomes the previous one, with no findings: an unchanged *image* is alerted on again |
| `Server_spam_read.cfg` | `NoSpam` | `dispatchAlerts` drops the error of `GetScan` (`alerts.go:66`): when the previous record cannot be read or decoded, everything is posted again, as initial |
| `CliScan_unread.cfg` | `ZeroIsClean` | both walks pass over what they cannot read or parse, down to a root that does not exist, so a project with findings exits with 0 (`code/scanner.go:73`, `:97`, `deps/scanner.go:90`, `:110`); the repository's README says of 0 "no findings at/above the `-fail-on` threshold" (`README.md:220`) |
| `CliScan_tmp.cfg` | `FetchedIsRemoved` | the clean-up of a fetched repository is deferred (`main.go:132`), and `os.Exit` with 1 (`:249`) or 2 runs no deferred call; "the caller owns the returned path and must os.RemoveAll it when done" (`source.go:36-37`) |
| `OsvCatalog_date.cfg` | `RefreshIsQuiet` | the header of the generated file has the date of the import (`fipscan-osv-import/main.go:362`), so the weekly refresh, which opens a pull request "if anything changed" (`.github/workflows/catalog-refresh.yml:6`, `:40`), always finds a change |

`NoSpam` is not claimed of any instance. What holds in its place is
`AlertsAreDiffs`: nothing that was in the last stamped scan is posted again, unless its record
could not be read when the scans were compared, and then the alert calls itself initial. It
holds while scans, saves, stamps and the reading of the destinations fail at will. The other half is
`NoMissedAlert`: what the last stamped scan found, a destination has been posted, unless one of
three things excuses it, which `Missing` names: the destination is younger than a scan that had
the finding, the posts of such a scan were cut off (`cut`: alerts that could not be read, or the
end of the process), or a client named a scan that had it as the target's last. The last is also
why a first alert need not call itself `initial` where clients name scans (`ClientStamps`).

## Fairness

`FairSpec` gives weak fairness to the goroutine's steps: nothing but its own calls delays
them, and every scan ends, since fetchers and registry client have timeouts (5 min,
`internal/source/source.go`, `internal/registry/client.go`) and posts are bounded by 5 s. It
gives strong fairness to the ticker's sweep and to the manual channel: with several ready
channels a Go `select` picks at random, and the ticker keeps one tick pending. Strong
fairness of `Sweep` also means that `ListTargets` does not fail for ever. Add-handlers go
on. Nothing is assumed of clients, intervals, signals or whoever restarts the server, so an
accepted request is served on its own account and not because its target falls due.
`QueuedIsScanned` allows for the process to end and for the target to be deleted; the other
two are claimed of a process that from some time on stays up (`StaysUp`), and
`DueIsStamped` of a store whose writes fail only finitely often (`WritesWork`). With the
fault `"get"` a sweep may skip a due target each time; so `DueIsAttempted` and `DueIsStamped`
also have the premise that reads fail only finitely often (`ReadsWork`).

In `ExecuteScan` the steps of a branch, taken together, are weakly fair: every request has a
time limit (`defaultTimeout`, `fetchTimeout`), the archive a size limit, and reading files takes
finite time, so a scan that goes on takes a step, if only to fail. Nothing is assumed of pushes,
expiries or the process. That a scan ends then rests on `authedGet` asking for a token at most
once per request. The other models state no fairness and claim no liveness.

## Proofs

For every value of the constants, such as sets of targets, faults, images, findings or advisories:

| Theorem | Module | Along which argument |
|---|---|---|
| `TypeCorrect`, `MarksAreCleared`, `SweepListAccurate` | `Scheduler_proofs` | the three properties together with the shape of the locals at each position are inductive |
| `NothingComesBack` | `Scheduler_proofs` | each step, from that invariant |
| `Implements` | `Scheduler_proofs` | each step maps to a step of `ScanService` or to none; `Record` needs that `cur` is set while a scan is stamped |
| `ServerIsScheduler` | `Server_proofs` | each `Server` action contains a `Scheduler` action or leaves its variables alone |
| `TypeCorrect` | `Server_proofs` | with `IInv` of the next line, the emptiness of the locals while no process runs (`Off`), and that a post's scan is no longer the one in hand before its dispatch (`SentPast`) |
| `StampsAreSaved`, `AuditMatchesRecords` | `Server_proofs` | an inductive invariant `IInv` that says, for each position in `scanOne`, which ids are drawn, which audit lines were emitted and which of them are lost, and that the record of the scan in hand is filed as soon as it can be stamped |
| `AlertsAreDifferences` | `Server_proofs` | `CInv`, the chain of stamps: `last_scan_id` is the youngest scan the target was stamped with (`Chain`), `prevScanID` the youngest of those before the scan in hand (`Prev`), and the record in hand is the one that is filed (`Kept`) |
| `NothingIsMissed` | `Server_proofs` | with `NoGap`: while `scanOne` works, what the scan it will compare with found has been heard of or is excused; so what the diff leaves out needs no post |
| `TypeCorrect`, `FilesAreWhole`, `ReadersSeeWhole` | `StoreFiles_proofs` | `FInv`: who is between Lock and Unlock holds the mutex (`MutexHeld`), every name and temporary name has an inode of its own (`OwnInode`), only temporary files are open for writing (`OpenFiles`), and what is about to be renamed is the operation applied to the list as it still is (`Pending`) |
| `NothingIsLost` | `StoreFiles_proofs` | `FInv` with `Ordered` (an entry is stamped or deleted only after its add returned) and `Applies` (a change about to return is in the list) |
| `FilesImplementRegister` | `StoreFiles_proofs` | only a rename changes what a name leads to (`OnlyRenamePublishes`), and it publishes exactly one change (`RenamePublishes`) |
| `TypeCorrect`, `FilesAreTheImage`, `NeedsAreInTheImage`, `ReportsAreComplete` | `ImageLayers_proofs` | what is stored is what the image has, entry by entry, together with the findings of a finished report |
| `BaselinesAreQuiet` | `CliScan_proofs` | `CInv`: at each stage the findings in hand are a function of tree, comments and flags (`InHand`), a whole file holds the value of that function (`FileIsKept`), and comparing a set with itself leaves nothing (`DiffOfEquals`) |
| `TypeCorrect` | `CliScan_proofs` | inductive, with the flags of the run in hand |
| `DedupKeepsBest` | `CliScan_proofs` | round by round of the loop: what stands for a finding is only replaced by one that ranks higher, and so still does |
| `GateHolds`, `NothingResolvedRemains` | `CliScan_proofs` | `CInv` with `GInv`: what is reported and what is resolved are differences of the function of `CInv` with the file, and a run that passes found nothing severe in the former; the rest is `DedupKeepsBest` |
| `TypeCorrect`, `PullsAreOneImage` | `ExecuteScan_proofs` | `PInv`: the reference in hand is the given one, or the digest of an entry of a manifest it named; what has been pulled and what is left are the layers of the image in hand |
| `TokensServe` | `ExecuteScan_proofs` | an invariant of the cache: when the registry asks for the pull's scope, the cached token is the last one granted, so a 401 means that it expired |
| `DirectoriesAreOwned` | `ExecuteScan_proofs` | `RInv`: inductive together with the types of the variables and of the entries left |
| `ScansKeepPromise` | `ExecuteScan_proofs` | each step of `ExecuteScan` maps to one of `ScanPromise` or to none. A pull that succeeds has all of one image by `PInv`; of a repository, what is extracted and what is still to be are together the files of one commit the host showed (`RepoTells`), and what is asked for is always shown (`PullTells`) |
| `ClauseIsExact` | `OsvCatalog_proofs` | comparing three components agrees with the order of the versions as written, unless truncation makes them equal (`DecidedOrder`) |
| `ClausesAreSound`, `ClausesAreComplete` | `OsvCatalog_proofs` | a version that satisfies all clauses is affected, and one that a single interval affects satisfies them: clause by clause, for any range |
| `SortIsStable` | `OsvCatalog_proofs` | counting the rows that precede one puts each at a place of its own (`PlacesAreTaken`) |
| `TypeCorrect`, `EveryRowIsWarranted` | `OsvCatalog_proofs` | `OInv`: a row collected comes from a revision shown since the import began (`AllWarranted`); a run that ends takes its rows with it |
| `NothingListedIsMissing` | `OsvCatalog_proofs` | `OInv`: of an advisory that does not move, a dump is still to come, or it is still to be converted, or its rows are there (`NoneForgotten`); `ToEntries` and the sort lose no row |
| `LookupsAgree` | `OsvCatalog_proofs` | `OInv` gives the revision and the package of a row; the theorems about clauses do the rest |
| `ReimportsAreQuiet` | `OsvCatalog_proofs` | `QInv`: each row is labelled with its advisory, the number of the conversion that gave it and its place in that; there are as many conversions as dumps the advisory was read from (`Counted`), and rows with the same key are collected in the order of their labels. Two collections of the same dumps thus have the same labels, and their sorts are equal (`SameLabelsSameFile`) |

Why the invariants are needed: but for some of the types, none of the
properties is inductive by itself. `StampIsSaved`, for
one, does not say that the record in `rec` has been saved when `pc` is `"stamp"`;
`FileIsWhole` says nothing of the temporary file that takes the name next.

Assumed is what the modules' ASSUMEs say: that the special values are not among the sets,
that the channel has a capacity, the shape of the severity tables. Of `OsvCatalog`: that the
feed, the allowlist and the versions looked up have their types, that a range has an
`introduced` event, as the schema of OSV demands, and that strings are ordered, so that
identifiers of equal rank are equal. One theorem has a hypothesis of its own, `ReimportsAreQuiet`:
that a request names an ecosystem once.

The prover cannot instantiate an induction theorem, whose parameter is an operator. The loops
in `Dedup` and `ToEntries` are therefore written as recursive functions, and `Recursion` has for
sets what the library has for operators: its `LoopExists` gives the sequence of results of a
loop, and `UpTo` goes through the rounds.

All invariants and action properties that the runs check are proved. Only model-checked are
the liveness properties `DueIsAttempted`, `QueuedIsScanned`, `DueIsStamped` and `ScanEnds`, for
fairness and ENABLED are out of the prover's reach. The violations are TLC's counterexamples.

## Not modelled

Authentication, the read-only pages and GET endpoints, the test post to a destination and
the `alert.*`, `target.added` and `target.deleted` audit lines, form validation, the access log, the wording of payloads and
reports; the tables of patterns and packages, which are data; the parsers of manifests, package
databases and RPM headers, whose result is a constant of the modules that use them; the
matching of lines against regular expressions; the configuration of an image, which the code
does not fetch either; fsync.

## Plan

1. Server core: `ScanService`, `Scheduler`, `Server` – done.
2. `Register`, `StoreFiles` – done.
3. `ImageLayers` – done.
4. `CliScan`, with the algorithms of `internal/findings` and `Dedup` – done.
5. `Versions`, `OsvCatalog` – done.
6. `RegistryClient` – done.
7. `RepoFetch`, and `ExecuteScan` which composes it with 6 – done.
8. `ManifestParsers`, `RpmHeader`, `Csaf`, `Auth`, as far as they have state or boundaries.
9. Proofs of all invariants and action properties – done. Left is that the critical sections of
   `scanOne` and the handlers are those of `StoreFiles` (composition of `Server` and `Register`).
