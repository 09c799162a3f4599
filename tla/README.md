# Verification of codecoverage

This directory holds TLA+ models of the coverage server, its command line tool
and its agent, the TLC configurations that check them on small instances, and
TLAPS proofs. It is written from the Go code at the commit beside it;
`PROJECT.json` names, for each definition, the lines it stands for. Paths below
are relative to the repository, those without `cmd/` to `internal/`.

Run `tlc -config <cfg> <MC module>` to check, `tlapm <M>Proofs.tla`
to prove (each proof module by itself; those of `ReportStore` cite each other's
lemmas).

## 1. Inventory

A *report* says which lines of which files of one module, branch and commit are
covered. It is stored as two objects: `.cno`, the directory tree with one entry
per file (statistics and block offset), and `.cda`, the cover lines in blocks.
The server creates and updates reports from uploads and answers queries about
them; an agent beside a service under test uploads what system tests cover.

| Component | State | Operations | Interacts with | Module |
|---|---|---|---|---|
| Report manager, cover report, storage (`reports/manager`, `report/report.go`, `report/storage/storage.go`) | the decoded tree, meta data; a lock and two data sources | Open, OpenWrite, CreateReport, AddFile, UpdateFile, Merge*, RebaseReport, Flush, Close | called by every service; downloads and uploads through data sources | `ReportStore`, `CoverContent` |
| OSS data source (`storage/datasource/oss_source.go`) | local temporary file, dirty flag | download at opening, WriteAt, Truncate, Sync (upload), Close (sync, remove) | object store | `ReportStore` |
| Report lock, distributed lock (`storage/report-lock`, `dislock`) | Redis key; `lastOp` of each lock object | Lock, Unlock, CanWrite | Redis, by a Lua script; **not wired in**: `cmd/cover-server/main.go:182` has a lock that does nothing | `DistLock` |
| System test upload (`systest`) | `systest_task` rows; one goroutine per upload | UploadSystestCoverData | agent, database, object store, diff service, report manager | `SystestUpload` |
| Agent upload (`agent/controller/cron.go`, `agent/cover`, `parser/normal_cover.go`) | cached session and coverage | periodic Run: collect, diff, compress, put, call | service under test, object store, server | `SystestUpload` |
| Agent environment (`agent/agent.go`, `env`, `sut`, `scheduler`) | services and their tasks, server configuration, object store client | registration at the server, RegisterSUT, the scheduler's rounds | cron tasks, server | `AgentEnv` |
| Unit test upload (`unittest`, `cmd/cover-upload`) | `unittest_task` rows; one goroutine per upload | UploadUnittestReport, GetReportInfo | command line tool, database, object store, report manager | `UnitTestUpload`, `CoverContent` |
| Snapshots (`snapshot`) | snapshot rows | CreateSnapshot | report manager (one source, one new report) | `Snapshots`, `CoverContent` |
| Coverage service (`service/coverage_service.go`) | none | queries, MergeReports, RebaseReport | report manager, stores, diff service | `CoverContent`, `TreeSearch`, `DiffCache` |
| Tree, statistics, merges (`report/tree`, `report.go`, `reports/manager`) | nodes | add, find, aggregate, visit, match, merge, rebase | report | `CoverContent`, `ReportCodec`, `TreeSearch` |
| Codecs (`storage/coder`) | none | encode and decode `.cno`, lines and blocks | storage | `ReportCodec`, `CoverContent` |
| Partition keys (`storage/partitionkey`) | none | object paths and stored keys | everything that names an object | `ServerReports` |
| Diffs (`diff`) | diff rows and objects | look up, fetch, parse, store asynchronously | GitHub, object store, database | `DiffCache`, `DiffParse` |
| Profile parser (`parser/go_parser.go`) | none | Go coverage profile to line counts | agent, command line tool | `GoProfile` |
| Controllers, clients, configuration, frontend | - | pass on | - | - |

What is hard here, and the properties that make each component correct:

* **Sessions on one report interleave.** Each request or goroutine downloads the
  two objects one after the other, works on its copy, and uploads whole files one
  after the other. Nothing excludes another session. Correct means: an entry of
  `.cno` finds the block of its file; a reader is never shown another version; a
  session reads its own writes; a Flush without error is durable; reading changes
  nothing.
* **Failures between two steps.** An upload fails, or is done and its answer is
  lost; a session is given up without Close; the server dies; a row is not saved
  for an object that was. Correct means: none of these leaves an index or a table
  that points to nothing, and what a commit shows does not go away.
* **Names that are made of time and prefixes.** A key holds seconds and the first
  eight characters of a commit. Correct means: a row finds the report of its own
  commit and run, a snapshot keeps what it was made of.
* **A lock that expires, with holders that do not hear.** Correct means: a writer
  excludes everybody, and no forgotten writer locks the others out for ever.
* **The path from covered line to report** runs through two caches, an object, a
  row and a goroutine. Correct means: what the agent collected is what the report
  says, a task is processed once it says so, one task per commit, coverage
  arrives.
* **Shared state without a lock in the agent.** Correct means: each registered
  service has one task, and each task runs again and again.
* **Data that several pieces of code must agree on**: statistics in `.cno` and
  marks in `.cda`; what a writer writes and a line-wise reader reads; two line
  counters that every line of a diff moves; the depth at which a search stops
  looking and the walk it counts. Correct means: they agree after any sequence of
  uploads, merges, rebases, and for any text and tree.

`PROJECT.json` lists every component with its status and 40 hazards, each at its
line with the properties aimed at it. Three have no property: the growth of
`.cda` (`storage.go:67`), starvation of writers by readers (`lock.lua:39`), and
the last lines of `lock.lua`, which do not compile.

## 2. Modules

| Module | Models |
|---|---|
| `ReportStore` | one report's two objects and the sessions that open, change, flush and close it |
| `ReportPromise` | the abstract specification: one value, a copy per session, a commit at one instant |
| `ReportStoreProofs` | `ReportStore`: types, what a session can rely on, readers |
| `ReportCommitProofs` | `ReportStore`: index and blocks; that it implements `ReportPromise` |
| `DistLock` | the distributed lock: lock objects, the script, expiry |
| `SystestUpload` | service under test, agent, task rows, upload goroutines and the report's files |
| `AgentEnv` | registrations, environment, tasks and scheduler of the agent |
| `CoverContent` | what is in the reports: lines, statistics, merges, rebases, snapshots, queries |
| `ReportCodec`, `DiffParse`, `GoProfile` | the three readers of text, line by line |
| `TreeSearch` | the search in a report's tree, node by node |
| `Readers` | puts these four beside each other, for one run |
| `ServerReports` | what request handlers share: stored reports, keys, clock, tables |
| `UnitTestUpload`, `Snapshots`, `DiffCache` | one kind of request each, on `ServerReports` |
| `CoverServer` | composes these three, with crashes |
| `DistLockProofs`, `SystestUploadProofs`, `AgentEnvProofs`, `CoverContentProofs`, `ReadersProofs`, `CoverServerProofs` | what the module of that name promises (section 4) |
| `MC*` | constants for TLC |

Division of labour: `ReportStore` has the *steps* of a session and lines that
are only told apart; `CoverContent` has the *content*, each request in one step;
`CoverServer` has the steps of *requests*, where opening a report and flushing it
are one step each; `ReportPromise` is what justifies that step.

A definition that exists beside another one, with its parameters and a name for
what it gets wrong (`AddChildFirst`, `KeyByActor`, `LatestCount`, ...), is the
form of a plausible bug; no specification uses it. `PROJECT.json` lists under
"mutants" which property finds it.

### ReportStore

| Model | Code |
|---|---|
| `cno`, `cda` | the two objects |
| `tree[s]` | the decoded tree of the session (`CoverReportImpl.Tree`) |
| `local[s]` | its temporary `.cda` file; a block is one element, an offset an index |
| `metaDirty`, `coverDirty` | `isDirty` of its two data sources |
| `kind[s]` | why it was opened: `read` (queries, the other report of a merge), `base` (queries with a base commit), `write` (system test upload, base report of a merge), `create` (unit test upload, snapshot), `rebase` (RebaseReport) |
| `OpenMeta`, `OpenCover` | the storage factory's two downloads (`cmd/cover-server/main.go:75-91`) |
| `AddFile`, `UpdateFile`, `...Fails` | `report.go`: a block is appended first, the tree changed second |
| `RebaseFile`, `RebaseFails` | `rebaseVisitor` file by file |
| `FlushMeta`, `FlushCover` | `SetReport`: encode and upload `.cno`, then upload `.cda` if dirty |
| `CloseMeta`, `CloseCover` | `storage.Close`: upload what is dirty, warn on failure, remove the file |
| `Abandon` | the unit test goroutine returning without Close (`unittest/service/service.go:204-208`) |
| `Crash` | the server process dies |

An upload has three outcomes (`Outcome`): done, not done, done with the answer
lost. `stale`, `exposed`, `damage` and `own` are history: no guard reads them.
`stale` are sessions whose copy is out of date, `exposed` sessions between their
two uploads, `damage` says that a stale session has stored an object (`overlap`)
or a commit has stopped half way for good (`torn`). The properties are stated
relative to them; both kinds of damage happen (section 5).

Left out: what is in the meta data; a path that two entries of one unit test
upload share; failures of the local disk; a download of a `.cno` that does not
decode (Open then fails like `OpenCoverFails`, without closing the sources);
`GetObject` failing after `StatObject` succeeded (`oss_source.go:43-45`: the
client opens lazily, so the error comes from the copy).

### ReportPromise and the refinement

`KeepsPromise` is `ReportPromise!Spec` under the mapping `ReadableReport`: a file
has the lines of its entry, if the entry is right in the `.cda` that is, or is
about to be, stored. So the upload of `.cno` is the commit, everything else a
change of a private copy or a stutter, and a commit installs exactly the copy of
a session that is not outdated. After damage nothing is promised.

### DistLock

`key` is the Redis value (-1, or the number of readers, 0 for no key), `mortal`
its having a lifetime, `lastOp[l]` the field of the lock object. `Lock`,
`Unlock`, `Refused` are the calls with an answer, `LockLost`, `UnlockLost`,
`CallFails` those without, `Expire` is Redis after 60 seconds. `Compiles` says
whether Redis compiles the script: `lock.lua` ends with two lines of web page
text after its `return`, so as it stands it does not. The run with `TRUE` is of
the file without these lines. Nothing in the server uses the lock; the model
says what it would and would not give.

### SystestUpload

The service covers lines and restarts; the agent's cron task collects
(`Collect`, which moves the cache before anything is sent), stores full or large
coverage (`PutNormal`) and calls the server (`Call`); the server looks up and
saves the task row in the request (`QueryTask`, `SaveTask`) and then, in a
goroutine per upload, opens the report (`OpenReport`), merges and stores it
(`FlushReport`), and saves the row again (`SaveProcessed`). Any step can fail and
the server can die. A row's coverage key is the number of the upload whose object
it names. Names: `Name(f, S)` is what `CompressCommonPrefix` leaves of a path of
two parts in the company of the files `S`, `NamesFor(f)` all it can leave; a file
collected under a name that is also one of another file's is recorded as the fault
`clash`. One agent, one commit; keys of
different uploads are different, although the code makes them of the second of
the day; diffs and base commits do not occur here (`CoverContent` has them).

### AgentEnv

| Model | Code |
|---|---|
| `at[p]` | where the goroutine of a RegisterSUT request, or `Main`, is |
| `sutMap`, `tasks`, `slice[p]` | the observer's map and the scheduler's slice, which all goroutines use without a lock; `slice[p]` is the slice as `p` last read it |
| `AddSUT`, `PutSut`, `OnSutAdded`, `AddTask` | `sut.go`: look up, insert; the observer's call appends a task, by a read and a write |
| `DataRace` | a map written while it is used, or a slice read half written: Go may stop the process |
| `RegistryAgentInfo`, `LoadSut`, `InitEnv` | one round of `Init`/`Reload`: registration (may fail, and is retried every ten seconds), the environment's service, is all there |
| `Second`, `TakeTick`, `RunTask`, `PassTask`, `TaskEnds` | `scheduler.go`: a ticker that holds one tick, the round over the slice as it was, who is due |
| `NoClient` | the object store client could not be made, and a task calls it |

`age[p]` stops at `Interval`. `raced` is history: two goroutines were adding
services at once. Left out: cancelling the context and pausing the scheduler
(nothing does either); what a task does (`SystestUpload`).

### CoverContent

`rep[r]` is a stored report: per file a block of stored lines and an entry of
statistics, its base commit, and `TotalFiles`. The actions are the requests:
`UploadUnittest`, `UploadSystest` (and `UploadRefused`), `MergeReports` (and
`MergeRefused`), `RebaseReport`, `CreateSnapshot`. Operators follow the code:
`MergedSame` and `MergedDiff` are what the two merge visitors make of one file,
`MergeSame` and `MergeDiff` their walks, which end at the first file that does
not fit (`Fits`) and keep what they reached (`Reached`); `PutFiles` is AddFile or
UpdateFile of several files; `Rebased` is the rebase visitor. Orders of the walk
(`Walks`) are those that some upload's map iteration can produce. Queries are operators:
`TreeNodes` and `FileView`; the search is `TreeSearch`. What the code does and a reader might not expect is in the model:
`TotalFiles` is doubled by a snapshot and reset to 0 by a system test upload; a
preview of a file adds new marks to the stored ones; a directory's increment flag
knows only the files directly in it; counts beyond 30 bits make a line impossible
to encode, which ends a system test upload and drops one file of a unit test
upload. `MaxCount` stands for that largest count. The 32-bit sum of
`CoverCount`, and `CoverReportImpl.Merge` (`report.go:488-617`, no caller), are
left out.

### ReportCodec, DiffParse, GoProfile, TreeSearch

Each is a sequential algorithm as a state machine: one action per kind of line
or node, on an input that is chosen, or built, first.

* `ReportCodec`: `Build` makes a tree as AddFile does, `Encoded` is the writer,
  `ReadSection`, `ReadMeta`, `ReadRoot`, `ReadNode`, `SkipLine` the reader with
  its stack of parents. Three forms: what the writer writes, with sections of
  other kinds, and the old form (no slash after directories, no increment
  column), for which the reader guesses from the next line's depth. Names
  without a colon: the reader cuts at it.
* `DiffParse`: a patch is files, hunks and operations; `Part` is what git prints
  of one, and `at` the line of it that is parsed next; `ParseFileHeader`,
  `ParseHunkHeader`, `ParseHunk`, `PassOver` are the parser with its two counters; `DiffFileOf` the look-up by new, then old name.
  The parser takes an added line of text `++...` and a deleted one of text
  `--...` for headers and skips them: the model does, and `LinesAreRight` excepts
  patches that have them (`LooksPlain`).
* `GoProfile`: `ParseBlock` grows the file's lines and keeps the larger count,
  with the count cut to 32 bits (`IntLimit` is the first it cannot hold); lines
  that begin with `mode` are skipped.
* `TreeSearch`: `Add` builds the tree, `SearchNodes` begins a search, and
  `VisitDirEnter`, `VisitFile` and `VisitDirExit` are the visitor of `Match`, with
  its `stack`, `pruneDepth` and what it has `matched`. A tree is the sequence of its
  nodes in the order of the walk, `place` the next one. `hits` are the nodes that
  match: any whose name has the word, and, if increments are asked for, that have
  one (`HasIncrement`). A directory's flag is as old as the stored report, while
  its files may have got others by the preview against a base commit.
* `Readers`: a behaviour is one of the four while the others rest, so that one
  run, and one `TypeOK`, is of all.

### ServerReports, UnitTestUpload, Snapshots, DiffCache, CoverServer

A report is four names here: the commit of its meta data, the upload its coverage
is of, its base commit, and the diff its increments are of. `Path(key)` is the
real object path: type, eight characters of the commit, seconds. `Tick` is time.

* `UnitTestUpload`: `cli[u]` walks through the tool's steps, each of which may
  fail while the tool goes on (`UploadCoverage`, `UploadDiff`,
  `UploadToCoverServer`: it prints the error and exits 0). The call saves a
  pending row and starts `job[u]`: `GetCoverage`, `GetDiffData`, `CreateReport`,
  `FlushReport`, `SaveProcessed`, each of which may fail and end it for good.
  `ShownKeys` is `GetReportInfo`: the first row of the commit in the table.
* `Snapshots`: `OpenSource`, `CreateCopy`, `FlushCopy`, `SaveSnapshot`; a row that
  cannot be saved is logged and the request succeeds.
* `DiffCache`: `OpenReport`, `QueryCache`, `GetCachedDiff`, `CompareCommits`,
  `UseDiff` for a preview or a rebase, and the goroutine `PutDiff`,
  `SaveDiffRow`. Every failure of the cache ends at GitHub; without a diff a
  preview shows the stored report and a rebase fails.
* `CoverServer`: any interleaving of these; `Crash` loses goroutines and requests
  and nothing that is stored. Failing to open is a stuttering step.

Left out: finding the reports of a merge request by name, metadata lists, lists
of pull requests and commits, cleaning of paths, the JSON form of a key. Merges
as concurrent requests: `ReportStore` (kinds `read`, `write`) has their steps and
`CoverContent` their effect.

## 3. Runs

| Run | Shows |
|---|---|
| `store_sessions` | `ReadYourWrites`, `FlushDurable`: what a session can rely on. `IndexMatchesLines`: without damage, the stored index fits the stored blocks whenever no commit is half done. `BlocksAreKept`: `.cda` only grows. `ReadersLeaveNoTrace`: queries, with or without a base commit, never change `.cno`, and those without one not `.cda` either. `KeepsPromise`: the refinement. |
| `store_versions` | `ReadersNeverMisled`: a reader that opens during a commit may fail to read a file, but never gets another file's or version's lines. |
| `lock_rw` | `WriterExcludes` unless the key expired under a holder or an unlock was done unheard; `WriteLocksEnd`. |
| `systest_faults` | `ProcessedIsFlushed`: a row that says processed names an upload that did flush, with overlapping uploads writing back old copies of the row. |
| `systest_arrives` | `ReportFollowsAgent`: what the agent collected last of each file is in the report under one of the file's names, and the report is exactly that if the names never changed. `CoverageArrives` (liveness): covered lines get there. Both until an upload is lost, overtaken or too large, the service restarts or names clash; the files are in two directories, so that their names do change. `OneTask`: uploads that do not overlap share a task. |
| `content` | `StatsFitLines`: entry and block of a file tell the same after any requests. `CoverageIsKept`: merges and rebases take no coverage back. `MergeCanBeRetried`, `MergeOrderIsFree`: a repeated merge changes nothing; reports of one commit that agree on lengths (and, for a file the merged report lacks, on its instructions) can be merged in any order. `RebaseForgets`: nothing of an earlier base is left. `SnapshotIsFaithful`. `IncrementsCanBeReached`: what the tree view shows leads to every file with an increment. |
| `readers` | `RoundTrip`: a tree that was written is read, in each form. `LinesAreRight`: parsed line numbers are those of the change. `LinesHaveLargestCount`: so are counts and lengths, of blocks in any order, overlapping. `SearchIsComplete`: a search returns each match or one above it, and nothing beneath a match it returns. |
| `server` | `RowsHaveObjects`: a key in a table finds its object. `ReportsAreOwn`: and it is the report of its own commit and run, unless two reports share a second or commits their first eight characters. `SnapshotsArePast`: a snapshot keeps what it took, unless it is rebased or another one gets its path (a merge into a snapshot is not modelled). `IncrementsAreOfBase`: increments are of the commit against the report's base, unless commits are alike or the uploads of one run name different bases. `ShownReportStays` (action) and `CommitIsShown` (liveness): what a commit shows stays, and comes, unless the goroutine of its first row did not get through. |
| `agent` | `TasksMatchSuts` unless two goroutines added at once. `GetsReady`: with a service, the scheduler runs one day if the server answers once. `TasksRunAgain`: however long other tasks take, if each returns. |

Three runs show where the code does not do what the repository says of it; each is
a finding in `PROJECT.json`:

* `store_inmemory`: a query with a base commit changes the stored `.cda`
  (`service/coverage_service.go:174` says only in memory).
* `systest_fullupload`: the second full upload for a commit is processed with the
  first one's object, or skipped (`systest/service/service.go:124`).
* `search_ancestors`: a directory that matches a search is returned without its
  ancestors (`report.go:49` says with them): it is already on the stack when they
  are added. Files do bring theirs.

### Bounds

* `store_*`: `Sessions` 2: every hazard is between a session and one other that
  overlaps it; sessions end and come again without limit. `Files` 2 (1 in
  `store_versions`), `Lines` 1 or 2: enough for an entry to point at another
  file's block, or at another version of its own. In `store_sessions` one path is
  a directory of the other (`Inside`), so that adding a file can fail after its
  block was appended. `MaxBlocks` 2 or 3 bounds the local `.cda`: a file added,
  another added or the first one updated, and a third append in `store_versions`.
  A session whose copy is full can still flush and close, as after `OpenCover` in
  the code. The kinds `create` and `rebase` with two versions are in
  `store_versions`; for the refinement they are covered by the proof, which holds
  for all kinds and any number of everything.
* `MaxReaders` 4 with three lock objects: counts left behind by dead or unheard
  holders on top of live ones.
* `systest_*`: `MaxSessions`, `MaxUploads`, `MaxHits`: one restart with two
  uploads, or no restart with three (a full one and an increment per file), each
  file covered or not. An increment needs a larger count, so one hit per file
  distinguishes what the agent distinguishes. `systest_arrives` has two files in
  two directories, with base names of their own: the full upload names them
  `a/x`, `b/y`, an increment of one of them `x`, one of both again `a/x`, `b/y`. In
  `systest_faults` they have one base name, so that an increment of either is
  `x`: that is a clash, which `ReportFollowsAgent` excuses and the proof handles.
* `content`: five reports, of one commit, another commit, another module, and a
  snapshot; two files, one three levels deep and one in the root; two base
  commits, with a changed line beyond what is covered; a count one too large; and
  all merges of one or two others. What grows without end in the code (more
  requests) is unbounded.
* `readers`: trees of up to four files with paths of up to three names, a file
  and a directory of one name among them; hunks of up to five lines, patches of
  two files and two hunks; profiles of up to three lines, with counts up to
  `IntLimit`, which is 4 here and 2^31 in the code; searches in trees of up to three
  files out of four paths, with any set of nodes that match: a match that prunes,
  inside or beside another one, with files after it.
* `server`: two uploads of one commit and different runs, two snapshots, two
  requests with a base commit, three of the six in a behaviour (`MaxRequests`),
  two seconds, any number of crashes. Three overlapping requests are a writer, a
  reader of it and a third with the same path or key; one request of each kind
  does more than any property relates. Not within the bounds: an upload repeated
  for the same run. No symmetry, because of liveness.
* `agent`: two registrations and a service of the environment that is also one of
  them. `Interval` 3 lets a task be due during another's run, or not.
* Symmetry: `SessionSymmetry` permutes sessions and `LineSymmetry` contents; no
  property names one of them, and only safety is checked with symmetry.
* `CHECK_DEADLOCK FALSE`: in `server` all requests are over some day, in `agent`
  the process may die, in `readers` and
  `search_ancestors` the text or the walk ends. In the other runs nothing stops.

### Fairness

* `DistLock`: weak fairness of `Expire`; Redis removes keys whose time is over.
  Nothing is assumed of holders.
* `SystestUpload`: weak fairness of the agent's next step, because the scheduler
  runs the cron task again at each interval, and of each upload's goroutine,
  because Go runs it. Failures, crashes, restarts and the service itself have
  none, and `CoverageArrives` lets faults excuse. A call that never returns is not
  modelled here: every call is answered or fails.
* `CoverServer`: weak fairness of each upload's goroutine. It may fail at each
  step or be lost in a crash; `CommitIsShown` names exactly that excuse. The tool
  and users have none.
* `AgentEnv`: weak fairness of the goroutines that add a service, of the main
  goroutine's loading and scheduling, and of time, because Go runs them. The
  agent's calls have no time limit, so that the server answers once, or that each
  task returns, is no fairness but the premise of `GetsReady` and
  `TasksRunAgain`: without it the one goroutine of the scheduler waits for ever.
* The other modules have no fairness: their properties are safety.

## 4. Proofs

Eight modules prove, for all values of the constants that the assumptions named
below allow, what the runs check on small ones. TLC evaluates each assumption in a
run. They say what the constants are (finite sets, numbers, names that are not
also something else), none of them what the code does.

### ReportStore

`ReportStoreProofs` and `ReportCommitProofs`, for any sets of sessions, files and
contents, any kinds and any bound (`ConstantsAssumption`):

* `TypeCorrect`: `Spec => []TypeOK`. `TypeOK` is inductive; the interesting parts
  are that a rebase appends lines it has read through an offset that does not
  dangle (`RebaseReads`) and that a rebase's remaining files are in its tree.
* `SessionsReadTheirWrites`, `FlushIsDurable`, `CdaOnlyGrows`: from one inductive
  invariant, `SessionInv`. Besides `TypeOK` and `ReadYourWrites` it says:
  `NothingOwned` (a session without a local copy has written nothing),
  `FlushedClean` (a Flush without error leaves `.cda` clean), `FreshCopies` (the
  local `.cda` of a session that is not stale extends the stored one and equals it
  while clean) and `CommittedTree` (between its two uploads and after them, the
  stored `.cno` is the tree of the session, unless it is stale). None of the three
  theorems is inductive alone: that a Flush is durable needs `FreshCopies` for the
  flush that has nothing to upload; that `.cda` only grows needs it for the one
  that has. The proof has one step per action; the appends share `WriteKeeps`, the
  uploads of `.cno` `PutMetaKeeps`, the ways to end `EndKeeps`.
* `IndexFitsBlocks`, `ReadersSeeOneVersion` (`ReportCommitProofs`): from
  `CommitInv`, which adds to `SessionInv` what holds while nothing is damaged
  (`Coherent`). A commit is half done between the two uploads of its session, which
  is then *exposed*: `OneExposed` says that it is not stale and that every other
  session with a local copy is, so that no other upload can count. A tree is
  `Settled` if it is right in the stored `.cda` or, while a commit is half done, in
  the blocks that commit has still to store; the stored `.cno` is settled, and so
  is the tree of a session between its two downloads (`OpeningSettled`), which is
  what keeps it right whether the second download comes before or after the commit
  ends. A fresh session's tree is right in its own copy (`FreshRight`), so what it
  uploads is settled again. A reader that downloads an older `.cda` has a prefix of
  the one its tree was made for (`OlderNotMisled`): right or dangling. Three kinds
  of step matter, each with a lemma: the upload of `.cno` (`StoreMetaCoherent`), of
  `.cda` (`StoreCoverCoherent`), the append (`WriteCoherent`).
* `StoreKeepsPromise` (`ReportCommitProofs`): the refinement. By `ReadableIsIndexed`
  the readable report is exactly what the stored `.cno` tells of, so an upload of
  `.cno` maps to `Commit`; `OpenMeta` to `Begin`, adding, updating and rebasing a
  file to `Change`, a session's end and a crash to `End`, the rest to `Outdate`, and
  a step that damages the report to `Spoil`. It needs one more conjunct,
  `IdleClean`: a session that has nothing open is not stale and has an empty tree.
* `ReadingIsPure` (`ReportStoreProofs`): no query has a dirty `.cno`, and one without
  a base commit no dirty `.cda`, so its Close stores neither (`ReadersClean`). A query
  with a base commit does store its `.cda`, which `store_inmemory` shows; the theorem
  says that it goes no further than that.

### DistLock

`DistLockProofs`, for any set of lock objects and `MaxReaders` (`LockAssumption`).
`LockTypes`, and `WriterIsAlone` from `LockInv`: with -1 in the key nobody reads and
one writes at most, with n nobody writes and n read at most (`KeyCountsHolders`).
Fewer than the key says is possible, because a holder may be gone; more is not. That
is why a lock that answers is right, as long as no key expired under a holder and no
unlock went unheard.

### SystestUpload

`SystestUploadProofs`, for any files, uploads and restarts (`UploadAssumption`), from
`TypeInv` (`UploadsAreTyped`):

* `ProcessedRowsAreFlushed`: what is said of rows is said of the goroutines' copies of
  rows too, since an old copy may be written back (`ProcessedInv`).
* `OneTaskWithoutOverlap`: one upload is in work at a time, and one that holds no task
  yet met an empty table (`AloneInv`).
* `ReportShowsCollected`: what the report has of each file is what the agent
  collected last, if nothing was lost, overtaken or too large, the service did not
  restart, and no names clashed. The invariant follows
  the coverage along its way: the last of cache, request under way, waiting uploads
  and report that has the file at all has its latest count, and the first upload is
  full (`FollowInv`). It is for files in any directories. A file is named after the
  company it is sent in, and the server does not read the `FilePrefix` that would tell
  (`agent/cover/cover.go:82`), so the theorem says what is left of "the report is what
  was collected": the report has the file's lines under one of its names, possibly
  beside an older entry under its other name, whose lines are then out of date and
  counted a second time. What it shows is exactly what was collected, with nothing
  else, if each increment named its files as a full upload does (`OneNameEach`;
  `NamesInv` says where the names in a report come from). And a name that is also
  another file's, as `x` for `a/x` and `b/x`, sets the fault `clash` and ends the
  promise: without that premise an instance with two such files and `MaxHits` 2 loses
  lines. A package that shares no base name with another never clashes.

### AgentEnv

`AgentEnvProofs`, for any registrations and interval (`AgentAssumption`).
`AgentTypeCorrect`, and `ServicesHaveTheirTask` from `AgentInv`: while additions do
not overlap, one goroutine is adding, the map is ahead of the tasks by the service it
adds, and between its read and its write of the slice it has the slice as it is
(`AddedInOrder`).

### CoverContent

`CoverContentProofs`, for any files, diffs, uploads, reports and largest count
(`TreeAssumption`, `ContentAssumption`). All rests on `ContentInv`: every entry of
every report is well typed and `Good`, that is, the stored count of a line without an
instruction is zero, and the entry is what filing its own counts and marks gives.
Neither is in a property. Without the first, decoding and encoding a block again
(which each merge and rebase does) would not give the same block
(`DecodeThenEncode`); the second makes a merge of what is already merged give the
same statistics. Uploads, merges, rebases and snapshots keep it
(`MergeSameIsGood`, `MergeDiffIsGood`, `RebasedIsGood`, `SnapshotHasFiles`).

* `ContentIsTyped`, `StatisticsFitBlocks`, `CoverageStays`, `SnapshotsAreFaithful`
  (a walk meets every file once, `WalkMeetsAll`; the file counts are separate).
* `MergesCanBeRetried`: `MergedTwice` at one file; and a file that fits still fits
  after the merge (`MergeKeepsFit`), so the second walk gets as far as the first.
* `MergeOrderIsOfNoMatter`: reports of one length are reached to the end
  (`AllAreTaken`), and the larger count of three does not depend on the order
  (`MergedInAnyOrder`). The attempt to prove it without the premise on instructions
  failed, and TLC then found why: a file that the merged report lacks is copied from
  the first one merged with its lines without an instruction, and the second one's
  instructions there are ignored.
* `RebasesForget`: marks and increments are replaced, counts are not.
* `IncrementsAreReached`: what is beneath a directory is beneath a child
  (`BeneathUnfolds`), and the sum that is a directory's statistic is no less than any
  file's (`SumIsNoLess`). Both are about recursive functions. `Beneath` is the least
  solution of its equation, so there is one; a sum exists because a smallest set
  without one is impossible (`SmallestSet`).

### GoProfile

`ReadersProofs`, for profiles of any length (`ProfAssumption`). `ProfileIsTyped`, and
`LargestCountIsKept`: the property is its own invariant, given types. A block changes
the largest count of its lines only (`LargestGrows`), and lines past the end of a file
are in no block so far.

### DiffParse

`ReadersProofs`, for patches of any number of files, hunks and lines and any gaps
between the hunks (`DiffAssumption`: the new name of a file is not a name of a later
one, as in a diff of git, which has each name once; `DiffFileOf` would find the later).
`DiffTypesHold`, and `ParsedLinesAreRight` from `DiffInv`, which goes by the line that
is parsed next (`CursorOK`): the parser has one file per header it read and one hunk
per hunk header (`FilesOK`), each counter is the number of the next line on its side
(`CountersOK`), and each hunk says what its lines so far say (`HunksSay`). The last
two hold of patches without lines that look like headers. Where a hunk begins is one
number, not a recursion over the hunks before it: `HunksFollow` says that it is past
all of their lines, `LinesGrow` that later lines have larger numbers, which pairs the
kept lines in order.

### ReportCodec

`ReadersProofs`, for files added in any order and number with paths of any length
(`CodecAssumption`). `CodecTypesHold`, and `StoredTreeIsRead`, from `CodecInvariant`:

* A tree that AddFile makes is `Ordered`: a node comes right after its directory or
  below a sister of it, no directory is empty, and paths are different. This is what
  the indentation can tell. `AddKeepsOrder` and `BuildKeepsOrder` are that AddFile keeps
  it, `SubtreeIsBelow` that the nodes below a directory are those with its path.
* After `k` lines of the tree the reader has its first `k` nodes (`ReadSoFar`), and on
  its stack are the directories on the way to the last of them, that one included
  (`StackOK`). `StackLeadsTo` says that the stack, cut to the next line's indentation,
  ends with that line's directory; a line that is deeper than the stack is impossible.
* In the old form a directory is known by the next line being deeper
  (`DirectoriesAreSeen`): right because no directory is empty.

### TreeSearch

`ReadersProofs`, for trees of any size and any set of matches (`SearchAssumption`).
`SearchIsTyped`, and `SearchFindsAll` from `SearchInv`:

* `WalkInv`: the tree is `Ordered`, the walk is inside all directories on the stack,
  and each is inside the one before it (`SubtreesNest`, `NextIsInside`).
* `PruneInv`: while `pruneDepth` is not zero, the directory that many levels up is a
  match that was found; none above it is a match, and every other match that was found
  is behind (`OverIsOver`). So the depth is zero again just when the walk leaves that
  directory; without it neither half of the property is kept.
* `FoundInv`: the property, of the nodes visited so far. A match that is a directory
  brings no ancestor, a file those that are not there yet (`MatchIsAdded`); none of
  these is a match, since the search is not pruned.

### Readers

`TypesHold`: each of the four invariants holds while its algorithm runs or rests.

### CoverServer

`CoverServerProofs`, for any uploads, snapshots, requests, commits and bounds
(`ServerAssumption`, `ToolAssumption`, `BasesAssumption`). The invariants have a part
for each kind of request. The kinds share the stored reports, the clock and the tables,
so each part is also kept by the steps of the other kinds and by a crash, which ends
goroutines and leaves objects and rows.

* `RequestsAreTyped` (`TypeInv`): with it, what a request or goroutine has in hand at
  each of its steps.
* `TablesFindObjects` (`ObjectInv`): a row is saved by a goroutine steps after its
  object was, so the invariant says of each request between the two that its object is
  there; reports are never removed (`ReportsGrow`).
* `ReportsStayShown` (`RowInv`): a row has the key of its upload's goroutine, once that
  is through, and an upload has one row; so the first row of a commit stays.
* `SnapshotsStay` (`PastInv`): at a snapshot's path is what it took, from the flush on,
  unless a rebase of it or another snapshot of its path has left a trace, which stays.
* `RowsLeadToOwnReports` (`OriginInv`): the report at each path was made by some upload
  that has this path, of whatever objects it read: by one of the same run and commit.
  If one upload has the path it was that one.
* `IncrementsHaveTheirBase` (`IncrementInv`): the diff a request or goroutine has in
  hand, the cached ones, and those of stored reports are of their commit and base. The
  stored diff of an upload is named after its run and commit and not after its base,
  so the attempt to prove this failed for uploads of one run with different base
  commits; the property now excepts them (`RunsHaveOneBase`).

### Only model-checked

Liveness is out of the prover's reach: `WriteLocksEnd`, `CoverageArrives`,
`CommitIsShown`, `GetsReady`, `TasksRunAgain`. All other properties of the passing
runs, invariants, action properties and the refinement, are stated by theorems.

## 5. Known disagreements without a run of their own

What modelling met besides the three findings. The models have the behaviour; the
properties are stated around it.

* OpenWrite excludes nobody: the lock is a no-op, so two writers overwrite each
  other (`damage = "overlap"`; `reports/manager/report_manager.go:23` promises
  exclusion). One session alone can leave a `.cno` whose offsets `.cda` does not
  have (`"torn"`; `report.go:15-18` calls one the index of the other).
* `lock.lua:65-66` do not compile.
* One file has different names in one report if the files uploaded with it change
  (`agent/cover/cover.go:72`): the tree shows it twice, once with old lines. Two files
  of one base name in two packages share the entry `x` when increments have them
  alone, and the later one hides the lines of the other. `ReportFollowsAgent` says
  what holds nevertheless.
* A snapshot is called frozen in the repository's `README.md:35`, but
  `RebaseReport` accepts its key (`service/coverage_service.go:704`);
  `SnapshotsArePast` excepts it. `MergeReports` accepts it too, as its base
  (`resolveReportPk`, lines 416-430); merges are no requests of `CoverServer`, so
  `SnapshotsArePast` and `SnapshotsStay` say nothing of a snapshot that is merged into.
* Two services that register at once both pass the check at `agent/sut/sut.go:50`.
  `CoverAddr` and `DataPath` of a registration are never used; the collector reads
  its environment.
* Two reports merged into a third give different lines in either order, for a file
  the third lacks, if they do not agree on its instructions (`report.go`, the merge
  visitors; `MergeOrderIsFree` excepts it).
* Uploads of one run that name different base commits share one object for their diff
  (`commands/upload.go:127-128` reads both from the environment): a
  report may get increments against another base than the one it names.
* The agent sends a `FilePrefix` (`agent/cover/cover.go:82`) that the server never reads.
* `Init` of the agent succeeds without an object store client
  (`agent/agent.go:89`), and a full upload then calls it.
* A commit whose first unit test upload did not get through never shows a report
  (`CommitIsShown` names it): the query takes the first row in any state.
* The comments on the instruction bit of a cover line say the opposite of the code,
  which sets bit 31 for lines *without* an instruction; encoder and decoder agree.
* The GitHub provider writes the new name for both names of a file and
  `--- /dev/null` for every file that was not renamed.
* The HTTP clients of the agent have no time limit (`agent/cover/openapi/openapi.go:27`,
  `agent/cover/processor/go.go:99`): one call that is never answered stops all
  tasks, which share a goroutine.
* `ScanCoverageFiles` maps a path to its base name, so profiles in subdirectories
  are not found.

## 6. What is left

* A system test upload beside unit test uploads and merges in `CoverServer`, and
  two agents for one commit.

## 7. Not modelled

Reading source text, configuration, logging, generated code, the frontend and the
thin clients: no state that a report depends on. The file data source: tests only.
`report/tree/builder.go` and `CoverReportImpl.Merge`: no callers. The local diff
provider: runs git and is not wired in. The registration interface's generated
package is not in the repository; `AgentEnv` has both of its sides.
What is left out of a modelled component is said in section 2 and in
`PROJECT.json`.
