----------------------------- MODULE CoverServer -----------------------------
(***************************************************************************)
(* The server with its concurrent requests: unit test uploads, snapshots,  *)
(* and requests with a base commit, on the same stored reports.  It may    *)
(* crash between any two steps and be started again; every call may fail.  *)
(***************************************************************************)
EXTENDS UnitTestUpload, Snapshots, DiffCache

CONSTANT MaxRequests    \* bound: requests

vars == <<serverVars, uploadVars, snapVars, diffCacheVars>>

Init == ServerInit /\ UploadInit /\ SnapInit /\ DiffCacheInit

Busy == {u \in Uploads : cli[u] # "start"} \cup {s \in Snaps : snap[s].step # "idle"}
        \cup {a \in Asks : ask[a].step # "idle"}
MayStart(r) == r \in Busy \/ Cardinality(Busy) < MaxRequests

RunTool(u) == MayStart(u) /\ CliStep(u)
                 /\ UNCHANGED <<snapVars, diffCacheVars>>
RunJob(u) == JobStep(u) /\ UNCHANGED <<snapVars, diffCacheVars>>
CreateSnapshot(s) == MayStart(s) /\ SnapStep(s)
                        /\ UNCHANGED <<uploadVars, diffCacheVars>>
AnswerWithBase(a) == MayStart(a) /\ AskStep(a)
                        /\ UNCHANGED <<uploadVars, snapVars>>
PassTime == Tick /\ UNCHANGED <<uploadVars, snapVars, diffCacheVars>>

(* What is in memory is lost: goroutines and requests.                     *)
Crash ==
    /\ LoseJobs /\ LoseSnaps /\ LoseAsks
    /\ UNCHANGED <<serverVars, covers, diffs, rows, cli, snapRows, diffRows, diffObjects>>

Next ==
    \/ \E u \in Uploads : RunTool(u) \/ RunJob(u)
    \/ \E s \in Snaps : CreateSnapshot(s)
    \/ \E a \in Asks : AnswerWithBase(a)
    \/ PassTime
    \/ Crash

(* The server's goroutines run.                                            *)
Fairness == \A u \in Uploads : WF_vars(RunJob(u))

Spec == Init /\ [][Next]_vars /\ Fairness

-----------------------------------------------------------------------------
(* Types.                                                                  *)
TypeOK ==
    /\ \A u \in Uploads : /\ job[u].step \in JobSteps
                          /\ job[u].step # "none" => cli[u] = "done"
                          /\ job[u].step \in {"read", "ready", "created", "flushed"} =>
                                job[u].from \in Uploads
                          /\ job[u].step \in {"created", "flushed"} =>
                                job[u].key.commit \in Commits
    /\ \A i \in DOMAIN snapRows : snapRows[i].at \in snapRows[i].key.at..now
    /\ \A a \in Asks : ask[a].step \in {"cached", "missed", "answered"} =>
                          ask[a].report # None /\ ask[a].base \in Bases

(* Names of the commits of two uploads that cannot be told apart in paths. *)
Alike(c, d) == c # d /\ Short[c] = Short[d]

(* Whoever finds a key in a table finds its object, whatever failed or     *)
(* crashed between the object and the row: a report of a unit test, where a*)
(* pending row has no key, a snapshot, a cached diff.                      *)
RowsHaveObjects ==
    /\ \A i \in DOMAIN rows : rows[i].key # None => Path(rows[i].key) \in DOMAIN reports
    /\ \A i \in DOMAIN snapRows : Path(snapRows[i].key) \in DOMAIN reports
    /\ \A i \in DOMAIN diffRows : DiffPath(diffRows[i].key) \in DOMAIN diffObjects

(* The report of a row has the coverage of its commit and of its run, even *)
(* if the report was rebased - unless two reports of one path were made in *)
(* one second, or two commits are alike.                                   *)
Rivals(path) == {u \in Uploads : job[u].key # None /\ Path(job[u].key) = path}

ReportsAreOwn ==
    \A i \in {j \in DOMAIN rows : rows[j].key # None} :
        LET u == rows[i].upload
            r == reports[Path(rows[i].key)]
        IN  /\ Cardinality(Rivals(Path(rows[i].key))) = 1
            /\ \A v \in Uploads : ~Alike(CommitOf[u], CommitOf[v])
            => /\ r.commit = rows[i].commit /\ CommitOf[r.from] = r.commit
               /\ RunOf[r.from] = RunOf[u]

(* What GetReportInfo shows of a commit stays: later uploads of the commit,*)
(* crashed or not, do not take it away.                                    *)
ShownReportStays ==
    [][\A c \in Commits : ShownKeys(c) # {} => ShownKeys(c)' = ShownKeys(c)]_vars

(* A commit that was uploaded is shown some day, unless the goroutine of   *)
(* its first row did not get through; then it is never shown.              *)
CommitIsShown ==
    \A c \in {CommitOf[u] : u \in Uploads} :
        RowsOf(c) # {} ~> \/ ShownKeys(c) # {}
                          \/ \E i \in Query(c) : job[rows[i].upload].step = "lost"

(* A snapshot has what the report had when it was opened, whatever happens *)
(* to that report - so long as nobody rebases the snapshot itself or makes *)
(* one of the same path in the same second.  MergeReports takes a snapshot *)
(* as its base too and changes it then; merges are no requests of this     *)
(* module, so that this says nothing of a snapshot that is merged into.    *)
SnapshotsArePast ==
    \A i \in DOMAIN snapRows :
        LET path == Path(snapRows[i].key)
        IN  \/ reports[path] = snapRows[i].taken
            \/ \E a \in Asks : ask[a].kind = "rebase" /\ ask[a].path = path
            \/ \E s \in Snaps : /\ snap[s].key # None /\ Path(snap[s].key) = path
                                /\ snap[s].copy # snapRows[i].taken

(* The tools of one run are given one base commit.                         *)
RunsHaveOneBase ==
    \A u, v \in Uploads :
        CommitOf[u] = CommitOf[v] /\ RunOf[u] = RunOf[v] => BaseOf[u] = BaseOf[v]

(* The increments of a report are those against its base commit, wherever  *)
(* the diff came from - unless two commits are alike, or a run has the diff*)
(* of one base commit and the name of another.                             *)
IncrementsAreOfBase ==
    (\A c, d \in Commits : ~Alike(c, d)) /\ RunsHaveOneBase =>
        \A p \in DOMAIN reports :
            LET r == reports[p]
            IN  r.diff # None => r.diff = <<r.commit, r.base>>
=============================================================================
