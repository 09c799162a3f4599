---------------------------- MODULE UnitTestUpload ----------------------------
(***************************************************************************)
(* Unit test coverage from the command line tool to the report that is     *)
(* shown: the tool puts coverage and diff on the object store and calls the*)
(* server, which saves a row, answers, and makes the report in a goroutine.*)
(* The tool goes on when a step fails, the goroutine ends.                 *)
(***************************************************************************)
EXTENDS ServerReports

CONSTANTS
    Uploads,    \* runs of the tool
    CommitOf, BaseOf, RunOf \* their environment: COMMIT, BASE_COMMIT, RUN_ID

Reports == [commit : Commits, from : Uploads, base : Commits,
            diff : (Commits \X Commits) \cup {None}]

ASSUME ToolAssumption ==
    /\ CommitOf \in [Uploads -> Commits] /\ BaseOf \in [Uploads -> Commits]
    /\ None \notin Uploads \cup Reports

VARIABLES
    covers,     \* .json objects: the upload whose coverage each is
    diffs,      \* .diff objects: the upload whose diff each is
    rows,       \* unittest_task
    cli,        \* where each run of the tool is
    job         \* where the goroutine of each upload is, and what it has

uploadVars == <<covers, diffs, rows, cli, job>>

NoJob == [step |-> "none", from |-> None, diff |-> None, key |-> None]
(* Of a goroutine that ended only its key is kept, for the properties.     *)
Ended(j, step) == [NoJob EXCEPT !.step = step, !.key = j.key]
JobSteps == {"none", "unread", "read", "ready", "created", "flushed", "end", "lost"}

UploadInit ==
    /\ covers = <<>> /\ diffs = <<>> /\ rows = <<>>
    /\ cli = [u \in Uploads |-> "start"]
    /\ job = [u \in Uploads |-> NoJob]

RunlessPath(u) == <<Short[CommitOf[u]]>>

(* The path of an upload's objects: its run id, no time.                   *)
ObjectPath(u) == <<Short[CommitOf[u]], RunOf[u]>>

(***************************************************************************)
(* The tool.                                                               *)
(***************************************************************************)
(* No coverage file, one that cannot be read or parsed, no client: as if*)
(* it was not run.                                                         *)
ParseDirectory(u) ==
    /\ cli[u] = "start"
    /\ cli' = [cli EXCEPT ![u] = "parsed"] \/ UNCHANGED cli
    /\ UNCHANGED <<covers, diffs, rows, job>>

UploadCoverage(u) ==
    /\ cli[u] = "parsed"
    /\ cli' = [cli EXCEPT ![u] = "put"]
    /\ \/ covers' = Stored(covers, ObjectPath(u), u)
       \/ UNCHANGED covers
    /\ UNCHANGED <<diffs, rows, job>>

UploadDiff(u) ==
    /\ cli[u] = "put"
    /\ cli' = [cli EXCEPT ![u] = "sent"]
    /\ \/ diffs' = Stored(diffs, ObjectPath(u), u)
       \/ UNCHANGED diffs       \* no --diffPath, or it failed
    /\ UNCHANGED <<covers, rows, job>>

Row(u, key) == [upload |-> u, commit |-> CommitOf[u], key |-> key]

(* UploadToCoverServer and the handler: a row for every call.              *)
UploadToCoverServer(u) ==
    /\ cli[u] = "sent"
    /\ cli' = [cli EXCEPT ![u] = "done"]
    /\ \/ /\ rows' = SaveRecord(rows, 0, Row(u, None))
          /\ job' = [job EXCEPT ![u].step = "unread"]
       \/ UNCHANGED <<rows, job>>   \* no server given, or the call failed
    /\ UNCHANGED <<covers, diffs>>

(***************************************************************************)
(* The goroutine.                                                          *)
(***************************************************************************)
GetCoverageUnchecked(u) ==
    /\ job[u].step = "unread"
    /\ \E from \in Objects(covers, ObjectPath(u)) \cup {None} :
           job' = [job EXCEPT ![u].step = "read", ![u].from = from]
    /\ UNCHANGED <<covers, diffs, rows, cli>>

GetCoverage(u) ==
    /\ job[u].step = "unread"
    /\ \/ \E from \in Objects(covers, ObjectPath(u)) :
              job' = [job EXCEPT ![u].step = "read", ![u].from = from]
       \/ job' = [job EXCEPT ![u] = Ended(@, "lost")]
    /\ UNCHANGED <<covers, diffs, rows, cli>>

(* A diff that is not there, or cannot be read or parsed, is done without. *)
GetDiffData(u) ==
    /\ job[u].step = "read"
    /\ \E diff \in Objects(diffs, ObjectPath(u)) \cup {None} :
           job' = [job EXCEPT ![u].step = "ready", ![u].diff = diff]
    /\ UNCHANGED <<covers, diffs, rows, cli>>

(* The commit is that of the coverage object.                              *)
CreateReport(u) ==
    /\ job[u].step = "ready"
    /\ \/ job' = [job EXCEPT ![u].step = "created",
                             ![u].key = NewKey("unittest", CommitOf[job[u].from])]
       \/ job' = [job EXCEPT ![u] = Ended(@, "lost")]
    /\ UNCHANGED <<covers, diffs, rows, cli>>

BuiltReport(u) ==
    LET from == job[u].from
        diff == job[u].diff
    IN  [commit |-> CommitOf[from], from |-> from, base |-> BaseOf[from],
         diff |-> IF diff = None THEN None ELSE <<CommitOf[diff], BaseOf[diff]>>]

(* The files are added and the report is flushed; a flush that fails may   *)
(* have stored the report.                                                 *)
FlushReport(u) ==
    /\ job[u].step = "created"
    /\ \/ /\ reports' = Stored(reports, Path(job[u].key), BuiltReport(u))
          /\ \/ job' = [job EXCEPT ![u].step = "flushed"]
             \/ job' = [job EXCEPT ![u] = Ended(@, "lost")]
       \/ /\ job' = [job EXCEPT ![u] = Ended(@, "lost")]
          /\ UNCHANGED reports
    /\ UNCHANGED <<now, covers, diffs, rows, cli>>

BeforeFlush(u) == job[u].step \in {"created", "flushed"}

ReportIsThere(u) == job[u].step = "flushed"

NewId(u) == 0

(* The id that Save left in the task.                                      *)
TaskId(u) == CHOOSE i \in DOMAIN rows : rows[i].upload = u

SaveProcessed(u) ==
    /\ ReportIsThere(u)
    /\ \/ /\ rows' = SaveRecord(rows, TaskId(u), Row(u, job[u].key))
          /\ job' = [job EXCEPT ![u] = Ended(@, "end")]
       \/ /\ job' = [job EXCEPT ![u] = Ended(@, "lost")]
          /\ UNCHANGED rows
    /\ UNCHANGED <<covers, diffs, cli>>

JobStep(u) ==
    \/ (GetCoverage(u) \/ GetDiffData(u) \/ CreateReport(u) \/ SaveProcessed(u))
       /\ UNCHANGED serverVars
    \/ FlushReport(u)

CliStep(u) ==
    /\ ParseDirectory(u) \/ UploadCoverage(u) \/ UploadDiff(u) \/ UploadToCoverServer(u)
    /\ UNCHANGED serverVars

LoseJobs ==
    job' = [u \in Uploads |-> IF job[u].step \in {"none", "end"} THEN job[u]
                              ELSE Ended(job[u], "lost")]

(***************************************************************************)
(* GetReportInfo, of unit tests: the first row of the commit that the index*)
(* has, whatever its state.                                                *)
(***************************************************************************)
RowsOf(c) == {i \in DOMAIN rows : rows[i].commit = c}

LastRow(c) == {i \in RowsOf(c) : \A j \in RowsOf(c) : j <= i}

Query(c) == {i \in RowsOf(c) : \A j \in RowsOf(c) : i <= j}

(* The report that is shown, if there is one.                              *)
ShownKeys(c) == {rows[i].key : i \in Query(c)} \ {None}
=============================================================================
