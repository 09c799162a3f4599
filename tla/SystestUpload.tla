---------------------------- MODULE SystestUpload ----------------------------
(***************************************************************************)
(* System test coverage from the service under test to its report: the     *)
(* agent beside the service collects the coverage periodically, sends what *)
(* grew since its last collection, and the server merges each upload into  *)
(* the report of the task in a goroutine of its own.                       *)
(*                                                                         *)
(* One service, one module, branch and commit.  The coverage of a file is  *)
(* its count of covered lines, which is what the agent compares.  How a    *)
(* report is opened and stored is the subject of ReportStore; here opening *)
(* it and flushing it are one step each.                                   *)
(***************************************************************************)
EXTENDS Integers, Sequences, FiniteSets

CONSTANTS
    Files,       \* source files of the service
    Dir, Base,   \* the directory and the base name of each file
    MaxHits,     \* bound: covered lines of a file
    MaxSessions, \* bound: starts of the service
    MaxUploads   \* bound: uploads of the agent

ASSUME UploadAssumption ==
    /\ IsFiniteSet(Files) /\ Files # {}
    /\ \A f, g \in Files : Dir[f] = Dir[g] /\ Base[f] = Base[g] => f = g
    /\ MaxHits \in Nat /\ MaxSessions \in Nat \ {0} /\ MaxUploads \in Nat

Uploads == 1..MaxUploads

VARIABLES
    hits,       \* covered lines of each file in the running service
    session,    \* number of the service's current run
    cache,      \* what the agent collected last: its session and hits
    apc,        \* where the agent's cron task is
    sending,    \* the upload that the agent prepares
    uploads,    \* the upload requests that reached the server
    normal,     \* coverage objects on the object store, by upload number
    rows,       \* the systest_task rows: status and coverage object key
    reports,    \* the report of each row: the covered lines of its files
    job,        \* where the server is with each upload
    task,       \* each upload's copy of the task row
    input,      \* the coverage that each upload's goroutine processes
    view,       \* the report as each upload's goroutine opened it
    faults      \* history: what went wrong so far

agent  == <<cache, apc, sending>>
server == <<rows, reports, job, task, input, view>>
vars   == <<hits, session, agent, uploads, normal, server, faults>>

(***************************************************************************)
(* Values.  Key 0 is the empty key: the upload carries its coverage.       *)
(***************************************************************************)
NoCache == [session |-> 0, hits |-> [f \in Files |-> 0]]
NoTask  == [id |-> 0, status |-> "none", key |-> 0]
Nothing == <<>>   \* the function with an empty domain

(* CompressCommonPrefix: what is common to the directories of all files of *)
(* an upload is cut off, so a file's name depends on its company.          *)
Name(f, S) ==
    IF \A g \in S : Dir[g] = Dir[f] THEN <<Base[f]>> ELSE <<Dir[f], Base[f]>>

NamesFor(f) == {Name(f, S) : S \in {T \in SUBSET Files : f \in T}}

(* The name of a file in the upload of S is also one of another file's.    *)
Clash(S) == \E f \in S : \E g \in Files \ {f} : Name(f, S) \in NamesFor(g)

Coverage(S) ==
    [n \in {Name(f, S) : f \in S} |-> hits[CHOOSE f \in S : Name(f, S) = n]]

Override(new, old) ==
    [n \in DOMAIN new \cup DOMAIN old |-> IF n \in DOMAIN new THEN new[n] ELSE old[n]]

Unfinished == {"arrived", "queried", "running", "writing", "flushed"}
Busy == {i \in Uploads : job[i] \in Unfinished}

Init ==
    /\ hits = [f \in Files |-> 0]
    /\ session = 1
    /\ cache = NoCache
    /\ apc = "idle"
    /\ sending = [incr |-> TRUE, data |-> Nothing]
    /\ uploads = <<>>
    /\ normal = [i \in Uploads |-> Nothing]
    /\ rows = <<>>
    /\ reports = <<>>
    /\ job = [i \in Uploads |-> "none"]
    /\ task = [i \in Uploads |-> NoTask]
    /\ input = [i \in Uploads |-> Nothing]
    /\ view = [i \in Uploads |-> Nothing]
    /\ faults = {}

(***************************************************************************)
(* The service under test.                                                 *)
(***************************************************************************)
Cover(f) ==
    /\ hits[f] < MaxHits
    /\ hits' = [hits EXCEPT ![f] = @ + 1]
    /\ UNCHANGED <<session, agent, uploads, normal, server, faults>>

(* The service starts again: nothing is covered, and the session changes.  *)
Restart ==
    /\ session < MaxSessions
    /\ session' = session + 1
    /\ hits' = [f \in Files |-> 0]
    /\ faults' = faults \cup {"restart"}
    /\ UNCHANGED <<agent, uploads, normal, server>>

(***************************************************************************)
(* The agent's cron task.                                                  *)
(***************************************************************************)
(* GetIncrCoverage: the first collection of a session is full, later ones  *)
(* have the files with more covered lines.  The cache moves on whatever    *)
(* becomes of the upload.  Coverage that is full, or too large, goes by    *)
(* way of the object store.                                                *)
Collect ==
    LET isIncr == cache.session = session
        S == IF isIncr THEN {f \in Files : hits[f] > cache.hits[f]} ELSE Files
    IN  /\ apc = "idle"
        /\ cache' = [session |-> session, hits |-> hits]
        /\ \/ S = {} /\ UNCHANGED <<apc, sending, faults>>
           \/ /\ S # {}
              /\ \E large \in BOOLEAN :
                   /\ sending' = [incr |-> isIncr /\ ~large, data |-> Coverage(S)]
                   /\ apc' = IF isIncr /\ ~large THEN "call" ELSE "put"
                   /\ faults' = faults \cup {k \in {"large", "clash"} :
                                  IF k = "large" THEN isIncr /\ large ELSE Clash(S)}
        /\ UNCHANGED <<hits, session, uploads, normal, server>>

PutNormal ==
    /\ apc = "put"
    /\ Len(uploads) < MaxUploads
    /\ normal' = [normal EXCEPT ![Len(uploads) + 1] = sending.data]
    /\ apc' = "call"
    /\ UNCHANGED <<hits, session, cache, sending, uploads, server, faults>>

(* The request reaches the server.  The agent goes on at its next tick,    *)
(* whatever the answer is, or if none comes.                               *)
Call ==
    /\ apc = "call"
    /\ Len(uploads) < MaxUploads
    /\ uploads' = Append(uploads,
                         IF sending.incr THEN sending ELSE [sending EXCEPT !.data = Nothing])
    /\ job' = [job EXCEPT ![Len(uploads) + 1] = "arrived"]
    /\ apc' = "idle"
    /\ faults' = IF Busy = {} THEN faults ELSE faults \cup {"overlap"}
    /\ UNCHANGED <<hits, session, cache, sending, normal, rows, reports, task, input, view>>

(* PutObject fails, or the request does not reach the server.              *)
SendFails ==
    /\ apc \in {"put", "call"}
    /\ apc' = "idle"
    /\ faults' = faults \cup {"lost"}
    /\ UNCHANGED <<hits, session, cache, sending, uploads, normal, server>>

(***************************************************************************)
(* The server: getOrCreateTask in the request, the rest in a goroutine.    *)
(***************************************************************************)
Key(i) == IF uploads[i].incr THEN 0 ELSE i

At(i, place) == job[i] = place
Goes(i, place) == job' = [job EXCEPT ![i] = place]

(* Mutant of QueryTask: a commit that was seen before gets a new task.     *)
NewTask(i) ==
    /\ At(i, "arrived")
    /\ task' = [task EXCEPT ![i] = [id |-> 0, status |-> "pending", key |-> Key(i)]]
    /\ Goes(i, "queried")
    /\ UNCHANGED <<hits, session, agent, uploads, normal, rows, reports, input, view, faults>>

(* Query answers the first of the task's rows.  A CreatedTime in the       *)
(* request replaces the row's, which nothing here tells apart.             *)
QueryTask(i) ==
    /\ At(i, "arrived")
    /\ task' = [task EXCEPT ![i] =
                  IF rows = <<>> THEN [id |-> 0, status |-> "pending", key |-> Key(i)]
                  ELSE [id |-> 1, status |-> rows[1].status, key |-> rows[1].key]]
    /\ Goes(i, "queried")
    /\ UNCHANGED <<hits, session, agent, uploads, normal, rows, reports, input, view, faults>>

Row(t) == [status |-> t.status, key |-> t.key]

(* Mutant of SaveTask: the id of an inserted row does not come back.       *)
SaveWithoutId(i) ==
    /\ At(i, "queried")
    /\ \/ /\ task[i].id = 0
          /\ rows' = Append(rows, Row(task[i]))
          /\ reports' = Append(reports, Nothing)
       \/ /\ task[i].id # 0
          /\ rows' = [rows EXCEPT ![task[i].id] = Row(task[i])]
          /\ UNCHANGED reports
    /\ Goes(i, "running")
    /\ UNCHANGED <<hits, session, agent, uploads, normal, task, input, view, faults>>

(* Mutant of SaveTask: a known task gets the key of the new upload at once.*)
SaveWithKey(i) ==
    /\ At(i, "queried")
    /\ \/ /\ task[i].id = 0
          /\ rows' = Append(rows, Row(task[i]))
          /\ reports' = Append(reports, Nothing)
          /\ task' = [task EXCEPT ![i].id = Len(rows) + 1]
       \/ /\ task[i].id # 0
          /\ rows' = [rows EXCEPT ![task[i].id] = [status |-> task[i].status, key |-> Key(i)]]
          /\ UNCHANGED <<reports, task>>
    /\ Goes(i, "running")
    /\ UNCHANGED <<hits, session, agent, uploads, normal, input, view, faults>>

(* Save inserts a row for a new task, with the key of a report of its own, *)
(* and writes back the row as it was read otherwise.                       *)
SaveTask(i) ==
    /\ At(i, "queried")
    /\ \/ /\ task[i].id = 0
          /\ rows' = Append(rows, Row(task[i]))
          /\ reports' = Append(reports, Nothing)
          /\ task' = [task EXCEPT ![i].id = Len(rows) + 1]
       \/ /\ task[i].id # 0
          /\ rows' = [rows EXCEPT ![task[i].id] = Row(task[i])]
          /\ UNCHANGED <<reports, task>>
    /\ Goes(i, "running")
    /\ UNCHANGED <<hits, session, agent, uploads, normal, input, view, faults>>

(* The coverage is in the request, or in the object that the task names.   *)
OpenReport(i) ==
    /\ At(i, "running")
    /\ uploads[i].incr \/ task[i].key # 0
    /\ input' = [input EXCEPT ![i] =
                   IF uploads[i].incr THEN uploads[i].data ELSE normal[task[i].key]]
    /\ view' = [view EXCEPT ![i] = reports[task[i].id]]
    /\ Goes(i, "writing")
    /\ UNCHANGED <<hits, session, agent, uploads, normal, rows, reports, task, faults>>

(* Mutant of SkipUpload: it looks at the key and not at the request.       *)
SkipWithoutKey(i) ==
    /\ At(i, "running")
    /\ task[i].key = 0
    /\ Goes(i, "skipped")
    /\ UNCHANGED <<hits, session, agent, uploads, normal, rows, reports, task, input, view, faults>>

(* No coverage in the request, and no key in the task: nothing to do.      *)
SkipUpload(i) ==
    /\ At(i, "running")
    /\ ~uploads[i].incr /\ task[i].key = 0
    /\ Goes(i, "skipped")
    /\ UNCHANGED <<hits, session, agent, uploads, normal, rows, reports, task, input, view, faults>>

(* Mutant of Merged: files that the report has already are not updated.    *)
MergedKeepingOld(i) == Override(view[i], input[i])

(* UpdateFile or AddFile for every file of the upload.                     *)
Merged(i) == Override(input[i], view[i])

FlushReport(i) ==
    /\ At(i, "writing")
    /\ reports' = [reports EXCEPT ![task[i].id] = Merged(i)]
    /\ Goes(i, "flushed")
    /\ UNCHANGED <<hits, session, agent, uploads, normal, rows, task, input, view, faults>>

(* The final Save; that it fails is only logged.                           *)
SaveProcessed(i) ==
    /\ At(i, "flushed")
    /\ \/ rows' = [rows EXCEPT ![task[i].id] = [status |-> "processed", key |-> Key(i)]]
       \/ UNCHANGED rows
    /\ Goes(i, "done")
    /\ UNCHANGED <<hits, session, agent, uploads, normal, reports, task, input, view, faults>>

(* A step of the database or the object store fails and ends the upload;   *)
(* of a Flush that failed, the report may have been stored.                *)
UploadFails(i) ==
    /\ job[i] \in Unfinished \ {"flushed"}
    /\ \/ UNCHANGED reports
       \/ At(i, "writing") /\ reports' = [reports EXCEPT ![task[i].id] = Merged(i)]
    /\ Goes(i, "failed")
    /\ faults' = faults \cup {"lost"}
    /\ UNCHANGED <<hits, session, agent, uploads, normal, rows, task, input, view>>

(* The server process dies: goroutines do not come back.                   *)
ServerCrash ==
    /\ Busy # {}
    /\ job' = [i \in Uploads |-> IF i \in Busy THEN "failed" ELSE job[i]]
    /\ faults' = faults \cup {"lost"}
    /\ UNCHANGED <<hits, session, agent, uploads, normal, rows, reports, task, input, view>>

Progress(i) ==
    \/ QueryTask(i) \/ SaveTask(i) \/ OpenReport(i) \/ SkipUpload(i)
    \/ FlushReport(i) \/ SaveProcessed(i)

Next ==
    \/ \E f \in Files : Cover(f)
    \/ Restart
    \/ Collect \/ PutNormal \/ Call \/ SendFails
    \/ \E i \in Uploads : Progress(i) \/ UploadFails(i)
    \/ ServerCrash

(* The scheduler runs the cron task every period, and Go runs goroutines.  *)
Fairness ==
    /\ WF_vars(Collect \/ PutNormal \/ Call)
    /\ \A i \in Uploads : WF_vars(Progress(i))

Spec == Init /\ [][Next]_vars /\ Fairness

(***************************************************************************)
(* Properties.                                                             *)
(***************************************************************************)
Levels == 0..MaxHits
NamesOf(S) == {Name(f, S) : f \in S}
AllNames == UNION {NamesOf(S) : S \in SUBSET Files}
IsCoverage(d) == DOMAIN d \subseteq AllNames /\ \A n \in DOMAIN d : d[n] \in Levels

(* Type invariant.  A row has a report, and a saved task has a row.        *)
TypeOK ==
    /\ hits \in [Files -> Levels]
    /\ session \in 1..MaxSessions
    /\ cache.session \in 0..session /\ cache.hits \in [Files -> Levels]
    /\ apc \in {"idle", "put", "call"}
    /\ sending.incr \in BOOLEAN /\ IsCoverage(sending.data)
    /\ Len(uploads) <= MaxUploads
    /\ \A i \in DOMAIN uploads : uploads[i].incr \in BOOLEAN /\ IsCoverage(uploads[i].data)
    /\ \A i \in Uploads : IsCoverage(normal[i]) /\ IsCoverage(input[i]) /\ IsCoverage(view[i])
    /\ DOMAIN rows = DOMAIN reports
    /\ \A r \in DOMAIN rows :
         /\ rows[r].status \in {"pending", "processed"}
         /\ rows[r].key \in 0..Len(uploads)
         /\ IsCoverage(reports[r])
    /\ \A i \in Uploads :
         /\ job[i] \in Unfinished \cup {"none", "done", "skipped", "failed"}
         /\ job[i] = "none" <=> i > Len(uploads)
         /\ job[i] \in {"running", "writing", "flushed"} => task[i].id \in DOMAIN rows

(* The report that is looked up for the commit has the lines h of every    *)
(* file, under one of the names that uploads give it.                      *)
InReport(h) ==
    /\ rows # <<>>
    /\ \A f \in Files : \E n \in NamesFor(f) \cap DOMAIN reports[1] : reports[1][n] = h[f]

(* It has each file once, by its name in a full upload, and nothing else.  *)
Shown(h) ==
    /\ rows # <<>>
    /\ reports[1] = [n \in NamesOf(Files) |-> h[CHOOSE f \in Files : Name(f, Files) = n]]

(* Each increment named its files as a full upload names them.             *)
OneNameEach == \A i \in DOMAIN uploads : DOMAIN uploads[i].data \subseteq NamesOf(Files)

(* From end to end: the service's coverage as the agent last collected it  *)
(* is what the report has, whenever no upload is under way.  Excused are   *)
(* uploads that were lost, overtaken or too large, a restart, and a clash: *)
(* an increment of one directory leaves the directory out of the names     *)
(* (CompressCommonPrefix), so that a file can be taken for its namesake in *)
(* another.  Without a namesake it is in the report under its short name,  *)
(* beside the entry of its long one; the report is exactly the coverage if *)
(* the company of the files never changed their names.                     *)
ReportFollowsAgent ==
    faults = {} /\ Busy = {} /\ apc = "idle" /\ cache # NoCache =>
        /\ InReport(cache.hits)
        /\ OneNameEach => Shown(cache.hits)

(* A processed row that names a coverage object names the upload that made *)
(* it so, and that upload has flushed the report, even if stale copies of  *)
(* the row are written back by uploads that ran meanwhile.                 *)
ProcessedIsFlushed ==
    \A r \in DOMAIN rows :
        rows[r].status = "processed" /\ rows[r].key # 0
            => job[rows[r].key] = "done"

(* Query and Save do not exclude each other and the table has no unique    *)
(* key: only uploads that overlap can make a second task for the commit.   *)
OneTask == "overlap" \notin faults => Len(rows) <= 1

(* Lines that the service covers are in the report some day, each file     *)
(* under one of its names; excused as above.                               *)
CoverageArrives == []<>(faults # {} \/ InReport(hits))

(***************************************************************************)
(* What the repository says.                                               *)
(***************************************************************************)
(* systest service.go:124 says that a full upload gets its normalised      *)
(* coverage from the object store: the object that came with it, also when *)
(* uploads come one by one and none fails.                                 *)
FullUploadIsUsed ==
    faults \subseteq {"restart", "large", "clash"} => \A i \in DOMAIN uploads :
        ~uploads[i].incr /\ job[i] \in {"flushed", "done", "skipped"} => input[i] = normal[i]
=============================================================================
