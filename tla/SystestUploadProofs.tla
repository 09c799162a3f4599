------------------------- MODULE SystestUploadProofs -------------------------
(***************************************************************************)
(* Proofs about SystestUpload.                                             *)
(*                                                                         *)
(* UploadsAreTyped: types, and that a saved task has its row.              *)
(* ProcessedRowsAreFlushed: a row that is processed names an upload that   *)
(* is done; the invariant says it of the goroutines' copies of rows too.   *)
(* OneTaskWithoutOverlap: Query and Save without a lock make one task,     *)
(* as long as one upload is in work at a time.                             *)
(* ReportShowsCollected: along the way from the agent's cache over the     *)
(* upload to the report, the last that was sent of each file is what was   *)
(* collected last.  A second invariant says where the names in a report    *)
(* come from.                                                              *)
(***************************************************************************)
EXTENDS SystestUpload, SequenceTheorems, TLAPS

(* Coverages, requests, and the places of an upload, as sets.              *)
Coverages == UNION {[N -> Levels] : N \in SUBSET AllNames}

Requests == [incr : BOOLEAN, data : Coverages]
Places == Unfinished \cup {"none", "done", "skipped", "failed"}
Tasks == [id : Nat, status : {"none", "pending", "processed"}, key : Nat]
TaskRow == [status : {"pending", "processed"}, key : Nat]

AgentTypes ==
    /\ hits \in [Files -> Levels]
    /\ session \in 1..MaxSessions
    /\ cache \in [session : 0..session, hits : [Files -> Levels]]
    /\ apc \in {"idle", "put", "call"}
    /\ sending \in Requests

UploadTypes ==
    /\ uploads \in Seq(Requests) /\ Len(uploads) <= MaxUploads
    /\ normal \in [Uploads -> Coverages]

(* A task has the key of an upload that arrived, and, once it is saved, its*)
(* row.                                                                    *)
TaskIsRight(i) ==
    /\ job[i] = "none" <=> i > Len(uploads)
    /\ task[i].key <= Len(uploads)
    /\ job[i] \in Unfinished \ {"arrived"} =>
          task[i].id \in 0..Len(rows) /\ task[i].status # "none"
    /\ job[i] \in {"running", "writing", "flushed"} => task[i].id # 0

ServerTypes ==
    /\ job \in [Uploads -> Places]
    /\ task \in [Uploads -> Tasks]
    /\ input \in [Uploads -> Coverages] /\ view \in [Uploads -> Coverages]
    /\ rows \in Seq(TaskRow) /\ reports \in Seq(Coverages)
    /\ Len(rows) = Len(reports)
    /\ \A r \in DOMAIN rows : rows[r].key <= Len(uploads)
    /\ \A i \in Uploads : TaskIsRight(i)

TypeInv == AgentTypes /\ UploadTypes /\ ServerTypes

-----------------------------------------------------------------------------
(* What the agent sends is a coverage: names of files, and their lines.    *)
LEMMA CollectedIsCoverage ==
    ASSUME hits \in [Files -> Levels], NEW S \in SUBSET Files
    PROVE  Coverage(S) \in [NamesOf(S) -> Levels] /\ Coverage(S) \in Coverages
<1> DEFINE Of(n) == CHOOSE f \in S : Name(f, S) = n
<1>1. \A n \in NamesOf(S) : Of(n) \in Files
  BY DEF NamesOf
<1>2. \A n \in NamesOf(S) : hits[Of(n)] \in Levels
  BY <1>1
<1>3. Coverage(S) = [n \in NamesOf(S) |-> hits[Of(n)]]
  BY DEF Coverage, NamesOf
<1> HIDE DEF Of
<1>4. Coverage(S) \in [NamesOf(S) -> Levels]
  BY <1>2, <1>3
<1>5. NamesOf(S) \in SUBSET AllNames
  BY DEF AllNames
<1> QED
  BY <1>4, <1>5 DEF Coverages

(* Coverages joined are a coverage.                                        *)
LEMMA OverrideIsCoverage ==
    ASSUME NEW new \in Coverages, NEW old \in Coverages
    PROVE  Override(new, old) \in Coverages
<1>1. PICK N \in SUBSET AllNames : new \in [N -> Levels]
  BY DEF Coverages
<1>2. PICK O \in SUBSET AllNames : old \in [O -> Levels]
  BY DEF Coverages
<1>3. Override(new, old) \in [N \cup O -> Levels]
  BY <1>1, <1>2 DEF Override
<1>4. N \cup O \in SUBSET AllNames
  OBVIOUS
<1> QED
  BY <1>3, <1>4 DEF Coverages

(* The report of a new task has no file.                                   *)
LEMMA NothingIsCoverage == Nothing \in Coverages
<1>1. Nothing \in [{} -> Levels]
  BY DEF Nothing
<1> QED
  BY <1>1 DEF Coverages

(* The parts that a step leaves alone.                                     *)
LEMMA PartsStay ==
    /\ AgentTypes /\ UNCHANGED <<hits, session, agent>> => AgentTypes'
    /\ UploadTypes /\ UNCHANGED <<uploads, normal>> => UploadTypes'
    /\ ServerTypes /\ UNCHANGED <<uploads, server>> => ServerTypes'
<1>1. AgentTypes /\ UNCHANGED <<hits, session, agent>> => AgentTypes'
  BY DEF AgentTypes, agent
<1>2. UploadTypes /\ UNCHANGED <<uploads, normal>> => UploadTypes'
  BY DEF UploadTypes
<1>3. ServerTypes /\ UNCHANGED <<uploads, server>> => ServerTypes'
  BY DEF ServerTypes, TaskIsRight, server
<1> QED
  BY <1>1, <1>2, <1>3

(* Nothing has run yet.                                                    *)
LEMMA InitTypes == Init => TypeInv
<1> SUFFICES ASSUME Init PROVE TypeInv
  OBVIOUS
<1> USE UploadAssumption DEF UploadAssumption, Init
<1>1. NoCache \in [session : 0..session, hits : [Files -> Levels]]
  BY DEF NoCache, Levels
<1>2. AgentTypes
  BY <1>1, NothingIsCoverage DEF AgentTypes, Requests, Levels
<1>3. UploadTypes
  BY NothingIsCoverage DEF UploadTypes, Uploads
<1>4. ServerTypes
  <2>1. NoTask \in Tasks
    BY DEF NoTask, Tasks
  <2>2. \A i \in Uploads : TaskIsRight(i)
    BY DEF TaskIsRight, Unfinished, Uploads, NoTask
  <2> QED
    BY <2>1, <2>2, NothingIsCoverage DEF ServerTypes, Places
<1> QED
  BY <1>2, <1>3, <1>4 DEF TypeInv

(* The service and the agent.                                              *)
LEMMA AgentKeepsTypes ==
    ASSUME TypeInv, (\E f \in Files : Cover(f)) \/ Restart \/ Collect \/ PutNormal \/ Call
                    \/ SendFails
    PROVE  TypeInv'
<1> USE DEF TypeInv
<1>1. ASSUME NEW f \in Files, Cover(f) PROVE TypeInv'
  <2>1. hits' \in [Files -> Levels]
    BY <1>1, UploadAssumption DEF UploadAssumption, Cover, AgentTypes, Levels
  <2> QED
    BY <1>1, <2>1, PartsStay DEF Cover, AgentTypes, agent
<1>2. CASE Restart
  <2>1. /\ hits' \in [Files -> Levels] /\ session' \in 1..MaxSessions
        /\ cache' \in [session : 0..session', hits : [Files -> Levels]]
    BY <1>2, UploadAssumption DEF UploadAssumption, Restart, AgentTypes, Levels, agent
  <2> QED
    BY <1>2, <2>1, PartsStay DEF Restart, AgentTypes, agent
<1>3. CASE Collect
  <2> DEFINE isIncr == cache.session = session
             S == IF isIncr THEN {f \in Files : hits[f] > cache.hits[f]} ELSE Files
  <2>1. Coverage(S) \in Coverages
    BY CollectedIsCoverage DEF AgentTypes
  <2>2. sending' \in Requests /\ apc' \in {"idle", "put", "call"}
    <3>1. CASE UNCHANGED <<apc, sending>>
      BY <3>1 DEF AgentTypes
    <3>2. ASSUME NEW large \in BOOLEAN,
                 sending' = [incr |-> isIncr /\ ~large, data |-> Coverage(S)],
                 apc' = IF isIncr /\ ~large THEN "call" ELSE "put"
          PROVE  sending' \in Requests /\ apc' \in {"idle", "put", "call"}
      <4>1. (isIncr /\ ~large) \in BOOLEAN
        OBVIOUS
      <4> QED
        BY <2>1, <3>2, <4>1, Zenon DEF Requests
    <3> QED
      BY <1>3, <3>1, <3>2 DEF Collect
  <2>3. cache' \in [session : 0..session, hits : [Files -> Levels]]
    BY <1>3, UploadAssumption DEF UploadAssumption, Collect, AgentTypes
  <2> QED
    BY <1>3, <2>2, <2>3, PartsStay DEF Collect, AgentTypes
<1>4. CASE PutNormal
  <2>1. normal' \in [Uploads -> Coverages] /\ apc' \in {"idle", "put", "call"}
    BY <1>4 DEF PutNormal, AgentTypes, UploadTypes, Requests
  <2> QED
    BY <1>4, <2>1, PartsStay DEF PutNormal, AgentTypes, UploadTypes
<1>5. CASE Call
  <2> DEFINE n == Len(uploads) + 1
             request == IF sending.incr THEN sending ELSE [sending EXCEPT !.data = Nothing]
  <2>1. request \in Requests
    BY NothingIsCoverage DEF AgentTypes, Requests
  <2> HIDE DEF request
  <2>2. uploads' = Append(uploads, request) /\ Len(uploads) \in Nat /\ Len(uploads) < MaxUploads
    BY <1>5 DEF Call, UploadTypes, request
  <2>3. uploads' \in Seq(Requests) /\ Len(uploads') = n /\ n <= MaxUploads /\ n \in Uploads
    BY <2>1, <2>2, UploadAssumption DEF UploadAssumption, UploadTypes, Uploads
  <2>4. job' \in [Uploads -> Places] /\ job'[n] = "arrived"
        /\ \A i \in Uploads : i # n => job'[i] = job[i]
    BY <1>5, <2>3 DEF Call, ServerTypes, Places, Unfinished
  <2>5. \A i \in Uploads : TaskIsRight(i)'
    <3> TAKE i \in Uploads
    <3>1. TaskIsRight(i) /\ task[i] \in Tasks /\ i \in Nat
      BY UploadAssumption DEF UploadAssumption, ServerTypes, Uploads
    <3>2. task' = task /\ rows' = rows
      BY <1>5 DEF Call
    <3>3. task[i].key <= Len(uploads')
      <4>1. task[i].key \in Nat
        BY <3>1 DEF Tasks
      <4> QED
        BY <2>2, <2>3, <3>1, <4>1 DEF TaskIsRight
    <3>4. CASE i = n
      BY <2>2, <2>3, <2>4, <3>1, <3>2, <3>3, <3>4 DEF TaskIsRight, Unfinished
    <3>5. CASE i # n
      <4>1. i > Len(uploads') <=> i > Len(uploads)
        BY <2>2, <2>3, <3>1, <3>5
      <4>2. job'[i] = job[i]
        BY <2>4, <3>5
      <4> QED
        BY <3>1, <3>2, <3>3, <4>1, <4>2 DEF TaskIsRight
    <3> QED
      BY <3>4, <3>5
  <2>6. \A r \in DOMAIN rows : rows[r].key <= Len(uploads')
    <3>1. \A r \in DOMAIN rows : rows[r] \in TaskRow
      BY DEF ServerTypes
    <3>2. \A r \in DOMAIN rows : rows[r].key \in Nat
      BY <3>1 DEF TaskRow
    <3> QED
      BY <2>2, <2>3, <3>2 DEF ServerTypes
  <2>7. ServerTypes'
    BY <1>5, <2>4, <2>5, <2>6 DEF Call, ServerTypes
  <2>8. AgentTypes' /\ UploadTypes'
    BY <1>5, <2>3 DEF Call, AgentTypes, UploadTypes
  <2> QED
    BY <2>7, <2>8
<1>6. CASE SendFails
  BY <1>6, PartsStay DEF SendFails, AgentTypes
<1> QED
  BY <1>1, <1>2, <1>3, <1>4, <1>5, <1>6
-----------------------------------------------------------------------------
(* The server moves on with one upload.                                    *)
LEMMA JobGoes ==
    ASSUME ServerTypes, NEW i \in Uploads, NEW place \in Places, Goes(i, place)
    PROVE  /\ job' \in [Uploads -> Places] /\ job'[i] = place
           /\ \A j \in Uploads : j # i => job'[j] = job[j]
BY DEF ServerTypes, Goes

(* Tasks of the other uploads stay right when no row goes.                 *)
LEMMA OtherTasks ==
    ASSUME TypeInv, NEW i \in Uploads, UNCHANGED uploads, Len(rows') \in Nat,
           Len(rows) <= Len(rows'),
           \A j \in Uploads : j # i => job'[j] = job[j] /\ task'[j] = task[j]
    PROVE  \A j \in Uploads : j # i => TaskIsRight(j)'
<1> TAKE j \in Uploads
<1>1. TaskIsRight(j) /\ Len(rows) \in Nat
  BY DEF TypeInv, ServerTypes
<1>2. \A k \in 0..Len(rows) : k \in 0..Len(rows')
  BY <1>1
<1> QED
  BY <1>1, <1>2 DEF TaskIsRight

(* The key of an upload's object is its own number, if it has one.         *)
LEMMA KeyIsUpload ==
    ASSUME TypeInv, NEW i \in Uploads, job[i] # "none"
    PROVE  Key(i) \in Nat /\ Key(i) <= Len(uploads) /\ i <= Len(uploads) /\ i \in DOMAIN uploads
<1>1. i \in Nat \ {0} /\ Len(uploads) \in Nat /\ i <= Len(uploads)
  BY UploadAssumption DEF UploadAssumption, Uploads, TypeInv, UploadTypes, ServerTypes, TaskIsRight
<1> QED
  BY <1>1 DEF Key, TypeInv, UploadTypes

(* Rows keep keys of uploads that arrived.                                 *)
LEMMA RowsStayRight ==
    ASSUME TypeInv, NEW row \in TaskRow, row.key <= Len(uploads), UNCHANGED uploads,
           \/ rows' = Append(rows, row)
           \/ \E r \in DOMAIN rows : rows' = [rows EXCEPT ![r] = row]
    PROVE  /\ rows' \in Seq(TaskRow)
           /\ \A r \in DOMAIN rows' : rows'[r].key <= Len(uploads')
           /\ Len(rows) <= Len(rows') /\ Len(rows') \in Nat
<1>1. rows \in Seq(TaskRow) /\ \A r \in DOMAIN rows : rows[r].key <= Len(uploads)
  BY DEF TypeInv, ServerTypes
<1>2. CASE rows' = Append(rows, row)
  BY <1>1, <1>2
<1>3. ASSUME NEW r \in DOMAIN rows, rows' = [rows EXCEPT ![r] = row]
      PROVE  /\ rows' \in Seq(TaskRow)
             /\ \A q \in DOMAIN rows' : rows'[q].key <= Len(uploads')
             /\ Len(rows) <= Len(rows') /\ Len(rows') \in Nat
  <2>1. rows' \in Seq(TaskRow) /\ Len(rows') = Len(rows)
    BY <1>1, <1>3
  <2>2. DOMAIN rows' = DOMAIN rows /\ \A q \in DOMAIN rows : rows'[q] \in {row, rows[q]}
    BY <1>1, <1>3
  <2>3. \A q \in DOMAIN rows' : rows'[q].key <= Len(uploads')
    BY <1>1, <2>2
  <2>4. Len(rows) \in Nat
    BY <1>1
  <2> QED
    BY <2>1, <2>3, <2>4
<1> QED
  BY <1>2, <1>3

(* Query copies the first row, or starts a task.                           *)
LEMMA QueryKeepsTypes ==
    ASSUME TypeInv, NEW i \in Uploads, QueryTask(i)
    PROVE  ServerTypes'
<1>1. /\ job' \in [Uploads -> Places] /\ job'[i] = "queried"
      /\ \A j \in Uploads : j # i => job'[j] = job[j]
  BY JobGoes DEF TypeInv, QueryTask, Places, Unfinished
<1>2. PICK t : /\ task' = [task EXCEPT ![i] = t]
               /\ t = IF rows = <<>> THEN [id |-> 0, status |-> "pending", key |-> Key(i)]
                      ELSE [id |-> 1, status |-> rows[1].status, key |-> rows[1].key]
  BY DEF QueryTask
<1>3. t \in Tasks /\ t.id \in 0..Len(rows) /\ t.key <= Len(uploads) /\ t.status # "none"
  <2>1. CASE rows = <<>>
    <3>1. Key(i) \in Nat /\ Key(i) <= Len(uploads)
      BY KeyIsUpload DEF QueryTask, At
    <3>2. Len(rows) \in Nat
      BY DEF TypeInv, ServerTypes
    <3> QED
      BY <1>2, <2>1, <3>1, <3>2 DEF Tasks
  <2>2. CASE rows # <<>>
    <3>1. 1 \in DOMAIN rows /\ Len(rows) \in Nat /\ Len(rows) # 0
      BY <2>2 DEF TypeInv, ServerTypes
    <3>2. rows[1] \in TaskRow /\ rows[1].key <= Len(uploads)
      BY <3>1 DEF TypeInv, ServerTypes
    <3> QED
      BY <1>2, <2>2, <3>1, <3>2 DEF Tasks, TaskRow
  <2> QED
    BY <2>1, <2>2
<1>4. task' \in [Uploads -> Tasks] /\ task'[i] = t
      /\ \A j \in Uploads : j # i => task'[j] = task[j]
  BY <1>2, <1>3 DEF TypeInv, ServerTypes
<1>5. UNCHANGED <<uploads, rows, reports, input, view>>
  BY DEF QueryTask
<1>6. TaskIsRight(i)'
  BY <1>1, <1>3, <1>4, <1>5 DEF TypeInv, ServerTypes, TaskIsRight, QueryTask, At
<1>7. \A j \in Uploads : j # i => TaskIsRight(j)'
  <2>1. Len(rows) \in Nat
    BY DEF TypeInv, ServerTypes
  <2> QED
    BY <1>1, <1>4, <1>5, <2>1, OtherTasks
<1> QED
  BY <1>1, <1>4, <1>5, <1>6, <1>7 DEF TypeInv, ServerTypes

(* Save inserts the task with a report of its own, or writes the copy back.*)
LEMMA SaveKeepsTypes ==
    ASSUME TypeInv, NEW i \in Uploads, SaveTask(i)
    PROVE  ServerTypes'
<1> DEFINE row == Row(task[i])
<1>1. /\ job' \in [Uploads -> Places] /\ job'[i] = "running"
      /\ \A j \in Uploads : j # i => job'[j] = job[j]
  BY JobGoes DEF TypeInv, SaveTask, Places, Unfinished
<1>2. /\ task[i] \in Tasks /\ TaskIsRight(i) /\ job[i] = "queried"
      /\ rows \in Seq(TaskRow) /\ reports \in Seq(Coverages) /\ Len(rows) = Len(reports)
      /\ Len(rows) \in Nat /\ DOMAIN rows = 1..Len(rows)
  BY DEF TypeInv, ServerTypes, SaveTask, At
<1>3. /\ task[i].id \in 0..Len(rows) /\ task[i].key <= Len(uploads)
      /\ task[i].status # "none"
  BY <1>2 DEF TaskIsRight, Unfinished
<1>4. row \in TaskRow /\ row.key <= Len(uploads)
  BY <1>2, <1>3 DEF Row, Tasks, TaskRow
<1>5. UNCHANGED <<uploads, input, view>>
  BY DEF SaveTask
<1> HIDE DEF row
<1>6. /\ rows' \in Seq(TaskRow) /\ \A r \in DOMAIN rows' : rows'[r].key <= Len(uploads')
      /\ Len(rows) <= Len(rows') /\ Len(rows') \in Nat
  <2>1. \/ rows' = Append(rows, row)
        \/ \E r \in DOMAIN rows : rows' = [rows EXCEPT ![r] = row]
    BY <1>2, <1>3 DEF SaveTask, row
  <2> QED
    BY <1>4, <1>5, <2>1, RowsStayRight
<1>7. /\ reports' \in Seq(Coverages) /\ Len(rows') = Len(reports')
      /\ \E id \in 1..Len(rows') : task' = [task EXCEPT ![i] = [task[i] EXCEPT !.id = id]]
  <2>1. CASE task[i].id = 0
    <3>1. /\ rows' = Append(rows, row) /\ reports' = Append(reports, Nothing)
          /\ task' = [task EXCEPT ![i].id = Len(rows) + 1]
      BY <2>1 DEF SaveTask, row
    <3>2. /\ reports' \in Seq(Coverages) /\ Len(rows') = Len(rows) + 1
          /\ Len(reports') = Len(reports) + 1
      BY <1>2, <3>1, NothingIsCoverage
    <3>3. task' = [task EXCEPT ![i] = [task[i] EXCEPT !.id = Len(rows) + 1]]
      BY <3>1
    <3>4. Len(rows) + 1 \in 1..Len(rows')
      BY <1>2, <3>2
    <3> QED
      BY <1>2, <3>2, <3>3, <3>4
  <2>2. CASE task[i].id # 0
    <3>1. /\ rows' = [rows EXCEPT ![task[i].id] = row] /\ reports' = reports /\ task' = task
      BY <2>2 DEF SaveTask, row
    <3>2. Len(rows') = Len(rows) /\ task[i].id \in 1..Len(rows)
      BY <1>2, <1>3, <2>2, <3>1
    <3>3. task = [task EXCEPT ![i] = [task[i] EXCEPT !.id = task[i].id]]
      BY <1>2 DEF Tasks, TypeInv, ServerTypes
    <3> QED
      BY <1>2, <3>1, <3>2, <3>3
  <2> QED
    BY <2>1, <2>2
<1>8. PICK id \in 1..Len(rows') : task' = [task EXCEPT ![i] = [task[i] EXCEPT !.id = id]]
  BY <1>7
<1>9. /\ task' \in [Uploads -> Tasks] /\ task'[i].id = id
      /\ task'[i].key = task[i].key /\ task'[i].status = task[i].status
      /\ \A j \in Uploads : j # i => task'[j] = task[j]
  <2>1. [task[i] EXCEPT !.id = id] \in Tasks
    BY <1>2 DEF Tasks
  <2> QED
    BY <1>2, <1>8, <2>1 DEF TypeInv, ServerTypes, Tasks
<1>10. TaskIsRight(i)'
  BY <1>1, <1>2, <1>3, <1>5, <1>6, <1>9 DEF TaskIsRight
<1>11. \A j \in Uploads : j # i => TaskIsRight(j)'
  BY <1>1, <1>5, <1>6, <1>9, OtherTasks
<1> QED
  BY <1>1, <1>5, <1>6, <1>7, <1>9, <1>10, <1>11 DEF TypeInv, ServerTypes

(* What is merged into a report is a coverage.                             *)
LEMMA MergedIsCoverage ==
    ASSUME TypeInv, NEW i \in Uploads
    PROVE  Merged(i) \in Coverages
BY OverrideIsCoverage DEF Merged, TypeInv, ServerTypes

(* An upload goes on, and writes no more than its report and its row.      *)
LEMMA WorkKeepsTypes ==
    ASSUME TypeInv, NEW i \in Uploads,
           OpenReport(i) \/ SkipUpload(i) \/ FlushReport(i) \/ SaveProcessed(i)
           \/ UploadFails(i)
    PROVE  ServerTypes'
<1> DEFINE id == task[i].id
<1>1. /\ task[i] \in Tasks /\ TaskIsRight(i)
      /\ rows \in Seq(TaskRow) /\ reports \in Seq(Coverages) /\ Len(rows) = Len(reports)
      /\ Len(rows) \in Nat /\ DOMAIN rows = 1..Len(rows) /\ DOMAIN reports = DOMAIN rows
  BY DEF TypeInv, ServerTypes
<1>2. job[i] \in {"running", "writing", "flushed"} => id \in DOMAIN rows
  BY <1>1 DEF TaskIsRight, Unfinished
<1>3. /\ job' \in [Uploads -> Places] /\ \A j \in Uploads : j # i => job'[j] = job[j]
      /\ job[i] # "none" /\ job'[i] # "none"
      /\ job'[i] \in {"running", "writing", "flushed"} => job[i] \in {"running", "writing"}
      /\ job'[i] \in Unfinished => job'[i] \in {"running", "writing", "flushed"}
  BY JobGoes DEF TypeInv, OpenReport, SkipUpload, FlushReport, SaveProcessed, UploadFails, At,
                 Places, Unfinished
<1>4. UNCHANGED <<uploads, task>>
  BY DEF OpenReport, SkipUpload, FlushReport, SaveProcessed, UploadFails
<1>5. reports' \in Seq(Coverages) /\ Len(reports') = Len(reports)
  <2>1. CASE UNCHANGED reports
    BY <1>1, <2>1
  <2>2. CASE reports' = [reports EXCEPT ![id] = Merged(i)] /\ At(i, "writing")
    BY <1>1, <1>2, <2>2, MergedIsCoverage DEF At
  <2> QED
    BY <2>1, <2>2 DEF OpenReport, SkipUpload, FlushReport, SaveProcessed, UploadFails
<1>6. /\ rows' \in Seq(TaskRow) /\ \A r \in DOMAIN rows' : rows'[r].key <= Len(uploads')
      /\ Len(rows') = Len(rows)
  <2>1. CASE UNCHANGED rows
    BY <1>4, <2>1 DEF TypeInv, ServerTypes
  <2>2. CASE SaveProcessed(i) /\ ~UNCHANGED rows
    <3> DEFINE row == [status |-> "processed", key |-> Key(i)]
    <3>1. row \in TaskRow /\ row.key <= Len(uploads)
      BY <1>3, KeyIsUpload DEF TaskRow
    <3> HIDE DEF row
    <3>2. rows' = [rows EXCEPT ![id] = row] /\ id \in DOMAIN rows
      BY <1>2, <2>2 DEF SaveProcessed, At, row
    <3>3. Len(rows') = Len(rows)
      BY <1>1, <3>1, <3>2
    <3> QED
      BY <1>4, <3>1, <3>2, <3>3, RowsStayRight
  <2> QED
    BY <2>1, <2>2 DEF OpenReport, SkipUpload, FlushReport, UploadFails
<1>7. input' \in [Uploads -> Coverages] /\ view' \in [Uploads -> Coverages]
  <2>1. CASE UNCHANGED <<input, view>>
    BY <2>1 DEF TypeInv, ServerTypes
  <2>2. CASE OpenReport(i)
    <3>1. reports[id] \in Coverages
      BY <1>1, <1>2, <2>2 DEF OpenReport, At
    <3>2. (IF uploads[i].incr THEN uploads[i].data ELSE normal[task[i].key]) \in Coverages
      <4>1. i \in DOMAIN uploads
        BY <1>3, KeyIsUpload
      <4>2. uploads[i] \in Requests
        BY <4>1 DEF TypeInv, UploadTypes
      <4>3. CASE uploads[i].incr
        BY <4>2, <4>3 DEF Requests
      <4>4. CASE ~uploads[i].incr
        <5>1. task[i].key \in Nat /\ task[i].key # 0 /\ task[i].key <= Len(uploads)
          BY <1>1, <2>2, <4>4 DEF OpenReport, At, TaskIsRight, Tasks, Unfinished
        <5>2. task[i].key \in Uploads
          BY <5>1, UploadAssumption DEF UploadAssumption, Uploads, TypeInv, UploadTypes
        <5> QED
          BY <4>4, <5>2 DEF TypeInv, UploadTypes
      <4> QED
        BY <4>3, <4>4
    <3> QED
      BY <2>2, <3>1, <3>2 DEF OpenReport, TypeInv, ServerTypes
  <2> QED
    BY <2>1, <2>2 DEF SkipUpload, FlushReport, SaveProcessed, UploadFails
<1>8. TaskIsRight(i)'
  BY <1>1, <1>2, <1>3, <1>4, <1>6 DEF TaskIsRight, Unfinished
<1>9. \A j \in Uploads : j # i => TaskIsRight(j)'
  BY <1>1, <1>3, <1>4, <1>6, OtherTasks
<1>10. task' \in [Uploads -> Tasks]
  BY <1>4 DEF TypeInv, ServerTypes
<1> QED
  BY <1>1, <1>3, <1>4, <1>5, <1>6, <1>7, <1>8, <1>9, <1>10 DEF ServerTypes

(* The crash ends every upload where it is.                                *)
LEMMA CrashKeepsTypes ==
    ASSUME TypeInv, ServerCrash
    PROVE  ServerTypes'
<1>1. UNCHANGED <<uploads, rows, reports, task, input, view>>
  BY DEF ServerCrash
<1>2. \A i \in Uploads : job'[i] = job[i] \/ (job'[i] = "failed" /\ job[i] \in Unfinished)
  BY DEF ServerCrash, Busy
<1>3. job' \in [Uploads -> Places]
  BY DEF ServerCrash, TypeInv, ServerTypes, Places
<1>4. \A i \in Uploads : TaskIsRight(i)'
  BY <1>1, <1>2 DEF TypeInv, ServerTypes, TaskIsRight, Unfinished
<1> QED
  BY <1>1, <1>3, <1>4 DEF TypeInv, ServerTypes

(* Every step keeps the types.                                             *)
LEMMA StepKeepsTypes == TypeInv /\ [Next]_vars => TypeInv'
<1> SUFFICES ASSUME TypeInv, [Next]_vars PROVE TypeInv'
  OBVIOUS
<1>1. CASE UNCHANGED vars
  BY <1>1, PartsStay DEF vars, TypeInv
<1>2. CASE (\E f \in Files : Cover(f)) \/ Restart \/ Collect \/ PutNormal \/ Call \/ SendFails
  BY <1>2, AgentKeepsTypes
<1>3. ASSUME NEW i \in Uploads, Progress(i) \/ UploadFails(i) PROVE TypeInv'
  <2>1. UNCHANGED <<hits, session, agent, uploads, normal>>
    BY <1>3 DEF Progress, QueryTask, SaveTask, OpenReport, SkipUpload, FlushReport,
                SaveProcessed, UploadFails
  <2>2. ServerTypes'
    BY <1>3, QueryKeepsTypes, SaveKeepsTypes, WorkKeepsTypes DEF Progress
  <2> QED
    BY <2>1, <2>2, PartsStay DEF TypeInv
<1>4. CASE ServerCrash
  <2>1. UNCHANGED <<hits, session, agent, uploads, normal>>
    BY <1>4 DEF ServerCrash
  <2> QED
    BY <1>4, <2>1, CrashKeepsTypes, PartsStay DEF TypeInv
<1> QED
  BY <1>1, <1>2, <1>3, <1>4 DEF Next

(* The types hold throughout.                                              *)
LEMMA TypesHold == Spec => []TypeInv
BY InitTypes, StepKeepsTypes, PTL DEF Spec

(* A coverage, as the type invariant of the module says it.                *)
LEMMA CoverageIs == ASSUME NEW d \in Coverages PROVE IsCoverage(d)
BY DEF Coverages, IsCoverage

(* TypeOK: also that a row has a report and a saved task its row, whatever *)
(* uploads run at a time.                                                  *)
THEOREM UploadsAreTyped == Spec => []TypeOK
<1>1. TypeInv => TypeOK
  <2> SUFFICES ASSUME TypeInv PROVE TypeOK
    OBVIOUS
  <2> USE DEF TypeInv
  <2>1. /\ hits \in [Files -> Levels] /\ session \in 1..MaxSessions
        /\ cache.session \in 0..session /\ cache.hits \in [Files -> Levels]
        /\ apc \in {"idle", "put", "call"}
    BY DEF AgentTypes
  <2>2. sending.incr \in BOOLEAN /\ IsCoverage(sending.data)
    BY CoverageIs DEF AgentTypes, Requests
  <2>3. \A i \in DOMAIN uploads : uploads[i].incr \in BOOLEAN /\ IsCoverage(uploads[i].data)
    <3>1. \A i \in DOMAIN uploads : uploads[i] \in Requests
      BY DEF UploadTypes
    <3> QED
      BY <3>1, CoverageIs DEF Requests
  <2>4. \A i \in Uploads : IsCoverage(normal[i]) /\ IsCoverage(input[i]) /\ IsCoverage(view[i])
    BY CoverageIs DEF UploadTypes, ServerTypes
  <2>5. DOMAIN rows = DOMAIN reports
    BY DEF ServerTypes
  <2>6. \A r \in DOMAIN rows : /\ rows[r].status \in {"pending", "processed"}
                               /\ rows[r].key \in 0..Len(uploads)
                               /\ IsCoverage(reports[r])
    <3>1. \A r \in DOMAIN rows : rows[r] \in TaskRow /\ rows[r].key <= Len(uploads)
      BY DEF ServerTypes
    <3>2. \A r \in DOMAIN rows : reports[r] \in Coverages
      BY DEF ServerTypes
    <3>3. Len(uploads) \in Nat
      BY DEF UploadTypes
    <3> QED
      BY <3>1, <3>2, <3>3, CoverageIs DEF TaskRow
  <2>7. \A i \in Uploads :
           /\ job[i] \in Unfinished \cup {"none", "done", "skipped", "failed"}
           /\ job[i] = "none" <=> i > Len(uploads)
           /\ job[i] \in {"running", "writing", "flushed"} => task[i].id \in DOMAIN rows
    BY DEF ServerTypes, TaskIsRight, Places, Unfinished
  <2> QED
    BY <2>1, <2>2, <2>3, <2>4, <2>5, <2>6, <2>7 DEF TypeOK, UploadTypes
<1> QED
  BY <1>1, TypesHold, PTL

-----------------------------------------------------------------------------
(* A row, and every copy of one, that is processed names an upload that is *)
(* done.  The copies matter: they are written back.                        *)
ProcessedInv ==
    /\ ProcessedIsFlushed
    /\ \A i \in Uploads : task[i].status = "processed" /\ task[i].key # 0 =>
          job[task[i].key] = "done"

(* Whoever is done stays so.                                               *)
LEMMA DoneStays ==
    ASSUME TypeInv, [Next]_vars, NEW i \in Uploads, job[i] = "done"
    PROVE  job'[i] = "done"
<1>1. CASE UNCHANGED job
  BY <1>1
<1>2. CASE Call
  <2>1. i # Len(uploads) + 1
    <3>1. TaskIsRight(i) /\ i \in Nat /\ Len(uploads) \in Nat
      BY UploadAssumption DEF UploadAssumption, TypeInv, ServerTypes, UploadTypes, Uploads
    <3> QED
      BY <3>1 DEF TaskIsRight
  <2> QED
    BY <1>2, <2>1 DEF Call
<1>3. ASSUME NEW j \in Uploads, Progress(j) \/ UploadFails(j) PROVE job'[i] = "done"
  <2>1. job[j] \in Unfinished
    BY <1>3 DEF Progress, QueryTask, SaveTask, OpenReport, SkipUpload, FlushReport,
                SaveProcessed, UploadFails, At, Unfinished
  <2>2. i # j
    BY <2>1 DEF Unfinished
  <2> QED
    BY <1>3, <2>2 DEF Progress, QueryTask, SaveTask, OpenReport, SkipUpload, FlushReport,
                      SaveProcessed, UploadFails, Goes, TypeInv, ServerTypes
<1>4. CASE ServerCrash
  BY <1>4 DEF ServerCrash, Busy, Unfinished
<1>5. CASE UNCHANGED vars \/ (\E f \in Files : Cover(f)) \/ Restart \/ Collect \/ PutNormal
           \/ SendFails
  <2>1. UNCHANGED job
    BY <1>5 DEF vars, server, Cover, Restart, Collect, PutNormal, SendFails
  <2> QED
    BY <1>1, <2>1
<1> QED
  BY <1>2, <1>3, <1>4, <1>5 DEF Next

(* What a step may write to the table: a copy of a row, or that an upload  *)
(* is done; and to the copies: a row, or that the task is new.             *)
LEMMA TaskSteps ==
    ASSUME TypeInv, [Next]_vars
    PROVE  /\ \A r \in DOMAIN rows' :
                 \/ r \in DOMAIN rows /\ rows'[r] = rows[r]
                 \/ \E i \in Uploads : rows'[r] = Row(task[i])
                 \/ \E i \in Uploads : rows'[r].key \in {0, i} /\ job'[i] = "done"
           /\ \A i \in Uploads :
                 \/ task'[i].key = task[i].key /\ task'[i].status = task[i].status
                 \/ \E r \in DOMAIN rows : task'[i].key = rows[r].key
                                           /\ task'[i].status = rows[r].status
                 \/ task'[i].status = "pending"
<1> DEFINE RowsGoal ==
              \A r \in DOMAIN rows' :
                 \/ r \in DOMAIN rows /\ rows'[r] = rows[r]
                 \/ \E i \in Uploads : rows'[r] = Row(task[i])
                 \/ \E i \in Uploads : rows'[r].key \in {0, i} /\ job'[i] = "done"
           TasksGoal ==
              \A i \in Uploads :
                 \/ task'[i].key = task[i].key /\ task'[i].status = task[i].status
                 \/ \E r \in DOMAIN rows : task'[i].key = rows[r].key
                                           /\ task'[i].status = rows[r].status
                 \/ task'[i].status = "pending"
<1> USE DEF TypeInv, ServerTypes
<1>1. UNCHANGED rows => RowsGoal
  OBVIOUS
<1>2. UNCHANGED task => TasksGoal
  OBVIOUS
<1>3. ASSUME NEW i \in Uploads, QueryTask(i) PROVE RowsGoal /\ TasksGoal
  <2>1. CASE rows = <<>>
    <3>1. task' = [task EXCEPT ![i] = [id |-> 0, status |-> "pending", key |-> Key(i)]]
      BY <1>3, <2>1 DEF QueryTask
    <3>2. TasksGoal
      BY <3>1
    <3> QED
      BY <1>1, <1>3, <3>2 DEF QueryTask
  <2>2. CASE rows # <<>>
    <3>1. task' = [task EXCEPT ![i] = [id |-> 1, status |-> rows[1].status, key |-> rows[1].key]]
      BY <1>3, <2>2 DEF QueryTask
    <3>2. 1 \in DOMAIN rows
      BY <2>2
    <3>3. task'[i].status = rows[1].status /\ task'[i].key = rows[1].key
      BY <3>1
    <3>4. TasksGoal
      BY <3>1, <3>2, <3>3
    <3> QED
      BY <1>1, <1>3, <3>4 DEF QueryTask
  <2> QED
    BY <2>1, <2>2
<1>4. ASSUME NEW i \in Uploads, SaveTask(i) PROVE RowsGoal /\ TasksGoal
  <2>1. TasksGoal
    <3>1. CASE UNCHANGED task
      BY <1>2, <3>1
    <3>2. CASE task' = [task EXCEPT ![i].id = Len(rows) + 1]
      <4>1. task[i] \in Tasks
        OBVIOUS
      <4>2. task'[i].key = task[i].key /\ task'[i].status = task[i].status
        BY <3>2, <4>1 DEF Tasks
      <4>3. \A j \in Uploads : j # i => task'[j] = task[j]
        BY <3>2
      <4> QED
        BY <4>2, <4>3
    <3> QED
      BY <1>4, <3>1, <3>2 DEF SaveTask
  <2>2. Row(task[i]) \in TaskRow
    BY <1>4 DEF SaveTask, At, TaskIsRight, Unfinished, Row, TaskRow, Tasks
  <2> DEFINE row == Row(task[i])
  <2>3. rows' = Append(rows, row) \/ rows' = [rows EXCEPT ![task[i].id] = row]
    BY <1>4 DEF SaveTask
  <2>4. row \in TaskRow
    BY <2>2
  <2> HIDE DEF row
  <2>5. \A r \in DOMAIN rows' : rows'[r] = row \/ (r \in DOMAIN rows /\ rows'[r] = rows[r])
    <3>1. CASE rows' = Append(rows, row)
      BY <2>4, <3>1
    <3>2. CASE rows' = [rows EXCEPT ![task[i].id] = row]
      BY <3>2
    <3> QED
      BY <2>3, <3>1, <3>2
  <2> QED
    BY <2>1, <2>5 DEF row
<1>5. ASSUME NEW i \in Uploads, SaveProcessed(i) PROVE RowsGoal /\ TasksGoal
  <2>1. job'[i] = "done" /\ Key(i) \in {0, i}
    BY <1>5 DEF SaveProcessed, Goes, Key
  <2>2. CASE UNCHANGED rows
    BY <1>1, <1>2, <1>5, <2>2 DEF SaveProcessed
  <2>3. CASE rows' = [rows EXCEPT ![task[i].id] = [status |-> "processed", key |-> Key(i)]]
    <3>1. \A r \in DOMAIN rows' : \/ r \in DOMAIN rows /\ rows'[r] = rows[r]
                                  \/ rows'[r].key \in {0, i}
      BY <2>1, <2>3
    <3> QED
      BY <1>2, <1>5, <2>1, <3>1 DEF SaveProcessed
  <2> QED
    BY <1>5, <2>2, <2>3 DEF SaveProcessed
<1>6. ASSUME NEW i \in Uploads, OpenReport(i) \/ SkipUpload(i) \/ FlushReport(i) \/ UploadFails(i)
      PROVE  RowsGoal /\ TasksGoal
  BY <1>1, <1>2, <1>6 DEF OpenReport, SkipUpload, FlushReport, UploadFails
<1>7. CASE UNCHANGED vars \/ (\E f \in Files : Cover(f)) \/ Restart \/ Collect \/ PutNormal
           \/ Call \/ SendFails \/ ServerCrash
  <2>1. UNCHANGED <<rows, task>>
    BY <1>7 DEF vars, server, Cover, Restart, Collect, PutNormal, Call, SendFails, ServerCrash
  <2> QED
    BY <1>1, <1>2, <2>1
<1> QED
  BY <1>3, <1>4, <1>5, <1>6, <1>7 DEF Next, Progress

(* Rows and copies are written from each other, so that both stay right.   *)
LEMMA StepKeepsProcessed ==
    ASSUME TypeInv, ProcessedInv, [Next]_vars
    PROVE  ProcessedInv'
<1>1. TypeInv'
  BY StepKeepsTypes
<1>2. \A r \in DOMAIN rows : /\ rows[r].key # 0 => rows[r].key \in Uploads
                             /\ rows[r].status = "processed" /\ rows[r].key # 0 =>
                                   job'[rows[r].key] = "done"
  <2> TAKE r \in DOMAIN rows
  <2>1. rows[r] \in TaskRow /\ rows[r].key <= Len(uploads) /\ Len(uploads) <= MaxUploads
    BY DEF TypeInv, ServerTypes, UploadTypes
  <2>2. rows[r].key # 0 => rows[r].key \in Uploads
    BY <2>1, UploadAssumption DEF UploadAssumption, TaskRow, Uploads, TypeInv, UploadTypes
  <2> QED
    BY <2>2, DoneStays DEF ProcessedInv, ProcessedIsFlushed
<1>3. \A i \in Uploads : task[i].status = "processed" /\ task[i].key # 0 =>
         job'[task[i].key] = "done"
  <2> SUFFICES ASSUME NEW i \in Uploads, task[i].status = "processed", task[i].key # 0
               PROVE  job'[task[i].key] = "done"
    OBVIOUS
  <2>1. job[task[i].key] = "done"
    BY DEF ProcessedInv
  <2>2. task[i].key \in Uploads
    <3>1. task[i].key \in Nat
      BY DEF TypeInv, ServerTypes, Tasks
    <3>2. task[i].key <= Len(uploads) /\ Len(uploads) <= MaxUploads /\ Len(uploads) \in Nat
      BY DEF TypeInv, ServerTypes, UploadTypes, TaskIsRight
    <3> QED
      BY <3>1, <3>2, UploadAssumption DEF UploadAssumption, Uploads
  <2> QED
    BY <2>1, <2>2, DoneStays
<1>4. \A r \in DOMAIN rows' : rows'[r].status = "processed" /\ rows'[r].key # 0 =>
         job'[rows'[r].key] = "done"
  <2> TAKE r \in DOMAIN rows'
  <2>1. CASE r \in DOMAIN rows /\ rows'[r] = rows[r]
    BY <1>2, <2>1
  <2>2. ASSUME NEW i \in Uploads, rows'[r] = Row(task[i])
        PROVE  rows'[r].status = "processed" /\ rows'[r].key # 0 =>
                  job'[rows'[r].key] = "done"
    <3>1. rows'[r].status = task[i].status /\ rows'[r].key = task[i].key
      BY <2>2 DEF Row
    <3> QED
      BY <1>3, <3>1
  <2>3. ASSUME NEW i \in Uploads, rows'[r].key \in {0, i}, job'[i] = "done"
        PROVE  rows'[r].key # 0 => job'[rows'[r].key] = "done"
    BY <2>3
  <2> QED
    BY <2>1, <2>2, <2>3, TaskSteps
<1>5. \A i \in Uploads : task'[i].status = "processed" /\ task'[i].key # 0 =>
         job'[task'[i].key] = "done"
  <2> TAKE i \in Uploads
  <2>1. CASE task'[i].key = task[i].key /\ task'[i].status = task[i].status
    BY <1>3, <2>1
  <2>2. ASSUME NEW r \in DOMAIN rows, task'[i].key = rows[r].key, task'[i].status = rows[r].status
        PROVE  task'[i].status = "processed" /\ task'[i].key # 0 => job'[task'[i].key] = "done"
    BY <1>2, <2>2
  <2>3. CASE task'[i].status = "pending"
    BY <2>3
  <2> QED
    BY <2>1, <2>2, <2>3, TaskSteps
<1> QED
  BY <1>4, <1>5 DEF ProcessedInv, ProcessedIsFlushed

(* ProcessedIsFlushed: a row that says it is processed, and from which     *)
(* object, says so because that upload flushed the report; no stale copy   *)
(* of the row, failure or crash makes it say so of another.                *)
THEOREM ProcessedRowsAreFlushed == Spec => []ProcessedIsFlushed
<1>1. Init => ProcessedInv
  <2> SUFFICES ASSUME Init PROVE ProcessedInv
    OBVIOUS
  <2>1. DOMAIN rows = {} /\ \A i \in Uploads : task[i].key = 0
    BY DEF Init, NoTask
  <2> QED
    BY <2>1 DEF ProcessedInv, ProcessedIsFlushed
<1>2. TypeInv /\ ProcessedInv /\ [Next]_vars => ProcessedInv'
  BY StepKeepsProcessed
<1>3. ProcessedInv => ProcessedIsFlushed
  BY DEF ProcessedInv
<1> QED
  BY <1>1, <1>2, <1>3, TypesHold, PTL DEF Spec

-----------------------------------------------------------------------------
(* Without an overlap there is one upload in work at most, and a new task  *)
(* only before the first row.                                              *)
Alone ==
    /\ \A i, j \in Busy : i = j
    /\ Len(rows) <= 1
    /\ \A i \in Uploads : job[i] = "queried" /\ task[i].id = 0 => rows = <<>>

AloneInv == "overlap" \notin faults => Alone

(* History is kept.                                                        *)
LEMMA FaultsStay == [Next]_vars => faults \subseteq faults'
<1> SUFFICES ASSUME [Next]_vars PROVE faults \subseteq faults'
  OBVIOUS
<1>1. CASE UNCHANGED vars
  BY <1>1 DEF vars
<1>2. CASE (\E f \in Files : Cover(f)) \/ Restart \/ Collect \/ PutNormal \/ Call \/ SendFails
           \/ ServerCrash
  BY <1>2 DEF Cover, Restart, Collect, PutNormal, Call, SendFails, ServerCrash
<1>3. ASSUME NEW i \in Uploads, Progress(i) \/ UploadFails(i) PROVE faults \subseteq faults'
  BY <1>3 DEF Progress, QueryTask, SaveTask, OpenReport, SkipUpload, FlushReport,
              SaveProcessed, UploadFails
<1> QED
  BY <1>1, <1>2, <1>3 DEF Next

(* An upload in work stays the only one.                                   *)
LEMMA StillAlone ==
    ASSUME TypeInv, Alone, NEW i \in Uploads, Progress(i) \/ UploadFails(i)
    PROVE  Alone'
<1>1. /\ job[i] \in Unfinished /\ \A j \in Uploads : j # i => job'[j] = job[j]
      /\ UNCHANGED uploads
  BY <1>1 DEF Progress, QueryTask, SaveTask, OpenReport, SkipUpload, FlushReport,
          SaveProcessed, UploadFails, At, Goes, Unfinished, TypeInv, ServerTypes
<1>2. Busy = {i}
  BY <1>1 DEF Busy, Alone
<1>3. Busy' \subseteq {i}
  BY <1>1, <1>2 DEF Busy
<1>4. /\ rows \in Seq(TaskRow) /\ Len(rows) \in Nat /\ (Len(rows) = 0 <=> rows = <<>>)
      /\ TaskIsRight(i) /\ Len(rows) <= 1
  BY DEF TypeInv, ServerTypes, Alone
<1>5. \A j \in Uploads : job'[j] = "queried" => j = i
  BY <1>3 DEF Busy, Unfinished
<1>6. CASE QueryTask(i)
  <2>1. task'[i].id = 0 => rows = <<>>
    BY <1>6 DEF QueryTask, TypeInv, ServerTypes
  <2> QED
    BY <1>3, <1>4, <1>5, <1>6, <2>1 DEF QueryTask, Alone
<1>7. CASE SaveTask(i)
  <2>1. job'[i] = "running"
    BY <1>7 DEF SaveTask, Goes, TypeInv, ServerTypes
  <2>2. Len(rows') <= 1
    <3>1. CASE task[i].id = 0
      <4>1. rows = <<>> /\ rows' = Append(rows, Row(task[i]))
        BY <1>7, <3>1 DEF SaveTask, At, Alone
      <4> QED
        BY <1>4, <4>1
    <3>2. CASE task[i].id # 0
      <4>1. rows' = [rows EXCEPT ![task[i].id] = Row(task[i])]
        BY <1>7, <3>2 DEF SaveTask
      <4>2. Len(rows') = Len(rows)
        BY <1>4, <4>1
      <4> QED
        BY <1>4, <4>2
    <3> QED
      BY <3>1, <3>2
  <2> QED
    BY <1>3, <1>5, <2>1, <2>2 DEF Alone
<1>8. CASE OpenReport(i) \/ SkipUpload(i) \/ FlushReport(i) \/ SaveProcessed(i) \/ UploadFails(i)
  <2>1. job'[i] # "queried"
    BY <1>8 DEF OpenReport, SkipUpload, FlushReport, SaveProcessed, UploadFails, Goes,
                TypeInv, ServerTypes
  <2>2. Len(rows') = Len(rows)
    BY <1>4, <1>8 DEF OpenReport, SkipUpload, FlushReport, SaveProcessed, UploadFails
  <2> QED
    BY <1>3, <1>4, <1>5, <2>1, <2>2 DEF Alone
<1> QED
  BY <1>6, <1>7, <1>8 DEF Progress

(* One upload in work at a time: the next begins when none is left.        *)
LEMMA StepKeepsAlone == TypeInv /\ AloneInv /\ [Next]_vars => AloneInv'
<1> SUFFICES ASSUME TypeInv, [Next]_vars, "overlap" \notin faults', Alone PROVE Alone'
  BY FaultsStay DEF AloneInv
<1>1. CASE UNCHANGED <<job, rows, task>>
  BY <1>1 DEF Alone, Busy
<1>2. CASE UNCHANGED vars \/ (\E f \in Files : Cover(f)) \/ Restart \/ Collect \/ PutNormal
           \/ SendFails
  <2>1. UNCHANGED <<job, rows, task>>
    BY <1>2 DEF vars, server, Cover, Restart, Collect, PutNormal, SendFails
  <2> QED
    BY <1>1, <2>1
<1>3. CASE Call
  <2>1. Busy = {}
    BY <1>3 DEF Call
  <2>2. Busy' \subseteq {Len(uploads) + 1}
    BY <1>3, <2>1 DEF Call, Busy
  <2>3. \A i \in Uploads : job'[i] # "queried"
    BY <1>3, <2>1 DEF Call, Busy, Unfinished, TypeInv, ServerTypes
  <2> QED
    BY <1>3, <2>2, <2>3 DEF Call, Alone
<1>4. ASSUME NEW i \in Uploads, Progress(i) \/ UploadFails(i) PROVE Alone'
  BY <1>4, StillAlone
<1>5. CASE ServerCrash
  BY <1>5 DEF ServerCrash, Alone, Busy, Unfinished
<1> QED
  BY <1>2, <1>3, <1>4, <1>5 DEF Next

(* No upload is in work, and there is no row.                              *)
LEMMA InitAlone == Init => AloneInv
BY DEF Init, AloneInv, Alone, Busy, Unfinished

(* OneTask: uploads that come one by one share the one task of the commit, *)
(* though Query and Save do not exclude each other.                        *)
THEOREM OneTaskWithoutOverlap == Spec => []OneTask
<1>1. AloneInv => OneTask
  BY DEF AloneInv, Alone, OneTask
<1> QED
  BY <1>1, InitAlone, StepKeepsAlone, TypesHold, PTL DEF Spec

-----------------------------------------------------------------------------
(* A coverage has a file under one of the names that uploads give it, and  *)
(* has its lines right under one of them.                                  *)
Carries(d, f) == NamesFor(f) \cap DOMAIN d # {}
Right(d, f) == \E n \in NamesFor(f) \cap DOMAIN d : d[n] = cache.hits[f]

(* What upload i brings, and the uploads whose coverage the report lacks.  *)
Brought(i) == IF uploads[i].incr THEN uploads[i].data ELSE normal[i]
Waiting == Busy \ {i \in Uploads : job[i] = "flushed"}

(* The last that was sent of a file is what the agent collected last.      *)
LastIsRight(f) ==
    IF apc # "idle" /\ Carries(sending.data, f) THEN Right(sending.data, f)
    ELSE IF \E i \in Waiting : Carries(Brought(i), f)
         THEN \A i \in Waiting : Right(Brought(i), f)
         ELSE rows # <<>> /\ Right(reports[1], f)

(* The one full upload is the first: it finds no row, and makes one with   *)
(* its own key.                                                            *)
FullIsFirst ==
    /\ apc = "put" => ~sending.incr
    /\ apc # "idle" /\ ~sending.incr => uploads = <<>>
    /\ apc = "call" /\ ~sending.incr => normal[1] = sending.data
    /\ uploads = <<>> => rows = <<>>
    /\ \A i \in DOMAIN uploads : ~uploads[i].incr =>
         /\ i = 1
         /\ job[i] = "arrived" => rows = <<>>
         /\ job[i] \in {"queried", "running"} => task[i].key = i

CacheFollows ==
    /\ session = 1
    /\ cache.session = 0 => cache = NoCache /\ apc = "idle" /\ uploads = <<>>
    /\ \A f \in Files : cache.hits[f] <= hits[f]

Follows ==
    /\ CacheFollows
    /\ FullIsFirst
    /\ cache.session = 1 => \A f \in Files : LastIsRight(f)
    /\ \A i \in Uploads : job[i] = "writing" => input[i] = Brought(i) /\ view[i] = reports[1]

FollowInv == faults = {} => Follows

(* Names in a report: those of a full upload, and those that were sent.    *)
Known(d) ==
    DOMAIN d \subseteq NamesOf(Files) \cup UNION {DOMAIN uploads[i].data : i \in DOMAIN uploads}

NamesAreKnown ==
    /\ apc = "put" => ~sending.incr
    /\ apc # "idle" /\ ~sending.incr => DOMAIN sending.data \subseteq NamesOf(Files)
    /\ \A i \in Uploads : DOMAIN normal[i] \subseteq NamesOf(Files)
    /\ \A i \in Uploads : job[i] = "writing" => Known(input[i]) /\ Known(view[i])
    /\ \A r \in DOMAIN reports : Known(reports[r])

NamesInv == faults = {} => NamesAreKnown

(* What is collected of files is what they have covered, and nothing of    *)
(* another file, unless names clash.                                       *)
LEMMA CollectedIsRight ==
    ASSUME NEW S \in SUBSET Files, ~Clash(S), NEW f \in Files
    PROVE  /\ Carries(Coverage(S), f) <=> f \in S
           /\ f \in S => \E n \in NamesFor(f) \cap DOMAIN Coverage(S) : Coverage(S)[n] = hits[f]
<1> DEFINE Of(n) == CHOOSE g \in S : Name(g, S) = n
<1>1. Coverage(S) = [n \in NamesOf(S) |-> hits[Of(n)]]
  BY DEF Coverage, NamesOf
<1>2. \A g \in S : g # f => Name(g, S) \notin NamesFor(f)
  BY DEF Clash
<1>3. ASSUME f \in S
      PROVE  Name(f, S) \in NamesFor(f) \cap NamesOf(S) /\ Of(Name(f, S)) = f
  <2>1. Name(f, S) \in NamesFor(f) \cap NamesOf(S)
    BY <1>3 DEF NamesFor, NamesOf
  <2>2. \A g \in S : Name(g, S) = Name(f, S) => g = f
    BY <1>2, <2>1
  <2> QED
    BY <1>3, <2>1, <2>2
<1> HIDE DEF Of
<1>4. f \notin S => NamesFor(f) \cap NamesOf(S) = {}
  BY <1>2 DEF NamesOf
<1> QED
  BY <1>1, <1>3, <1>4 DEF Carries

(* Of the names of a file, one is that of a full upload.                   *)
LEMMA FullNameIsOne ==
    ASSUME NEW f \in Files, NEW n \in NamesFor(f) \cap NamesOf(Files)
    PROVE  n = Name(f, Files)
<1>1. PICK S \in SUBSET Files : f \in S /\ n = Name(f, S)
  BY DEF NamesFor
<1>2. PICK g \in Files : n = Name(g, Files)
  BY DEF NamesOf
<1>3. CASE n = <<Base[f]>>
  <2>1. n = <<Base[g]>> /\ \A h \in Files : Dir[h] = Dir[g]
    BY <1>2, <1>3 DEF Name
  <2>2. Base[f] = Base[g] /\ Dir[f] = Dir[g]
    BY <1>3, <2>1
  <2> QED
    BY <1>2, <2>2, UploadAssumption DEF UploadAssumption
<1>4. CASE n = <<Dir[f], Base[f]>>
  <2>1. n = <<Dir[g], Base[g]>>
    BY <1>2, <1>4 DEF Name
  <2>2. Base[f] = Base[g] /\ Dir[f] = Dir[g]
    BY <1>4, <2>1
  <2> QED
    BY <1>2, <2>2, UploadAssumption DEF UploadAssumption
<1> QED
  BY <1>1, <1>3, <1>4 DEF Name

(* A coverage that is right of every file, with no names but those of full *)
(* uploads, is all that the report shows.                                  *)
LEMMA RightIsShown ==
    ASSUME TypeInv, rows # <<>>, \A f \in Files : Right(reports[1], f),
           DOMAIN reports[1] \subseteq NamesOf(Files)
    PROVE  Shown(cache.hits)
<1> DEFINE Of(n) == CHOOSE g \in Files : Name(g, Files) = n
<1>1. 1 \in DOMAIN reports /\ reports[1] \in Coverages
  BY DEF TypeInv, ServerTypes
<1>2. PICK N \in SUBSET AllNames : reports[1] \in [N -> Levels]
  BY <1>1 DEF Coverages
<1>3. ASSUME NEW n \in NamesOf(Files)
      PROVE  n \in N /\ reports[1][n] = cache.hits[Of(n)]
  <2>1. Of(n) \in Files /\ n = Name(Of(n), Files)
    BY DEF NamesOf
  <2> HIDE DEF Of
  <2>2. PICK m \in NamesFor(Of(n)) \cap DOMAIN reports[1] : reports[1][m] = cache.hits[Of(n)]
    BY <2>1 DEF Right
  <2>3. m = n
    BY <2>1, <2>2, FullNameIsOne
  <2> QED
    BY <1>2, <2>2, <2>3
<1> HIDE DEF Of
<1>4. N = NamesOf(Files)
  BY <1>2, <1>3
<1>5. reports[1] = [n \in NamesOf(Files) |-> cache.hits[Of(n)]]
  BY <1>2, <1>3, <1>4
<1> QED
  BY <1>5 DEF Shown, Of

(* The collection of the agent: what it finds unchanged was right before.  *)
LEMMA CollectFollows ==
    ASSUME TypeInv, Alone, Follows, Collect, faults = {}, faults' = {}
    PROVE  Follows'
<1> DEFINE isIncr == cache.session = session
           S == IF isIncr THEN {f \in Files : hits[f] > cache.hits[f]} ELSE Files
<1>1. /\ hits \in [Files -> Levels] /\ cache.hits \in [Files -> Levels]
      /\ cache.session \in 0..session /\ session = 1
      /\ uploads \in Seq(Requests)
  BY DEF TypeInv, AgentTypes, UploadTypes, Follows, CacheFollows
<1>2. /\ apc = "idle" /\ cache' = [session |-> session, hits |-> hits]
      /\ UNCHANGED <<hits, session, uploads, normal, server>>
  BY DEF Collect
<1>3. \/ S = {} /\ UNCHANGED <<apc, sending>>
      \/ /\ S # {} /\ apc' = IF isIncr THEN "call" ELSE "put"
         /\ sending' = [incr |-> isIncr, data |-> Coverage(S)]
         /\ ~Clash(S)
  <2>1. CASE S = {}
    BY <2>1 DEF Collect
  <2>2. CASE S # {}
    <3>1. PICK large \in BOOLEAN :
            /\ sending' = [incr |-> isIncr /\ ~large, data |-> Coverage(S)]
            /\ apc' = IF isIncr /\ ~large THEN "call" ELSE "put"
            /\ faults' = faults \cup {k \in {"large", "clash"} :
                             IF k = "large" THEN isIncr /\ large ELSE Clash(S)}
      BY <2>2 DEF Collect
    <3>2. ~(isIncr /\ large) /\ ~Clash(S)
      <4> HIDE DEF S, isIncr
      <4>1. \A k \in {"large", "clash"} : ~(IF k = "large" THEN isIncr /\ large ELSE Clash(S))
        BY <3>1
      <4> QED
        BY <4>1
    <3>3. (isIncr /\ ~large) = isIncr
      BY <3>2
    <3> HIDE DEF S, isIncr
    <3> QED
      BY <2>2, <3>1, <3>2, <3>3
  <2> QED
    BY <2>1, <2>2
<1>4. ~isIncr => uploads = <<>>
  BY <1>1 DEF Follows, CacheFollows
<1>5. S \in SUBSET Files
  OBVIOUS
<1>6. \A f \in Files : S # {} => (Carries(Coverage(S), f) <=> f \in S)
  BY <1>3, <1>5, CollectedIsRight
<1>7. \A f \in S : \E n \in NamesFor(f) \cap DOMAIN Coverage(S) : Coverage(S)[n] = hits[f]
  BY <1>3, <1>5, CollectedIsRight
<1>8. \A f \in Files \ S : isIncr /\ hits[f] = cache.hits[f]
  <2> SUFFICES ASSUME NEW f \in Files \ S PROVE isIncr /\ hits[f] = cache.hits[f]
    OBVIOUS
  <2>1. isIncr /\ ~(hits[f] > cache.hits[f]) /\ cache.hits[f] <= hits[f]
    BY DEF Follows, CacheFollows
  <2>2. hits[f] \in Nat /\ cache.hits[f] \in Nat
    BY <1>1 DEF Levels
  <2> QED
    BY <2>1, <2>2
<1> HIDE DEF S
<1>9. CacheFollows'
  BY <1>1, <1>2, UploadAssumption DEF UploadAssumption, CacheFollows, Levels
<1>10. FullIsFirst'
  <2>1. UNCHANGED <<uploads, rows, job, task, normal>>
    BY <1>2 DEF server
  <2>2. /\ apc' = "put" => ~sending'.incr
        /\ apc' # "idle" /\ ~sending'.incr => uploads = <<>>
        /\ ~(apc' = "call" /\ ~sending'.incr)
    <3>1. CASE UNCHANGED <<apc, sending>>
      BY <1>2, <3>1
    <3>2. CASE sending' = [incr |-> isIncr, data |-> Coverage(S)]
               /\ apc' = IF isIncr THEN "call" ELSE "put"
      <4> HIDE DEF isIncr
      <4>1. CASE isIncr
        <5>1. sending'.incr
          BY <3>2, <4>1
        <5>2. apc' = "call"
          BY <3>2, <4>1
        <5> QED
          BY <5>1, <5>2
      <4>2. CASE ~isIncr
        <5>1. apc' = "put"
          BY <3>2, <4>2
        <5>2. ~sending'.incr
          BY <3>2, <4>2
        <5> QED
          BY <1>4, <4>2, <5>1, <5>2
      <4> QED
        BY <4>1, <4>2
    <3> QED
      BY <1>3, <3>1, <3>2
  <2> QED
    BY <2>1, <2>2 DEF Follows, FullIsFirst
<1>11. ASSUME NEW f \in Files PROVE LastIsRight(f)'
  <2>1. cache'.hits = hits
    BY <1>2
  <2>2. Waiting' = Waiting /\ (\A i \in Uploads : Brought(i)' = Brought(i)) /\ Waiting \subseteq Uploads
    BY <1>2 DEF Waiting, Busy, Brought, server
  <2>3. UNCHANGED <<rows, reports>>
    BY <1>2 DEF server
  <2>4. CASE f \in S
    <3>1. apc' # "idle" /\ sending'.data = Coverage(S)
      BY <1>3, <2>4
    <3>2. Right(sending.data, f)'
      BY <1>6, <1>7, <2>1, <2>4, <3>1 DEF Right, Carries
    <3> QED
      BY <3>1, <3>2 DEF LastIsRight, Right, Carries
  <2>5. CASE f \notin S
    <3>1. cache.session = 1 /\ cache'.hits[f] = cache.hits[f]
      BY <1>1, <1>8, <2>1, <2>5
    <3>2. LastIsRight(f) /\ apc = "idle"
      BY <1>2, <3>1 DEF Follows
    <3>3. apc' # "idle" => ~Carries(sending'.data, f)
      BY <1>2, <1>3, <1>6, <2>5
    <3>4. IF \E i \in Waiting : Carries(Brought(i), f)
          THEN \A i \in Waiting : Right(Brought(i), f)
          ELSE rows # <<>> /\ Right(reports[1], f)
      BY <3>2 DEF LastIsRight
    <3> QED
      BY <2>2, <2>3, <3>1, <3>3, <3>4 DEF LastIsRight, Right, Carries
  <2> QED
    BY <2>4, <2>5
<1>12. UNCHANGED <<job, input, view, reports, uploads, normal>>
  BY <1>2 DEF server
<1> QED
  BY <1>9, <1>10, <1>11, <1>12 DEF Follows, Brought

(* The upload and the put before it: what was to be sent is what waits.    *)
LEMMA SendFollows ==
    ASSUME TypeInv, Alone, Follows, PutNormal \/ Call, faults' = {}
    PROVE  Follows'
<1>1. /\ uploads \in Seq(Requests) /\ normal \in [Uploads -> Coverages]
      /\ sending \in Requests /\ job \in [Uploads -> Places]
      /\ (Len(uploads) = 0 <=> uploads = <<>>) /\ Len(uploads) \in Nat
      /\ \A i \in Uploads : job[i] = "none" <=> i > Len(uploads)
  BY DEF TypeInv, AgentTypes, UploadTypes, ServerTypes, TaskIsRight
<1>2. apc # "idle" /\ cache.session = 1 /\ UNCHANGED <<cache, session, hits>>
  <2>1. apc # "idle" /\ UNCHANGED <<cache, session, hits>>
    BY DEF PutNormal, Call
  <2>2. cache.session \in 0..1
    BY DEF TypeInv, AgentTypes, Follows, CacheFollows
  <2> QED
    BY <2>1, <2>2 DEF Follows, CacheFollows
<1>3. CacheFollows'
  BY <1>2 DEF Follows, CacheFollows
<1>4. PICK k \in Uploads : k = Len(uploads) + 1
  BY <1>1, UploadAssumption DEF PutNormal, Call, Uploads, UploadAssumption
<1>5. Waiting \subseteq Uploads /\ \A i \in Waiting : i <= Len(uploads)
  BY <1>1 DEF Waiting, Busy, Unfinished, Uploads
<1>6. CASE PutNormal
  <2>1. /\ apc = "put" /\ apc' = "call"
        /\ normal' = [normal EXCEPT ![k] = sending.data]
        /\ UNCHANGED <<hits, session, cache, sending, uploads, server>>
    BY <1>4, <1>6 DEF PutNormal
  <2>2. ~sending.incr /\ uploads = <<>>
    BY <2>1 DEF Follows, FullIsFirst
  <2>3. k = 1
    BY <1>1, <1>4, <2>2
  <2>4. Waiting = {} /\ Waiting' = {}
    BY <1>1, <1>5, <2>1, <2>2 DEF Waiting, Busy, Unfinished, server, Uploads
  <2>5. FullIsFirst'
    BY <1>1, <1>4, <2>1, <2>2, <2>3 DEF Follows, FullIsFirst, server
  <2>6. \A f \in Files : LastIsRight(f)'
    BY <1>2, <2>1, <2>4 DEF Follows, LastIsRight, Right, Carries, server
  <2>7. \A i \in Uploads : job[i] # "writing"
    BY <1>1, <2>2 DEF Uploads
  <2> QED
    BY <1>3, <2>1, <2>5, <2>6, <2>7 DEF Follows, server
<1>7. CASE Call
  <2>1. /\ apc = "call" /\ apc' = "idle"
        /\ uploads' = Append(uploads,
                         IF sending.incr THEN sending ELSE [sending EXCEPT !.data = Nothing])
        /\ job' = [job EXCEPT ![k] = "arrived"]
        /\ UNCHANGED <<normal, rows, reports, task, input, view>>
    BY <1>4, <1>7 DEF Call
  <2>2. Busy = {}
    BY <1>7 DEF Call
  <2>3. Waiting = {} /\ Waiting' = {k}
    BY <1>1, <1>4, <2>1, <2>2 DEF Waiting, Busy, Unfinished
  <2>4. /\ uploads'[k].incr = sending.incr
        /\ sending.incr => uploads'[k].data = sending.data
    BY <1>1, <1>4, <2>1 DEF Requests
  <2>5. Brought(k)' = sending.data
    <3>1. CASE sending.incr
      BY <2>4, <3>1 DEF Brought
    <3>2. CASE ~sending.incr
      <4>1. k = 1 /\ normal[1] = sending.data
        BY <1>1, <1>2, <1>4, <2>1, <3>2 DEF Follows, FullIsFirst
      <4> QED
        BY <2>1, <2>4, <3>2, <4>1 DEF Brought
    <3> QED
      BY <3>1, <3>2
  <2>6. FullIsFirst'
    <3>1. uploads' # <<>>
      BY <1>1, <2>1
    <3>2. ASSUME NEW i \in DOMAIN uploads', ~uploads'[i].incr
          PROVE  /\ i = 1 /\ (job'[i] = "arrived" => rows = <<>>)
                 /\ job'[i] \notin {"queried", "running"}
      <4>1. CASE i = k
        <5>1. uploads = <<>>
          BY <1>2, <2>4, <3>2, <4>1 DEF Follows, FullIsFirst
        <5>2. rows = <<>> /\ k = 1
          BY <1>1, <1>4, <5>1 DEF Follows, FullIsFirst
        <5> QED
          BY <1>1, <1>4, <2>1, <4>1, <5>2
      <4>2. CASE i # k
        <5>1. i \in DOMAIN uploads /\ uploads'[i] = uploads[i] /\ i \in Uploads
          <6>1. DOMAIN uploads' = 1..(Len(uploads) + 1) /\ DOMAIN uploads = 1..Len(uploads)
            BY <1>1, <2>1
          <6>2. i \in 1..Len(uploads) /\ i \in Uploads
            BY <1>1, <1>4, <3>2, <4>2, <6>1, UploadAssumption DEF UploadAssumption, Uploads
          <6> QED
            BY <1>1, <2>1, <6>1, <6>2
        <5>2. job'[i] = job[i] /\ job[i] \notin Unfinished
          BY <1>1, <2>1, <2>2, <4>2, <5>1 DEF Busy
        <5> QED
          BY <3>2, <5>1, <5>2 DEF Follows, FullIsFirst, Unfinished
      <4> QED
        BY <4>1, <4>2
    <3> QED
      BY <2>1, <3>1, <3>2 DEF FullIsFirst
  <2>7. ASSUME NEW f \in Files PROVE LastIsRight(f)'
    <3>1. cache' = cache /\ LastIsRight(f)
      BY <1>2 DEF Follows
    <3>2. IF Carries(sending.data, f) THEN Right(sending.data, f)
          ELSE rows # <<>> /\ Right(reports[1], f)
      BY <1>2, <2>3, <3>1 DEF LastIsRight
    <3>3. Carries(Brought(k)', f) => \A i \in Waiting' : Right(Brought(i), f)'
      BY <2>3, <2>5, <3>1, <3>2 DEF Right, Carries
    <3> QED
      BY <2>1, <2>3, <2>5, <3>1, <3>2, <3>3 DEF LastIsRight, Right, Carries
  <2>8. \A i \in Uploads : job'[i] # "writing"
    BY <1>1, <2>1, <2>2 DEF Busy, Unfinished
  <2> QED
    BY <1>3, <2>6, <2>7, <2>8 DEF Follows
<1> QED
  BY <1>6, <1>7

(* The server's goroutine: the report gets what the upload brought.        *)
LEMMA WorkFollows ==
    ASSUME TypeInv, Alone, Follows, NEW i \in Uploads, Progress(i)
    PROVE  Follows'
<1>1. /\ job \in [Uploads -> Places] /\ task \in [Uploads -> Tasks]
      /\ rows \in Seq(TaskRow) /\ reports \in Seq(Coverages) /\ Len(rows) = Len(reports)
      /\ input \in [Uploads -> Coverages] /\ view \in [Uploads -> Coverages]
      /\ TaskIsRight(i) /\ Len(rows) <= 1
      /\ uploads \in Seq(Requests)
      /\ \A j \in Uploads : job[j] = "none" <=> j > Len(uploads)
  BY DEF TypeInv, ServerTypes, UploadTypes, Alone, TaskIsRight
<1>2. /\ job[i] \in Unfinished /\ \A j \in Uploads : j # i => job'[j] = job[j]
      /\ UNCHANGED <<hits, session, agent, uploads, normal>>
  BY <1>1 DEF Progress, QueryTask, SaveTask, OpenReport, SkipUpload, FlushReport,
          SaveProcessed, At, Goes, Unfinished
<1>3. Busy = {i} /\ i \in DOMAIN uploads
  <2>1. Busy = {i}
    BY <1>2 DEF Busy, Alone
  <2>2. i <= Len(uploads) /\ i >= 1 /\ i \in Nat
    BY <1>1, <1>2 DEF Unfinished, Uploads
  <2> QED
    BY <1>1, <2>1, <2>2
<1>4. Busy' \subseteq {i}
  BY <1>2, <1>3 DEF Busy
<1>5. CacheFollows'
  BY <1>2 DEF Follows, CacheFollows, agent
<1>6. \A j \in Uploads : Brought(j)' = Brought(j)
  BY <1>2 DEF Brought
<1>7. \A j \in Uploads : job'[j] \in {"arrived", "queried", "running", "writing"} => j = i
  BY <1>4 DEF Busy, Unfinished
<1>8. uploads # <<>>
  BY <1>1, <1>3
<1>9. /\ apc = "put" => ~sending.incr
      /\ apc # "idle" => sending.incr
      /\ \A j \in DOMAIN uploads : ~uploads[j].incr => j = 1
  BY <1>8 DEF Follows, FullIsFirst
<1>10. ASSUME ~uploads[i].incr =>
                /\ job'[i] # "arrived"
                /\ job'[i] \in {"queried", "running"} => task'[i].key = i
       PROVE  FullIsFirst'
  <2>1. \A j \in DOMAIN uploads : j \in Uploads
    BY <1>1, UploadAssumption DEF UploadAssumption, Uploads, TypeInv, UploadTypes
  <2> QED
    BY <1>2, <1>7, <1>8, <1>9, <1>10, <2>1 DEF FullIsFirst, agent
<1>11. ~uploads[i].incr => i = 1 /\ Key(i) = i
  BY <1>3, <1>9 DEF Key
<1>12. ASSUME Waiting' = Waiting, rows # <<>> => rows' # <<>> /\ reports' = reports
       PROVE  cache'.session = 1 => \A f \in Files : LastIsRight(f)'
  BY <1>2, <1>6, <1>12 DEF Follows, LastIsRight, Right, Carries, Waiting, Busy, agent
<1>13. CASE QueryTask(i)
  <2>1. /\ job'[i] = "queried" /\ job[i] = "arrived" /\ UNCHANGED <<rows, reports, input, view>>
        /\ rows = <<>> => task'[i].key = Key(i)
    BY <1>1, <1>13 DEF QueryTask, At, Goes
  <2>2. Waiting' = Waiting
    BY <1>2, <1>3, <2>1 DEF Waiting, Busy, Unfinished
  <2>3. FullIsFirst'
    BY <1>3, <1>10, <1>11, <2>1 DEF Follows, FullIsFirst
  <2>4. \A j \in Uploads : job'[j] # "writing"
    BY <1>7, <2>1
  <2> QED
    BY <1>5, <1>12, <2>1, <2>2, <2>3, <2>4 DEF Follows
<1>14. CASE SaveTask(i)
  <2>1. /\ job'[i] = "running" /\ job[i] = "queried" /\ UNCHANGED <<input, view>>
        /\ task'[i].key = task[i].key
    BY <1>1, <1>14 DEF SaveTask, At, Goes, Tasks
  <2>2. Waiting' = Waiting
    BY <1>2, <1>3, <2>1 DEF Waiting, Busy, Unfinished
  <2>3. rows # <<>> => rows' # <<>> /\ reports' = reports
    <3> SUFFICES ASSUME rows # <<>> PROVE rows' # <<>> /\ reports' = reports
      OBVIOUS
    <3>1. task[i].id # 0
      BY <2>1 DEF Alone
    <3>2. rows' = [rows EXCEPT ![task[i].id] = Row(task[i])] /\ reports' = reports
      BY <1>14, <3>1 DEF SaveTask
    <3>3. DOMAIN rows' = DOMAIN rows
      BY <1>1, <3>2
    <3>4. rows \in Seq(TaskRow)
      BY <1>1
    <3>5. DOMAIN rows # {}
      <4>1. Len(rows) \in Nat /\ Len(rows) # 0 /\ DOMAIN rows = 1..Len(rows)
        BY <3>4, EmptySeq
      <4> QED
        BY <4>1
    <3> QED
      BY <3>2, <3>3, <3>5
  <2>4. FullIsFirst'
    BY <1>3, <1>10, <2>1 DEF Follows, FullIsFirst
  <2>5. \A j \in Uploads : job'[j] # "writing"
    BY <1>7, <2>1
  <2> QED
    BY <1>5, <1>12, <2>2, <2>3, <2>4, <2>5 DEF Follows
<1>15. CASE OpenReport(i)
  <2>1. /\ job'[i] = "writing" /\ job[i] = "running" /\ UNCHANGED <<rows, reports, task>>
        /\ input'[i] = IF uploads[i].incr THEN uploads[i].data ELSE normal[task[i].key]
        /\ view'[i] = reports[task[i].id]
    BY <1>1, <1>15 DEF OpenReport, At, Goes
  <2>2. Waiting' = Waiting
    BY <1>2, <1>3, <2>1 DEF Waiting, Busy, Unfinished
  <2>3. input'[i] = Brought(i)
    BY <1>3, <2>1 DEF Brought, Follows, FullIsFirst
  <2>4. task[i].id = 1
    BY <1>1, <2>1 DEF TaskIsRight, Unfinished, Tasks
  <2>5. FullIsFirst'
    BY <1>10, <2>1
  <2>6. \A j \in Uploads : job'[j] = "writing" => j = i
    BY <1>7
  <2>7. \A j \in Uploads : job'[j] = "writing" => (input[j] = Brought(j) /\ view[j] = reports[1])'
    BY <1>6, <2>1, <2>3, <2>4, <2>6
  <2> QED
    BY <1>5, <1>12, <2>1, <2>2, <2>5, <2>7 DEF Follows
<1>16. CASE SkipUpload(i)
  <2>1. job[i] = "running" /\ ~uploads[i].incr /\ task[i].key = 0
    BY <1>16 DEF SkipUpload, At
  <2>2. task[i].key = 1
    BY <1>3, <2>1 DEF Follows, FullIsFirst
  <2> QED
    BY <2>1, <2>2
<1>17. CASE FlushReport(i)
  <2>1. /\ job'[i] = "flushed" /\ job[i] = "writing" /\ UNCHANGED <<rows, task, input, view>>
        /\ reports' = [reports EXCEPT ![task[i].id] = Merged(i)]
    BY <1>1, <1>17 DEF FlushReport, At, Goes
  <2>2. task[i].id = 1 /\ rows # <<>> /\ 1 \in DOMAIN reports
    <3>1. task[i].id = 1 /\ Len(rows) = 1
      BY <1>1, <2>1 DEF TaskIsRight, Unfinished, Tasks
    <3>2. DOMAIN reports = 1..1
      <4>1. reports \in Seq(Coverages) /\ Len(reports) = 1
        BY <1>1, <3>1
      <4> QED
        BY <4>1
    <3>3. rows # <<>>
      <4>1. Len(rows) = 1
        BY <3>1
      <4> QED
        BY <4>1
    <3> QED
      BY <3>1, <3>2, <3>3
  <2>3. reports'[1] = Override(Brought(i), reports[1])
    <3>1. input[i] = Brought(i) /\ view[i] = reports[1]
      BY <2>1 DEF Follows
    <3> QED
      BY <1>1, <2>1, <2>2, <3>1 DEF Merged
  <2>4. Waiting = {i} /\ Waiting' = {}
    <3>1. Waiting = {i}
      BY <1>3, <2>1 DEF Waiting
    <3>2. Waiting' = {}
      BY <1>4, <2>1 DEF Waiting
    <3> QED
      BY <3>1, <3>2
  <2>5. FullIsFirst'
    BY <1>10, <2>1
  <2>6. ASSUME NEW f \in Files, cache.session = 1 PROVE LastIsRight(f)'
    <3>1. cache' = cache /\ UNCHANGED <<apc, sending>> /\ LastIsRight(f)
      BY <1>2, <2>6 DEF Follows, agent
    <3>2. CASE apc # "idle" /\ Carries(sending.data, f)
      BY <3>1, <3>2 DEF LastIsRight, Right, Carries
    <3>3. CASE ~(apc # "idle" /\ Carries(sending.data, f))
      <4>1. IF Carries(Brought(i), f) THEN Right(Brought(i), f) ELSE Right(reports[1], f)
        BY <2>4, <3>1, <3>3 DEF LastIsRight
      <4>2. Right(reports'[1], f)
        BY <2>3, <4>1 DEF Override, Right, Carries
      <4>3. Right(reports[1], f)'
        BY <3>1, <4>2 DEF Right, Carries
      <4> QED
        BY <2>1, <2>2, <2>4, <3>1, <3>3, <4>3 DEF LastIsRight
    <3> QED
      BY <3>2, <3>3
  <2>7. \A j \in Uploads : job'[j] # "writing"
    BY <1>7, <2>1
  <2>8. cache' = cache
    BY <1>2 DEF agent
  <2> QED
    BY <1>5, <2>5, <2>6, <2>7, <2>8 DEF Follows
<1>18. CASE SaveProcessed(i)
  <2>1. /\ job'[i] = "done" /\ job[i] = "flushed" /\ UNCHANGED <<reports, task, input, view>>
        /\ DOMAIN rows' = DOMAIN rows
    BY <1>1, <1>18 DEF SaveProcessed, At, Goes
  <2>2. Waiting' = Waiting
    BY <1>2, <1>3, <2>1 DEF Waiting, Busy, Unfinished
  <2>3. rows # <<>> => rows' # <<>>
    BY <1>1, <2>1
  <2>4. FullIsFirst'
    BY <1>10, <2>1
  <2>5. \A j \in Uploads : job'[j] # "writing"
    BY <1>7, <2>1
  <2> QED
    BY <1>5, <1>12, <2>1, <2>2, <2>3, <2>4, <2>5 DEF Follows
<1> QED
  BY <1>13, <1>14, <1>15, <1>16, <1>17, <1>18 DEF Progress

(* What the service covers is not less than what was collected of it.      *)
LEMMA CoverFollows ==
    ASSUME TypeInv, Follows, NEW g \in Files, Cover(g)
    PROVE  Follows'
<1>1. /\ hits' = [hits EXCEPT ![g] = @ + 1] /\ hits \in [Files -> Levels]
      /\ cache.hits \in [Files -> Levels]
      /\ UNCHANGED <<session, agent, uploads, normal, server>>
  BY DEF Cover, TypeInv, AgentTypes
<1>2. ASSUME NEW f \in Files PROVE cache.hits[f] <= hits'[f]
  <2>1. cache.hits[f] <= hits[f] /\ hits[f] \in Nat /\ cache.hits[f] \in Nat
    BY <1>1 DEF Follows, CacheFollows, Levels
  <2> QED
    BY <1>1, <2>1
<1>3. CacheFollows'
  BY <1>1, <1>2 DEF Follows, CacheFollows, agent
<1>4. FullIsFirst'
  BY <1>1 DEF Follows, FullIsFirst, agent, server
<1>5. \A f \in Files : LastIsRight(f)' <=> LastIsRight(f)
  BY <1>1 DEF LastIsRight, Right, Carries, Brought, Waiting, Busy, agent, server
<1> QED
  BY <1>1, <1>3, <1>4, <1>5 DEF Follows, Brought, agent, server

(* Nothing was collected yet.                                              *)
LEMMA InitFollows == Init => FollowInv
<1> SUFFICES ASSUME Init PROVE Follows
  BY DEF FollowInv
<1>1. CacheFollows
  BY DEF Init, CacheFollows, NoCache
<1>2. FullIsFirst
  BY DEF Init, FullIsFirst
<1>3. cache.session = 0 /\ \A i \in Uploads : job[i] = "none"
  BY DEF Init, NoCache
<1> QED
  BY <1>1, <1>2, <1>3 DEF Follows

(* Every step of a run without faults keeps the coverage on its way.       *)
LEMMA StepFollows == TypeInv /\ AloneInv /\ FollowInv /\ [Next]_vars => FollowInv'
<1> SUFFICES ASSUME TypeInv, AloneInv, FollowInv, [Next]_vars, faults' = {}
             PROVE  Follows'
  BY DEF FollowInv
<1>1. faults = {} /\ Alone /\ Follows
  BY FaultsStay DEF FollowInv, AloneInv
<1>2. CASE UNCHANGED vars
  BY <1>1, <1>2 DEF vars, agent, server, Follows, CacheFollows, FullIsFirst, LastIsRight, Right,
                    Carries, Brought, Waiting, Busy
<1>3. ASSUME NEW f \in Files, Cover(f) PROVE Follows'
  BY <1>1, <1>3, CoverFollows
<1>4. CASE Collect
  BY <1>1, <1>4, CollectFollows
<1>5. CASE PutNormal \/ Call
  BY <1>1, <1>5, SendFollows
<1>6. ASSUME NEW i \in Uploads, Progress(i) PROVE Follows'
  BY <1>1, <1>6, WorkFollows
<1>7. CASE Restart \/ SendFails \/ ServerCrash \/ \E i \in Uploads : UploadFails(i)
  BY <1>7 DEF Restart, SendFails, ServerCrash, UploadFails
<1> QED
  BY <1>2, <1>3, <1>4, <1>5, <1>6, <1>7 DEF Next

(* Joined coverages have the names of both.                                *)
LEMMA OverrideIsKnown ==
    ASSUME NEW new, NEW old, Known(new), Known(old)
    PROVE  Known(Override(new, old))
BY DEF Known, Override

LEMMA InitNames == Init => NamesInv
BY DEF Init, NamesInv, NamesAreKnown, Nothing

(* No step of a run without faults brings a name from elsewhere.           *)
LEMMA StepNames == TypeInv /\ NamesInv /\ [Next]_vars => NamesInv'
<1> SUFFICES ASSUME TypeInv, NamesAreKnown, [Next]_vars, faults = {}, faults' = {}
             PROVE  NamesAreKnown'
  BY FaultsStay DEF NamesInv
<1>1. /\ uploads \in Seq(Requests) /\ sending \in Requests
      /\ normal \in [Uploads -> Coverages] /\ job \in [Uploads -> Places]
      /\ task \in [Uploads -> Tasks]
      /\ input \in [Uploads -> Coverages] /\ view \in [Uploads -> Coverages]
      /\ rows \in Seq(TaskRow) /\ reports \in Seq(Coverages) /\ Len(rows) = Len(reports)
      /\ \A i \in Uploads : TaskIsRight(i)
  BY DEF TypeInv, AgentTypes, UploadTypes, ServerTypes
<1>2. CASE UNCHANGED <<apc, sending, uploads, normal, job, input, view, reports>>
  BY <1>2 DEF NamesAreKnown, Known
<1>3. CASE Collect
  <2> DEFINE isIncr == cache.session = session
             S == IF isIncr THEN {f \in Files : hits[f] > cache.hits[f]} ELSE Files
  <2>1. UNCHANGED <<uploads, normal, server>>
    BY <1>3 DEF Collect
  <2>2. CASE S = {}
    BY <1>2, <1>3, <2>1, <2>2 DEF Collect, server
  <2>3. CASE S # {}
    <3>1. PICK large \in BOOLEAN :
            /\ sending' = [incr |-> isIncr /\ ~large, data |-> Coverage(S)]
            /\ apc' = IF isIncr /\ ~large THEN "call" ELSE "put"
            /\ faults' = faults \cup {k \in {"large", "clash"} :
                             IF k = "large" THEN isIncr /\ large ELSE Clash(S)}
      BY <1>3, <2>3 DEF Collect
    <3>2. (~sending'.incr => ~isIncr) /\ (apc' = "put" => ~sending'.incr)
      <4> HIDE DEF S, isIncr
      <4>1. "large" \notin faults'
        OBVIOUS
      <4>2. ~(isIncr /\ large)
        BY <3>1, <4>1
      <4> QED
        BY <3>1, <4>2
    <3>3. ~isIncr => DOMAIN sending'.data = NamesOf(Files)
      BY <3>1 DEF Coverage, NamesOf
    <3> QED
      BY <2>1, <3>2, <3>3 DEF NamesAreKnown, Known, server
  <2> QED
    BY <2>2, <2>3
<1>4. CASE PutNormal
  <2>1. /\ apc = "put" /\ UNCHANGED <<sending, uploads, server>>
        /\ normal' = [normal EXCEPT ![Len(uploads) + 1] = sending.data]
    BY <1>4 DEF PutNormal
  <2>2. ~sending.incr
    BY <2>1 DEF NamesAreKnown
  <2>3. DOMAIN sending.data \subseteq NamesOf(Files)
    BY <2>1, <2>2 DEF NamesAreKnown
  <2>4. \A i \in Uploads : DOMAIN normal'[i] \subseteq NamesOf(Files)
    BY <1>1, <2>1, <2>3 DEF NamesAreKnown
  <2> QED
    BY <2>1, <2>3, <2>4 DEF NamesAreKnown, Known, server
<1>5. CASE Call
  <2>1. /\ uploads' = Append(uploads,
                         IF sending.incr THEN sending ELSE [sending EXCEPT !.data = Nothing])
        /\ job' = [job EXCEPT ![Len(uploads) + 1] = "arrived"]
        /\ apc' = "idle" /\ UNCHANGED <<normal, input, view, reports>>
    BY <1>5 DEF Call
  <2>2. \A i \in DOMAIN uploads : i \in DOMAIN uploads' /\ uploads'[i] = uploads[i]
    BY <1>1, <2>1
  <2>3. \A d : Known(d) => DOMAIN d \subseteq
            NamesOf(Files) \cup UNION {DOMAIN uploads'[i].data : i \in DOMAIN uploads'}
    BY <2>2 DEF Known
  <2>4. \A i \in Uploads : job'[i] = "writing" => job[i] = "writing"
    BY <1>1, <2>1
  <2> QED
    BY <2>1, <2>3, <2>4 DEF NamesAreKnown, Known
<1>6. ASSUME NEW i \in Uploads, QueryTask(i) \/ SaveTask(i) \/ SkipUpload(i) \/ SaveProcessed(i)
      PROVE  NamesAreKnown'
  <2>1. UNCHANGED <<apc, sending, uploads, normal, input, view>>
    BY <1>6 DEF QueryTask, SaveTask, SkipUpload, SaveProcessed, agent
  <2>2. \A j \in Uploads : job'[j] = "writing" => job[j] = "writing"
    BY <1>1, <1>6 DEF QueryTask, SaveTask, SkipUpload, SaveProcessed, Goes
  <2>3. reports' = reports \/ reports' = Append(reports, Nothing)
    BY <1>6 DEF QueryTask, SaveTask, SkipUpload, SaveProcessed
  <2>4. Known(Nothing)
    BY DEF Known, Nothing
  <2>5. \A r \in DOMAIN reports' : Known(reports'[r])
    <3>1. \A r \in DOMAIN reports : Known(reports[r])
      BY DEF NamesAreKnown
    <3>2. CASE reports' = Append(reports, Nothing)
      <4>1. DOMAIN reports' = DOMAIN reports \cup {Len(reports) + 1}
        BY <1>1, <3>2
      <4>2. \A r \in DOMAIN reports : reports'[r] = reports[r]
        BY <1>1, <3>2
      <4>3. reports'[Len(reports) + 1] = Nothing
        BY <1>1, <3>2
      <4> QED
        BY <2>4, <3>1, <4>1, <4>2, <4>3
    <3> QED
      BY <2>3, <3>1, <3>2
  <2> QED
    BY <2>1, <2>2, <2>5 DEF NamesAreKnown, Known
<1>7. ASSUME NEW i \in Uploads, OpenReport(i) PROVE NamesAreKnown'
  <2>1. /\ job[i] = "running" /\ UNCHANGED <<apc, sending, uploads, normal, reports>>
        /\ job' = [job EXCEPT ![i] = "writing"]
        /\ input' = [input EXCEPT ![i] =
                        IF uploads[i].incr THEN uploads[i].data ELSE normal[task[i].key]]
        /\ view' = [view EXCEPT ![i] = reports[task[i].id]]
        /\ uploads[i].incr \/ task[i].key # 0
    BY <1>7 DEF OpenReport, At, Goes, agent
  <2>2. /\ i \in DOMAIN uploads /\ task[i].key \in 0..Len(uploads)
        /\ task[i].id \in DOMAIN reports
    <3>1. TaskIsRight(i) /\ task[i] \in Tasks
      BY <1>1
    <3>2. i <= Len(uploads) /\ task[i].key <= Len(uploads) /\ task[i].id \in 1..Len(reports)
      BY <1>1, <2>1, <3>1 DEF TaskIsRight, Unfinished, Tasks, Uploads
    <3> QED
      BY <1>1, <3>1, <3>2 DEF Tasks, Uploads
  <2>3. Known(input'[i])
    <3>1. CASE uploads[i].incr
      BY <1>1, <2>1, <2>2, <3>1 DEF Known
    <3>2. CASE ~uploads[i].incr
      <4>1. task[i].key \in Uploads
        BY <1>1, <2>1, <2>2, <3>2, UploadAssumption
           DEF UploadAssumption, Uploads, TypeInv, UploadTypes
      <4> QED
        BY <1>1, <2>1, <3>2, <4>1 DEF Known, NamesAreKnown
    <3> QED
      BY <3>1, <3>2
  <2>4. Known(view'[i])
    BY <1>1, <2>1, <2>2 DEF NamesAreKnown
  <2>5. \A j \in Uploads : job'[j] = "writing" => Known(input'[j]) /\ Known(view'[j])
    BY <1>1, <2>1, <2>3, <2>4 DEF NamesAreKnown
  <2> QED
    BY <2>1, <2>5 DEF NamesAreKnown, Known
<1>8. ASSUME NEW i \in Uploads, FlushReport(i) PROVE NamesAreKnown'
  <2>1. /\ job[i] = "writing" /\ UNCHANGED <<apc, sending, uploads, normal, input, view>>
        /\ job' = [job EXCEPT ![i] = "flushed"]
        /\ reports' = [reports EXCEPT ![task[i].id] = Merged(i)]
    BY <1>8 DEF FlushReport, At, Goes, agent
  <2>2. Known(Merged(i))
    BY <2>1, OverrideIsKnown DEF Merged, NamesAreKnown
  <2>3. \A r \in DOMAIN reports' : Known(reports'[r])
    BY <1>1, <2>1, <2>2 DEF NamesAreKnown
  <2>4. \A j \in Uploads : job'[j] = "writing" => job[j] = "writing"
    BY <1>1, <2>1
  <2> QED
    BY <2>1, <2>3, <2>4 DEF NamesAreKnown, Known
<1>9. CASE UNCHANGED vars \/ \E f \in Files : Cover(f)
  BY <1>2, <1>9 DEF vars, agent, server, Cover
<1>10. CASE Restart \/ SendFails \/ ServerCrash \/ \E i \in Uploads : UploadFails(i)
  BY <1>10 DEF Restart, SendFails, ServerCrash, UploadFails
<1> QED
  BY <1>3, <1>4, <1>5, <1>6, <1>7, <1>8, <1>9, <1>10 DEF Next, Progress

(* ReportFollowsAgent: from the agent's cache to the report, nothing that  *)
(* was collected is missing when the uploads came through, in whatever     *)
(* directories the files are; and the report is exactly what was collected *)
(* when no increment named a file otherwise than a full upload does.       *)
THEOREM ReportShowsCollected == Spec => []ReportFollowsAgent
<1>1. TypeInv /\ FollowInv /\ NamesInv => ReportFollowsAgent
  <2> SUFFICES ASSUME TypeInv, FollowInv, NamesInv,
                      faults = {}, Busy = {}, apc = "idle", cache # NoCache
               PROVE  InReport(cache.hits) /\ (OneNameEach => Shown(cache.hits))
    BY DEF ReportFollowsAgent
  <2>1. Follows /\ Waiting = {}
    BY DEF FollowInv, Waiting
  <2>2. cache.session = 1
    BY <2>1 DEF Follows, CacheFollows, TypeInv, AgentTypes
  <2>3. \A f \in Files : rows # <<>> /\ Right(reports[1], f)
    BY <2>1, <2>2 DEF Follows, LastIsRight
  <2>4. rows # <<>>
    BY <2>3, UploadAssumption DEF UploadAssumption
  <2>5. InReport(cache.hits)
    BY <2>3, <2>4 DEF InReport, Right
  <2>6. OneNameEach => DOMAIN reports[1] \subseteq NamesOf(Files)
    <3>1. 1 \in DOMAIN reports
      BY <2>4 DEF TypeInv, ServerTypes
    <3>2. Known(reports[1])
      BY <3>1 DEF NamesInv, NamesAreKnown
    <3> QED
      BY <3>2 DEF Known, OneNameEach
  <2> QED
    BY <2>3, <2>4, <2>5, <2>6, RightIsShown
<1> QED
  BY <1>1, InitAlone, StepKeepsAlone, InitFollows, StepFollows, InitNames, StepNames, TypesHold,
     PTL DEF Spec
=============================================================================
