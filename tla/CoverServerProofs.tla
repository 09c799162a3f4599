-------------------------- MODULE CoverServerProofs --------------------------
(***************************************************************************)
(* The server with its concurrent requests, for any uploads, snapshots and *)
(* requests with a base commit, any commits, and any number of crashes:    *)
(* whoever finds a key in a table finds its object; what every request has *)
(* is of its type; a report that is shown stays; snapshots keep what they  *)
(* took; reports are of their own upload, and their increments of its base.*)
(*                                                                         *)
(* The three kinds of request share the stored reports only.  So each      *)
(* invariant has a part for each kind, kept by its own steps, and by those *)
(* of the others because of what they store (StepStores) and leave alone.  *)
(***************************************************************************)
EXTENDS CoverServer, FiniteSetTheorems, SequenceTheorems, TLAPS

IsSequence(s) == Len(s) \in Nat /\ s = [i \in 1..Len(s) |-> s[i]]

IsJob(q) == q = [x \in {"step", "from", "diff", "key"} |-> q[x]]
IsSnap(q) == q = [x \in {"step", "copy", "key"} |-> q[x]]
IsKeep(q) == q = [x \in {"step", "key"} |-> q[x]]

UploadPart ==
    /\ job = [u \in Uploads |-> job[u]]
    /\ \A u \in Uploads : IsJob(job[u])
    /\ IsSequence(rows)
    /\ \A u \in Uploads : job[u].step = "flushed" => Path(job[u].key) \in DOMAIN reports
    /\ \A i \in DOMAIN rows : rows[i].key # None => Path(rows[i].key) \in DOMAIN reports

SnapPart ==
    /\ snap = [s \in Snaps |-> snap[s]]
    /\ \A s \in Snaps : IsSnap(snap[s])
    /\ IsSequence(snapRows)
    /\ \A s \in Snaps : snap[s].step = "flushed" => Path(snap[s].key) \in DOMAIN reports
    /\ \A i \in DOMAIN snapRows : Path(snapRows[i].key) \in DOMAIN reports

DiffPart ==
    /\ keep = [a \in Asks |-> keep[a]]
    /\ \A a \in Asks : IsKeep(keep[a])
    /\ IsSequence(diffRows)
    /\ \A a \in Asks : keep[a].step = "save" => DiffPath(keep[a].key) \in DOMAIN diffObjects
    /\ \A i \in DOMAIN diffRows : DiffPath(diffRows[i].key) \in DOMAIN diffObjects

ObjectInv == UploadPart /\ SnapPart /\ DiffPart

ReportsGrow == DOMAIN reports \subseteq DOMAIN reports'

-----------------------------------------------------------------------------
(* What is stored is there, with all that was there before.                *)
LEMMA StoredGrows ==
    ASSUME NEW objects, NEW path, NEW object
    PROVE  /\ path \in DOMAIN Stored(objects, path, object)
           /\ DOMAIN objects \subseteq DOMAIN Stored(objects, path, object)
BY DEF Stored

(* Append, without a set that the elements are of.                         *)
LEMMA AppendIs ==
    ASSUME NEW s, NEW e, IsSequence(s)
    PROVE  /\ IsSequence(Append(s, e))
           /\ \A i \in DOMAIN Append(s, e) :
                 Append(s, e)[i] = e \/ (i \in DOMAIN s /\ Append(s, e)[i] = s[i])
<1> DEFINE S == {s[i] : i \in 1..Len(s)} \cup {e}
<1>1. s \in Seq(S) /\ e \in S
  BY DEF IsSequence
<1>2. /\ Append(s, e) \in Seq(S)
      /\ Len(Append(s, e)) = Len(s) + 1
      /\ \A i \in 1..Len(s) : Append(s, e)[i] = s[i]
      /\ Append(s, e)[Len(s) + 1] = e
  BY <1>1
<1>3. DOMAIN Append(s, e) = 1..Len(s) + 1 /\ DOMAIN s = 1..Len(s) /\ Len(s) \in Nat
  BY <1>1, <1>2
<1>4. IsSequence(Append(s, e))
  <2> DEFINE t == Append(s, e)
  <2>1. t \in [1..Len(t) -> S] /\ Len(t) \in Nat
    BY <1>2, LenProperties
  <2> HIDE DEF t
  <2>2. IsSequence(t)
    BY <2>1 DEF IsSequence
  <2> QED
    BY <2>2 DEF t
<1> QED
  BY <1>2, <1>3, <1>4

(* A saved row is the row, and the others are as they were.                *)
LEMMA SaveRecordIs ==
    ASSUME NEW table, NEW id, NEW row, IsSequence(table)
    PROVE  LET saved == SaveRecord(table, id, row)
           IN  /\ IsSequence(saved)
               /\ \A i \in DOMAIN saved :
                     saved[i] = row \/ (i \in DOMAIN table /\ saved[i] = table[i])
<1>1. CASE id = 0
  BY <1>1, AppendIs DEF SaveRecord
<1>2. CASE id # 0
  <2> DEFINE saved == [table EXCEPT ![id] = row]
  <2>1. DOMAIN saved = DOMAIN table /\ saved = [i \in DOMAIN table |-> saved[i]]
    OBVIOUS
  <2>2. DOMAIN table = 1..Len(table) /\ Len(table) \in Nat
    BY DEF IsSequence
  <2>3. Len(saved) = Len(table)
    BY <2>1, <2>2
  <2>4. IsSequence(saved)
    BY <2>1, <2>2, <2>3 DEF IsSequence
  <2> QED
    BY <1>2, <2>1, <2>4 DEF SaveRecord
<1> QED
  BY <1>1, <1>2
-----------------------------------------------------------------------------
(* A step that leaves a part's variables alone keeps it, if reports grow.  *)
LEMMA PartsStay ==
    ASSUME ReportsGrow
    PROVE  /\ UploadPart /\ UNCHANGED <<job, rows>> => UploadPart'
           /\ SnapPart /\ UNCHANGED <<snap, snapRows>> => SnapPart'
           /\ DiffPart /\ UNCHANGED <<keep, diffRows, diffObjects>> => DiffPart'
BY DEF ReportsGrow, UploadPart, SnapPart, DiffPart, IsSequence, IsJob, IsSnap, IsKeep,
       Path, DiffPath

(* The goroutine of an upload moves on, with no report yet.                *)
LEMMA JobMoves ==
    ASSUME UploadPart, NEW u \in Uploads, NEW q, IsJob(q),
           job' = [job EXCEPT ![u] = q],
           q.step = "flushed" => Path(q.key) \in DOMAIN reports',
           ReportsGrow, UNCHANGED rows
    PROVE  UploadPart'
BY DEF ReportsGrow, UploadPart, IsSequence, IsJob, Path

(* Each way in which a goroutine moves on makes a job of a job.            *)
LEMMA JobsAreJobs ==
    ASSUME NEW q, IsJob(q), NEW step
    PROVE  /\ IsJob([q EXCEPT !.step = step]) /\ IsJob(Ended(q, step))
           /\ [q EXCEPT !.step = step].step = step
           /\ [q EXCEPT !.step = step].key = q.key
           /\ Ended(q, step).step = step
BY DEF IsJob, Ended, NoJob
-----------------------------------------------------------------------------
(* Unit test uploads.                                                      *)
LEMMA ToolKeeps ==
    ASSUME UploadPart, NEW u \in Uploads, CliStep(u)
    PROVE  UploadPart' /\ UNCHANGED serverVars
<1> USE DEF serverVars
<1>1. UNCHANGED serverVars
  BY DEF CliStep
<1>2. ReportsGrow
  BY <1>1 DEF ReportsGrow
<1>3. CASE UNCHANGED <<job, rows>>
  BY <1>1, <1>2, <1>3, PartsStay
<1>4. CASE UploadToCoverServer(u) /\ ~UNCHANGED <<job, rows>>
  <2>1. /\ rows' = SaveRecord(rows, 0, Row(u, None))
        /\ job' = [job EXCEPT ![u] = [job[u] EXCEPT !.step = "unread"]]
    BY <1>4 DEF UploadToCoverServer
  <2>2. /\ IsSequence(rows')
        /\ \A i \in DOMAIN rows' : rows'[i] = Row(u, None)
                                   \/ (i \in DOMAIN rows /\ rows'[i] = rows[i])
    BY <2>1, SaveRecordIs DEF UploadPart
  <2>3. \A i \in DOMAIN rows' : rows'[i].key # None => Path(rows'[i].key) \in DOMAIN reports
    BY <2>2 DEF UploadPart, Row
  <2>4. IsJob([job[u] EXCEPT !.step = "unread"]) /\ [job[u] EXCEPT !.step = "unread"].step = "unread"
    BY JobsAreJobs DEF UploadPart
  <2>5. /\ job' = [v \in Uploads |-> job'[v]]
        /\ \A v \in Uploads : IsJob(job'[v])
        /\ \A v \in Uploads : job'[v].step = "flushed" => Path(job'[v].key) \in DOMAIN reports
    BY <2>1, <2>4 DEF UploadPart
  <2> QED
    BY <1>1, <2>2, <2>3, <2>5 DEF UploadPart, Path
<1>5. CliStep(u) => UNCHANGED <<job, rows>> \/ UploadToCoverServer(u)
  BY DEF CliStep, ParseDirectory, UploadCoverage, UploadDiff
<1> QED
  BY <1>1, <1>3, <1>4, <1>5

(* The goroutine of an upload keeps the part of the uploads.               *)
LEMMA JobKeeps ==
    ASSUME UploadPart, NEW u \in Uploads, JobStep(u)
    PROVE  UploadPart' /\ ReportsGrow
<1> DEFINE q == job[u]
<1>1. IsJob(q)
  BY DEF UploadPart
<1>7. \A step : IsJob(Ended(q, step)) /\ Ended(q, step).step = step
  BY <1>1, JobsAreJobs
<1>8. IsJob(Ended(q, "lost")) /\ Ended(q, "lost").step # "flushed"
  BY <1>7
<1>2. CASE GetCoverage(u) /\ UNCHANGED serverVars
  <2>1. ReportsGrow
    BY <1>2 DEF ReportsGrow, serverVars
  <2>2. PICK r : /\ job' = [job EXCEPT ![u] = r] /\ IsJob(r) /\ r.step # "flushed"
                 /\ UNCHANGED rows
    <3>1. CASE job' = [job EXCEPT ![u] = Ended(q, "lost")]
      BY <1>8, <1>2, <3>1 DEF GetCoverage
    <3>2. ASSUME NEW x, job' = [job EXCEPT ![u].step = "read", ![u].from = x]
          PROVE  job' = [job EXCEPT ![u] = [q EXCEPT !.step = "read", !.from = x]]
      BY <3>2 DEF UploadPart
    <3>3. ASSUME NEW x, job' = [job EXCEPT ![u] = [q EXCEPT !.step = "read", !.from = x]]
          PROVE  \E r : job' = [job EXCEPT ![u] = r] /\ IsJob(r) /\ r.step # "flushed"
      <4> DEFINE r == [q EXCEPT !.step = "read", !.from = x]
      <4>1. IsJob(r) /\ r.step = "read"
        BY <1>1 DEF IsJob
      <4> HIDE DEF r
      <4> QED
        BY <3>3, <4>1 DEF r
    <3> QED
      BY <1>2, <3>1, <3>2, <3>3 DEF GetCoverage
  <2> QED
    BY <2>1, <2>2, JobMoves
<1>3. CASE GetDiffData(u) /\ UNCHANGED serverVars
  <2>1. ReportsGrow
    BY <1>3 DEF ReportsGrow, serverVars
  <2>2. PICK r : /\ job' = [job EXCEPT ![u] = r] /\ IsJob(r) /\ r.step # "flushed"
                 /\ UNCHANGED rows
    <3>2. ASSUME NEW x, job' = [job EXCEPT ![u].step = "ready", ![u].diff = x]
          PROVE  job' = [job EXCEPT ![u] = [q EXCEPT !.step = "ready", !.diff = x]]
      BY <3>2 DEF UploadPart
    <3>3. ASSUME NEW x, job' = [job EXCEPT ![u] = [q EXCEPT !.step = "ready", !.diff = x]]
          PROVE  \E r : job' = [job EXCEPT ![u] = r] /\ IsJob(r) /\ r.step # "flushed"
      <4> DEFINE r == [q EXCEPT !.step = "ready", !.diff = x]
      <4>1. IsJob(r) /\ r.step = "ready"
        BY <1>1 DEF IsJob
      <4> HIDE DEF r
      <4> QED
        BY <3>3, <4>1 DEF r
    <3> QED
      BY <1>3, <3>2, <3>3 DEF GetDiffData
  <2> QED
    BY <2>1, <2>2, JobMoves
<1>4. CASE CreateReport(u) /\ UNCHANGED serverVars
  <2>1. ReportsGrow
    BY <1>4 DEF ReportsGrow, serverVars
  <2>2. PICK r : /\ job' = [job EXCEPT ![u] = r] /\ IsJob(r) /\ r.step # "flushed"
                 /\ UNCHANGED rows
    <3>1. CASE job' = [job EXCEPT ![u] = Ended(q, "lost")]
      BY <1>8, <1>4, <3>1 DEF CreateReport
    <3>2. ASSUME NEW x, job' = [job EXCEPT ![u].step = "created", ![u].key = x]
          PROVE  job' = [job EXCEPT ![u] = [q EXCEPT !.step = "created", !.key = x]]
      BY <3>2 DEF UploadPart
    <3>3. ASSUME NEW x, job' = [job EXCEPT ![u] = [q EXCEPT !.step = "created", !.key = x]]
          PROVE  \E r : job' = [job EXCEPT ![u] = r] /\ IsJob(r) /\ r.step # "flushed"
      <4> DEFINE r == [q EXCEPT !.step = "created", !.key = x]
      <4>1. IsJob(r) /\ r.step = "created"
        BY <1>1 DEF IsJob
      <4> HIDE DEF r
      <4> QED
        BY <3>3, <4>1 DEF r
    <3> QED
      BY <1>4, <3>1, <3>2, <3>3 DEF CreateReport
  <2> QED
    BY <2>1, <2>2, JobMoves
<1>5. CASE FlushReport(u)
  <2>1. ReportsGrow
    BY <1>5, StoredGrows DEF FlushReport, ReportsGrow
  <2>2. PICK r : /\ job' = [job EXCEPT ![u] = r] /\ IsJob(r)
                 /\ r.step = "flushed" => Path(r.key) \in DOMAIN reports'
                 /\ UNCHANGED rows
    <3>1. CASE job' = [job EXCEPT ![u] = Ended(q, "lost")]
      BY <1>5, <1>8, <3>1 DEF FlushReport
    <3>2. CASE /\ reports' = Stored(reports, Path(q.key), BuiltReport(u))
               /\ job' = [job EXCEPT ![u] = [q EXCEPT !.step = "flushed"]]
      <4> DEFINE r == [q EXCEPT !.step = "flushed"]
      <4>1. IsJob(r) /\ r.key = q.key
        BY <1>1, JobsAreJobs
      <4> HIDE DEF r
      <4>2. Path(r.key) \in DOMAIN reports'
        BY <3>2, <4>1, StoredGrows
      <4> QED
        BY <1>5, <3>2, <4>1, <4>2 DEF FlushReport, r
    <3>3. job' = [job EXCEPT ![u].step = "flushed"]
          => job' = [job EXCEPT ![u] = [q EXCEPT !.step = "flushed"]]
      BY DEF UploadPart
    <3> QED
      BY <1>5, <3>1, <3>2, <3>3 DEF FlushReport
  <2> QED
    BY <2>1, <2>2, JobMoves
<1>6. CASE SaveProcessed(u) /\ UNCHANGED serverVars
  <2>1. ReportsGrow
    BY <1>6 DEF ReportsGrow, serverVars
  <2>2. PICK step \in {"end", "lost"} : job' = [job EXCEPT ![u] = Ended(q, step)]
    BY <1>6 DEF SaveProcessed
  <2>3. IsJob(Ended(q, step)) /\ Ended(q, step).step # "flushed"
    BY <1>1, <2>2, JobsAreJobs
  <2>4. CASE UNCHANGED rows
    BY <2>1, <2>2, <2>3, <2>4, JobMoves
  <2>5. CASE rows' = SaveRecord(rows, TaskId(u), Row(u, q.key))
    <3>1. /\ IsSequence(rows')
          /\ \A i \in DOMAIN rows' : rows'[i] = Row(u, q.key)
                                     \/ (i \in DOMAIN rows /\ rows'[i] = rows[i])
      BY <2>5, SaveRecordIs DEF UploadPart
    <3>2. Path(q.key) \in DOMAIN reports /\ Row(u, q.key).key = q.key
      BY <1>6 DEF SaveProcessed, ReportIsThere, UploadPart, Row
    <3>3. \A i \in DOMAIN rows' : rows'[i].key # None => Path(rows'[i].key) \in DOMAIN reports
      BY <3>1, <3>2 DEF UploadPart
    <3>4. /\ job' = [v \in Uploads |-> job'[v]]
          /\ \A v \in Uploads : IsJob(job'[v])
          /\ \A v \in Uploads : job'[v].step = "flushed" => Path(job'[v].key) \in DOMAIN reports
      BY <2>2, <2>3 DEF UploadPart
    <3> QED
      BY <1>6, <3>1, <3>3, <3>4 DEF UploadPart, Path, serverVars, ReportsGrow
  <2> QED
    BY <1>6, <2>1, <2>4, <2>5 DEF SaveProcessed
<1> QED
  BY <1>2, <1>3, <1>4, <1>5, <1>6 DEF JobStep
-----------------------------------------------------------------------------
(* A request for a snapshot moves on, with no report yet.                  *)
LEMMA SnapMoves ==
    ASSUME SnapPart, NEW s \in Snaps, NEW q, IsSnap(q),
           snap' = [snap EXCEPT ![s] = q],
           q.step = "flushed" => Path(q.key) \in DOMAIN reports',
           ReportsGrow, UNCHANGED snapRows
    PROVE  SnapPart'
BY DEF ReportsGrow, SnapPart, IsSequence, IsSnap, Path

(* Each way in which such a request moves on makes a request of one.       *)
LEMMA SnapsAreSnaps ==
    ASSUME NEW q, IsSnap(q), NEW step
    PROVE  /\ IsSnap([q EXCEPT !.step = step])
           /\ [q EXCEPT !.step = step].step = step
           /\ [q EXCEPT !.step = step].key = q.key
           /\ IsSnap(Over(q)) /\ Over(q).step = "end"
BY DEF IsSnap, Over

(* Requests for snapshots keep the part of the snapshots.                  *)
LEMMA SnapKeeps ==
    ASSUME SnapPart, NEW s \in Snaps, SnapStep(s)
    PROVE  SnapPart' /\ ReportsGrow
<1> DEFINE q == snap[s]
<1>1. IsSnap(q) /\ IsSnap(Over(q)) /\ Over(q).step = "end"
  BY SnapsAreSnaps DEF SnapPart
<1>2. ASSUME NEW x, NEW y, snap' = [snap EXCEPT ![s].step = x, ![s].copy = y],
             x # "flushed", UNCHANGED <<snapRows, reports>>
      PROVE  SnapPart' /\ ReportsGrow
  <2> DEFINE r == [q EXCEPT !.step = x, !.copy = y]
  <2>1. snap' = [snap EXCEPT ![s] = r]
    BY <1>2 DEF SnapPart
  <2>2. IsSnap(r) /\ r.step = x
    BY <1>1 DEF IsSnap
  <2> HIDE DEF r
  <2> QED
    BY <1>2, <2>1, <2>2, SnapMoves DEF ReportsGrow
<1>3. ASSUME NEW x, NEW y, snap' = [snap EXCEPT ![s].step = x, ![s].key = y],
             x # "flushed", UNCHANGED <<snapRows, reports>>
      PROVE  SnapPart' /\ ReportsGrow
  <2> DEFINE r == [q EXCEPT !.step = x, !.key = y]
  <2>1. snap' = [snap EXCEPT ![s] = r]
    BY <1>3 DEF SnapPart
  <2>2. IsSnap(r) /\ r.step = x
    BY <1>1 DEF IsSnap
  <2> HIDE DEF r
  <2> QED
    BY <1>3, <2>1, <2>2, SnapMoves DEF ReportsGrow
<1>4. ASSUME snap' = [snap EXCEPT ![s] = Over(q)], ReportsGrow, UNCHANGED snapRows
      PROVE  SnapPart'
  BY <1>1, <1>4, SnapMoves
<1>5. CASE OpenSource(s)
  <2>1. CASE UNCHANGED snap
    BY <1>5, <2>1, PartsStay DEF OpenSource, ReportsGrow
  <2>2. CASE ~UNCHANGED snap
    BY <1>2, <1>5, <2>2 DEF OpenSource
  <2> QED
    BY <2>1, <2>2
<1>6. CASE CreateCopy(s)
  BY <1>3, <1>4, <1>6 DEF CreateCopy, ReportsGrow
<1>7. CASE FlushCopy(s)
  <2>1. ReportsGrow
    BY <1>7, StoredGrows DEF FlushCopy, ReportsGrow
  <2>2. CASE snap' = [snap EXCEPT ![s] = Over(q)]
    BY <1>4, <1>7, <2>1, <2>2 DEF FlushCopy
  <2>3. CASE /\ reports' = Stored(reports, Path(q.key), q.copy)
             /\ snap' = [snap EXCEPT ![s].step = "flushed"]
    <3> DEFINE r == [q EXCEPT !.step = "flushed"]
    <3>1. snap' = [snap EXCEPT ![s] = r]
      BY <2>3 DEF SnapPart
    <3>2. IsSnap(r) /\ r.key = q.key
      BY <1>1, SnapsAreSnaps
    <3> HIDE DEF r
    <3>3. Path(r.key) \in DOMAIN reports'
      BY <2>3, <3>2, StoredGrows
    <3> QED
      BY <1>7, <2>1, <3>1, <3>2, <3>3, SnapMoves DEF FlushCopy
  <2> QED
    BY <1>7, <2>1, <2>2, <2>3 DEF FlushCopy
<1>8. CASE SaveSnapshot(s)
  <2>1. ReportsGrow
    BY <1>8 DEF ReportsGrow, SaveSnapshot
  <2>2. CASE UNCHANGED snapRows
    BY <1>4, <1>8, <2>1, <2>2 DEF SaveSnapshot
  <2>3. CASE ~UNCHANGED snapRows
    <3>1. PICK row : row.key = q.key /\ snapRows' = SaveRecord(snapRows, 0, row)
      BY <1>8, <2>3 DEF SaveSnapshot
    <3>2. /\ IsSequence(snapRows')
          /\ \A i \in DOMAIN snapRows' :
                snapRows'[i] = row \/ (i \in DOMAIN snapRows /\ snapRows'[i] = snapRows[i])
      BY <3>1, SaveRecordIs DEF SnapPart
    <3>3. Path(row.key) \in DOMAIN reports
      BY <1>8, <3>1 DEF SaveSnapshot, SnapPart
    <3>4. \A i \in DOMAIN snapRows' : Path(snapRows'[i].key) \in DOMAIN reports
      BY <3>2, <3>3 DEF SnapPart
    <3>5. /\ snap' = [t \in Snaps |-> snap'[t]]
          /\ \A t \in Snaps : IsSnap(snap'[t])
          /\ \A t \in Snaps : snap'[t].step = "flushed" => Path(snap'[t].key) \in DOMAIN reports
      BY <1>1, <1>8 DEF SaveSnapshot, SnapPart
    <3> QED
      BY <1>8, <2>1, <3>2, <3>4, <3>5 DEF SaveSnapshot, SnapPart, Path
  <2> QED
    BY <2>1, <2>2, <2>3
<1> QED
  BY <1>5, <1>6, <1>7, <1>8 DEF SnapStep
-----------------------------------------------------------------------------
(* A request with a base commit moves on; objects are only added.          *)
LEMMA KeepMoves ==
    ASSUME DiffPart, NEW a \in Asks, NEW q, IsKeep(q),
           keep' = [keep EXCEPT ![a] = q],
           q.step = "save" => DiffPath(q.key) \in DOMAIN diffObjects',
           DOMAIN diffObjects \subseteq DOMAIN diffObjects', UNCHANGED diffRows
    PROVE  DiffPart'
BY DEF DiffPart, IsSequence, IsKeep, DiffPath

(* What is there before such a request keeps a diff.                       *)
LEMMA NoKeepIs == IsKeep(NoKeep) /\ NoKeep.step = "none"
BY DEF IsKeep, NoKeep

(* Requests with a base commit keep the part of the diffs.                 *)
LEMMA AskKeeps ==
    ASSUME DiffPart, NEW a \in Asks, AskStep(a)
    PROVE  DiffPart' /\ ReportsGrow
<1> DEFINE q == keep[a]
<1>1. IsKeep(q)
  BY DEF DiffPart
<1>2. CASE (OpenReport(a) \/ QueryCache(a) \/ GetCachedDiff(a))
  BY <1>2, PartsStay DEF OpenReport, QueryCache, GetCachedDiff, ReportsGrow
<1>3. CASE CompareCommits(a)
  <2>1. ReportsGrow
    BY <1>3 DEF CompareCommits, ReportsGrow
  <2>2. CASE UNCHANGED keep
    BY <1>3, <2>1, <2>2, PartsStay DEF CompareCommits
  <2>3. CASE ~UNCHANGED keep
    <3>1. PICK k : keep' = [keep EXCEPT ![a] = [step |-> "put", key |-> k]]
      BY <1>3, <2>3 DEF CompareCommits
    <3>2. IsKeep([step |-> "put", key |-> k])
      BY DEF IsKeep
    <3> QED
      BY <1>3, <2>1, <3>1, <3>2, KeepMoves DEF CompareCommits
  <2> QED
    BY <2>2, <2>3, <2>1
<1>4. CASE UseDiff(a)
  <2>1. ReportsGrow
    BY <1>4, StoredGrows DEF UseDiff, ReportsGrow
  <2> QED
    BY <1>4, <2>1, PartsStay DEF UseDiff
<1>5. CASE PutDiff(a)
  <2>1. ReportsGrow
    BY <1>5 DEF PutDiff, ReportsGrow
  <2>2. CASE keep' = [keep EXCEPT ![a] = NoKeep] /\ UNCHANGED diffObjects
    BY <1>5, <2>1, <2>2, NoKeepIs, KeepMoves DEF PutDiff
  <2>3. CASE /\ diffObjects' = Stored(diffObjects, DiffPath(q.key), <<q.key.commit, q.key.base>>)
             /\ keep' = [keep EXCEPT ![a].step = "save"]
    <3> DEFINE r == [q EXCEPT !.step = "save"]
    <3>1. keep' = [keep EXCEPT ![a] = r]
      BY <2>3 DEF DiffPart
    <3>2. IsKeep(r) /\ r.key = q.key
      BY <1>1 DEF IsKeep
    <3> HIDE DEF r
    <3>3. /\ DiffPath(r.key) \in DOMAIN diffObjects'
          /\ DOMAIN diffObjects \subseteq DOMAIN diffObjects'
      BY <2>3, <3>2, StoredGrows
    <3> QED
      BY <1>5, <2>1, <3>1, <3>2, <3>3, KeepMoves DEF PutDiff
  <2> QED
    BY <1>5, <2>2, <2>3 DEF PutDiff
<1>6. CASE SaveDiffRow(a)
  <2>1. ReportsGrow
    BY <1>6 DEF SaveDiffRow, ReportsGrow
  <2>2. CASE UNCHANGED diffRows
    BY <1>6, <2>1, <2>2, NoKeepIs, KeepMoves DEF SaveDiffRow
  <2>3. CASE ~UNCHANGED diffRows
    <3>1. PICK row : row.key = q.key /\ diffRows' = SaveRecord(diffRows, 0, row)
      BY <1>6, <2>3 DEF SaveDiffRow
    <3>2. /\ IsSequence(diffRows')
          /\ \A i \in DOMAIN diffRows' :
                diffRows'[i] = row \/ (i \in DOMAIN diffRows /\ diffRows'[i] = diffRows[i])
      BY <3>1, SaveRecordIs DEF DiffPart
    <3>3. DiffPath(row.key) \in DOMAIN diffObjects
      BY <1>6, <3>1 DEF SaveDiffRow, DiffIsStored, DiffPart
    <3>4. \A i \in DOMAIN diffRows' : DiffPath(diffRows'[i].key) \in DOMAIN diffObjects
      BY <3>2, <3>3 DEF DiffPart
    <3>5. /\ keep' = [b \in Asks |-> keep'[b]]
          /\ \A b \in Asks : IsKeep(keep'[b])
          /\ \A b \in Asks : keep'[b].step = "save" => DiffPath(keep'[b].key) \in DOMAIN diffObjects
      BY <1>6, NoKeepIs DEF SaveDiffRow, DiffPart
    <3> QED
      BY <1>6, <2>1, <3>2, <3>4, <3>5 DEF SaveDiffRow, DiffPart, DiffPath
  <2> QED
    BY <2>1, <2>2, <2>3
<1> QED
  BY <1>2, <1>3, <1>4, <1>5, <1>6 DEF AskStep

-----------------------------------------------------------------------------
(* A crash leaves goroutines that stored nothing they have not stored yet. *)
LEMMA CrashKeeps ==
    ASSUME ObjectInv, Crash
    PROVE  ObjectInv'
<1>1. UploadPart'
  <2>1. \A u \in Uploads : /\ IsJob(job'[u])
                           /\ job'[u].step = "flushed" => job'[u] = job[u]
    <3> TAKE u \in Uploads
    <3>1. IsJob(job[u])
      BY DEF ObjectInv, UploadPart
    <3>2. IsJob(Ended(job[u], "lost")) /\ Ended(job[u], "lost").step = "lost"
      BY <3>1, JobsAreJobs
    <3>3. job'[u] = IF job[u].step \in {"none", "end"} THEN job[u] ELSE Ended(job[u], "lost")
      BY DEF Crash, LoseJobs
    <3> QED
      BY <3>1, <3>2, <3>3
  <2>2. job' = [u \in Uploads |-> job'[u]]
    BY DEF Crash, LoseJobs
  <2> QED
    BY <2>1, <2>2 DEF ObjectInv, UploadPart, Crash, serverVars, Path, IsSequence
<1>2. SnapPart'
  <2>1. \A s \in Snaps : /\ IsSnap(snap'[s])
                         /\ snap'[s].step = "flushed" => snap'[s] = snap[s]
    BY SnapsAreSnaps DEF ObjectInv, SnapPart, Crash, LoseSnaps
  <2>2. snap' = [s \in Snaps |-> snap'[s]]
    BY DEF Crash, LoseSnaps
  <2> QED
    BY <2>1, <2>2 DEF ObjectInv, SnapPart, Crash, serverVars, Path, IsSequence
<1>3. DiffPart'
  BY NoKeepIs DEF ObjectInv, DiffPart, Crash, LoseAsks, DiffPath, IsSequence
<1> QED
  BY <1>1, <1>2, <1>3 DEF ObjectInv

(* A table without rows.                                                   *)
LEMMA EmptyIsSequence == IsSequence(<<>>) /\ DOMAIN <<>> = {}
BY DEF IsSequence

(* At first there is nothing.                                              *)
LEMMA InitObjects == Init => ObjectInv
<1> SUFFICES ASSUME Init PROVE ObjectInv
  OBVIOUS
<1>1. UploadPart
  <2>1. IsJob(NoJob) /\ NoJob.step = "none"
    BY DEF IsJob, NoJob
  <2> QED
    BY <2>1, EmptyIsSequence DEF Init, UploadInit, UploadPart
<1>2. SnapPart
  <2>1. IsSnap(NoSnap) /\ NoSnap.step = "idle"
    BY DEF IsSnap, NoSnap
  <2> QED
    BY <2>1, EmptyIsSequence DEF Init, SnapInit, SnapPart
<1>3. DiffPart
  BY NoKeepIs, EmptyIsSequence DEF Init, DiffCacheInit, DiffPart
<1> QED
  BY <1>1, <1>2, <1>3 DEF ObjectInv

(* Every step keeps the three parts.                                       *)
LEMMA StepKeepsObjects == ObjectInv /\ [Next]_vars => ObjectInv'
<1> SUFFICES ASSUME ObjectInv, [Next]_vars PROVE ObjectInv'
  OBVIOUS
<1> USE DEF ObjectInv
<1>1. CASE UNCHANGED vars
  BY <1>1, PartsStay DEF vars, serverVars, uploadVars, snapVars, diffCacheVars, ReportsGrow
<1>2. ASSUME NEW u \in Uploads, RunTool(u) PROVE ObjectInv'
  <2>1. UploadPart' /\ UNCHANGED serverVars
    BY <1>2, ToolKeeps DEF RunTool
  <2> QED
    BY <1>2, <2>1, PartsStay DEF RunTool, serverVars, snapVars, diffCacheVars, ReportsGrow
<1>3. ASSUME NEW u \in Uploads, RunJob(u) PROVE ObjectInv'
  BY <1>3, JobKeeps, PartsStay DEF RunJob, snapVars, diffCacheVars
<1>4. ASSUME NEW s \in Snaps, CreateSnapshot(s) PROVE ObjectInv'
  BY <1>4, SnapKeeps, PartsStay DEF CreateSnapshot, uploadVars, diffCacheVars
<1>5. ASSUME NEW a \in Asks, AnswerWithBase(a) PROVE ObjectInv'
  BY <1>5, AskKeeps, PartsStay DEF AnswerWithBase, uploadVars, snapVars
<1>6. CASE PassTime
  BY <1>6, PartsStay DEF PassTime, Tick, uploadVars, snapVars, diffCacheVars, ReportsGrow
<1>7. CASE Crash
  BY <1>7, CrashKeeps
<1> QED
  BY <1>1, <1>2, <1>3, <1>4, <1>5, <1>6, <1>7 DEF Next

(* RowsHaveObjects: every key in a table finds its object, whichever step  *)
(* of an upload, a snapshot or a cached diff failed, and however often the *)
(* server crashed in between.                                              *)
THEOREM TablesFindObjects == Spec => []RowsHaveObjects
<1>1. ObjectInv => RowsHaveObjects
  BY DEF ObjectInv, UploadPart, SnapPart, DiffPart, RowsHaveObjects
<1> QED
  BY <1>1, InitObjects, StepKeepsObjects, PTL DEF Spec
-----------------------------------------------------------------------------
(***************************************************************************)
(* Types, with what each step of a request knows.                          *)
(***************************************************************************)
CliSteps == {"start", "parsed", "put", "sent", "done"}

Paths == {"unittest", "snapshot"} \X {Short[c] : c \in Commits} \X Nat

ServerTypes ==
    /\ now \in Nat
    /\ \A p \in DOMAIN reports : p \in Paths /\ reports[p] \in Reports

Jobs == [step : JobSteps, from : Uploads \cup {None}, diff : Uploads \cup {None},
         key : Keys \cup {None}]

(* The object of a path was put there by an upload of this path.           *)
OwnObjects(objects) ==
    \A p \in DOMAIN objects : objects[p] \in Uploads /\ ObjectPath(objects[p]) = p

(* What the goroutine of an upload read is of its path; it has a key since *)
(* CreateReport, for the commit of the coverage it read.                   *)
JobIsRight(u) ==
    LET q == job[u]
    IN  /\ q.step # "none" => cli[u] = "done"
        /\ q.step \in {"none", "unread", "read", "ready"} => q.key = None
        /\ q.step \in {"read", "ready", "created", "flushed"} =>
              q.from \in Uploads /\ ObjectPath(q.from) = ObjectPath(u)
        /\ q.diff # None => ObjectPath(q.diff) = ObjectPath(u)
        /\ q.step \in {"created", "flushed"} =>
              q.key # None /\ q.key.commit = CommitOf[q.from]
        /\ q.key # None => q.key.type = "unittest"

UploadTypes ==
    /\ cli \in [Uploads -> CliSteps]
    /\ job \in [Uploads -> Jobs]
    /\ OwnObjects(covers) /\ OwnObjects(diffs)
    /\ \A u \in Uploads : JobIsRight(u)

SnapSteps == {"idle", "opened", "created", "flushed", "end"}

SnapRecords == [step : SnapSteps, copy : Reports \cup {None}, key : Keys \cup {None}]

SnapIsRight(s) ==
    LET q == snap[s]
    IN  /\ q.step \in {"idle", "opened"} => q.key = None
        /\ q.step \in {"opened", "created", "flushed"} => q.copy \in Reports
        /\ q.step \in {"created", "flushed"} => q.key # None
        /\ q.key # None => q.key.type = "snapshot" /\ q.key.at <= now

SnapRow == [commit : Commits, key : Keys, at : Nat, taken : Reports]

SnapTypes ==
    /\ snap \in [Snaps -> SnapRecords]
    /\ \A s \in Snaps : SnapIsRight(s)
    /\ snapRows \in Seq(SnapRow)
    /\ \A i \in DOMAIN snapRows : /\ snapRows[i].key.type = "snapshot"
                                  /\ snapRows[i].key.at <= snapRows[i].at
                                  /\ snapRows[i].at <= now

AskSteps == {"idle", "opened", "cached", "missed", "answered", "end"}
DiffKeys == [commit : Commits, base : Commits]
Diffs == Commits \X Commits

AskRecords == [step : AskSteps, kind : {"preview", "rebase", None},
               path : Paths \cup {None}, report : Reports \cup {None},
               base : Bases \cup {None}, diff : Diffs \cup {None},
               key : DiffKeys \cup {None}]

AskIsRight(a) ==
    LET q == ask[a]
    IN  /\ q.step = "idle" => q.kind = None
        /\ q.step \in {"opened", "cached", "missed", "answered"} =>
              q.path \in Paths /\ q.report \in Reports /\ q.base \in Bases
        /\ q.step = "cached" => q.key \in DiffKeys
        /\ q.step = "answered" => q.diff \in Diffs

DiffRow == [commit : Commits, base : Commits, key : DiffKeys]

KeepRecords == [step : {"none", "put", "save"}, key : DiffKeys \cup {None}]

AskTypes ==
    /\ ask \in [Asks -> AskRecords]
    /\ \A a \in Asks : AskIsRight(a)
    /\ keep \in [Asks -> KeepRecords]
    /\ \A a \in Asks : keep[a].step # "none" => keep[a].key \in DiffKeys
    /\ diffRows \in Seq(DiffRow)
    /\ \A p \in DOMAIN diffObjects : diffObjects[p] \in Diffs

TypeInv == ServerTypes /\ UploadTypes /\ SnapTypes /\ AskTypes

-----------------------------------------------------------------------------
(* Keys name paths, of their type.                                         *)
LEMMA PathsOfKeys ==
    ASSUME NEW k \in Keys
    PROVE  Path(k) \in Paths /\ Path(k)[1] = k.type
BY DEF Path, Paths, Keys

(* The objects of a path that another upload of this path joins.           *)
LEMMA ObjectsStayOwn ==
    ASSUME NEW objects, OwnObjects(objects), NEW u \in Uploads
    PROVE  OwnObjects(Stored(objects, ObjectPath(u), u))
BY DEF OwnObjects, Stored

(* The only steps that change the stored reports: what they store, where,  *)
(* and for whom.                                                           *)
BuildsReport ==
    \E u \in Uploads : /\ job[u].step = "created"
                       /\ reports' = Stored(reports, Path(job[u].key), BuiltReport(u))
CopiesReport ==
    \E s \in Snaps : /\ snap[s].step = "created"
                     /\ reports' = Stored(reports, Path(snap[s].key), snap[s].copy)
Rebased(a) == [ask[a].report EXCEPT !.base = ask[a].base, !.diff = ask[a].diff]
RebasesReport ==
    \E a \in Asks : /\ ask[a].step = "answered" /\ ask[a].kind = "rebase"
                    /\ reports' = Stored(reports, ask[a].path, Rebased(a))

(* Every other step leaves the stored reports alone.                       *)
LEMMA StepStores ==
    ASSUME [Next]_vars
    PROVE  UNCHANGED reports \/ BuildsReport \/ CopiesReport \/ RebasesReport
<1>1. CASE UNCHANGED vars
  BY <1>1 DEF vars, serverVars
<1>2. ASSUME NEW u \in Uploads, RunTool(u) PROVE UNCHANGED reports
  BY <1>2 DEF RunTool, CliStep, serverVars
<1>3. ASSUME NEW u \in Uploads, RunJob(u) PROVE UNCHANGED reports \/ BuildsReport
  BY <1>3 DEF RunJob, JobStep, serverVars, FlushReport, BuildsReport
<1>4. ASSUME NEW s \in Snaps, CreateSnapshot(s) PROVE UNCHANGED reports \/ CopiesReport
  BY <1>4 DEF CreateSnapshot, SnapStep, OpenSource, CreateCopy, FlushCopy, SaveSnapshot,
              CopiesReport
<1>5. ASSUME NEW a \in Asks, AnswerWithBase(a) PROVE UNCHANGED reports \/ RebasesReport
  BY <1>5 DEF AnswerWithBase, AskStep, OpenReport, QueryCache, GetCachedDiff, CompareCommits,
              UseDiff, PutDiff, SaveDiffRow, RebasesReport, Rebased
<1>6. CASE PassTime
  BY <1>6 DEF PassTime, Tick
<1>7. CASE Crash
  BY <1>7 DEF Crash, serverVars
<1> QED
  BY <1>1, <1>2, <1>3, <1>4, <1>5, <1>6, <1>7 DEF Next

(* Whatever they store is a report, at the path of a key.                  *)
LEMMA StoredReportsAreReports ==
    ASSUME TypeInv, [Next]_vars
    PROVE  \A p \in DOMAIN reports' : p \in Paths /\ reports'[p] \in Reports
<1> USE DEF TypeInv, ServerTypes
<1>1. CASE UNCHANGED reports
  BY <1>1
<1>2. CASE BuildsReport
  <2>1. PICK u \in Uploads : /\ job[u].step = "created"
                             /\ reports' = Stored(reports, Path(job[u].key), BuiltReport(u))
    BY <1>2 DEF BuildsReport
  <2>2. job[u] \in Jobs /\ JobIsRight(u)
    BY DEF UploadTypes
  <2>3. job[u].from \in Uploads /\ job[u].key \in Keys
    BY <2>1, <2>2 DEF JobIsRight, Jobs
  <2>4. job[u].diff \in Uploads \cup {None}
    BY <2>2 DEF Jobs
  <2>5. BuiltReport(u) \in Reports
    BY <2>3, <2>4, ToolAssumption DEF ToolAssumption, BuiltReport, Reports
  <2> QED
    BY <2>1, <2>3, <2>5, PathsOfKeys DEF Stored
<1>3. CASE CopiesReport
  <2>1. PICK s \in Snaps : /\ snap[s].step = "created"
                           /\ reports' = Stored(reports, Path(snap[s].key), snap[s].copy)
    BY <1>3 DEF CopiesReport
  <2>2. snap[s].copy \in Reports /\ snap[s].key \in Keys
    BY <2>1 DEF SnapTypes, SnapIsRight, SnapRecords
  <2> QED
    BY <2>1, <2>2, PathsOfKeys DEF Stored
<1>4. CASE RebasesReport
  <2>1. PICK a \in Asks : /\ ask[a].step = "answered"
                          /\ reports' = Stored(reports, ask[a].path, Rebased(a))
    BY <1>4 DEF RebasesReport
  <2>2. /\ ask[a].path \in Paths /\ ask[a].report \in Reports /\ ask[a].base \in Commits
        /\ ask[a].diff \in Diffs
    BY <2>1, BasesAssumption DEF AskTypes, AskIsRight, BasesAssumption
  <2>3. Rebased(a) \in Reports
    BY <2>2 DEF Rebased, Reports, Diffs
  <2> QED
    BY <2>1, <2>2, <2>3 DEF Stored
<1> QED
  BY <1>1, <1>2, <1>3, <1>4, StepStores
-----------------------------------------------------------------------------
(* The goroutine of one upload moves on.                                   *)
LEMMA JobMovesRight ==
    ASSUME UploadTypes, NEW u \in Uploads, NEW q \in Jobs,
           job' = [job EXCEPT ![u] = q], JobIsRight(u)', UNCHANGED <<cli, covers, diffs>>
    PROVE  UploadTypes'
<1>1. job' \in [Uploads -> Jobs]
  BY DEF UploadTypes
<1>2. \A v \in Uploads : JobIsRight(v)'
  <2> TAKE v \in Uploads
  <2>1. CASE v = u
    BY <2>1
  <2>2. CASE v # u
    BY <2>2 DEF UploadTypes, JobIsRight, ObjectPath
  <2> QED
    BY <2>1, <2>2
<1> QED
  BY <1>1, <1>2 DEF UploadTypes, OwnObjects, ObjectPath

(* Of a goroutine that ends the key is left.                               *)
LEMMA EndedIs ==
    ASSUME NEW q \in Jobs, NEW step \in {"end", "lost"}
    PROVE  /\ Ended(q, step) \in Jobs
           /\ Ended(q, step).step = step /\ Ended(q, step).key = q.key
           /\ Ended(q, step).diff = None
BY DEF Jobs, JobSteps, Ended, NoJob

(* A goroutine ends, with its key.                                         *)
LEMMA JobEnds ==
    ASSUME UploadTypes, NEW u \in Uploads, NEW step \in {"end", "lost"},
           job[u].step # "none", job' = [job EXCEPT ![u] = Ended(job[u], step)],
           UNCHANGED <<cli, covers, diffs>>
    PROVE  UploadTypes'
<1>1. job[u] \in Jobs /\ job' = [job EXCEPT ![u] = job'[u]] /\ job'[u] = Ended(job[u], step)
  BY DEF UploadTypes
<1>2. /\ job'[u] \in Jobs /\ job'[u].step = step
      /\ job'[u].key = job[u].key /\ job'[u].diff = None
  BY <1>1, EndedIs
<1>3. JobIsRight(u)'
  BY <1>2 DEF UploadTypes, JobIsRight
<1> QED
  BY <1>1, <1>2, <1>3, JobMovesRight

(* The tool puts its objects at its own path, and its goroutine starts     *)
(* when it is done.                                                        *)
LEMMA ToolKeepsTypes ==
    ASSUME UploadTypes, NEW u \in Uploads, CliStep(u)
    PROVE  UploadTypes'
<1> USE DEF CliSteps
<1>1. CASE ParseDirectory(u)
  BY <1>1 DEF ParseDirectory, UploadTypes, JobIsRight, OwnObjects, ObjectPath
<1>2. CASE UploadCoverage(u)
  <2>1. OwnObjects(covers)'
    BY <1>2, ObjectsStayOwn DEF UploadCoverage, UploadTypes, OwnObjects, ObjectPath
  <2> QED
    BY <1>2, <2>1 DEF UploadCoverage, UploadTypes, JobIsRight, OwnObjects, ObjectPath
<1>3. CASE UploadDiff(u)
  <2>1. OwnObjects(diffs)'
    BY <1>3, ObjectsStayOwn DEF UploadDiff, UploadTypes, OwnObjects, ObjectPath
  <2> QED
    BY <1>3, <2>1 DEF UploadDiff, UploadTypes, JobIsRight, OwnObjects, ObjectPath
<1>4. CASE UploadToCoverServer(u)
  <2>1. cli' \in [Uploads -> CliSteps] /\ cli'[u] = "done"
    BY <1>4 DEF UploadToCoverServer, UploadTypes
  <2>2. job' \in [Uploads -> Jobs]
    BY <1>4 DEF UploadToCoverServer, UploadTypes, Jobs, JobSteps
  <2>3. \A v \in Uploads : JobIsRight(v)'
    <3> TAKE v \in Uploads
    <3>1. JobIsRight(v) /\ job[v] \in Jobs
      BY DEF UploadTypes
    <3>2. CASE v = u
      <4>1. job[u].step = "none"
        BY <1>4, <3>1, <3>2 DEF UploadToCoverServer, JobIsRight
      <4>2. \/ job'[u] = job[u]
            \/ job'[u] = [job[u] EXCEPT !.step = "unread"]
        BY <1>4 DEF UploadToCoverServer, UploadTypes
      <4> QED
        BY <2>1, <3>1, <3>2, <4>1, <4>2 DEF JobIsRight, Jobs, ObjectPath
    <3>3. CASE v # u
      <4>1. job'[v] = job[v] /\ cli'[v] = cli[v]
        BY <1>4, <3>3 DEF UploadToCoverServer, UploadTypes
      <4> QED
        BY <3>1, <4>1 DEF JobIsRight, ObjectPath
    <3> QED
      BY <3>2, <3>3
  <2> QED
    BY <1>4, <2>1, <2>2, <2>3 DEF UploadToCoverServer, UploadTypes, OwnObjects, ObjectPath
<1> QED
  BY <1>1, <1>2, <1>3, <1>4 DEF CliStep

(* The goroutine reads objects of its upload's path, and gets a key for the*)
(* commit of the coverage.                                                 *)
LEMMA JobKeepsTypes ==
    ASSUME ServerTypes, UploadTypes, NEW u \in Uploads, JobStep(u)
    PROVE  UploadTypes'
<1> DEFINE q == job[u]
<1>1. q \in Jobs /\ JobIsRight(u)
  BY DEF UploadTypes
<1>2. ASSUME NEW r \in Jobs, job' = [job EXCEPT ![u] = r], JobIsRight(u)',
             UNCHANGED <<cli, covers, diffs>>
      PROVE  UploadTypes'
  BY <1>2, JobMovesRight
<1>3. CASE GetCoverage(u)
  <2>1. CASE job' = [job EXCEPT ![u] = Ended(q, "lost")]
    BY <1>3, <2>1, JobEnds DEF GetCoverage
  <2>2. ASSUME NEW from \in Objects(covers, ObjectPath(u)),
               job' = [job EXCEPT ![u].step = "read", ![u].from = from]
        PROVE  UploadTypes'
    <3> DEFINE r == [q EXCEPT !.step = "read", !.from = from]
    <3>1. from \in Uploads /\ ObjectPath(from) = ObjectPath(u)
      BY <2>2 DEF Objects, UploadTypes, OwnObjects
    <3>2. r \in Jobs /\ r.step = "read" /\ r.from = from /\ r.diff = q.diff /\ r.key = q.key
      BY <1>1, <3>1 DEF Jobs, JobSteps
    <3>3. job' = [job EXCEPT ![u] = r] /\ job'[u] = r
      BY <2>2 DEF UploadTypes
    <3> HIDE DEF r
    <3>4. JobIsRight(u)'
      BY <1>1, <1>3, <3>1, <3>2, <3>3 DEF GetCoverage, JobIsRight, ObjectPath
    <3> QED
      BY <1>2, <1>3, <3>2, <3>3, <3>4 DEF GetCoverage
  <2> QED
    BY <1>3, <2>1, <2>2 DEF GetCoverage
<1>4. CASE GetDiffData(u)
  <2>1. PICK diff \in Objects(diffs, ObjectPath(u)) \cup {None} :
           job' = [job EXCEPT ![u].step = "ready", ![u].diff = diff]
    BY <1>4 DEF GetDiffData
  <2> DEFINE r == [q EXCEPT !.step = "ready", !.diff = diff]
  <2>2. diff # None => diff \in Uploads /\ ObjectPath(diff) = ObjectPath(u)
    BY <2>1 DEF Objects, UploadTypes, OwnObjects
  <2>3. r \in Jobs /\ r.step = "ready" /\ r.from = q.from /\ r.diff = diff /\ r.key = q.key
    BY <1>1, <2>2 DEF Jobs, JobSteps
  <2>4. job' = [job EXCEPT ![u] = r] /\ job'[u] = r
    BY <2>1 DEF UploadTypes
  <2> HIDE DEF r
  <2>5. JobIsRight(u)'
    BY <1>1, <1>4, <2>2, <2>3, <2>4 DEF GetDiffData, JobIsRight, ObjectPath
  <2> QED
    BY <1>2, <1>4, <2>3, <2>4, <2>5 DEF GetDiffData
<1>5. CASE CreateReport(u)
  <2>1. CASE job' = [job EXCEPT ![u] = Ended(q, "lost")]
    BY <1>5, <2>1, JobEnds DEF CreateReport
  <2>2. CASE job' = [job EXCEPT ![u].step = "created",
                                ![u].key = NewKey("unittest", CommitOf[q.from])]
    <3> DEFINE k == NewKey("unittest", CommitOf[q.from])
               r == [q EXCEPT !.step = "created", !.key = k]
    <3>1. k \in Keys /\ k.type = "unittest" /\ k.commit = CommitOf[q.from]
      BY <1>1, <1>5, ToolAssumption
         DEF CreateReport, JobIsRight, ToolAssumption, NewKey, Keys, ServerTypes
    <3> HIDE DEF k
    <3>2. r \in Jobs /\ r.step = "created" /\ r.from = q.from /\ r.diff = q.diff /\ r.key = k
      BY <1>1, <3>1 DEF Jobs, JobSteps
    <3>3. job' = [job EXCEPT ![u] = r] /\ job'[u] = r
      BY <2>2 DEF UploadTypes, k
    <3> HIDE DEF r
    <3>4. k # None
      BY <3>1, ServerAssumption DEF ServerAssumption
    <3>5. JobIsRight(u)'
      BY <1>1, <1>5, <3>1, <3>2, <3>3, <3>4 DEF CreateReport, JobIsRight, ObjectPath
    <3> QED
      BY <1>2, <1>5, <3>2, <3>3, <3>5 DEF CreateReport
  <2> QED
    BY <1>5, <2>1, <2>2 DEF CreateReport
<1>6. CASE FlushReport(u)
  <2>1. CASE job' = [job EXCEPT ![u] = Ended(q, "lost")]
    BY <1>6, <2>1, JobEnds DEF FlushReport
  <2>2. CASE job' = [job EXCEPT ![u].step = "flushed"]
    <3> DEFINE r == [q EXCEPT !.step = "flushed"]
    <3>1. r \in Jobs /\ r.step = "flushed" /\ r.from = q.from /\ r.diff = q.diff /\ r.key = q.key
      BY <1>1 DEF Jobs, JobSteps
    <3>2. job' = [job EXCEPT ![u] = r] /\ job'[u] = r
      BY <2>2 DEF UploadTypes
    <3> HIDE DEF r
    <3>3. JobIsRight(u)'
      BY <1>1, <1>6, <3>1, <3>2 DEF FlushReport, JobIsRight, ObjectPath
    <3> QED
      BY <1>2, <1>6, <3>1, <3>2, <3>3 DEF FlushReport
  <2> QED
    BY <1>6, <2>1, <2>2 DEF FlushReport
<1>7. CASE SaveProcessed(u)
  <2>1. PICK step \in {"end", "lost"} : job' = [job EXCEPT ![u] = Ended(q, step)]
    BY <1>7 DEF SaveProcessed
  <2> QED
    BY <1>7, <2>1, JobEnds DEF SaveProcessed, ReportIsThere
<1> QED
  BY <1>3, <1>4, <1>5, <1>6, <1>7 DEF JobStep
-----------------------------------------------------------------------------
(* One request for a snapshot moves on.                                    *)
LEMMA SnapMovesRight ==
    ASSUME SnapTypes, NEW s \in Snaps, NEW q \in SnapRecords,
           snap' = [snap EXCEPT ![s] = q], SnapIsRight(s)', UNCHANGED <<now, snapRows>>
    PROVE  SnapTypes'
<1>1. snap' \in [Snaps -> SnapRecords]
  BY DEF SnapTypes
<1>2. \A t \in Snaps : SnapIsRight(t)'
  <2> TAKE t \in Snaps
  <2>1. CASE t = s
    BY <2>1
  <2>2. CASE t # s
    BY <2>2 DEF SnapTypes, SnapIsRight
  <2> QED
    BY <2>1, <2>2
<1> QED
  BY <1>1, <1>2 DEF SnapTypes

(* Of a request that ends key and copy are left, if there is a key.        *)
LEMMA OverIs ==
    ASSUME NEW q \in SnapRecords
    PROVE  /\ Over(q) \in SnapRecords
           /\ Over(q).step = "end" /\ Over(q).key = q.key
           /\ q.key # None => Over(q).copy = q.copy
BY DEF SnapRecords, SnapSteps, Over

(* Such a request ends, with its key and its copy.                         *)
LEMMA SnapEnds ==
    ASSUME SnapTypes, NEW s \in Snaps, snap' = [snap EXCEPT ![s] = Over(@)],
           UNCHANGED now
    PROVE  /\ snap' \in [Snaps -> SnapRecords]
           /\ \A t \in Snaps : SnapIsRight(t)'
<1>1. snap[s] \in SnapRecords /\ snap' = [snap EXCEPT ![s] = Over(snap[s])]
  BY DEF SnapTypes
<1>2. snap'[s] = Over(snap[s]) /\ snap' \in [Snaps -> SnapRecords]
  BY <1>1, OverIs DEF SnapTypes
<1>3. SnapIsRight(s)'
  BY <1>1, <1>2, OverIs DEF SnapTypes, SnapIsRight
<1>4. \A t \in Snaps : t # s => SnapIsRight(t)'
  BY <1>1 DEF SnapTypes, SnapIsRight
<1> QED
  BY <1>2, <1>3, <1>4

(* A request for a snapshot opens a report and makes a key for it now.     *)
LEMMA SnapKeepsTypes ==
    ASSUME ServerTypes, SnapTypes, NEW s \in Snaps, SnapStep(s)
    PROVE  SnapTypes'
<1> DEFINE q == snap[s]
<1>1. q \in SnapRecords /\ SnapIsRight(s) /\ UNCHANGED now
  BY DEF SnapTypes, SnapStep
<1>2. ASSUME snap' = [snap EXCEPT ![s] = Over(@)], UNCHANGED snapRows
      PROVE  SnapTypes'
  BY <1>1, <1>2, SnapEnds DEF SnapTypes
<1>3. CASE OpenSource(s)
  <2>1. CASE UNCHANGED snap
    BY <1>1, <1>3, <2>1 DEF OpenSource, SnapTypes, SnapIsRight
  <2>2. ASSUME NEW p \in DOMAIN reports,
               snap' = [snap EXCEPT ![s].step = "opened", ![s].copy = reports[p]]
        PROVE  SnapTypes'
    <3> DEFINE r == [q EXCEPT !.step = "opened", !.copy = reports[p]]
    <3>1. reports[p] \in Reports
      BY <2>2 DEF ServerTypes
    <3>2. r \in SnapRecords /\ r.step = "opened" /\ r.copy \in Reports /\ r.key = q.key
      BY <1>1, <3>1 DEF SnapRecords, SnapSteps
    <3>3. snap' = [snap EXCEPT ![s] = r] /\ snap'[s] = r
      BY <2>2 DEF SnapTypes
    <3> HIDE DEF r
    <3>4. SnapIsRight(s)'
      BY <1>1, <1>3, <3>2, <3>3 DEF OpenSource, SnapIsRight
    <3> QED
      BY <1>1, <1>3, <3>2, <3>3, <3>4, SnapMovesRight DEF OpenSource
  <2> QED
    BY <1>3, <2>1, <2>2 DEF OpenSource
<1>4. CASE CreateCopy(s)
  <2>1. CASE snap' = [snap EXCEPT ![s].step = "created",
                                  ![s].key = NewKey("snapshot", q.copy.commit)]
    <3> DEFINE k == NewKey("snapshot", q.copy.commit)
               r == [q EXCEPT !.step = "created", !.key = k]
    <3>1. q.copy.commit \in Commits
      BY <1>1, <1>4 DEF CreateCopy, SnapIsRight, Reports
    <3>2. k \in Keys /\ k.type = "snapshot" /\ k.at = now
      BY <3>1 DEF NewKey, Keys, ServerTypes
    <3> HIDE DEF k
    <3>3. r \in SnapRecords /\ r.step = "created" /\ r.copy = q.copy /\ r.key = k
      BY <1>1, <3>2 DEF SnapRecords, SnapSteps
    <3>4. snap' = [snap EXCEPT ![s] = r] /\ snap'[s] = r
      BY <2>1 DEF SnapTypes, k
    <3> HIDE DEF r
    <3>5. k # None
      BY <3>2, ServerAssumption DEF ServerAssumption
    <3>6. SnapIsRight(s)'
      BY <1>1, <1>4, <3>2, <3>3, <3>4, <3>5 DEF CreateCopy, SnapIsRight, ServerTypes
    <3> QED
      BY <1>1, <1>4, <3>3, <3>4, <3>6, SnapMovesRight DEF CreateCopy
  <2> QED
    BY <1>2, <1>4, <2>1 DEF CreateCopy
<1>5. CASE FlushCopy(s)
  <2>1. CASE snap' = [snap EXCEPT ![s].step = "flushed"]
    <3> DEFINE r == [q EXCEPT !.step = "flushed"]
    <3>1. r \in SnapRecords /\ r.step = "flushed" /\ r.copy = q.copy /\ r.key = q.key
      BY <1>1 DEF SnapRecords, SnapSteps
    <3>2. snap' = [snap EXCEPT ![s] = r] /\ snap'[s] = r
      BY <2>1 DEF SnapTypes
    <3> HIDE DEF r
    <3>3. SnapIsRight(s)'
      BY <1>1, <1>5, <3>1, <3>2 DEF FlushCopy, SnapIsRight
    <3> QED
      BY <1>1, <1>5, <3>1, <3>2, <3>3, SnapMovesRight DEF FlushCopy
  <2> QED
    BY <1>2, <1>5, <2>1 DEF FlushCopy
<1>6. CASE SaveSnapshot(s)
  <2>1. CASE UNCHANGED snapRows
    BY <1>2, <1>6, <2>1 DEF SaveSnapshot
  <2> DEFINE row == [commit |-> q.copy.commit, key |-> q.key, at |-> now, taken |-> q.copy]
  <2>2. CASE snapRows' = SaveRecord(snapRows, 0, row)
    <3>1. row \in SnapRow
      BY <1>1, <1>6 DEF SaveSnapshot, SnapIsRight, SnapRecords, Reports, SnapRow, ServerTypes
    <3>2. row.key.type = "snapshot" /\ row.key.at <= row.at /\ row.at = now
      BY <1>1, <1>6 DEF SaveSnapshot, SnapIsRight
    <3>3. /\ snap' \in [Snaps -> SnapRecords]
          /\ \A t \in Snaps : SnapIsRight(t)'
      BY <1>1, <1>6, SnapEnds DEF SaveSnapshot
    <3> HIDE DEF row
    <3>4. snapRows' = Append(snapRows, row)
      BY <2>2 DEF SaveRecord
    <3>5. snapRows' \in Seq(SnapRow)
      BY <3>1, <3>4 DEF SnapTypes
    <3>6. \A i \in DOMAIN snapRows' :
             snapRows'[i] = row \/ (i \in DOMAIN snapRows /\ snapRows'[i] = snapRows[i])
      BY <3>1, <3>4 DEF SnapTypes
    <3>7. \A i \in DOMAIN snapRows' : /\ snapRows'[i].key.type = "snapshot"
                                      /\ snapRows'[i].key.at <= snapRows'[i].at
                                      /\ snapRows'[i].at <= now
      BY <3>1, <3>2, <3>6 DEF SnapTypes, SnapRow, ServerTypes
    <3> QED
      BY <1>1, <3>3, <3>5, <3>7 DEF SnapTypes
  <2> QED
    BY <1>6, <2>1, <2>2 DEF SaveSnapshot
<1> QED
  BY <1>3, <1>4, <1>5, <1>6 DEF SnapStep

(* Time that passes makes no snapshot newer than its row.                  *)
LEMMA TimeKeepsSnaps ==
    ASSUME ServerTypes, SnapTypes, now' \in {now, now + 1}, UNCHANGED snapVars
    PROVE  SnapTypes'
<1>1. \A s \in Snaps : SnapIsRight(s)'
  <2> TAKE s \in Snaps
  <2>1. snap[s].key # None => snap[s].key \in Keys
    BY DEF SnapTypes, SnapRecords
  <2> QED
    BY <2>1 DEF snapVars, SnapTypes, SnapIsRight, ServerTypes, Keys
<1>2. \A i \in DOMAIN snapRows : snapRows[i].at \in Nat
  <2>1. \A i \in DOMAIN snapRows : snapRows[i] \in SnapRow
    BY DEF SnapTypes
  <2> QED
    BY <2>1 DEF SnapRow
<1>3. \A i \in DOMAIN snapRows : snapRows[i].at <= now'
  BY <1>2 DEF SnapTypes, ServerTypes
<1> QED
  BY <1>1, <1>3 DEF snapVars, SnapTypes
-----------------------------------------------------------------------------
(* One request with a base commit moves on.                                *)
LEMMA AskMovesRight ==
    ASSUME AskTypes, NEW a \in Asks, NEW q \in AskRecords,
           ask' = [ask EXCEPT ![a] = q], AskIsRight(a)',
           UNCHANGED <<keep, diffRows, diffObjects>>
    PROVE  AskTypes'
<1>1. ask' \in [Asks -> AskRecords]
  BY DEF AskTypes
<1>2. \A b \in Asks : AskIsRight(b)'
  <2> TAKE b \in Asks
  <2>1. CASE b = a
    BY <2>1
  <2>2. CASE b # a
    BY <2>2 DEF AskTypes, AskIsRight
  <2> QED
    BY <2>1, <2>2
<1> QED
  BY <1>1, <1>2 DEF AskTypes

(* Of a request that ends what it may have stored is left.                 *)
LEMMA ClosedIs ==
    ASSUME NEW q \in AskRecords
    PROVE  /\ Closed(q) \in AskRecords /\ Closed(q).step = "end"
           /\ q.kind = "rebase" => Closed(q).kind = q.kind /\ Closed(q).path = q.path
<1>1. NoAsk \in AskRecords
  BY DEF NoAsk, AskRecords, AskSteps
<1>2. q.kind = "rebase" => q.kind \in {"preview", "rebase", None} /\ q.path \in Paths \cup {None}
  BY DEF AskRecords
<1> QED
  BY <1>1, <1>2 DEF Closed, AskRecords, AskSteps, NoAsk

(* Such a request ends, with the path that it may have rebased.            *)
LEMMA AskEnds ==
    ASSUME AskTypes, NEW a \in Asks, ask' = [ask EXCEPT ![a] = Closed(@)]
    PROVE  ask' \in [Asks -> AskRecords] /\ \A b \in Asks : AskIsRight(b)'
<1>1. ask[a] \in AskRecords /\ ask' = [ask EXCEPT ![a] = Closed(ask[a])]
  BY DEF AskTypes
<1>2. ask'[a] = Closed(ask[a]) /\ ask' \in [Asks -> AskRecords]
  BY <1>1, ClosedIs DEF AskTypes
<1>3. AskIsRight(a)'
  BY <1>1, <1>2, ClosedIs DEF AskIsRight
<1>4. \A b \in Asks : b # a => AskIsRight(b)'
  BY <1>1 DEF AskTypes, AskIsRight
<1> QED
  BY <1>2, <1>3, <1>4

(* A request with a base commit opens a report, and has a diff and a key of*)
(* commits.                                                                *)
LEMMA AskKeepsTypes ==
    ASSUME ServerTypes, AskTypes, NEW a \in Asks, AskStep(a)
    PROVE  AskTypes'
<1> DEFINE q == ask[a]
<1>1. q \in AskRecords /\ AskIsRight(a)
  BY DEF AskTypes
<1>2. ASSUME ask' = [ask EXCEPT ![a] = Closed(@)], UNCHANGED <<keep, diffRows, diffObjects>>
      PROVE  AskTypes'
  BY <1>2, AskEnds DEF AskTypes
<1>3. CASE OpenReport(a)
  <2>1. CASE UNCHANGED ask
    BY <1>3, <2>1 DEF OpenReport, AskTypes, AskIsRight
  <2>2. ASSUME NEW p \in DOMAIN reports, NEW b \in Bases, NEW kind \in {"preview", "rebase"},
               ask' = [ask EXCEPT ![a] = [NoAsk EXCEPT
                          !.step = "opened", !.kind = kind, !.path = p,
                          !.report = reports[p], !.base = b]]
        PROVE  AskTypes'
    <3> DEFINE r == [NoAsk EXCEPT !.step = "opened", !.kind = kind, !.path = p,
                                  !.report = reports[p], !.base = b]
    <3>1. reports[p] \in Reports /\ p \in Paths
      BY <2>2 DEF ServerTypes
    <3>2. /\ r \in AskRecords /\ r.step = "opened" /\ r.path = p /\ r.report = reports[p]
          /\ r.base = b
      BY <2>2, <3>1 DEF AskRecords, AskSteps, NoAsk
    <3>3. ask' = [ask EXCEPT ![a] = r] /\ ask'[a] = r
      BY <2>2 DEF AskTypes
    <3> HIDE DEF r
    <3>4. AskIsRight(a)'
      BY <2>2, <3>1, <3>2, <3>3 DEF AskIsRight
    <3> QED
      BY <1>3, <3>2, <3>3, <3>4, AskMovesRight DEF OpenReport
  <2> QED
    BY <1>3, <2>1, <2>2 DEF OpenReport
<1>4. ASSUME NEW step \in {"missed", "cached", "answered"}, NEW key \in DiffKeys \cup {None},
             NEW diff \in Diffs \cup {None},
             ask' = [ask EXCEPT ![a] = [q EXCEPT !.step = step, !.key = key, !.diff = diff]],
             q.step \in {"opened", "cached", "missed"},
             step = "cached" => key \in DiffKeys, step = "answered" => diff \in Diffs,
             UNCHANGED <<keep, diffRows, diffObjects>>
      PROVE  AskTypes'
  <2> DEFINE r == [q EXCEPT !.step = step, !.key = key, !.diff = diff]
  <2>1. /\ r \in AskRecords /\ r.step = step /\ r.key = key /\ r.diff = diff
        /\ r.path = q.path /\ r.report = q.report /\ r.base = q.base
    BY <1>1, <1>4 DEF AskRecords, AskSteps
  <2>2. ask' = [ask EXCEPT ![a] = r] /\ ask'[a] = r
    BY <1>4 DEF AskTypes
  <2> HIDE DEF r
  <2>3. AskIsRight(a)'
    BY <1>1, <1>4, <2>1, <2>2 DEF AskIsRight
  <2> QED
    BY <1>4, <2>1, <2>2, <2>3, AskMovesRight
<1>5. q.key \in DiffKeys \cup {None} /\ q.diff \in Diffs \cup {None}
  BY <1>1 DEF AskRecords
<1>6. CASE QueryCache(a)
  <2>1. CASE ask' = [ask EXCEPT ![a].step = "missed"]
    <3>1. ask' = [ask EXCEPT ![a] = [q EXCEPT !.step = "missed", !.key = q.key, !.diff = q.diff]]
      BY <1>1, <2>1 DEF AskTypes, AskRecords
    <3> QED
      BY <1>4, <1>5, <1>6, <3>1 DEF QueryCache
  <2>2. ASSUME NEW i \in DOMAIN diffRows,
               ask' = [ask EXCEPT ![a].step = "cached", ![a].key = diffRows[i].key]
        PROVE  AskTypes'
    <3>1. diffRows[i].key \in DiffKeys
      <4>1. diffRows[i] \in DiffRow
        BY <2>2 DEF AskTypes
      <4> QED
        BY <4>1 DEF DiffRow
    <3>2. ask' = [ask EXCEPT ![a] = [q EXCEPT !.step = "cached", !.key = diffRows[i].key,
                                              !.diff = q.diff]]
      BY <1>1, <2>2 DEF AskTypes, AskRecords
    <3> QED
      BY <1>4, <1>5, <1>6, <3>1, <3>2 DEF QueryCache
  <2> QED
    BY <1>6, <2>1, <2>2 DEF QueryCache, DiffRowsOf
<1>7. CASE GetCachedDiff(a)
  <2>1. CASE ask' = [ask EXCEPT ![a].step = "missed"]
    <3>1. ask' = [ask EXCEPT ![a] = [q EXCEPT !.step = "missed", !.key = q.key, !.diff = q.diff]]
      BY <1>1, <2>1 DEF AskTypes, AskRecords
    <3> QED
      BY <1>4, <1>5, <1>7, <3>1 DEF GetCachedDiff
  <2>2. ASSUME NEW diff \in Objects(diffObjects, DiffPath(q.key)),
               ask' = [ask EXCEPT ![a].step = "answered", ![a].diff = diff]
        PROVE  AskTypes'
    <3>1. diff \in Diffs
      BY <2>2 DEF Objects, AskTypes
    <3>2. ask' = [ask EXCEPT ![a] = [q EXCEPT !.step = "answered", !.key = q.key, !.diff = diff]]
      BY <1>1, <2>2 DEF AskTypes, AskRecords
    <3> QED
      BY <1>4, <1>5, <1>7, <3>1, <3>2 DEF GetCachedDiff
  <2> QED
    BY <1>7, <2>1, <2>2 DEF GetCachedDiff
<1>8. CASE CompareCommits(a)
  <2>1. CASE ask' = [ask EXCEPT ![a] = Closed(@)] /\ UNCHANGED keep
    BY <1>2, <1>8, <2>1 DEF CompareCommits
  <2> DEFINE k == NewDiffKey(q.report.commit, q.base)
             d == <<q.report.commit, q.base>>
  <2>2. CASE /\ ask' = [ask EXCEPT ![a].step = "answered", ![a].diff = d]
             /\ keep' = [keep EXCEPT ![a] = [step |-> "put", key |-> k]]
    <3>1. q.report \in Reports /\ q.base \in Commits
      BY <1>1, <1>8, BasesAssumption DEF CompareCommits, AskIsRight, BasesAssumption
    <3>2. k \in DiffKeys /\ d \in Diffs
      BY <3>1 DEF NewDiffKey, DiffKeys, Diffs, Reports
    <3> HIDE DEF k, d
    <3> DEFINE r == [q EXCEPT !.step = "answered", !.diff = d]
    <3>3. /\ r \in AskRecords /\ r.step = "answered" /\ r.diff = d
          /\ r.path = q.path /\ r.report = q.report /\ r.base = q.base
      BY <1>1, <3>2 DEF AskRecords, AskSteps
    <3>4. ask' = [ask EXCEPT ![a] = r] /\ ask'[a] = r
      BY <2>2 DEF AskTypes
    <3> HIDE DEF r
    <3>5. AskIsRight(a)'
      BY <1>1, <1>8, <3>2, <3>3, <3>4 DEF CompareCommits, AskIsRight
    <3>6. ask' \in [Asks -> AskRecords] /\ \A b \in Asks : b # a => AskIsRight(b)'
      BY <3>3, <3>4 DEF AskTypes, AskIsRight
    <3>7. /\ keep' \in [Asks -> KeepRecords]
          /\ \A b \in Asks : keep'[b].step # "none" => keep'[b].key \in DiffKeys
      BY <2>2, <3>2 DEF AskTypes, KeepRecords
    <3> QED
      BY <1>8, <3>5, <3>6, <3>7 DEF CompareCommits, AskTypes
  <2> QED
    BY <1>8, <2>1, <2>2 DEF CompareCommits
<1>9. CASE UseDiff(a)
  BY <1>2, <1>9 DEF UseDiff
<1>10. ASSUME NEW r \in KeepRecords, keep' = [keep EXCEPT ![a] = r],
              r.step # "none" => r.key \in DiffKeys, UNCHANGED ask
       PROVE  /\ keep' \in [Asks -> KeepRecords]
              /\ \A b \in Asks : keep'[b].step # "none" => keep'[b].key \in DiffKeys
              /\ ask' \in [Asks -> AskRecords] /\ \A b \in Asks : AskIsRight(b)'
  BY <1>10 DEF AskTypes, AskIsRight
<1>11. NoKeep \in KeepRecords /\ NoKeep.step = "none" /\ keep[a] \in KeepRecords
  BY DEF NoKeep, KeepRecords, AskTypes
<1>12. CASE PutDiff(a)
  <2>1. keep[a].key \in DiffKeys
    BY <1>12 DEF PutDiff, AskTypes
  <2>2. CASE keep' = [keep EXCEPT ![a] = NoKeep] /\ UNCHANGED diffObjects
    BY <1>10, <1>11, <1>12, <2>2 DEF PutDiff, AskTypes
  <2>3. CASE /\ diffObjects' = Stored(diffObjects, DiffPath(keep[a].key),
                                      <<keep[a].key.commit, keep[a].key.base>>)
             /\ keep' = [keep EXCEPT ![a].step = "save"]
    <3> DEFINE r == [keep[a] EXCEPT !.step = "save"]
    <3>1. keep' = [keep EXCEPT ![a] = r]
      BY <2>3 DEF AskTypes
    <3>2. r \in KeepRecords /\ r.key = keep[a].key
      BY <1>11 DEF KeepRecords
    <3> HIDE DEF r
    <3>3. <<keep[a].key.commit, keep[a].key.base>> \in Diffs
      BY <2>1 DEF DiffKeys, Diffs
    <3>4. \A p \in DOMAIN diffObjects' : diffObjects'[p] \in Diffs
      BY <2>3, <3>3 DEF Stored, AskTypes
    <3> QED
      BY <1>10, <1>12, <2>1, <3>1, <3>2, <3>4 DEF PutDiff, AskTypes
  <2> QED
    BY <1>12, <2>2, <2>3 DEF PutDiff
<1>13. CASE SaveDiffRow(a)
  <2>1. keep[a].key \in DiffKeys
    BY <1>13 DEF SaveDiffRow, DiffIsStored, AskTypes
  <2>2. CASE UNCHANGED diffRows
    BY <1>10, <1>11, <1>13, <2>2 DEF SaveDiffRow, AskTypes
  <2> DEFINE row == [commit |-> keep[a].key.commit, base |-> keep[a].key.base,
                     key |-> keep[a].key]
  <2>3. CASE diffRows' = SaveRecord(diffRows, 0, row)
    <3>1. row \in DiffRow
      BY <2>1 DEF DiffKeys, DiffRow
    <3> HIDE DEF row
    <3>2. diffRows' \in Seq(DiffRow)
      BY <2>3, <3>1 DEF SaveRecord, AskTypes
    <3> QED
      BY <1>10, <1>11, <1>13, <3>2 DEF SaveDiffRow, AskTypes
  <2> QED
    BY <1>13, <2>2, <2>3 DEF SaveDiffRow
<1> QED
  BY <1>3, <1>6, <1>7, <1>8, <1>9, <1>12, <1>13 DEF AskStep
-----------------------------------------------------------------------------
(* A crash ends every goroutine and every request.                         *)
LEMMA CrashKeepsTypes ==
    ASSUME TypeInv, Crash
    PROVE  TypeInv'
<1> USE DEF TypeInv
<1>1. ServerTypes'
  BY DEF Crash, serverVars, ServerTypes
<1>2. UploadTypes'
  <2>1. \A u \in Uploads : /\ job[u] \in Jobs /\ JobIsRight(u)
                           /\ \/ job'[u] = job[u]
                              \/ job'[u] = Ended(job[u], "lost") /\ job[u].step # "none"
    BY DEF Crash, LoseJobs, UploadTypes
  <2>2. \A u \in Uploads : job'[u] \in Jobs
    BY <2>1, EndedIs
  <2>3. \A u \in Uploads : JobIsRight(u)'
    <3> TAKE u \in Uploads
    <3>1. CASE job'[u] = job[u]
      BY <2>1, <3>1 DEF Crash, JobIsRight, ObjectPath
    <3>2. CASE job'[u] = Ended(job[u], "lost") /\ job[u].step # "none"
      <4>1. job'[u].step = "lost" /\ job'[u].key = job[u].key /\ job'[u].diff = None
        BY <2>1, <3>2, EndedIs
      <4> QED
        BY <2>1, <3>2, <4>1 DEF Crash, JobIsRight
    <3> QED
      BY <2>1, <3>1, <3>2
  <2>4. job' = [u \in Uploads |-> job'[u]]
    BY DEF Crash, LoseJobs
  <2> QED
    BY <2>2, <2>3, <2>4 DEF Crash, UploadTypes, OwnObjects, ObjectPath
<1>3. SnapTypes'
  <2>1. \A s \in Snaps : /\ snap[s] \in SnapRecords /\ SnapIsRight(s)
                         /\ snap'[s] = snap[s] \/ snap'[s] = Over(snap[s])
    BY DEF Crash, LoseSnaps, SnapTypes
  <2>2. \A s \in Snaps : snap'[s] \in SnapRecords
    BY <2>1, OverIs
  <2>3. \A s \in Snaps : SnapIsRight(s)'
    <3> TAKE s \in Snaps
    <3>1. CASE snap'[s] = snap[s]
      BY <2>1, <3>1 DEF Crash, serverVars, SnapIsRight
    <3>2. CASE snap'[s] = Over(snap[s])
      <4>1. snap'[s].step = "end" /\ snap'[s].key = snap[s].key
        BY <2>1, <3>2, OverIs
      <4> QED
        BY <2>1, <4>1 DEF Crash, serverVars, SnapIsRight
    <3> QED
      BY <2>1, <3>1, <3>2
  <2>4. snap' = [s \in Snaps |-> snap'[s]]
    BY DEF Crash, LoseSnaps
  <2> QED
    BY <2>2, <2>3, <2>4 DEF Crash, serverVars, SnapTypes
<1>4. AskTypes'
  <2>1. \A a \in Asks : /\ ask[a] \in AskRecords /\ AskIsRight(a)
                        /\ ask'[a] = ask[a] \/ ask'[a] = Closed(ask[a])
    BY DEF Crash, LoseAsks, AskTypes
  <2>2. \A a \in Asks : ask'[a] \in AskRecords
    BY <2>1, ClosedIs
  <2>3. \A a \in Asks : AskIsRight(a)'
    <3> TAKE a \in Asks
    <3>1. CASE ask'[a] = ask[a]
      BY <2>1, <3>1 DEF AskIsRight
    <3>2. CASE ask'[a] = Closed(ask[a])
      <4>1. ask'[a].step = "end"
        BY <2>1, <3>2, ClosedIs
      <4> QED
        BY <4>1 DEF AskIsRight
    <3> QED
      BY <2>1, <3>1, <3>2
  <2>4. ask' = [a \in Asks |-> ask'[a]] /\ keep' = [a \in Asks |-> NoKeep]
    BY DEF Crash, LoseAsks
  <2>5. NoKeep \in KeepRecords /\ NoKeep.step = "none"
    BY DEF NoKeep, KeepRecords
  <2> QED
    BY <2>2, <2>3, <2>4, <2>5 DEF Crash, AskTypes
<1> QED
  BY <1>1, <1>2, <1>3, <1>4

(* At first there is nothing that is not of its type.                      *)
LEMMA InitTypes == Init => TypeInv
<1> SUFFICES ASSUME Init PROVE TypeInv
  OBVIOUS
<1>1. ServerTypes
  BY DEF Init, ServerInit, ServerTypes
<1>2. UploadTypes
  <2>1. NoJob \in Jobs /\ NoJob.step = "none" /\ NoJob.key = None /\ NoJob.diff = None
    BY DEF NoJob, Jobs, JobSteps
  <2> QED
    BY <2>1 DEF Init, UploadInit, UploadTypes, CliSteps, OwnObjects, JobIsRight
<1>3. SnapTypes
  <2>1. NoSnap \in SnapRecords /\ NoSnap.step = "idle" /\ NoSnap.key = None
    BY DEF NoSnap, SnapRecords, SnapSteps
  <2> QED
    BY <2>1 DEF Init, SnapInit, SnapTypes, SnapIsRight
<1>4. AskTypes
  <2>1. NoAsk \in AskRecords /\ NoAsk.step = "idle" /\ NoAsk.kind = None
    BY DEF NoAsk, AskRecords, AskSteps
  <2>2. NoKeep \in KeepRecords /\ NoKeep.step = "none"
    BY DEF NoKeep, KeepRecords
  <2> QED
    BY <2>1, <2>2 DEF Init, DiffCacheInit, AskTypes, AskIsRight
<1> QED
  BY <1>1, <1>2, <1>3, <1>4 DEF TypeInv

(* Other requests leave what a request has as it is.                       *)
LEMMA OthersKeepTypes ==
    /\ UploadTypes /\ UNCHANGED uploadVars => UploadTypes'
    /\ SnapTypes /\ UNCHANGED <<now, snapVars>> => SnapTypes'
    /\ AskTypes /\ UNCHANGED diffCacheVars => AskTypes'
<1>1. UploadTypes /\ UNCHANGED uploadVars => UploadTypes'
  BY DEF uploadVars, UploadTypes, JobIsRight, OwnObjects, ObjectPath
<1>2. SnapTypes /\ UNCHANGED <<now, snapVars>> => SnapTypes'
  BY DEF snapVars, SnapTypes, SnapIsRight
<1>3. AskTypes /\ UNCHANGED diffCacheVars => AskTypes'
  BY DEF diffCacheVars, AskTypes, AskIsRight
<1> QED
  BY <1>1, <1>2, <1>3

(* Every step keeps the types of all.                                      *)
LEMMA StepKeepsTypes == TypeInv /\ [Next]_vars => TypeInv'
<1> SUFFICES ASSUME TypeInv, [Next]_vars PROVE TypeInv'
  OBVIOUS
<1> USE DEF TypeInv
<1>1. now' \in Nat => ServerTypes'
  BY StoredReportsAreReports DEF ServerTypes
<1>2. CASE UNCHANGED vars
  BY <1>1, <1>2, OthersKeepTypes DEF vars, serverVars, ServerTypes
<1>3. ASSUME NEW u \in Uploads, RunTool(u) PROVE TypeInv'
  BY <1>1, <1>3, ToolKeepsTypes, OthersKeepTypes DEF RunTool, CliStep, serverVars, ServerTypes
<1>4. ASSUME NEW u \in Uploads, RunJob(u) PROVE TypeInv'
  <2>1. UNCHANGED now
    BY <1>4 DEF RunJob, JobStep, serverVars, FlushReport
  <2> QED
    BY <1>1, <1>4, <2>1, JobKeepsTypes, OthersKeepTypes DEF RunJob, ServerTypes
<1>5. ASSUME NEW s \in Snaps, CreateSnapshot(s) PROVE TypeInv'
  BY <1>1, <1>5, SnapKeepsTypes, OthersKeepTypes DEF CreateSnapshot, SnapStep, ServerTypes
<1>6. ASSUME NEW a \in Asks, AnswerWithBase(a) PROVE TypeInv'
  BY <1>1, <1>6, AskKeepsTypes, OthersKeepTypes DEF AnswerWithBase, AskStep, ServerTypes
<1>7. CASE PassTime
  <2>1. now' \in {now, now + 1} /\ now' \in Nat
    BY <1>7 DEF PassTime, Tick, ServerTypes
  <2> QED
    BY <1>1, <1>7, <2>1, TimeKeepsSnaps, OthersKeepTypes DEF PassTime
<1>8. CASE Crash
  BY <1>8, CrashKeepsTypes
<1> QED
  BY <1>2, <1>3, <1>4, <1>5, <1>6, <1>7, <1>8 DEF Next

(* They hold in every state.                                               *)
LEMMA TypesHold == Spec => []TypeInv
BY InitTypes, StepKeepsTypes, PTL DEF Spec

(* TypeOK: what every request has is of its type: of a goroutine that made *)
(* a key its coverage and its commit, of a snapshot a time after its key's,*)
(* of a request with a base commit the report it opened.                   *)
THEOREM RequestsAreTyped == Spec => []TypeOK
<1>1. TypeInv => TypeOK
  <2> SUFFICES ASSUME TypeInv PROVE TypeOK
    OBVIOUS
  <2>1. ASSUME NEW u \in Uploads
        PROVE  /\ job[u].step \in JobSteps
               /\ job[u].step # "none" => cli[u] = "done"
               /\ job[u].step \in {"read", "ready", "created", "flushed"} =>
                     job[u].from \in Uploads
               /\ job[u].step \in {"created", "flushed"} => job[u].key.commit \in Commits
    <3>1. job[u] \in Jobs /\ JobIsRight(u)
      BY DEF TypeInv, UploadTypes
    <3> QED
      BY <3>1 DEF Jobs, JobIsRight, Keys
  <2>2. ASSUME NEW i \in DOMAIN snapRows
        PROVE  snapRows[i].at \in snapRows[i].key.at..now
    <3>1. snapRows[i] \in SnapRow
      BY DEF TypeInv, SnapTypes
    <3>2. snapRows[i].at \in Nat /\ snapRows[i].key.at \in Nat
      BY <3>1 DEF SnapRow, Keys
    <3> QED
      BY <3>2 DEF TypeInv, SnapTypes, ServerTypes
  <2>3. ASSUME NEW a \in Asks, ask[a].step \in {"cached", "missed", "answered"}
        PROVE  ask[a].report # None /\ ask[a].base \in Bases
    BY <2>3, ToolAssumption DEF TypeInv, AskTypes, AskIsRight, ToolAssumption
  <2> QED
    BY <2>1, <2>2, <2>3 DEF TypeOK
<1> QED
  BY <1>1, TypesHold, PTL
-----------------------------------------------------------------------------
(***************************************************************************)
(* Rows of uploads: one for each upload that called the server, which gets *)
(* its key when the goroutine ends, and never again.                       *)
(***************************************************************************)
UploadRow == [upload : Uploads, commit : Commits, key : Keys \cup {None}]

RowInv ==
    /\ rows \in Seq(UploadRow)
    /\ \A i \in DOMAIN rows : rows[i].commit = CommitOf[rows[i].upload]
    /\ \A i, j \in DOMAIN rows : rows[i].upload = rows[j].upload => i = j
    /\ \A u \in Uploads : job[u].step # "none" <=> \E i \in DOMAIN rows : rows[i].upload = u
    /\ \A i \in DOMAIN rows : rows[i].key # None =>
          job[rows[i].upload].step = "end" /\ job[rows[i].upload].key = rows[i].key

(* What a step may do to the rows: nothing while no goroutine begins and   *)
(* none that has ended moves, or one row more, or the key of one row.      *)
RowsStay ==
    /\ UNCHANGED rows
    /\ \A u \in Uploads : /\ job'[u].step = "none" <=> job[u].step = "none"
                          /\ job[u].step = "end" => job'[u] = job[u]
RowAdded(u) ==
    /\ job[u].step = "none" /\ job' = [job EXCEPT ![u].step = "unread"]
    /\ rows' = Append(rows, Row(u, None))
RowSaved(u) ==
    /\ job[u].step = "flushed" /\ job' = [job EXCEPT ![u] = Ended(@, "end")]
    /\ rows' = SaveRecord(rows, TaskId(u), Row(u, job[u].key))

(* Nothing else happens to the rows.                                       *)
LEMMA RowSteps ==
    ASSUME TypeInv, [Next]_vars
    PROVE  RowsStay \/ \E u \in Uploads : RowAdded(u) \/ RowSaved(u)
<1> USE DEF TypeInv, UploadTypes
<1>1. CASE UNCHANGED <<rows, job>>
  BY <1>1 DEF RowsStay
<1>2. ASSUME NEW u \in Uploads, RunTool(u), ~UNCHANGED <<rows, job>>
      PROVE  RowAdded(u)
  <2>1. UploadToCoverServer(u)
    BY <1>2 DEF RunTool, CliStep, ParseDirectory, UploadCoverage, UploadDiff
  <2>2. job[u].step = "none"
    BY <2>1 DEF UploadToCoverServer, JobIsRight
  <2> QED
    BY <1>2, <2>1, <2>2 DEF UploadToCoverServer, RowAdded, SaveRecord
<1>3. ASSUME NEW u \in Uploads, NEW r, job' = [job EXCEPT ![u] = r], UNCHANGED rows,
             r.step # "none", job[u].step \notin {"none", "end"}
      PROVE  RowsStay
  BY <1>3 DEF RowsStay
<1>4. ASSUME NEW u \in Uploads, RunJob(u)
      PROVE  RowsStay \/ RowSaved(u)
  <2>1. job[u] \in Jobs
    OBVIOUS
  <2>2. Ended(job[u], "lost").step = "lost"
    BY <2>1, EndedIs
  <2>3. ASSUME job' = [job EXCEPT ![u] = Ended(@, "lost")], UNCHANGED rows,
               job[u].step \notin {"none", "end"}
        PROVE  RowsStay
    <3>1. job' = [job EXCEPT ![u] = Ended(job[u], "lost")]
      BY <2>3
    <3> QED
      BY <1>3, <2>2, <2>3, <3>1
  <2>4. CASE GetCoverage(u)
    <3>1. ASSUME NEW from, job' = [job EXCEPT ![u].step = "read", ![u].from = from]
          PROVE  RowsStay
      <4>1. job' = [job EXCEPT ![u] = [job[u] EXCEPT !.step = "read", !.from = from]]
        BY <3>1
      <4>2. [job[u] EXCEPT !.step = "read", !.from = from].step = "read"
        BY <2>1 DEF Jobs
      <4> QED
        BY <1>3, <2>4, <4>1, <4>2 DEF GetCoverage
    <3> QED
      BY <2>3, <2>4, <3>1 DEF GetCoverage
  <2>5. CASE GetDiffData(u)
    <3>1. PICK diff : job' = [job EXCEPT ![u].step = "ready", ![u].diff = diff]
      BY <2>5 DEF GetDiffData
    <3>2. job' = [job EXCEPT ![u] = [job[u] EXCEPT !.step = "ready", !.diff = diff]]
      BY <3>1
    <3>3. [job[u] EXCEPT !.step = "ready", !.diff = diff].step = "ready"
      BY <2>1 DEF Jobs
    <3> QED
      BY <1>3, <2>5, <3>2, <3>3 DEF GetDiffData
  <2>6. CASE CreateReport(u)
    <3>1. ASSUME NEW k, job' = [job EXCEPT ![u].step = "created", ![u].key = k]
          PROVE  RowsStay
      <4>1. job' = [job EXCEPT ![u] = [job[u] EXCEPT !.step = "created", !.key = k]]
        BY <3>1
      <4>2. [job[u] EXCEPT !.step = "created", !.key = k].step = "created"
        BY <2>1 DEF Jobs
      <4> QED
        BY <1>3, <2>6, <4>1, <4>2 DEF CreateReport
    <3> QED
      BY <2>3, <2>6, <3>1 DEF CreateReport
  <2>7. CASE FlushReport(u)
    <3>1. CASE job' = [job EXCEPT ![u].step = "flushed"]
      <4>1. job' = [job EXCEPT ![u] = [job[u] EXCEPT !.step = "flushed"]]
        BY <3>1
      <4>2. [job[u] EXCEPT !.step = "flushed"].step = "flushed"
        BY <2>1 DEF Jobs
      <4> QED
        BY <1>3, <2>7, <4>1, <4>2 DEF FlushReport
    <3> QED
      BY <2>3, <2>7, <3>1 DEF FlushReport
  <2>8. CASE SaveProcessed(u)
    BY <2>3, <2>8 DEF SaveProcessed, ReportIsThere, RowSaved
  <2> QED
    BY <1>4, <2>4, <2>5, <2>6, <2>7, <2>8 DEF RunJob, JobStep
<1>5. CASE Crash
  <2>1. \A u \in Uploads : job[u] \in Jobs /\ Ended(job[u], "lost").step = "lost"
    BY EndedIs
  <2> QED
    BY <1>5, <2>1 DEF Crash, LoseJobs, RowsStay
<1>6. CASE PassTime \/ UNCHANGED vars
          \/ (\E s \in Snaps : CreateSnapshot(s)) \/ (\E a \in Asks : AnswerWithBase(a))
  <2>1. UNCHANGED <<rows, job>>
    BY <1>6 DEF PassTime, CreateSnapshot, AnswerWithBase, uploadVars, vars
  <2> QED
    BY <1>1, <2>1
<1> QED
  BY <1>1, <1>2, <1>4, <1>5, <1>6 DEF Next

(* The row of a task is the one its upload added.                          *)
LEMMA RowOfTask ==
    ASSUME RowInv, NEW u \in Uploads, RowSaved(u)
    PROVE  /\ TaskId(u) \in DOMAIN rows /\ rows[TaskId(u)].upload = u
           /\ rows' = [rows EXCEPT ![TaskId(u)] = Row(u, job[u].key)]
<1>1. \E i \in DOMAIN rows : rows[i].upload = u
  BY DEF RowInv, RowSaved
<1>2. TaskId(u) \in DOMAIN rows /\ rows[TaskId(u)].upload = u
  BY <1>1 DEF TaskId
<1>3. TaskId(u) # 0
  BY <1>2 DEF RowInv
<1> QED
  BY <1>2, <1>3 DEF RowSaved, SaveRecord

(* A row is added for an upload that has none, and saved once, at the end. *)
LEMMA StepKeepsRows ==
    ASSUME TypeInv, RowInv, [Next]_vars
    PROVE  RowInv'
<1>1. CASE RowsStay
  <2>1. \A i \in DOMAIN rows : rows[i].upload \in Uploads
    <3>1. \A i \in DOMAIN rows : rows[i] \in UploadRow
      BY DEF RowInv
    <3> QED
      BY <3>1 DEF UploadRow
  <2> QED
    BY <1>1, <2>1 DEF RowsStay, RowInv
<1>2. ASSUME NEW u \in Uploads, RowAdded(u)
      PROVE  RowInv'
  <2> DEFINE row == Row(u, None)
  <2>1. row \in UploadRow /\ row.upload = u /\ row.commit = CommitOf[u] /\ row.key = None
    BY ToolAssumption DEF ToolAssumption, Row, UploadRow
  <2>2. \A v \in Uploads : /\ job'[v].step # "none" <=> v = u \/ job[v].step # "none"
                           /\ job[v].step = "end" => job'[v] = job[v]
    <3>1. \A v \in Uploads : v # u => job'[v] = job[v]
      BY <1>2 DEF RowAdded, TypeInv, UploadTypes
    <3>2. job[u].step = "none" /\ job'[u].step = "unread"
      BY <1>2 DEF RowAdded, TypeInv, UploadTypes, Jobs
    <3> QED
      BY <3>1, <3>2
  <2> HIDE DEF row
  <2>3. /\ rows' = Append(rows, row) /\ rows \in Seq(UploadRow)
        /\ rows' \in Seq(UploadRow) /\ Len(rows) \in Nat
        /\ DOMAIN rows = 1..Len(rows) /\ DOMAIN rows' = 1..Len(rows) + 1
    BY <1>2, <2>1 DEF RowAdded, RowInv, row
  <2>4. /\ \A i \in DOMAIN rows : i \in DOMAIN rows' /\ rows'[i] = rows[i]
        /\ Len(rows) + 1 \in DOMAIN rows' /\ rows'[Len(rows) + 1] = row
        /\ \A i \in DOMAIN rows' : i \in DOMAIN rows \/ i = Len(rows) + 1
    BY <2>1, <2>3
  <2>5. \A i \in DOMAIN rows : rows[i].upload # u
    BY <1>2 DEF RowAdded, RowInv
  <2>6. \A i \in DOMAIN rows : rows[i].upload \in Uploads
    <3>1. \A i \in DOMAIN rows : rows[i] \in UploadRow
      BY DEF RowInv
    <3> QED
      BY <3>1 DEF UploadRow
  <2>7. \A i \in DOMAIN rows' : rows'[i].commit = CommitOf[rows'[i].upload]
    BY <2>1, <2>4 DEF RowInv
  <2>8. \A i, j \in DOMAIN rows' : rows'[i].upload = rows'[j].upload => i = j
    BY <2>1, <2>4, <2>5 DEF RowInv
  <2>9. \A v \in Uploads : job'[v].step # "none" <=> \E i \in DOMAIN rows' : rows'[i].upload = v
    BY <2>1, <2>2, <2>4 DEF RowInv
  <2>10. \A i \in DOMAIN rows' : rows'[i].key # None =>
            job'[rows'[i].upload].step = "end" /\ job'[rows'[i].upload].key = rows'[i].key
    BY <2>1, <2>2, <2>4, <2>6 DEF RowInv
  <2> QED
    BY <2>3, <2>7, <2>8, <2>9, <2>10 DEF RowInv
<1>3. ASSUME NEW u \in Uploads, RowSaved(u)
      PROVE  RowInv'
  <2> DEFINE row == Row(u, job[u].key)
             id == TaskId(u)
  <2>1. job[u] \in Jobs /\ job[u].step = "flushed"
    BY <1>3 DEF TypeInv, UploadTypes, RowSaved
  <2>2. /\ row \in UploadRow /\ row.upload = u /\ row.commit = CommitOf[u]
        /\ row.key = job[u].key
    BY <2>1, ToolAssumption DEF ToolAssumption, Row, UploadRow, Jobs
  <2>3. /\ job'[u].step = "end" /\ job'[u].key = job[u].key
        /\ \A v \in Uploads : v # u => job'[v] = job[v]
    <3>1. job' = [job EXCEPT ![u] = Ended(job[u], "end")]
      BY <1>3 DEF RowSaved, TypeInv, UploadTypes
    <3> QED
      BY <2>1, <3>1, EndedIs DEF TypeInv, UploadTypes
  <2> HIDE DEF row
  <2>4. /\ id \in DOMAIN rows /\ rows[id].upload = u
        /\ rows' = [rows EXCEPT ![id] = row]
    BY <1>3, RowOfTask DEF row
  <2> HIDE DEF id
  <2>5. /\ rows' \in Seq(UploadRow) /\ DOMAIN rows' = DOMAIN rows
        /\ rows'[id] = row /\ \A i \in DOMAIN rows : i # id => rows'[i] = rows[i]
    BY <2>2, <2>4 DEF RowInv
  <2>6. \A i \in DOMAIN rows : rows[i].upload \in Uploads /\ rows'[i].upload = rows[i].upload
    <3>1. \A i \in DOMAIN rows : rows[i] \in UploadRow
      BY DEF RowInv
    <3> QED
      BY <2>2, <2>4, <2>5, <3>1 DEF UploadRow
  <2>7. \A i \in DOMAIN rows' : rows'[i].commit = CommitOf[rows'[i].upload]
    BY <2>2, <2>5 DEF RowInv
  <2>8. \A i, j \in DOMAIN rows' : rows'[i].upload = rows'[j].upload => i = j
    BY <2>5, <2>6 DEF RowInv
  <2>9. \A v \in Uploads : job'[v].step # "none" <=> \E i \in DOMAIN rows' : rows'[i].upload = v
    BY <2>1, <2>3, <2>5, <2>6 DEF RowInv
  <2>10. \A i \in DOMAIN rows' : rows'[i].key # None =>
            job'[rows'[i].upload].step = "end" /\ job'[rows'[i].upload].key = rows'[i].key
    <3> TAKE i \in DOMAIN rows'
    <3>1. CASE i = id
      BY <2>2, <2>3, <2>5, <3>1
    <3>2. CASE i # id
      <4>1. rows[i].upload # u
        BY <2>4, <2>5, <3>2 DEF RowInv
      <4> QED
        BY <2>3, <2>5, <2>6, <3>2, <4>1 DEF RowInv
    <3> QED
      BY <3>1, <3>2
  <2> QED
    BY <2>5, <2>7, <2>8, <2>9, <2>10 DEF RowInv
<1> QED
  BY <1>1, <1>2, <1>3, RowSteps
(* At first no upload has a row or a goroutine.                            *)
LEMMA InitRows == Init => RowInv
<1> SUFFICES ASSUME Init PROVE RowInv
  OBVIOUS
<1>1. \A u \in Uploads : job[u].step = "none"
  BY DEF Init, UploadInit, NoJob
<1>2. rows = <<>> /\ DOMAIN rows = {} /\ rows \in Seq(UploadRow)
  BY DEF Init, UploadInit
<1> QED
  BY <1>1, <1>2 DEF RowInv

(* The rows are right in every state.                                      *)
LEMMA RowsAreRight == Spec => [](TypeInv /\ RowInv)
<1>1. Init => TypeInv /\ RowInv
  BY InitTypes, InitRows
<1>2. TypeInv /\ RowInv /\ [Next]_vars => (TypeInv /\ RowInv)'
  BY StepKeepsTypes, StepKeepsRows
<1> QED
  BY <1>1, <1>2, PTL DEF Spec

(* The first row of a commit, once it has a key, stays as it is, and stays *)
(* the first.                                                              *)
LEMMA FirstRowStays ==
    ASSUME TypeInv, RowInv, [Next]_vars, NEW c \in Commits, NEW i \in Query(c),
           rows[i].key # None
    PROVE  /\ i \in DOMAIN rows' /\ rows'[i] = rows[i]
           /\ \A j \in DOMAIN rows' : rows'[j].commit = c => i <= j
<1>1. /\ i \in DOMAIN rows /\ rows[i].commit = c
      /\ \A j \in DOMAIN rows : rows[j].commit = c => i <= j
  BY DEF Query, RowsOf
<1>2. CASE RowsStay
  BY <1>1, <1>2 DEF RowsStay
<1>3. ASSUME NEW u \in Uploads, RowAdded(u)
      PROVE  /\ i \in DOMAIN rows' /\ rows'[i] = rows[i]
             /\ \A j \in DOMAIN rows' : rows'[j].commit = c => i <= j
  <2> DEFINE row == Row(u, None)
  <2>1. row \in UploadRow
    BY ToolAssumption DEF ToolAssumption, Row, UploadRow
  <2> HIDE DEF row
  <2>2. /\ rows' = Append(rows, row) /\ rows \in Seq(UploadRow) /\ Len(rows) \in Nat
        /\ DOMAIN rows = 1..Len(rows) /\ DOMAIN rows' = 1..Len(rows) + 1
    BY <1>3, <2>1 DEF RowAdded, RowInv, row
  <2>3. \A j \in DOMAIN rows : j \in DOMAIN rows' /\ rows'[j] = rows[j]
    BY <2>1, <2>2
  <2>4. \A j \in DOMAIN rows' : j \in DOMAIN rows \/ i <= j
    BY <1>1, <2>2
  <2> QED
    BY <1>1, <2>3, <2>4
<1>4. ASSUME NEW u \in Uploads, RowSaved(u)
      PROVE  /\ i \in DOMAIN rows' /\ rows'[i] = rows[i]
             /\ \A j \in DOMAIN rows' : rows'[j].commit = c => i <= j
  <2> DEFINE id == TaskId(u)
             row == Row(u, job[u].key)
  <2>1. id \in DOMAIN rows /\ rows[id].upload = u /\ rows' = [rows EXCEPT ![id] = row]
    BY <1>4, RowOfTask
  <2>2. row.commit = CommitOf[u]
    BY DEF Row
  <2> HIDE DEF id, row
  <2>3. i # id
    BY <1>1, <1>4, <2>1 DEF RowInv, RowSaved
  <2>4. \A j \in DOMAIN rows' : j \in DOMAIN rows /\ rows'[j].commit = rows[j].commit
    <3>1. rows[id].commit = CommitOf[u]
      BY <2>1 DEF RowInv
    <3> QED
      BY <2>1, <2>2, <3>1
  <2> QED
    BY <1>1, <2>1, <2>3, <2>4
<1> QED
  BY <1>2, <1>3, <1>4, RowSteps

(* ShownReportStays: what GetReportInfo shows of a commit is what it shows *)
(* ever after: no later upload, failure or crash changes the first row of a*)
(* commit that has a key.                                                  *)
THEOREM ReportsStayShown == Spec => ShownReportStays
<1>1. TypeInv /\ RowInv /\ [Next]_vars =>
         [\A c \in Commits : ShownKeys(c) # {} => ShownKeys(c)' = ShownKeys(c)]_vars
  <2> SUFFICES ASSUME TypeInv, RowInv, [Next]_vars, NEW c \in Commits, ShownKeys(c) # {}
               PROVE  ShownKeys(c)' = ShownKeys(c)
    OBVIOUS
  <2>1. PICK i \in Query(c) : rows[i].key # None
    BY DEF ShownKeys
  <2>2. /\ i \in DOMAIN rows' /\ rows'[i] = rows[i]
        /\ \A j \in DOMAIN rows' : rows'[j].commit = c => i <= j
    BY <2>1, FirstRowStays
  <2>3. /\ i \in DOMAIN rows /\ rows[i].commit = c
        /\ \A j \in DOMAIN rows : rows[j].commit = c => i <= j
    BY DEF Query, RowsOf
  <2>4. DOMAIN rows \subseteq Nat /\ DOMAIN rows' \subseteq Nat
    BY StepKeepsRows DEF RowInv
  <2>5. Query(c) = {i}
    BY <2>3, <2>4 DEF Query, RowsOf
  <2>6. Query(c)' = {i}
    BY <2>2, <2>3, <2>4 DEF Query, RowsOf
  <2> QED
    BY <2>2, <2>5, <2>6 DEF ShownKeys
<1> QED
  BY <1>1, RowsAreRight, PTL DEF Spec, ShownReportStays
-----------------------------------------------------------------------------
(***************************************************************************)
(* What stays: the key of a goroutine, the key and the copy of a request   *)
(* for a snapshot, the path of a request that may rebase a report.         *)
(***************************************************************************)
LEMMA KeysStay ==
    ASSUME TypeInv, [Next]_vars, NEW u \in Uploads, job[u].key # None
    PROVE  job'[u].key = job[u].key
<1> USE DEF TypeInv, UploadTypes
<1>1. job[u] \in Jobs /\ JobIsRight(u)
  OBVIOUS
<1>2. /\ job[u].step \notin {"none", "unread", "read", "ready"}
      /\ \A step \in {"end", "lost"} : Ended(job[u], step).key = job[u].key
  BY <1>1, EndedIs DEF JobIsRight
<1>3. CASE UNCHANGED job
  BY <1>3
<1>4. ASSUME NEW v \in Uploads, RunTool(v), ~UNCHANGED job
      PROVE  job'[u].key = job[u].key
  BY <1>1, <1>4 DEF RunTool, CliStep, ParseDirectory, UploadCoverage, UploadDiff,
                    UploadToCoverServer, Jobs
<1>5. ASSUME NEW v \in Uploads, RunJob(v)
      PROVE  job'[u].key = job[u].key
  <2>1. CASE v # u
    BY <1>5, <2>1 DEF RunJob, JobStep, GetCoverage, GetDiffData, CreateReport, FlushReport,
                      SaveProcessed
  <2>2. CASE v = u
    <3>1. CASE FlushReport(u)
      BY <1>1, <1>2, <3>1 DEF FlushReport, Jobs
    <3>2. CASE SaveProcessed(u)
      BY <1>2, <3>2 DEF SaveProcessed
    <3>3. ~GetCoverage(u) /\ ~GetDiffData(u) /\ ~CreateReport(u)
      BY <1>2 DEF GetCoverage, GetDiffData, CreateReport
    <3> QED
      BY <1>5, <2>2, <3>1, <3>2, <3>3 DEF RunJob, JobStep
  <2> QED
    BY <2>1, <2>2
<1>6. CASE Crash
  BY <1>2, <1>6 DEF Crash, LoseJobs
<1>7. CASE PassTime \/ UNCHANGED vars
          \/ (\E s \in Snaps : CreateSnapshot(s)) \/ (\E a \in Asks : AnswerWithBase(a))
  <2>1. UNCHANGED job
    BY <1>7 DEF PassTime, CreateSnapshot, AnswerWithBase, uploadVars, vars
  <2> QED
    BY <1>3, <2>1
<1> QED
  BY <1>3, <1>4, <1>5, <1>6, <1>7 DEF Next

(* A request for a snapshot makes one key only, and copies before.         *)
LEMMA CopiesStay ==
    ASSUME TypeInv, [Next]_vars, NEW s \in Snaps, snap[s].key # None
    PROVE  snap'[s].key = snap[s].key /\ snap'[s].copy = snap[s].copy
<1> USE DEF TypeInv, SnapTypes
<1>1. snap[s] \in SnapRecords /\ SnapIsRight(s)
  OBVIOUS
<1>2. /\ snap[s].step \notin {"idle", "opened"}
      /\ Over(snap[s]).key = snap[s].key /\ Over(snap[s]).copy = snap[s].copy
  BY <1>1, OverIs DEF SnapIsRight
<1>3. CASE UNCHANGED snap
  BY <1>3
<1>4. ASSUME NEW t \in Snaps, CreateSnapshot(t)
      PROVE  snap'[s].key = snap[s].key /\ snap'[s].copy = snap[s].copy
  <2>1. CASE t # s
    BY <1>4, <2>1 DEF CreateSnapshot, SnapStep, OpenSource, CreateCopy, FlushCopy, SaveSnapshot
  <2>2. CASE t = s
    <3>1. CASE FlushCopy(s)
      BY <1>1, <1>2, <3>1 DEF FlushCopy, SnapRecords
    <3>2. CASE SaveSnapshot(s)
      BY <1>2, <3>2 DEF SaveSnapshot
    <3>3. ~OpenSource(s) /\ ~CreateCopy(s)
      BY <1>2 DEF OpenSource, CreateCopy
    <3> QED
      BY <1>4, <2>2, <3>1, <3>2, <3>3 DEF CreateSnapshot, SnapStep
  <2> QED
    BY <2>1, <2>2
<1>5. CASE Crash
  BY <1>2, <1>5 DEF Crash, LoseSnaps
<1>6. CASE PassTime \/ UNCHANGED vars
          \/ (\E u \in Uploads : RunTool(u) \/ RunJob(u)) \/ (\E a \in Asks : AnswerWithBase(a))
  <2>1. UNCHANGED snap
    BY <1>6 DEF PassTime, RunTool, RunJob, AnswerWithBase, snapVars, vars
  <2> QED
    BY <1>3, <2>1
<1> QED
  BY <1>3, <1>4, <1>5, <1>6 DEF Next

(* A request with a base commit has a report while it is open.             *)
Open(a) == ask[a].step \in {"opened", "cached", "missed", "answered"}

(* What a step may do to such a request: it has what it had, or what is    *)
(* stored now, or nothing; and with a diff it has one of the cache or of   *)
(* GitHub.                                                                 *)
AskMoves(a) ==
    \/ ask'[a].step \in {"idle", "end"}
    \/ /\ ask'[a].step = "opened" /\ UNCHANGED reports
       /\ ask'[a].path \in DOMAIN reports /\ ask'[a].report = reports[ask'[a].path]
    \/ /\ Open(a)
       /\ ask'[a].path = ask[a].path /\ ask'[a].report = ask[a].report
       /\ ask'[a].base = ask[a].base

(* No request does anything else; one that may rebase a report leaves a    *)
(* trace that stays.                                                       *)
LEMMA AsksStay ==
    ASSUME TypeInv, [Next]_vars, NEW a \in Asks
    PROVE  /\ AskMoves(a)
           /\ ask[a].kind = "rebase" => ask'[a].kind = "rebase" /\ ask'[a].path = ask[a].path
<1> DEFINE Goal == /\ AskMoves(a)
                   /\ ask[a].kind = "rebase" =>
                         ask'[a].kind = "rebase" /\ ask'[a].path = ask[a].path
<1> USE DEF TypeInv, AskTypes
<1>1. ask[a] \in AskRecords /\ AskIsRight(a)
  OBVIOUS
<1>2. /\ Closed(ask[a]).step = "end"
      /\ ask[a].kind = "rebase" =>
            Closed(ask[a]).kind = "rebase" /\ Closed(ask[a]).path = ask[a].path
  BY <1>1, ClosedIs
<1>3. CASE UNCHANGED ask
  BY <1>1, <1>3 DEF AskMoves, Open, AskRecords, AskSteps
<1>4. CASE ask'[a] = Closed(ask[a])
  BY <1>2, <1>4 DEF AskMoves
<1>5. ASSUME NEW b \in Asks, AnswerWithBase(b)
      PROVE  Goal
  <2>1. CASE b # a
    <3>1. ask'[a] = ask[a]
      BY <1>5, <2>1 DEF AnswerWithBase, AskStep, OpenReport, QueryCache, GetCachedDiff,
                        CompareCommits, UseDiff, PutDiff, SaveDiffRow
    <3> QED
      BY <1>1, <3>1 DEF AskMoves, Open, AskRecords, AskSteps
  <2>2. CASE b = a
    <3>1. CASE OpenReport(a) /\ ~UNCHANGED ask
      <4>1. PICK p \in DOMAIN reports, c \in Bases, kind \in {"preview", "rebase"} :
               ask' = [ask EXCEPT ![a] = [NoAsk EXCEPT
                          !.step = "opened", !.kind = kind, !.path = p,
                          !.report = reports[p], !.base = c]]
        BY <3>1 DEF OpenReport
      <4>2. ask'[a].step = "opened" /\ ask'[a].path = p /\ ask'[a].report = reports[p]
        BY <4>1 DEF NoAsk
      <4>3. ask[a].kind # "rebase"
        BY <1>1, <3>1, BasesAssumption DEF OpenReport, AskIsRight, BasesAssumption
      <4> QED
        BY <3>1, <4>2, <4>3 DEF AskMoves, OpenReport
    <3>2. CASE QueryCache(a) \/ GetCachedDiff(a) \/ (CompareCommits(a) /\ ~UNCHANGED keep)
      <4>1. Open(a)
        BY <3>2 DEF QueryCache, GetCachedDiff, CompareCommits, Open
      <4>2. /\ ask'[a].path = ask[a].path /\ ask'[a].report = ask[a].report
            /\ ask'[a].base = ask[a].base /\ ask'[a].kind = ask[a].kind
        BY <1>1, <3>2 DEF QueryCache, GetCachedDiff, CompareCommits, AskRecords
      <4> QED
        BY <4>1, <4>2 DEF AskMoves
    <3>3. CASE (CompareCommits(a) /\ UNCHANGED keep) \/ UseDiff(a)
      <4>1. CASE ask' = [ask EXCEPT ![a] = Closed(@)]
        BY <1>4, <4>1
      <4>2. CASE CompareCommits(a) /\ UNCHANGED keep /\ ask' # [ask EXCEPT ![a] = Closed(@)]
        <5>1. Open(a)
          BY <4>2 DEF CompareCommits, Open
        <5>2. /\ ask'[a].path = ask[a].path /\ ask'[a].report = ask[a].report
              /\ ask'[a].base = ask[a].base /\ ask'[a].kind = ask[a].kind
          BY <1>1, <4>2 DEF CompareCommits, AskRecords
        <5> QED
          BY <5>1, <5>2 DEF AskMoves
      <4> QED
        BY <3>3, <4>1, <4>2 DEF UseDiff
    <3>4. CASE PutDiff(a) \/ SaveDiffRow(a)
      BY <1>3, <3>4 DEF PutDiff, SaveDiffRow
    <3>5. CASE CompareCommits(a)
      BY <3>2, <3>3, <3>5
    <3>6. CASE OpenReport(a)
      BY <1>3, <3>1, <3>6
    <3> QED
      BY <1>5, <2>2, <3>2, <3>3, <3>4, <3>5, <3>6 DEF AnswerWithBase, AskStep
  <2> QED
    BY <2>1, <2>2
<1>6. CASE Crash
  BY <1>1, <1>4, <1>6 DEF Crash, LoseAsks, AskMoves
<1>7. CASE PassTime \/ UNCHANGED vars
          \/ (\E u \in Uploads : RunTool(u) \/ RunJob(u)) \/ (\E s \in Snaps : CreateSnapshot(s))
  <2>1. UNCHANGED ask
    BY <1>7 DEF PassTime, RunTool, RunJob, CreateSnapshot, diffCacheVars, vars
  <2> QED
    BY <1>3, <2>1
<1> QED
  BY <1>3, <1>5, <1>6, <1>7 DEF Next
-----------------------------------------------------------------------------
(***************************************************************************)
(* Snapshots.                                                              *)
(***************************************************************************)
(* What was taken is there, unless the snapshot was rebased, or another one*)
(* has its path.                                                           *)
Past(path, taken) ==
    \/ reports[path] = taken
    \/ \E a \in Asks : ask[a].kind = "rebase" /\ ask[a].path = path
    \/ \E s \in Snaps : snap[s].key # None /\ Path(snap[s].key) = path /\ snap[s].copy # taken

StillPast(path, taken) ==
    \/ reports'[path] = taken
    \/ \E a \in Asks : ask'[a].kind = "rebase" /\ ask'[a].path = path
    \/ \E s \in Snaps : /\ snap'[s].key # None /\ Path(snap'[s].key) = path
                        /\ snap'[s].copy # taken

PastInv ==
    /\ \A s \in Snaps : snap[s].step = "flushed" => Past(Path(snap[s].key), snap[s].copy)
    /\ \A i \in DOMAIN snapRows : Past(Path(snapRows[i].key), snapRows[i].taken)

(* Reports of unit tests have other paths; who stores at the path leaves a *)
(* trace that stays.                                                       *)
LEMMA PastStays ==
    ASSUME TypeInv, [Next]_vars
    PROVE  \A path \in DOMAIN reports, taken \in Reports :
              path[1] = "snapshot" /\ Past(path, taken) => StillPast(path, taken)
<1> SUFFICES ASSUME NEW path \in DOMAIN reports, NEW taken \in Reports,
                    path[1] = "snapshot", Past(path, taken)
             PROVE  StillPast(path, taken)
  OBVIOUS
<1>1. ASSUME NEW a \in Asks, ask[a].kind = "rebase", ask[a].path = path
      PROVE  StillPast(path, taken)
  BY <1>1, AsksStay DEF StillPast
<1>2. ASSUME NEW s \in Snaps, snap[s].key # None, Path(snap[s].key) = path,
             snap[s].copy # taken
      PROVE  StillPast(path, taken)
  <2>1. snap'[s].key = snap[s].key /\ snap'[s].copy = snap[s].copy
    BY <1>2, CopiesStay
  <2> QED
    BY <1>2, <2>1 DEF StillPast
<1>3. CASE reports[path] = taken
  <2>1. CASE UNCHANGED reports
    BY <1>3, <2>1 DEF StillPast
  <2>2. CASE BuildsReport
    <3>1. PICK u \in Uploads : /\ job[u].step = "created"
                               /\ reports' = Stored(reports, Path(job[u].key), BuiltReport(u))
      BY <2>2 DEF BuildsReport
    <3>2. job[u].key \in Keys /\ job[u].key.type = "unittest"
      <4>1. job[u] \in Jobs /\ JobIsRight(u)
        BY DEF TypeInv, UploadTypes
      <4> QED
        BY <3>1, <4>1 DEF Jobs, JobIsRight
    <3>3. Path(job[u].key) # path
      BY <3>2, PathsOfKeys
    <3> QED
      BY <1>3, <3>1, <3>3 DEF Stored, StillPast
  <2>3. CASE CopiesReport
    <3>1. PICK s \in Snaps : /\ snap[s].step = "created"
                             /\ reports' = Stored(reports, Path(snap[s].key), snap[s].copy)
      BY <2>3 DEF CopiesReport
    <3>2. snap[s].key # None
      BY <3>1 DEF TypeInv, SnapTypes, SnapIsRight
    <3>3. CASE Path(snap[s].key) = path /\ snap[s].copy # taken
      BY <1>2, <3>2, <3>3
    <3>4. CASE Path(snap[s].key) # path \/ snap[s].copy = taken
      BY <1>3, <3>1, <3>4 DEF Stored, StillPast
    <3> QED
      BY <3>3, <3>4
  <2>4. CASE RebasesReport
    <3>1. PICK a \in Asks : /\ ask[a].kind = "rebase"
                            /\ reports' = Stored(reports, ask[a].path, Rebased(a))
      BY <2>4 DEF RebasesReport
    <3>2. CASE ask[a].path = path
      BY <1>1, <3>1, <3>2
    <3>3. CASE ask[a].path # path
      BY <1>3, <3>1, <3>3 DEF Stored, StillPast
    <3> QED
      BY <3>2, <3>3
  <2> QED
    BY <2>1, <2>2, <2>3, <2>4, StepStores
<1> QED
  BY <1>1, <1>2, <1>3 DEF Past

(* A copy is flushed as it is taken, and entered in the table as it is     *)
(* flushed.                                                                *)
FlushedNow(s) == reports'[Path(snap[s].key)] = snap[s].copy /\ snap[s].key # None

(* No other step flushes a copy or adds a row.                             *)
LEMMA CopySteps ==
    ASSUME TypeInv, [Next]_vars
    PROVE  /\ \A s \in Snaps : snap'[s].step = "flushed" =>
                 snap[s].step = "flushed" \/ FlushedNow(s)
           /\ \A i \in DOMAIN snapRows' :
                 \/ i \in DOMAIN snapRows /\ snapRows'[i] = snapRows[i]
                 \/ \E s \in Snaps : /\ snap[s].step = "flushed"
                                     /\ snapRows'[i].key = snap[s].key
                                     /\ snapRows'[i].taken = snap[s].copy
<1> DEFINE Goal == /\ \A s \in Snaps : snap'[s].step = "flushed" =>
                         snap[s].step = "flushed" \/ FlushedNow(s)
                   /\ \A i \in DOMAIN snapRows' :
                         \/ i \in DOMAIN snapRows /\ snapRows'[i] = snapRows[i]
                         \/ \E s \in Snaps : /\ snap[s].step = "flushed"
                                             /\ snapRows'[i].key = snap[s].key
                                             /\ snapRows'[i].taken = snap[s].copy
<1> USE DEF TypeInv, SnapTypes
<1>1. \A s \in Snaps : snap[s] \in SnapRecords /\ Over(snap[s]).step = "end"
  BY OverIs
<1>2. CASE UNCHANGED snapVars
  BY <1>2 DEF snapVars
<1>3. ASSUME NEW s \in Snaps, CreateSnapshot(s)
      PROVE  Goal
  <2>1. CASE OpenSource(s) \/ CreateCopy(s)
    BY <1>1, <2>1 DEF OpenSource, CreateCopy, SnapRecords
  <2>2. CASE FlushCopy(s)
    <3>1. snap[s].key # None
      BY <2>2 DEF FlushCopy, SnapIsRight
    <3>2. \A t \in Snaps : snap'[t].step = "flushed" =>
             snap[t].step = "flushed" \/ FlushedNow(t)
      BY <1>1, <2>2, <3>1 DEF FlushCopy, FlushedNow, Stored
    <3> QED
      BY <2>2, <3>2 DEF FlushCopy
  <2>3. CASE SaveSnapshot(s)
    <3>1. \A t \in Snaps : snap'[t].step = "flushed" => snap[t].step = "flushed"
      BY <1>1, <2>3 DEF SaveSnapshot
    <3>2. CASE UNCHANGED snapRows
      BY <3>1, <3>2
    <3>3. CASE ~UNCHANGED snapRows
      <4> DEFINE row == [commit |-> snap[s].copy.commit, key |-> snap[s].key,
                         at |-> now, taken |-> snap[s].copy]
      <4>1. row \in SnapRow
        BY <1>1, <2>3 DEF SaveSnapshot, SnapIsRight, SnapRecords, Reports, SnapRow, ServerTypes
      <4>2. row.key = snap[s].key /\ row.taken = snap[s].copy /\ snap[s].step = "flushed"
        BY <2>3 DEF SaveSnapshot
      <4>3. snapRows' = Append(snapRows, row)
        BY <2>3, <3>3 DEF SaveSnapshot, SaveRecord
      <4> HIDE DEF row
      <4>4. \A i \in DOMAIN snapRows' :
               snapRows'[i] = row \/ (i \in DOMAIN snapRows /\ snapRows'[i] = snapRows[i])
        BY <4>1, <4>3
      <4> QED
        BY <3>1, <4>2, <4>4
    <3> QED
      BY <3>2, <3>3
  <2> QED
    BY <1>3, <2>1, <2>2, <2>3 DEF CreateSnapshot, SnapStep
<1>4. CASE Crash
  BY <1>1, <1>4 DEF Crash, LoseSnaps
<1>5. CASE PassTime \/ UNCHANGED vars
          \/ (\E u \in Uploads : RunTool(u) \/ RunJob(u)) \/ (\E a \in Asks : AnswerWithBase(a))
  <2>1. UNCHANGED snapVars
    BY <1>5 DEF PassTime, RunTool, RunJob, AnswerWithBase, vars
  <2> QED
    BY <1>2, <2>1
<1> QED
  BY <1>2, <1>3, <1>4, <1>5 DEF Next

(* A copy that was flushed or entered in the table stays what it was.      *)
LEMMA StepKeepsPast ==
    ASSUME TypeInv, ObjectInv, PastInv, [Next]_vars
    PROVE  PastInv'
<1>1. \A s \in Snaps : snap[s].step = "flushed" =>
         StillPast(Path(snap[s].key), snap[s].copy)
  <2> SUFFICES ASSUME NEW s \in Snaps, snap[s].step = "flushed"
               PROVE  StillPast(Path(snap[s].key), snap[s].copy)
    OBVIOUS
  <2>1. snap[s].copy \in Reports /\ snap[s].key \in Keys /\ snap[s].key.type = "snapshot"
    BY DEF TypeInv, SnapTypes, SnapIsRight, SnapRecords
  <2>2. Path(snap[s].key) \in DOMAIN reports /\ Path(snap[s].key)[1] = "snapshot"
    BY <2>1, PathsOfKeys DEF ObjectInv, SnapPart
  <2> QED
    BY <2>1, <2>2, PastStays DEF PastInv
<1>2. \A i \in DOMAIN snapRows : StillPast(Path(snapRows[i].key), snapRows[i].taken)
  <2> SUFFICES ASSUME NEW i \in DOMAIN snapRows
               PROVE  StillPast(Path(snapRows[i].key), snapRows[i].taken)
    OBVIOUS
  <2>1. snapRows[i] \in SnapRow
    BY DEF TypeInv, SnapTypes
  <2>2. /\ snapRows[i].taken \in Reports /\ snapRows[i].key \in Keys
        /\ snapRows[i].key.type = "snapshot"
    BY <2>1 DEF SnapRow, TypeInv, SnapTypes
  <2>3. Path(snapRows[i].key) \in DOMAIN reports /\ Path(snapRows[i].key)[1] = "snapshot"
    BY <2>2, PathsOfKeys DEF ObjectInv, SnapPart
  <2> QED
    BY <2>2, <2>3, PastStays DEF PastInv
<1>3. \A s \in Snaps : snap'[s].step = "flushed" =>
         StillPast(Path(snap'[s].key), snap'[s].copy)
  <2> SUFFICES ASSUME NEW s \in Snaps, snap'[s].step = "flushed"
               PROVE  StillPast(Path(snap'[s].key), snap'[s].copy)
    OBVIOUS
  <2>1. snap[s].step = "flushed" \/ FlushedNow(s)
    BY CopySteps
  <2>2. snap[s].key # None
    BY <2>1 DEF FlushedNow, TypeInv, SnapTypes, SnapIsRight
  <2>3. snap'[s].key = snap[s].key /\ snap'[s].copy = snap[s].copy
    BY <2>2, CopiesStay
  <2>4. StillPast(Path(snap[s].key), snap[s].copy)
    BY <1>1, <2>1 DEF FlushedNow, StillPast
  <2> QED
    BY <2>3, <2>4
<1>4. \A i \in DOMAIN snapRows' : StillPast(Path(snapRows'[i].key), snapRows'[i].taken)
  BY <1>1, <1>2, CopySteps
<1> QED
  BY <1>3, <1>4 DEF PastInv, Past, StillPast, Path

(* SnapshotsArePast: a snapshot has what its report had when it was opened,*)
(* whatever uploads, failures and crashes follow, unless it is rebased     *)
(* itself or another snapshot of its path is made in its second.  Merges,  *)
(* which could have the snapshot as their base, are not in the module.     *)
THEOREM SnapshotsStay == Spec => []SnapshotsArePast
<1> DEFINE Inv == TypeInv /\ ObjectInv /\ PastInv
<1>1. Init => Inv
  <2> SUFFICES ASSUME Init PROVE PastInv
    BY InitTypes, InitObjects
  <2>1. DOMAIN snapRows = {} /\ \A s \in Snaps : snap[s].step = "idle"
    BY EmptyIsSequence DEF Init, SnapInit, NoSnap
  <2> QED
    BY <2>1 DEF PastInv
<1>2. Inv /\ [Next]_vars => Inv'
  BY StepKeepsTypes, StepKeepsObjects, StepKeepsPast
<1>3. Inv => SnapshotsArePast
  BY DEF PastInv, Past, SnapshotsArePast
<1> QED
  BY <1>1, <1>2, <1>3, PTL DEF Spec
-----------------------------------------------------------------------------
(***************************************************************************)
(* Where a report of a unit test is from.                                  *)
(***************************************************************************)
(* The goroutine of v made a key of this path, and read what r is of from  *)
(* v's objects.                                                            *)
MadeBy(v, path, r) ==
    /\ job[v].key # None /\ Path(job[v].key) = path
    /\ r.commit = CommitOf[r.from] /\ ObjectPath(r.from) = ObjectPath(v)

OriginInv ==
    /\ \A p \in DOMAIN reports : p[1] = "unittest" =>
          \E v \in Uploads : MadeBy(v, p, reports[p])
    /\ \A a \in Asks : Open(a) /\ ask[a].path[1] = "unittest" =>
          \E v \in Uploads : MadeBy(v, ask[a].path, ask[a].report)

StillMadeBy(v, path, r) ==
    /\ job'[v].key # None /\ Path(job'[v].key) = path
    /\ r.commit = CommitOf[r.from] /\ ObjectPath(r.from) = ObjectPath(v)

(* Reports are stored by the goroutine that made the key, or by a request  *)
(* that opened a report of this path.                                      *)
LEMMA StepKeepsOrigin ==
    ASSUME TypeInv, OriginInv, [Next]_vars
    PROVE  OriginInv'
<1>1. \A p \in DOMAIN reports : p[1] = "unittest" =>
         \E v \in Uploads : StillMadeBy(v, p, reports[p])
  BY KeysStay DEF OriginInv, MadeBy, StillMadeBy
<1>2. \A a \in Asks : Open(a) /\ ask[a].path[1] = "unittest" =>
         \E v \in Uploads : StillMadeBy(v, ask[a].path, ask[a].report)
  BY KeysStay DEF OriginInv, MadeBy, StillMadeBy
<1>3. \A p \in DOMAIN reports' : p[1] = "unittest" =>
         \E v \in Uploads : StillMadeBy(v, p, reports'[p])
  <2>1. CASE UNCHANGED reports
    BY <1>1, <2>1
  <2>2. CASE BuildsReport
    <3>1. PICK u \in Uploads : /\ job[u].step = "created"
                               /\ reports' = Stored(reports, Path(job[u].key), BuiltReport(u))
      BY <2>2 DEF BuildsReport
    <3>2. /\ job[u].key # None /\ job[u].from \in Uploads
          /\ ObjectPath(job[u].from) = ObjectPath(u)
      BY <3>1 DEF TypeInv, UploadTypes, JobIsRight
    <3>3. job'[u].key = job[u].key
      BY <3>2, KeysStay
    <3>4. StillMadeBy(u, Path(job[u].key), BuiltReport(u))
      BY <3>2, <3>3 DEF StillMadeBy, BuiltReport
    <3> QED
      BY <1>1, <3>1, <3>4 DEF Stored
  <2>3. CASE CopiesReport
    <3>1. PICK s \in Snaps : /\ snap[s].step = "created"
                             /\ reports' = Stored(reports, Path(snap[s].key), snap[s].copy)
      BY <2>3 DEF CopiesReport
    <3>2. snap[s].key \in Keys /\ snap[s].key.type = "snapshot"
      BY <3>1 DEF TypeInv, SnapTypes, SnapIsRight, SnapRecords
    <3>3. Path(snap[s].key)[1] = "snapshot"
      BY <3>2, PathsOfKeys
    <3> QED
      BY <1>1, <3>1, <3>3 DEF Stored
  <2>4. CASE RebasesReport
    <3>1. PICK a \in Asks : /\ ask[a].step = "answered"
                            /\ reports' = Stored(reports, ask[a].path, Rebased(a))
      BY <2>4 DEF RebasesReport
    <3>2. ask[a].report \in Reports
      BY <3>1 DEF TypeInv, AskTypes, AskIsRight
    <3>3. Rebased(a).commit = ask[a].report.commit /\ Rebased(a).from = ask[a].report.from
      BY <3>2 DEF Rebased, Reports
    <3>4. ask[a].path[1] = "unittest" =>
             \E v \in Uploads : StillMadeBy(v, ask[a].path, Rebased(a))
      BY <1>2, <3>1, <3>3 DEF Open, StillMadeBy
    <3> QED
      BY <1>1, <3>1, <3>4 DEF Stored
  <2> QED
    BY <2>1, <2>2, <2>3, <2>4, StepStores
<1>4. \A a \in Asks :
         ask'[a].step \in {"opened", "cached", "missed", "answered"}
         /\ ask'[a].path[1] = "unittest" =>
            \E v \in Uploads : StillMadeBy(v, ask'[a].path, ask'[a].report)
  BY <1>1, <1>2, AsksStay DEF AskMoves
<1> QED
  BY <1>3, <1>4 DEF OriginInv, Open, MadeBy, StillMadeBy, Path, ObjectPath

(* Each upload with a key has a row, so there are only so many of one path.*)
LEMMA RivalsAreFinite ==
    ASSUME TypeInv, RowInv, NEW path
    PROVE  IsFiniteSet(Rivals(path))
<1> DEFINE Uploaded == {rows[i].upload : i \in 1..Len(rows)}
<1>1. Len(rows) \in Nat /\ DOMAIN rows = 1..Len(rows)
  BY DEF RowInv
<1>2. IsFiniteSet(1..Len(rows))
  BY <1>1, FS_Interval
<1>3. IsFiniteSet(Uploaded)
  <2> DEFINE f == [i \in 1..Len(rows) |-> rows[i].upload]
  <2>1. f \in Surjection(1..Len(rows), Uploaded)
    BY DEF Surjection
  <2> QED
    BY <1>2, <2>1, FS_Surjection
<1>4. Rivals(path) \subseteq Uploaded
  BY <1>1 DEF Rivals, TypeInv, UploadTypes, JobIsRight, RowInv
<1> QED
  BY <1>3, <1>4, FS_Subset

(* ReportsAreOwn: the report that a row's key leads to is of the commit and*)
(* of the run of the row's upload, also after any number of rebases, if    *)
(* only one upload has the key's path and no commits are alike.            *)
THEOREM RowsLeadToOwnReports == Spec => []ReportsAreOwn
<1> DEFINE Inv == TypeInv /\ ObjectInv /\ RowInv /\ OriginInv
<1>1. Init => Inv
  <2> SUFFICES ASSUME Init PROVE OriginInv
    BY InitTypes, InitObjects, InitRows
  <2>1. DOMAIN reports = {} /\ \A a \in Asks : ask[a].step = "idle"
    BY EmptyIsSequence DEF Init, ServerInit, DiffCacheInit, NoAsk
  <2> QED
    BY <2>1 DEF OriginInv, Open
<1>2. Inv /\ [Next]_vars => Inv'
  BY StepKeepsTypes, StepKeepsObjects, StepKeepsRows, StepKeepsOrigin
<1>3. Inv => ReportsAreOwn
  <2> SUFFICES ASSUME Inv, NEW i \in DOMAIN rows, rows[i].key # None,
                      Cardinality(Rivals(Path(rows[i].key))) = 1,
                      \A v \in Uploads : ~Alike(CommitOf[rows[i].upload], CommitOf[v])
               PROVE  LET r == reports[Path(rows[i].key)]
                      IN  /\ r.commit = rows[i].commit /\ CommitOf[r.from] = r.commit
                          /\ RunOf[r.from] = RunOf[rows[i].upload]
    BY DEF ReportsAreOwn
  <2> DEFINE u == rows[i].upload
             path == Path(rows[i].key)
             r == reports[path]
  <2>1. rows[i] \in UploadRow
    BY DEF RowInv
  <2>2. u \in Uploads /\ job[u].key = rows[i].key /\ rows[i].commit = CommitOf[u]
    BY <2>1 DEF UploadRow, RowInv
  <2>3. u \in Rivals(path)
    BY <2>2 DEF Rivals
  <2>4. path[1] = "unittest" /\ path \in DOMAIN reports
    <3>1. rows[i].key \in Keys /\ rows[i].key.type = "unittest"
      BY <2>1, <2>2 DEF UploadRow, TypeInv, UploadTypes, JobIsRight
    <3> QED
      BY <3>1, PathsOfKeys DEF ObjectInv, UploadPart
  <2>5. r \in Reports
    BY <2>4 DEF TypeInv, ServerTypes
  <2>6. PICK v \in Uploads : MadeBy(v, path, r)
    BY <2>4 DEF OriginInv
  <2>7. v = u
    <3>1. v \in Rivals(path)
      BY <2>6 DEF MadeBy, Rivals
    <3>2. PICK w : Rivals(path) = {w}
      BY RivalsAreFinite, FS_Singleton
    <3> QED
      BY <2>3, <3>1, <3>2
  <2>8. r.from \in Uploads /\ r.commit = CommitOf[r.from]
    BY <2>5, <2>6 DEF Reports, MadeBy
  <2>9. Short[CommitOf[r.from]] = Short[CommitOf[u]] /\ RunOf[r.from] = RunOf[u]
    BY <2>6, <2>7 DEF MadeBy, ObjectPath
  <2>10. CommitOf[r.from] = CommitOf[u]
    BY <2>8, <2>9 DEF Alike
  <2> QED
    BY <2>2, <2>8, <2>9, <2>10
<1> QED
  BY <1>1, <1>2, <1>3, PTL DEF Spec
-----------------------------------------------------------------------------
(***************************************************************************)
(* Increments.                                                             *)
(***************************************************************************)
Apart == (\A c, d \in Commits : ~Alike(c, d)) /\ RunsHaveOneBase

(* The cache has the diffs that its rows and paths say, and whoever found a*)
(* row, or has an answer, has that of its own two commits.                 *)
CacheRight ==
    /\ \A p \in DOMAIN diffObjects :
          p = <<Short[diffObjects[p][1]], Short[diffObjects[p][2]]>>
    /\ \A i \in DOMAIN diffRows :
          diffRows[i].key = NewDiffKey(diffRows[i].commit, diffRows[i].base)
    /\ \A a \in Asks : ask[a].step = "cached" =>
          ask[a].key = NewDiffKey(ask[a].report.commit, ask[a].base)
    /\ \A a \in Asks : ask[a].step = "answered" =>
          ask[a].diff = <<ask[a].report.commit, ask[a].base>>

Right(r) == r.diff # None => r.diff = <<r.commit, r.base>>

(* So has every report that is stored, or that a request holds.            *)
IncrementsRight ==
    /\ \A p \in DOMAIN reports : Right(reports[p])
    /\ \A s \in Snaps : snap[s].step \in {"opened", "created", "flushed"} => Right(snap[s].copy)
    /\ \A a \in Asks : Open(a) => Right(ask[a].report)

IncrementInv == Apart => CacheRight /\ IncrementsRight

(* A request with a base commit moves on, with no other diff.              *)
LEMMA AskKeepsCache ==
    ASSUME TypeInv, Apart, CacheRight, NEW a \in Asks, AskStep(a)
    PROVE  CacheRight'
<1> USE DEF TypeInv, AskTypes
<1> DEFINE q == ask[a]
<1>1. q \in AskRecords /\ AskIsRight(a)
  OBVIOUS
<1>2. ASSUME UNCHANGED <<diffObjects, diffRows>>,
             \A b \in Asks : b # a => ask'[b] = ask[b],
             ask'[a].step = "cached" =>
                ask'[a].key = NewDiffKey(ask'[a].report.commit, ask'[a].base),
             ask'[a].step = "answered" => ask'[a].diff = <<ask'[a].report.commit, ask'[a].base>>
      PROVE  CacheRight'
  BY <1>2 DEF CacheRight, NewDiffKey
<1>3. Closed(q).step = "end"
  BY <1>1, ClosedIs
<1>4. CASE OpenReport(a)
  BY <1>2, <1>4 DEF OpenReport, CacheRight, NoAsk
<1>5. CASE QueryCache(a)
  <2>1. CASE ask' = [ask EXCEPT ![a].step = "missed"]
    <3>1. ask'[a].step = "missed"
      BY <1>1, <2>1 DEF AskRecords
    <3> QED
      BY <1>2, <1>5, <2>1, <3>1 DEF QueryCache
  <2>2. ASSUME NEW i \in DiffRowsOf(q.report.commit, q.base),
               ask' = [ask EXCEPT ![a].step = "cached", ![a].key = diffRows[i].key]
        PROVE  CacheRight'
    <3>1. diffRows[i].key = NewDiffKey(q.report.commit, q.base)
      BY <2>2 DEF CacheRight, DiffRowsOf
    <3>2. /\ ask'[a].step = "cached" /\ ask'[a].key = diffRows[i].key
          /\ ask'[a].report = q.report /\ ask'[a].base = q.base
      BY <1>1, <2>2 DEF AskRecords
    <3> QED
      BY <1>2, <1>5, <2>2, <3>1, <3>2 DEF QueryCache
  <2> QED
    BY <1>5, <2>1, <2>2 DEF QueryCache
<1>6. CASE GetCachedDiff(a)
  <2>1. CASE ask' = [ask EXCEPT ![a].step = "missed"]
    <3>1. ask'[a].step = "missed"
      BY <1>1, <2>1 DEF AskRecords
    <3> QED
      BY <1>2, <1>6, <2>1, <3>1 DEF GetCachedDiff
  <2>2. ASSUME NEW diff \in Objects(diffObjects, DiffPath(q.key)),
               ask' = [ask EXCEPT ![a].step = "answered", ![a].diff = diff]
        PROVE  CacheRight'
    <3>1. /\ DiffPath(q.key) \in DOMAIN diffObjects /\ diff = diffObjects[DiffPath(q.key)]
          /\ diff \in Diffs
      BY <2>2 DEF Objects
    <3>2. q.key.commit = q.report.commit /\ q.key.base = q.base
      <4>1. q.key = NewDiffKey(q.report.commit, q.base)
        BY <1>6 DEF GetCachedDiff, CacheRight
      <4> QED
        BY <4>1 DEF NewDiffKey
    <3>3. q.report.commit \in Commits /\ q.base \in Commits
      BY <1>1, <1>6, BasesAssumption DEF GetCachedDiff, AskIsRight, Reports, BasesAssumption
    <3>4. Short[diff[1]] = Short[q.report.commit] /\ Short[diff[2]] = Short[q.base]
      <4>1. DiffPath(q.key) = <<Short[diff[1]], Short[diff[2]]>>
        BY <3>1 DEF CacheRight
      <4> QED
        BY <3>2, <4>1 DEF DiffPath
    <3>5. diff[1] \in Commits /\ diff[2] \in Commits /\ diff = <<diff[1], diff[2]>>
      BY <3>1 DEF Diffs
    <3>6. diff = <<q.report.commit, q.base>>
      BY <3>3, <3>4, <3>5 DEF Apart, Alike
    <3>7. /\ ask'[a].step = "answered" /\ ask'[a].diff = diff
          /\ ask'[a].report = q.report /\ ask'[a].base = q.base
      BY <1>1, <2>2 DEF AskRecords
    <3> QED
      BY <1>2, <1>6, <2>2, <3>6, <3>7 DEF GetCachedDiff
  <2> QED
    BY <1>6, <2>1, <2>2 DEF GetCachedDiff
<1>7. CASE CompareCommits(a)
  <2>1. CASE ask' = [ask EXCEPT ![a] = Closed(@)]
    BY <1>2, <1>3, <1>7, <2>1 DEF CompareCommits
  <2>2. CASE ask' = [ask EXCEPT ![a].step = "answered", ![a].diff = <<q.report.commit, q.base>>]
    <3>1. /\ ask'[a].step = "answered" /\ ask'[a].diff = <<q.report.commit, q.base>>
          /\ ask'[a].report = q.report /\ ask'[a].base = q.base
      BY <1>1, <2>2 DEF AskRecords
    <3> QED
      BY <1>2, <1>7, <2>2, <3>1 DEF CompareCommits
  <2> QED
    BY <1>7, <2>1, <2>2 DEF CompareCommits
<1>8. CASE UseDiff(a)
  BY <1>2, <1>3, <1>8 DEF UseDiff
<1>9. CASE PutDiff(a)
  <2> DEFINE k == keep[a].key
  <2>1. CASE UNCHANGED diffObjects
    BY <1>9, <2>1 DEF PutDiff, CacheRight, NewDiffKey
  <2>2. CASE diffObjects' = Stored(diffObjects, DiffPath(k), <<k.commit, k.base>>)
    <3>1. DiffPath(k) = <<Short[k.commit], Short[k.base]>>
      BY DEF DiffPath
    <3>2. \A p \in DOMAIN diffObjects' :
             p = <<Short[diffObjects'[p][1]], Short[diffObjects'[p][2]]>>
      BY <2>2, <3>1 DEF Stored, CacheRight
    <3> QED
      BY <1>9, <3>2 DEF PutDiff, CacheRight, NewDiffKey
  <2> QED
    BY <1>9, <2>1, <2>2 DEF PutDiff
<1>10. CASE SaveDiffRow(a)
  <2> DEFINE k == keep[a].key
             row == [commit |-> k.commit, base |-> k.base, key |-> k]
  <2>1. CASE UNCHANGED diffRows
    BY <1>10, <2>1 DEF SaveDiffRow, CacheRight, NewDiffKey
  <2>2. CASE diffRows' = SaveRecord(diffRows, 0, row)
    <3>1. k \in DiffKeys
      BY <1>10 DEF SaveDiffRow, DiffIsStored
    <3>2. row.key = NewDiffKey(row.commit, row.base) /\ row \in DiffRow
      BY <3>1 DEF NewDiffKey, DiffKeys, DiffRow
    <3> HIDE DEF row
    <3>3. diffRows' = Append(diffRows, row)
      BY <2>2 DEF SaveRecord
    <3>4. \A i \in DOMAIN diffRows' :
             diffRows'[i] = row \/ (i \in DOMAIN diffRows /\ diffRows'[i] = diffRows[i])
      BY <3>2, <3>3
    <3>5. \A i \in DOMAIN diffRows' :
             diffRows'[i].key = NewDiffKey(diffRows'[i].commit, diffRows'[i].base)
      BY <3>2, <3>4 DEF CacheRight
    <3> QED
      BY <1>10, <3>5 DEF SaveDiffRow, CacheRight, NewDiffKey
  <2> QED
    BY <1>10, <2>1, <2>2 DEF SaveDiffRow
<1> QED
  BY <1>4, <1>5, <1>6, <1>7, <1>8, <1>9, <1>10 DEF AskStep

(* Others do not touch the cache.                                          *)
LEMMA StepKeepsCache ==
    ASSUME TypeInv, Apart, CacheRight, [Next]_vars
    PROVE  CacheRight'
<1>1. CASE UNCHANGED diffCacheVars
  BY <1>1 DEF diffCacheVars, CacheRight, NewDiffKey
<1>2. ASSUME NEW a \in Asks, AnswerWithBase(a) PROVE CacheRight'
  BY <1>2, AskKeepsCache DEF AnswerWithBase
<1>3. CASE Crash
  <2>1. \A a \in Asks : ask[a] \in AskRecords /\ Closed(ask[a]).step = "end"
    BY ClosedIs DEF TypeInv, AskTypes
  <2>2. \A a \in Asks : ask'[a].step \in {"idle", "end"}
    BY <1>3, <2>1 DEF Crash, LoseAsks
  <2> QED
    BY <1>3, <2>2 DEF Crash, CacheRight, NewDiffKey
<1>4. CASE PassTime \/ UNCHANGED vars
          \/ (\E u \in Uploads : RunTool(u) \/ RunJob(u)) \/ (\E s \in Snaps : CreateSnapshot(s))
  <2>1. UNCHANGED diffCacheVars
    BY <1>4 DEF PassTime, RunTool, RunJob, CreateSnapshot, vars
  <2> QED
    BY <1>1, <2>1
<1> QED
  BY <1>2, <1>3, <1>4 DEF Next

(* What a request for a snapshot copies it has, or is stored now.          *)
LEMMA CopiesMove ==
    ASSUME TypeInv, [Next]_vars, NEW s \in Snaps,
           snap'[s].step \in {"opened", "created", "flushed"}
    PROVE  \/ /\ snap[s].step \in {"opened", "created", "flushed"}
              /\ snap'[s].copy = snap[s].copy
           \/ \E p \in DOMAIN reports : snap'[s].copy = reports[p]
<1> DEFINE Goal == \/ /\ snap[s].step \in {"opened", "created", "flushed"}
                      /\ snap'[s].copy = snap[s].copy
                   \/ \E p \in DOMAIN reports : snap'[s].copy = reports[p]
<1> USE DEF TypeInv, SnapTypes
<1>1. snap[s] \in SnapRecords /\ Over(snap[s]).step = "end"
  BY OverIs
<1>2. CASE snap'[s] = snap[s]
  BY <1>2
<1>3. ASSUME NEW t \in Snaps, CreateSnapshot(t) PROVE Goal
  <2>1. CASE t # s
    BY <1>2, <1>3, <2>1 DEF CreateSnapshot, SnapStep, OpenSource, CreateCopy, FlushCopy,
                            SaveSnapshot
  <2>2. CASE t = s
    <3>1. CASE OpenSource(s)
      BY <1>1, <1>2, <3>1 DEF OpenSource, SnapRecords
    <3>2. CASE CreateCopy(s)
      BY <1>1, <3>2 DEF CreateCopy, SnapRecords
    <3>3. CASE FlushCopy(s)
      BY <1>1, <3>3 DEF FlushCopy, SnapRecords
    <3>4. CASE SaveSnapshot(s)
      BY <1>1, <3>4 DEF SaveSnapshot
    <3> QED
      BY <1>3, <2>2, <3>1, <3>2, <3>3, <3>4 DEF CreateSnapshot, SnapStep
  <2> QED
    BY <2>1, <2>2
<1>4. CASE Crash
  BY <1>1, <1>2, <1>4 DEF Crash, LoseSnaps
<1>5. CASE PassTime \/ UNCHANGED vars
          \/ (\E u \in Uploads : RunTool(u) \/ RunJob(u)) \/ (\E a \in Asks : AnswerWithBase(a))
  <2>1. UNCHANGED snap
    BY <1>5 DEF PassTime, RunTool, RunJob, AnswerWithBase, snapVars, vars
  <2> QED
    BY <1>2, <2>1
<1> QED
  BY <1>3, <1>4, <1>5 DEF Next

(* A report that a goroutine builds has increments, if any, of one run.    *)
LEMMA BuiltIsRight ==
    ASSUME TypeInv, Apart, NEW u \in Uploads, job[u].step = "created"
    PROVE  Right(BuiltReport(u))
<1> DEFINE from == job[u].from
           diff == job[u].diff
<1>1. /\ from \in Uploads /\ ObjectPath(from) = ObjectPath(u)
      /\ diff # None => diff \in Uploads /\ ObjectPath(diff) = ObjectPath(u)
  <2>1. job[u] \in Jobs /\ JobIsRight(u)
    BY DEF TypeInv, UploadTypes
  <2> QED
    BY <2>1 DEF Jobs, JobIsRight
<1>2. ASSUME diff # None
      PROVE  CommitOf[diff] = CommitOf[from] /\ BaseOf[diff] = BaseOf[from]
  <2>1. Short[CommitOf[diff]] = Short[CommitOf[from]] /\ RunOf[diff] = RunOf[from]
    BY <1>1, <1>2 DEF ObjectPath
  <2>2. CommitOf[diff] \in Commits /\ CommitOf[from] \in Commits
    BY <1>1, <1>2, ToolAssumption DEF ToolAssumption
  <2>3. CommitOf[diff] = CommitOf[from]
    BY <2>1, <2>2 DEF Apart, Alike
  <2> QED
    BY <1>1, <1>2, <2>1, <2>3 DEF Apart, RunsHaveOneBase
<1> QED
  BY <1>2 DEF Right, BuiltReport

(* What is stored has the increments of its own two commits.               *)
LEMMA StepKeepsIncrements ==
    ASSUME TypeInv, Apart, CacheRight, IncrementsRight, [Next]_vars
    PROVE  IncrementsRight'
<1>1. \A p \in DOMAIN reports' : Right(reports'[p])
  <2>1. CASE UNCHANGED reports
    BY <2>1 DEF IncrementsRight
  <2>2. CASE BuildsReport
    BY <2>2, BuiltIsRight DEF BuildsReport, IncrementsRight, Stored
  <2>3. CASE CopiesReport
    BY <2>3 DEF CopiesReport, IncrementsRight, Stored
  <2>4. CASE RebasesReport
    <3>1. PICK a \in Asks : /\ ask[a].step = "answered"
                            /\ reports' = Stored(reports, ask[a].path, Rebased(a))
      BY <2>4 DEF RebasesReport
    <3>2. ask[a].report \in Reports /\ ask[a].diff = <<ask[a].report.commit, ask[a].base>>
      BY <3>1 DEF TypeInv, AskTypes, AskIsRight, CacheRight
    <3>3. Right(Rebased(a))
      BY <3>2 DEF Right, Rebased, Reports
    <3> QED
      BY <3>1, <3>3 DEF IncrementsRight, Stored
  <2> QED
    BY <2>1, <2>2, <2>3, <2>4, StepStores
<1>2. \A s \in Snaps :
         snap'[s].step \in {"opened", "created", "flushed"} => Right(snap'[s].copy)
  BY CopiesMove DEF IncrementsRight
<1>3. \A a \in Asks :
         ask'[a].step \in {"opened", "cached", "missed", "answered"} => Right(ask'[a].report)
  BY AsksStay DEF AskMoves, IncrementsRight
<1> QED
  BY <1>1, <1>2, <1>3 DEF IncrementsRight, Open, Right

(* IncrementsAreOfBase: increments are marked with the diff of the report's*)
(* commit and of its base commit, whether the diff came with the upload,   *)
(* from the cache or from GitHub, and through any snapshots and rebases.   *)
THEOREM IncrementsHaveTheirBase == Spec => []IncrementsAreOfBase
<1> DEFINE Inv == TypeInv /\ IncrementInv
<1>1. Init => Inv
  <2> SUFFICES ASSUME Init PROVE CacheRight /\ IncrementsRight
    BY InitTypes DEF IncrementInv
  <2>1. /\ DOMAIN reports = {} /\ DOMAIN diffObjects = {} /\ DOMAIN diffRows = {}
        /\ \A a \in Asks : ask[a].step = "idle"
        /\ \A s \in Snaps : snap[s].step = "idle"
    BY EmptyIsSequence DEF Init, ServerInit, DiffCacheInit, SnapInit, NoAsk, NoSnap
  <2> QED
    BY <2>1 DEF CacheRight, IncrementsRight, Open
<1>2. Inv /\ [Next]_vars => Inv'
  <2> SUFFICES ASSUME Inv, [Next]_vars, Apart PROVE CacheRight' /\ IncrementsRight'
    BY StepKeepsTypes DEF IncrementInv, Apart, RunsHaveOneBase, Alike
  <2> QED
    BY StepKeepsCache, StepKeepsIncrements DEF IncrementInv
<1>3. Inv => IncrementsAreOfBase
  BY DEF IncrementInv, Apart, IncrementsRight, Right, IncrementsAreOfBase
<1> QED
  BY <1>1, <1>2, <1>3, PTL DEF Spec
=============================================================================
