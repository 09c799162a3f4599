---------------------------- MODULE ServerReports ----------------------------
(***************************************************************************)
(* What the request handlers of the server share: the stored reports, the  *)
(* keys that name them, the clock that keys are made with, and how rows of *)
(* a table are saved.  One module and one branch.                          *)
(*                                                                         *)
(* A report is what its parts are: commit (its meta data), from (the upload*)
(* its coverage is of), base and diff (what its increments are marked      *)
(* with).  It is read and flushed at one instant; ReportStore has the steps.*)
(***************************************************************************)
EXTENDS Naturals, Sequences, FiniteSets

CONSTANTS
    Commits,
    Short,      \* the first eight characters of each commit
    MaxNow,     \* bound: seconds that pass
    None        \* no key, no object, no report, no diff

(* A key, of a unit test or a snapshot; at is when it was made.            *)
Keys == [type : {"unittest", "snapshot"}, commit : Commits, at : Nat]

ASSUME ServerAssumption ==
    /\ IsFiniteSet(Commits) /\ DOMAIN Short = Commits
    /\ MaxNow \in Nat /\ None \notin Commits \cup Keys

VARIABLES
    now,        \* the clock, in seconds
    reports     \* the stored reports, by path

serverVars == <<now, reports>>

NewKey(type, commit) == [type |-> type, commit |-> commit, at |-> now]

UntypedPath(key) == <<Short[key.commit], key.at>>

(* RealPathPrefix: of a commit only eight characters, of the time seconds. *)
Path(key) == <<key.type, Short[key.commit], key.at>>

(* An object store, a function from paths, with one object more.           *)
Stored(objects, path, object) ==
    [p \in DOMAIN objects \cup {path} |-> IF p = path THEN object ELSE objects[p]]

Objects(objects, path) == IF path \in DOMAIN objects THEN {objects[path]} ELSE {}

(* SaveRecord: a row without an id is inserted, one with an id updated.    *)
SaveRecord(rows, id, row) ==
    IF id = 0 THEN Append(rows, row) ELSE [rows EXCEPT ![id] = row]

ServerInit == now = 0 /\ reports = <<>>

Tick == now < MaxNow /\ now' = now + 1 /\ UNCHANGED reports
=============================================================================
