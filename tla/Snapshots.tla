------------------------------- MODULE Snapshots -------------------------------
(***************************************************************************)
(* CreateSnapshot: a stored report is opened, copied to a report with a key*)
(* of its own, and entered in a table.                                     *)
(***************************************************************************)
EXTENDS ServerReports

CONSTANTS Snaps     \* requests

VARIABLES
    snapRows,   \* snapshot_info; taken is history: the report as it was opened
    snap        \* where each request is, and what it has

snapVars == <<snapRows, snap>>

NoSnap == [step |-> "idle", copy |-> None, key |-> None]

(* Of a request that ended only its key and its copy are kept, for the     *)
(* properties, if the copy may have been stored.                           *)
Over(q) == [q EXCEPT !.step = "end", !.copy = IF q.key = None THEN None ELSE @]

SnapInit == snapRows = <<>> /\ snap = [s \in Snaps |-> NoSnap]

OpenSource(s) ==
    /\ snap[s].step = "idle"
    /\ \/ \E p \in DOMAIN reports :
              snap' = [snap EXCEPT ![s].step = "opened", ![s].copy = reports[p]]
       \/ UNCHANGED snap       \* it cannot be opened: an error, and nothing done
    /\ UNCHANGED <<snapRows, reports>>

CreateCopy(s) ==
    /\ snap[s].step = "opened"
    /\ \/ snap' = [snap EXCEPT ![s].step = "created",
                               ![s].key = NewKey("snapshot", snap[s].copy.commit)]
       \/ snap' = [snap EXCEPT ![s] = Over(@)]
    /\ UNCHANGED <<snapRows, reports>>

FlushCopy(s) ==
    /\ snap[s].step = "created"
    /\ \/ /\ reports' = Stored(reports, Path(snap[s].key), snap[s].copy)
          /\ \/ snap' = [snap EXCEPT ![s].step = "flushed"]
             \/ snap' = [snap EXCEPT ![s] = Over(@)]
       \/ /\ snap' = [snap EXCEPT ![s] = Over(@)]
          /\ UNCHANGED reports
    /\ UNCHANGED snapRows

(* A row that cannot be saved is logged; the request succeeds.             *)
SaveSnapshot(s) ==
    /\ snap[s].step = "flushed"
    /\ snap' = [snap EXCEPT ![s] = Over(@)]
    /\ \/ snapRows' = SaveRecord(snapRows, 0,
                          [commit |-> snap[s].copy.commit, key |-> snap[s].key,
                           at |-> now, taken |-> snap[s].copy])
       \/ UNCHANGED snapRows
    /\ UNCHANGED reports

SnapStep(s) ==
    /\ OpenSource(s) \/ CreateCopy(s) \/ FlushCopy(s) \/ SaveSnapshot(s)
    /\ UNCHANGED now

LoseSnaps ==
    snap' = [s \in Snaps |-> IF snap[s].step \in {"idle", "end"} THEN snap[s]
                             ELSE Over(snap[s])]
=============================================================================
