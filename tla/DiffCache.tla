------------------------------- MODULE DiffCache -------------------------------
(***************************************************************************)
(* Requests with a base commit: RebaseReport, which stores a report with   *)
(* new increments, and the previews, which do not.  Both ask for the diff  *)
(* of two commits, in the cache and then on GitHub; a goroutine caches what*)
(* came from GitHub, the object first and its row second.                  *)
(***************************************************************************)
EXTENDS ServerReports

CONSTANTS
    Asks,       \* requests
    Bases       \* base commits they are made with

ASSUME BasesAssumption == Bases \subseteq Commits /\ None # "rebase"

VARIABLES
    diffRows,   \* diff_cache
    diffObjects,\* the diffs on the object store, by path
    ask,        \* where each request is, and what it has
    keep        \* where the goroutine that caches its diff is, and its key

diffCacheVars == <<diffRows, diffObjects, ask, keep>>

NoAsk == [step |-> "idle", kind |-> None, path |-> None, report |-> None,
          base |-> None, diff |-> None, key |-> None]
NoKeep == [step |-> "none", key |-> None]

(* Of a request that ended only what it may have stored is kept, for the   *)
(* properties.                                                             *)
Closed(q) == IF q.kind = "rebase"
             THEN [NoAsk EXCEPT !.step = "end", !.kind = q.kind, !.path = q.path]
             ELSE [NoAsk EXCEPT !.step = "end"]

DiffCacheInit ==
    /\ diffRows = <<>> /\ diffObjects = <<>>
    /\ ask = [a \in Asks |-> NoAsk]
    /\ keep = [a \in Asks |-> NoKeep]

NewDiffKey(commit, base) == [commit |-> commit, base |-> base]

DiffPath(key) == <<Short[key.commit], Short[key.base]>>

OpenReport(a) ==
    /\ ask[a].step = "idle"
    /\ \/ \E p \in DOMAIN reports, b \in Bases, kind \in {"preview", "rebase"} :
              ask' = [ask EXCEPT ![a] = [NoAsk EXCEPT
                         !.step = "opened", !.kind = kind, !.path = p,
                         !.report = reports[p], !.base = b]]
       \/ UNCHANGED ask        \* it cannot be opened: an error, and nothing done
    /\ UNCHANGED <<diffRows, diffObjects, keep, reports>>

RowsOfCommit(commit, base) == {i \in DOMAIN diffRows : diffRows[i].commit = commit}

DiffRowsOf(commit, base) ==
    {i \in DOMAIN diffRows : diffRows[i].commit = commit /\ diffRows[i].base = base}

(* The cache, first its table: without a row, or on an error, GitHub.      *)
QueryCache(a) ==
    LET found == DiffRowsOf(ask[a].report.commit, ask[a].base)
    IN  /\ ask[a].step = "opened"
        /\ \/ /\ found # {}
              /\ \E i \in found :
                    /\ \A j \in found : i <= j
                    /\ ask' = [ask EXCEPT ![a].step = "cached", ![a].key = diffRows[i].key]
           \/ ask' = [ask EXCEPT ![a].step = "missed"]
        /\ UNCHANGED <<diffRows, diffObjects, keep, reports>>

GetCachedDiff(a) ==
    /\ ask[a].step = "cached"
    /\ \/ \E diff \in Objects(diffObjects, DiffPath(ask[a].key)) :
              ask' = [ask EXCEPT ![a].step = "answered", ![a].diff = diff]
       \/ ask' = [ask EXCEPT ![a].step = "missed"]
    /\ UNCHANGED <<diffRows, diffObjects, keep, reports>>

(* A preview without a diff shows the report as it is stored.              *)
CompareCommits(a) ==
    /\ ask[a].step = "missed"
    /\ \/ /\ ask' = [ask EXCEPT ![a].step = "answered",
                                ![a].diff = <<ask[a].report.commit, ask[a].base>>]
          /\ keep' = [keep EXCEPT ![a] =
                         [step |-> "put",
                          key |-> NewDiffKey(ask[a].report.commit, ask[a].base)]]
       \/ /\ ask' = [ask EXCEPT ![a] = Closed(@)]
          /\ UNCHANGED keep
    /\ UNCHANGED <<diffRows, diffObjects, reports>>

(* What was opened, with the base commit and the increments of the diff, is*)
(* stored by RebaseReport alone.                                           *)
UseDiff(a) ==
    /\ ask[a].step = "answered"
    /\ \/ /\ ask[a].kind = "rebase"
          /\ reports' = Stored(reports, ask[a].path,
                 [ask[a].report EXCEPT !.base = ask[a].base, !.diff = ask[a].diff])
          /\ ask' = [ask EXCEPT ![a] = Closed(@)]
       \/ /\ ask' = [ask EXCEPT ![a] = Closed(@)]     \* a preview, or it failed
          /\ UNCHANGED reports
    /\ UNCHANGED <<diffRows, diffObjects, keep>>

PutDiff(a) ==
    /\ keep[a].step = "put"
    /\ \/ /\ diffObjects' = Stored(diffObjects, DiffPath(keep[a].key),
                                   <<keep[a].key.commit, keep[a].key.base>>)
          /\ keep' = [keep EXCEPT ![a].step = "save"]
       \/ /\ keep' = [keep EXCEPT ![a] = NoKeep]
          /\ UNCHANGED diffObjects
    /\ UNCHANGED <<diffRows, ask, reports>>

BeforePut(a) == keep[a].step \in {"put", "save"}

DiffIsStored(a) == keep[a].step = "save"

SaveDiffRow(a) ==
    /\ DiffIsStored(a)
    /\ keep' = [keep EXCEPT ![a] = NoKeep]
    /\ \/ diffRows' = SaveRecord(diffRows, 0,
                          [commit |-> keep[a].key.commit, base |-> keep[a].key.base,
                           key |-> keep[a].key])
       \/ UNCHANGED diffRows
    /\ UNCHANGED <<diffObjects, ask, reports>>

AskStep(a) ==
    /\ \/ OpenReport(a) \/ QueryCache(a) \/ GetCachedDiff(a) \/ CompareCommits(a)
       \/ UseDiff(a) \/ PutDiff(a) \/ SaveDiffRow(a)
    /\ UNCHANGED now

LoseAsks ==
    /\ ask' = [a \in Asks |-> IF ask[a].step \in {"idle", "end"} THEN ask[a]
                              ELSE Closed(ask[a])]
    /\ keep' = [a \in Asks |-> NoKeep]
=============================================================================
