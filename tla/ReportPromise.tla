---------------------------- MODULE ReportPromise ----------------------------
(***************************************************************************)
(* What a coverage report promises its sessions, without objects, offsets  *)
(* or uploads: the report is one value, a session opens a copy of it (or an*)
(* empty one), changes the copy file by file, and a commit replaces the    *)
(* report by the copy at one instant.  A session whose copy is outdated    *)
(* does not commit.  A report can be spoiled, and then promises nothing.   *)
(***************************************************************************)
CONSTANTS Sessions, Files, Lines, NoLines

VARIABLES
    report,    \* for each file its lines, or NoLines
    view,      \* the copy each session works on
    active,    \* sessions that have opened the report
    outdated,  \* active sessions that may not commit any more
    spoiled    \* TRUE when nothing is promised any more

vars == <<report, view, active, outdated, spoiled>>

Empty == [f \in Files |-> NoLines]

Init ==
    /\ report = Empty
    /\ view = [s \in Sessions |-> Empty]
    /\ active = {}
    /\ outdated = {}
    /\ spoiled = FALSE

(* Sessions may become outdated at any step; only ending repairs that.     *)
OutdatedGrows == outdated \subseteq outdated' /\ outdated' \subseteq active'

Begin(s) ==
    /\ s \notin active
    /\ active' = active \cup {s}
    /\ \E v \in {report, Empty} : view' = [view EXCEPT ![s] = v]
    /\ OutdatedGrows
    /\ UNCHANGED <<report, spoiled>>

Change(s) ==
    /\ s \in active
    /\ \E f \in Files, lines \in Lines : view' = [view EXCEPT ![s][f] = lines]
    /\ OutdatedGrows
    /\ UNCHANGED <<report, active, spoiled>>

Commit(s) ==
    /\ s \in active \ outdated
    /\ report' = view[s]
    /\ outdated' = active \ {s}
    /\ UNCHANGED <<view, active, spoiled>>

(* Something other than the report's lines makes sessions outdated.        *)
Outdate ==
    /\ OutdatedGrows
    /\ UNCHANGED <<report, view, active, spoiled>>

(* One session ends, or the server dies and all of them do.                *)
End ==
    /\ active' \subseteq active
    /\ view' = [s \in Sessions |-> IF s \in active' THEN view[s] ELSE Empty]
    /\ outdated \cap active' \subseteq outdated' /\ outdated' \subseteq active'
    /\ UNCHANGED <<report, spoiled>>

(* The report is spoiled, or was: anything may happen to it.               *)
Spoil == spoiled'

Next ==
    \/ \E s \in Sessions : Begin(s) \/ Change(s) \/ Commit(s)
    \/ Outdate
    \/ End
    \/ Spoil

Spec == Init /\ [][Next]_vars
=============================================================================
