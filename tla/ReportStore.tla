----------------------------- MODULE ReportStore -----------------------------
(***************************************************************************)
(* One coverage report on the object store, and the sessions (requests and *)
(* background goroutines) that open, change and close it.                  *)
(*                                                                         *)
(* A report is two objects.  The .cno object holds the directory tree; each*)
(* file node carries the offset of the file's block in the .cda object,    *)
(* which is a sequence of cover-line blocks.  A session downloads both     *)
(* objects, one after the other, into local temporary files, works on      *)
(* these, and uploads whole files: Flush puts .cno first and .cda second,  *)
(* Close puts whatever is still dirty.  Nothing in the server excludes one *)
(* session from another: the ReportLock that main wires in does nothing.   *)
(*                                                                         *)
(* Abstractions: a block is one element of cda, so an offset is an index   *)
(* (1 is the first block, 0 says that the file is not in the tree); the    *)
(* lines of a file, with the statistics computed from them, are one member *)
(* of Lines; directories appear only through Inside.                       *)
(***************************************************************************)
EXTENDS Naturals, Sequences

CONSTANTS
    Sessions,   \* requests and goroutines that may hold the report open
    Files,      \* paths of covered files
    Lines,      \* contents: the cover lines of a file
    NoLines,    \* what a file that is not in the tree has
    Inside,     \* pairs <<f, g>>: path f needs g as a directory
    Kinds,      \* the kinds of session that occur
    MaxBlocks   \* bound: blocks in a local copy of the .cda file

AllKinds == {"read", "base", "write", "create", "rebase"}

ASSUME ConstantsAssumption ==
    /\ NoLines \notin Lines
    /\ Inside \subseteq Files \X Files
    /\ Kinds \subseteq AllKinds
    /\ MaxBlocks \in Nat

VARIABLES
    cno,        \* the .cno object: for each file its entry in the tree
    cda,        \* the .cda object: the blocks
    pc,         \* where each session is
    kind,       \* what the session was opened for
    tree,       \* the session's tree (its local .cno once it is encoded)
    local,      \* the session's local copy of the .cda object
    metaDirty,  \* sessions whose .cno data source is dirty
    coverDirty, \* sessions whose .cda data source is dirty
    todo,       \* files a rebase has still to visit
    (* History variables: they guard nothing, the properties use them.     *)
    own,        \* files the session has written a block for
    stale,      \* sessions that downloaded an object before it changed
    exposed,    \* sessions that stored a .cno that needs their local .cda
    damage      \* "overlap": a stale session has stored an object; "torn":
                \* an exposed session has ended without storing its .cda

objects  == <<cno, cda>>
control  == <<pc, kind, todo>>
copies   == <<tree, local, own>>
dirty    == <<metaDirty, coverDirty>>
history  == <<stale, exposed, damage>>
vars == <<cno, cda, pc, kind, tree, local, metaDirty, coverDirty, todo, own,
          stale, exposed, damage>>

(***************************************************************************)
(* Values.                                                                 *)
(***************************************************************************)
NoEntry == [off |-> 0, lines |-> NoLines]
Entry == [off : 1..MaxBlocks, lines : Lines] \cup {NoEntry}
Block == [file : Files, lines : Lines]
EmptyTree == [f \in Files |-> NoEntry]

(* An entry is right for a file in a .cda: the block at its offset is the  *)
(* block that was written for the file, with the lines the entry tells of. *)
Right(f, e, blocks) ==
    /\ e.off \in 1..Len(blocks)
    /\ blocks[e.off] = [file |-> f, lines |-> e.lines]

(* Reading at a dangling offset is an error (EOF), not a wrong answer.     *)
Dangling(e, blocks) == e.off > Len(blocks)

Present(t) == {f \in Files : t[f] # NoEntry}
AllRight(t, blocks) == \A f \in Present(t) : Right(f, t[f], blocks)

IsPrefixOf(s, t) ==
    /\ Len(s) <= Len(t)
    /\ \A i \in 1..Len(s) : s[i] = t[i]

CanFlush == {"write", "create", "rebase"}
Rebases  == {"base", "rebase"}

Init ==
    /\ cno = EmptyTree
    /\ cda = <<>>
    /\ pc = [s \in Sessions |-> "idle"]
    /\ kind = [s \in Sessions |-> "none"]
    /\ tree = [s \in Sessions |-> EmptyTree]
    /\ local = [s \in Sessions |-> <<>>]
    /\ metaDirty = {}
    /\ coverDirty = {}
    /\ todo = [s \in Sessions |-> {}]
    /\ own = [s \in Sessions |-> {}]
    /\ stale = {}
    /\ exposed = {}
    /\ damage = {}

(***************************************************************************)
(* Uploads.  PutObject has three outcomes: it succeeds, it fails and the   *)
(* object is as before, or the object is stored and the answer is lost.    *)
(***************************************************************************)
Outcome == {"ok", "failed", "lost"}

(* S with s exactly if the condition holds.                                *)
Mark(S, s, cond) == IF cond THEN S \cup {s} ELSE S \ {s}

(* What an upload by s does to the history: stale data is stored.          *)
Overlap(s) == damage' = IF s \in stale THEN damage \cup {"overlap"} ELSE damage

PutMeta(s, outcome) ==
    /\ metaDirty' = Mark(metaDirty, s, outcome # "ok")
    /\ IF outcome = "failed"
       THEN UNCHANGED <<cno, history>>
       ELSE /\ cno' = tree[s]
            /\ stale' = stale \cup {t \in Sessions \ {s} : pc[t] # "idle"}
            /\ exposed' = Mark(exposed, s, s \in coverDirty)
            /\ Overlap(s)
    /\ UNCHANGED <<cda, coverDirty>>

(* A session that has yet to download the .cda will get the new one.       *)
OutdatedByCover(s) ==
    stale \cup {t \in Sessions \ {s} : pc[t] \notin {"idle", "metaOpen"}}

(* The session's data sources are closed and its temporary files removed.  *)
EndSessions(S) ==
    /\ pc' = [s \in Sessions |-> IF s \in S THEN "idle" ELSE pc[s]]
    /\ kind' = [s \in Sessions |-> IF s \in S THEN "none" ELSE kind[s]]
    /\ tree' = [s \in Sessions |-> IF s \in S THEN EmptyTree ELSE tree[s]]
    /\ local' = [s \in Sessions |-> IF s \in S THEN <<>> ELSE local[s]]
    /\ todo' = [s \in Sessions |-> IF s \in S THEN {} ELSE todo[s]]
    /\ own' = [s \in Sessions |-> IF s \in S THEN {} ELSE own[s]]
    /\ metaDirty' = metaDirty \ S
    /\ coverDirty' = coverDirty \ S
    /\ exposed' = exposed \ S

(* The sessions in S end, and the .cda of those in Cut was never stored.   *)
Tear(Cut) == damage' = IF Cut = {} THEN damage ELSE damage \cup {"torn"}

(***************************************************************************)
(* Opening: the storage factory downloads .cno and then .cda; Open and     *)
(* OpenWrite decode the tree, CreateReport starts from an empty one.       *)
(***************************************************************************)
(* Mutant of OpenMeta: decoding the tree marks the data source dirty.      *)
DirtyOpenMeta(s, k) ==
    /\ pc[s] = "idle"
    /\ pc' = [pc EXCEPT ![s] = "metaOpen"]
    /\ kind' = [kind EXCEPT ![s] = k]
    /\ tree' = [tree EXCEPT ![s] = IF k = "create" THEN EmptyTree ELSE cno]
    /\ metaDirty' = metaDirty \cup {s}
    /\ UNCHANGED <<objects, local, own, coverDirty, todo, history>>

OpenMeta(s, k) ==
    /\ pc[s] = "idle"
    /\ pc' = [pc EXCEPT ![s] = "metaOpen"]
    /\ kind' = [kind EXCEPT ![s] = k]
    /\ tree' = [tree EXCEPT ![s] = IF k = "create" THEN EmptyTree ELSE cno]
    /\ UNCHANGED <<objects, local, own, dirty, todo, history>>

(* Mutant of OpenCover: files are added to an empty .cda file.             *)
TruncatingOpenCover(s) ==
    LET visits == IF kind[s] \in Rebases THEN Present(tree[s]) ELSE {}
    IN  /\ pc[s] = "metaOpen"
        /\ local' = [local EXCEPT ![s] = IF kind[s] \in {"write", "create"} THEN <<>> ELSE cda]
        /\ todo' = [todo EXCEPT ![s] = visits]
        /\ pc' = [pc EXCEPT ![s] = IF visits = {} THEN "open" ELSE "rebasing"]
        /\ stale' = IF exposed = {} THEN stale ELSE stale \cup {s}
        /\ UNCHANGED <<objects, kind, tree, own, dirty, exposed, damage>>

(* A session that rebases goes on to visit the files of its tree.  Its two *)
(* downloads come from different commits when a commit is half done.       *)
OpenCover(s) ==
    LET visits == IF kind[s] \in Rebases THEN Present(tree[s]) ELSE {}
    IN  /\ pc[s] = "metaOpen"
        /\ local' = [local EXCEPT ![s] = cda]
        /\ todo' = [todo EXCEPT ![s] = visits]
        /\ pc' = [pc EXCEPT ![s] = IF visits = {} THEN "open" ELSE "rebasing"]
        /\ stale' = IF exposed = {} THEN stale ELSE stale \cup {s}
        /\ UNCHANGED <<objects, kind, tree, own, dirty, exposed, damage>>

(* The second download fails: the factory closes the first source.         *)
OpenCoverFails(s) ==
    /\ pc[s] = "metaOpen"
    /\ EndSessions({s})
    /\ stale' = stale \ {s}
    /\ UNCHANGED <<objects, damage>>

(***************************************************************************)
(* Changing the report.  SetCoverLine always appends at the end of the     *)
(* local .cda, also for a file that has a block already.                   *)
(***************************************************************************)
(* Mutant of SetCoverLine: the data source is not marked dirty.            *)
CleanSetCoverLine(s, f, lines) ==
    /\ Len(local[s]) < MaxBlocks
    /\ local' = [local EXCEPT ![s] = Append(@, [file |-> f, lines |-> lines])]
    /\ UNCHANGED coverDirty

SetCoverLine(s, f, lines) ==
    /\ Len(local[s]) < MaxBlocks
    /\ local' = [local EXCEPT ![s] = Append(@, [file |-> f, lines |-> lines])]
    /\ coverDirty' = coverDirty \cup {s}

(* Mutant of NewOffset: the size of the object, not of the local file.     *)
ObjectOffset(s) == Len(cda) + 1

NewOffset(s) == Len(local[s]) + 1

SetEntry(s, f, lines) ==
    /\ tree' = [tree EXCEPT ![s][f] = [off |-> NewOffset(s), lines |-> lines]]
    /\ own' = [own EXCEPT ![s] = @ \cup {f}]

(* A directory of the path is a file; the path itself is a directory.      *)
Blocked(s, f) == \E g \in Present(tree[s]) : <<f, g>> \in Inside
IsDir(s, f)   == \E g \in Present(tree[s]) : <<g, f>> \in Inside

AddFile(s, f, lines) ==
    /\ pc[s] = "open"
    /\ kind[s] \in {"write", "create"}
    /\ f \notin Present(tree[s])
    /\ ~Blocked(s, f)
    /\ ~IsDir(s, f)
    /\ SetCoverLine(s, f, lines)
    /\ SetEntry(s, f, lines)
    /\ UNCHANGED <<objects, control, metaDirty, history>>

(* After an error the unit test upload goes on with its next file, the     *)
(* system test upload gives up, a merge goes on to Flush.                  *)
GoesOn(s) ==
    \/ UNCHANGED pc
    \/ kind[s] = "write" /\ pc' = [pc EXCEPT ![s] = "failed"]

(* A blocked file is found out after its block was appended.  One that is  *)
(* a directory gets a node in a new report, but no path leads to that node.*)
AddFileFails(s, f, lines) ==
    /\ pc[s] = "open"
    /\ kind[s] \in {"write", "create"}
    /\ f \notin Present(tree[s])
    /\ Blocked(s, f) \/ (kind[s] = "create" /\ IsDir(s, f))
    /\ SetCoverLine(s, f, lines)
    /\ GoesOn(s)
    /\ UNCHANGED <<objects, kind, tree, metaDirty, todo, own, history>>

UpdateFile(s, f, lines) ==
    /\ pc[s] = "open"
    /\ kind[s] = "write"
    /\ f \in Present(tree[s])
    /\ SetCoverLine(s, f, lines)
    /\ SetEntry(s, f, lines)
    /\ UNCHANGED <<objects, control, metaDirty, history>>

(* To a session that writes a directory exists already, and is no file.    *)
UpdateFileFails(s, f) ==
    /\ pc[s] = "open"
    /\ kind[s] = "write"
    /\ IsDir(s, f)
    /\ GoesOn(s)
    /\ UNCHANGED <<objects, kind, copies, dirty, todo, history>>

(***************************************************************************)
(* RebaseReport: every file is read through its entry and written again    *)
(* with the added lines of the new diff.  A rebase that fails ends the     *)
(* RebaseReport request; the requests that only read ignore the failure.   *)
(***************************************************************************)
RebaseFile(s, f) ==
    LET e == tree[s][f]
    IN  /\ pc[s] = "rebasing"
        /\ f \in todo[s]
        /\ ~Dangling(e, local[s])
        /\ SetCoverLine(s, f, local[s][e.off].lines)
        /\ SetEntry(s, f, local[s][e.off].lines)
        /\ todo' = [todo EXCEPT ![s] = @ \ {f}]
        /\ pc' = [pc EXCEPT ![s] = IF todo[s] = {f} THEN "open" ELSE @]
        /\ UNCHANGED <<objects, kind, metaDirty, history>>

(* Mutant of RebaseFails: the visit is left where it stopped.              *)
RebaseStops(s) ==
    /\ pc[s] = "rebasing"
    /\ \/ own[s] = {}
       \/ \E f \in todo[s] : Dangling(tree[s][f], local[s])
    /\ pc' = [pc EXCEPT ![s] = IF kind[s] = "base" THEN "open" ELSE "failed"]
    /\ UNCHANGED <<objects, kind, todo, copies, dirty, history>>

(* No diff for the two commits, or a file whose block cannot be read.      *)
RebaseFails(s) ==
    /\ pc[s] = "rebasing"
    /\ \/ own[s] = {}
       \/ \E f \in todo[s] : Dangling(tree[s][f], local[s])
    /\ todo' = [todo EXCEPT ![s] = {}]
    /\ pc' = [pc EXCEPT ![s] = IF kind[s] = "base" THEN "open" ELSE "failed"]
    /\ UNCHANGED <<objects, kind, copies, dirty, history>>

(***************************************************************************)
(* Flush (SetReport): the tree is encoded into the local .cno, which makes *)
(* it dirty, and uploaded; only then is the .cda synchronised.             *)
(***************************************************************************)
FlushMeta(s) ==
    \E outcome \in Outcome :
        /\ pc[s] = "open"
        /\ kind[s] \in CanFlush
        /\ PutMeta(s, outcome)
        /\ pc' = [pc EXCEPT ![s] = IF outcome = "ok" THEN "flushing" ELSE "failed"]
        /\ UNCHANGED <<kind, copies, todo>>

(* Mutant of FlushCover: an upload that fails is only warned about.        *)
WarningFlushCover(s) ==
    /\ pc[s] = "flushing"
    /\ pc' = [pc EXCEPT ![s] = "flushed"]
    /\ \/ UNCHANGED <<cda, coverDirty, history>>
       \/ /\ s \in coverDirty
          /\ cda' = local[s]
          /\ stale' = OutdatedByCover(s)
          /\ exposed' = exposed \ {s}
          /\ Overlap(s)
          /\ coverDirty' = coverDirty \ {s}
    /\ UNCHANGED <<cno, kind, copies, metaDirty, todo>>

FlushCover(s) ==
    /\ pc[s] = "flushing"
    /\ \/ /\ s \notin coverDirty
          /\ pc' = [pc EXCEPT ![s] = "flushed"]
          /\ UNCHANGED <<cda, coverDirty, history>>
       \/ /\ s \in coverDirty
          /\ pc' = [pc EXCEPT ![s] = "failed"]
          /\ UNCHANGED <<cda, coverDirty, history>>
       \/ /\ s \in coverDirty
          /\ cda' = local[s]
          /\ stale' = OutdatedByCover(s)
          /\ exposed' = exposed \ {s}
          /\ Overlap(s)
          /\ \/ /\ coverDirty' = coverDirty \ {s}
                /\ pc' = [pc EXCEPT ![s] = "flushed"]
             \/ /\ UNCHANGED coverDirty
                /\ pc' = [pc EXCEPT ![s] = "failed"]
    /\ UNCHANGED <<cno, kind, copies, metaDirty, todo>>

(***************************************************************************)
(* Close: each source is synchronised if it is dirty; an upload that fails *)
(* is only warned about, and the temporary file is removed.                *)
(***************************************************************************)
CloseMeta(s) ==
    /\ pc[s] \in {"open", "flushed", "failed"}
    /\ pc' = [pc EXCEPT ![s] = "closing"]
    /\ IF s \in metaDirty
       THEN \E outcome \in Outcome : PutMeta(s, outcome)
       ELSE UNCHANGED <<objects, dirty, history>>
    /\ UNCHANGED <<kind, copies, todo>>

CloseCover(s) ==
    /\ pc[s] = "closing"
    /\ EndSessions({s})
    /\ \/ /\ UNCHANGED cda
          /\ stale' = stale \ {s}
          /\ Tear(exposed \cap {s})
       \/ /\ s \in coverDirty
          /\ cda' = local[s]
          /\ stale' = OutdatedByCover(s) \ {s}
          /\ Overlap(s)
    /\ UNCHANGED cno

(* The unit test upload returns without Close when its Flush fails.        *)
Abandon(s) ==
    /\ pc[s] = "failed"
    /\ kind[s] = "create"
    /\ EndSessions({s})
    /\ stale' = stale \ {s}
    /\ Tear(exposed \cap {s})
    /\ UNCHANGED objects

(* The server process dies: the sessions and their local files are gone.   *)
Crash ==
    /\ \E s \in Sessions : pc[s] # "idle"
    /\ EndSessions(Sessions)
    /\ stale' = {}
    /\ Tear(exposed)
    /\ UNCHANGED objects

SessionStep(s) ==
    \/ \E k \in Kinds : OpenMeta(s, k)
    \/ OpenCover(s)
    \/ OpenCoverFails(s)
    \/ \E f \in Files, lines \in Lines : AddFile(s, f, lines)
    \/ \E f \in Files, lines \in Lines : AddFileFails(s, f, lines)
    \/ \E f \in Files, lines \in Lines : UpdateFile(s, f, lines)
    \/ \E f \in Files : UpdateFileFails(s, f)
    \/ \E f \in Files : RebaseFile(s, f)
    \/ RebaseFails(s)
    \/ FlushMeta(s)
    \/ FlushCover(s)
    \/ CloseMeta(s)
    \/ CloseCover(s)
    \/ Abandon(s)

Next ==
    \/ \E s \in Sessions : SessionStep(s)
    \/ Crash

Spec == Init /\ [][Next]_vars

(***************************************************************************)
(* Properties.                                                             *)
(***************************************************************************)
Places == {"idle", "metaOpen", "open", "rebasing", "flushing", "flushed",
           "failed", "closing"}

Undamaged == damage = {}
Quiescent == exposed = {}
HasLocal(s) == pc[s] \notin {"idle", "metaOpen"}

(* Type invariant.  An entry has an offset exactly if it has lines, no     *)
(* offset is beyond the last block a local .cda can hold, and only a       *)
(* session that rebases has files to visit, all of them in its tree.       *)
TypeOK ==
    /\ cno \in [Files -> Entry]
    /\ cda \in Seq(Block)
    /\ pc \in [Sessions -> Places]
    /\ kind \in [Sessions -> AllKinds \cup {"none"}]
    /\ tree \in [Sessions -> [Files -> Entry]]
    /\ local \in [Sessions -> Seq(Block)]
    /\ metaDirty \subseteq Sessions
    /\ coverDirty \subseteq Sessions
    /\ todo \in [Sessions -> SUBSET Files]
    /\ own \in [Sessions -> SUBSET Files]
    /\ stale \subseteq Sessions
    /\ exposed \subseteq Sessions
    /\ damage \subseteq {"overlap", "torn"}
    /\ \A s \in Sessions : todo[s] \subseteq Present(tree[s])
    /\ \A s \in Sessions : pc[s] # "rebasing" => todo[s] = {}

(* A session reads back what it wrote itself, whatever other sessions      *)
(* uploaded meanwhile and however its own uploads went: SetCoverLine's     *)
(* offset and the entry always agree with the local .cda.                  *)
ReadYourWrites ==
    \A s \in Sessions : \A f \in own[s] : Right(f, tree[s][f], local[s])

(* As long as no stale session stored an object and no session ended half  *)
(* way through its two uploads, every entry of the .cno object points at   *)
(* the block of its file, at every moment no commit is half done.  With    *)
(* the uploads failing, their answers lost, sessions abandoned and the     *)
(* server crashing at any point.                                           *)
IndexMatchesLines == Undamaged /\ Quiescent => AllRight(cno, cda)

(* A reader may open while another session commits and get the two objects *)
(* of different commits.  It can then fail to read a file, but it is never *)
(* shown the lines of another file or of another version.                  *)
ReadersNeverMisled ==
    Undamaged => \A s \in Sessions :
        HasLocal(s) /\ kind[s] = "read" =>
            \A f \in Present(tree[s]) :
                \/ Right(f, tree[s][f], local[s])
                \/ Dangling(tree[s][f], local[s])

(* A Flush that returned no error is durable: until another session stores *)
(* an object, the two objects are the session's tree and blocks.           *)
FlushDurable ==
    \A s \in Sessions :
        pc[s] = "flushed" /\ s \notin stale => cno = tree[s] /\ cda = local[s]

(* The .cda object only grows: an upload keeps every block that was there, *)
(* so that a .cno somebody downloaded earlier stays readable.              *)
BlocksAreKept == []["overlap" \notin damage' => IsPrefixOf(cda, cda')]_cda

(* Queries never change the .cno object, whatever step they or the server  *)
(* take, not even a query with a base commit, which rebases its own copy;  *)
(* and without a base commit they do not change the .cda object either.    *)
ReadersLeaveNoTrace ==
    [][(\A s \in Sessions : kind[s] \in {"none", "read", "base"}) =>
          /\ cno' = cno
          /\ (\A s \in Sessions : kind[s] # "base") => cda' = cda]_objects

(***************************************************************************)
(* Refinement.  The report as a client can read it: a file has the lines   *)
(* of its entry if the entry is right in the .cda that is, or is about to  *)
(* be, on the store, and Unreadable otherwise.                             *)
(***************************************************************************)
Unreadable == "unreadable"

Future ==
    IF Quiescent THEN cda ELSE local[CHOOSE s \in Sessions : s \in exposed]

ReadableReport ==
    [f \in Files |->
        IF cno[f] = NoEntry THEN NoLines
        ELSE IF Right(f, cno[f], Future) THEN cno[f].lines
        ELSE Unreadable]

LinesOf(t) == [f \in Files |-> t[f].lines]

Promise == INSTANCE ReportPromise WITH
    report   <- ReadableReport,
    view     <- [s \in Sessions |-> LinesOf(tree[s])],
    active   <- {s \in Sessions : pc[s] # "idle"},
    outdated <- stale,
    spoiled  <- (damage # {})

(* The two objects and the sessions implement the promised report: storing *)
(* the .cno object is the commit, and it installs exactly the lines of the *)
(* session's tree, all of them readable.                                   *)
KeepsPromise == Promise!Spec

(***************************************************************************)
(* What the repository says of these sessions.                             *)
(***************************************************************************)
(* coverage_service.go:174 says that statistics for another base commit    *)
(* are computed in memory and not persisted.                               *)
BaseCommitInMemory ==
    [][(\A s \in Sessions : kind[s] \in {"none", "read", "base"})
            => UNCHANGED objects]_objects
=============================================================================
