---------------------------- MODULE CoverContent ----------------------------
(***************************************************************************)
(* What is in the reports, and what uploads, merges, rebases and snapshots *)
(* make of it: the cover lines of each file in its block, the statistics   *)
(* in its tree entry, the number of files in the meta data.  Queries       *)
(* change nothing, so they are operators of the reports.                   *)
(*                                                                         *)
(* Each request is one step here: how the steps of requests interleave, and*)
(* what failing uploads of the two objects do, is ReportStore's subject.   *)
(*                                                                         *)
(* Abstractions: MaxCount stands for 0x3FFFFFFF; a diff is, per file, the  *)
(* set of added line numbers and the number of deleted lines.              *)
(***************************************************************************)
EXTENDS Integers, Sequences, FiniteSets, SequencesExt

CONSTANTS
    Reports,    \* report identifiers
    ModuleOf,   \* the module of each report
    CommitOf,   \* the commit of each report
    Snapshots,  \* bound: pairs <<s, r>>, s is the snapshot that is taken of r
    Targets,    \* bound: the reports merged into, rebased and queried
    Files,      \* file nodes
    Dirs,       \* directory nodes, the root among them
    Root,
    Kids,       \* the children of each directory, in their order
    Bases,      \* base commits
    NoBase,     \* the empty base commit
    Diff,       \* Diff[b][f]: what the diff from base b says of file f
    Uploads,    \* the uploads that occur: [report, kind, lines, base, got],
                \* got tells whether the diff against the base is found
    NoFile,     \* a file that is not in a report
    MaxCount    \* the largest count a line can hold

Nodes == Files \cup Dirs

ASSUME TreeAssumption ==
    /\ Root \in Dirs
    /\ Files \cap Dirs = {}
    /\ \A d \in Dirs : Kids[d] \in Seq(Nodes \ {Root})
    /\ \A n \in Nodes \ {Root} : Cardinality({d \in Dirs : n \in ToSet(Kids[d])}) = 1

(* What is stored of a file, and what a diff says of one.                  *)
Line  == [skip : BOOLEAN, count : 0..MaxCount, incr : BOOLEAN]
Stat  == [total : Nat, instr : Nat, cover : Nat, added : Nat, deleted : Nat,
          incrInstr : Nat, incrCover : Nat]
Entry == [block : Seq(Line), stat : Stat]
FileDiff == [added : Nat, deleted : Nat, lines : SUBSET Nat]

ASSUME ContentAssumption ==
    /\ IsFiniteSet(Files) /\ NoFile \notin Entry
    /\ MaxCount \in Nat
    /\ Targets \subseteq Reports /\ Snapshots \subseteq Reports \X Reports
    /\ Diff \in [Bases -> [Files -> FileDiff]]
    /\ \A u \in Uploads :
         /\ u.report \in Reports /\ u.base \in Bases \cup {NoBase}
         /\ DOMAIN u.lines \subseteq Files
         /\ \A f \in DOMAIN u.lines : u.lines[f] \in Seq(Int)

VARIABLE rep    \* the stored reports

vars == <<rep>>

EncodableAbove(ls) == \A i \in DOMAIN ls : ls[i] >= -1

(***************************************************************************)
(* Cover lines.  A line is -1 if it holds no instruction, and else a count;*)
(* stored, it also tells whether the diff added it.                        *)
(***************************************************************************)
Encodable(ls) == \A i \in DOMAIN ls : ls[i] \in -1..MaxCount

EncodeFromZero(ls, added) ==
    [i \in DOMAIN ls |->
        [skip  |-> ls[i] = -1,
         count |-> IF ls[i] = -1 THEN 0 ELSE ls[i],
         incr  |-> i - 1 \in added]]

Encode(ls, added) ==
    [i \in DOMAIN ls |->
        [skip  |-> ls[i] = -1,
         count |-> IF ls[i] = -1 THEN 0 ELSE ls[i],
         incr  |-> i \in added]]

Counts(block) == [i \in DOMAIN block |->
                      IF block[i].skip THEN -1 ELSE block[i].count]
Added(block) == {i \in DOMAIN block : block[i].incr}

Instr(ls) == {i \in DOMAIN ls : ls[i] # -1}
Hit(ls) == {i \in DOMAIN ls : ls[i] > 0}

Percent(part, whole) == IF whole = 0 THEN 0 ELSE (part * 100) \div whole

(* The statistics of a file; diff is [added, deleted, lines].              *)
NoDiff == [added |-> 0, deleted |-> 0, lines |-> {}]

StatOf(ls, diff) ==
    [total     |-> Len(ls),
     instr     |-> Cardinality(Instr(ls)),
     cover     |-> Cardinality(Hit(ls)),
     added     |-> diff.added,
     deleted   |-> diff.deleted,
     incrInstr |-> Cardinality(Instr(ls) \cap diff.lines),
     incrCover |-> Cardinality(Hit(ls) \cap diff.lines)]

HasIncrement(stat) == stat.incrInstr > 0

(* What the diff against base b gives for a file; none without a base or   *)
(* when the diff could not be fetched.                                     *)
DiffInfo(b, f) == IF b = NoBase THEN NoDiff ELSE Diff[b][f]

(***************************************************************************)
(* Reports.                                                                *)
(***************************************************************************)
EmptyReport(b) == [file |-> [f \in Files |-> NoFile], base |-> b, total |-> 0]
Present(r) == {f \in Files : r.file[f] # NoFile}

Filed(ls, diff) == [block |-> Encode(ls, diff.lines), stat |-> StatOf(ls, diff)]

(* AddFile and UpdateFile for the files in the domain of new; the meta data*)
(* count a file when it is added.                                          *)
PutFiles(r, new) ==
    [r EXCEPT !.file = [f \in Files |-> IF f \in DOMAIN new THEN new[f] ELSE @[f]],
              !.total = @ + Cardinality(DOMAIN new \ Present(r))]

DiffLinesOnly(entry, added) == [added |-> 0, deleted |-> 0, lines |-> added]

(* The diff a merge hands on: added is what the blocks say, the numbers of *)
(* added and deleted lines are taken from the other report's entry.        *)
DiffFrom(entry, added) ==
    [added |-> entry.stat.added, deleted |-> entry.stat.deleted, lines |-> added]

SummedCounts(ls, other) ==
    [i \in DOMAIN ls |-> IF other[i] > 0 THEN ls[i] + other[i] ELSE ls[i]]
LastCounts(ls, other) ==
    [i \in DOMAIN ls |-> IF other[i] > 0 THEN other[i] ELSE ls[i]]

(* Reports of one commit: the larger count of each line.                   *)
LargerCounts(ls, other) ==
    [i \in DOMAIN ls |->
        IF other[i] > 0 /\ other[i] > ls[i] THEN other[i] ELSE ls[i]]

MergedSame(mine, theirs) ==
    LET other == Counts(theirs.block)
        added == Added(theirs.block)
    IN  IF mine = NoFile THEN Filed(other, DiffFrom(theirs, added))
        ELSE Filed(LargerCounts(Counts(mine.block), other),
                   DiffFrom(theirs, Added(mine.block) \cup added))

ReplacingCounts(ls, other) ==
    [i \in DOMAIN ls |-> IF i \in DOMAIN other THEN other[i] ELSE ls[i]]

(* Reports of different commits: what the other report covers, as far as   *)
(* the file goes; files the base report lacks are passed over.             *)
OtherCounts(ls, other) ==
    [i \in DOMAIN ls |->
        IF i \in DOMAIN other /\ other[i] > 0 THEN other[i] ELSE ls[i]]

MergedDiff(mine, theirs) ==
    Filed(OtherCounts(Counts(mine.block), Counts(theirs.block)),
          DiffFrom(theirs, Added(mine.block)))

(* The walk of the other report's tree stops at the first file that does   *)
(* not fit; what was merged before it stays merged.                        *)
Fits(r, o, f) ==
    f \in Present(r) \cap Present(o) =>
        Len(r.file[f].block) = Len(o.file[f].block)

Reached(r, o, order) ==
    {order[i] : i \in {i \in DOMAIN order : \A j \in 1..i : Fits(r, o, order[j])}}

MergeSame(r, o, order) ==
    PutFiles(r, [f \in Reached(r, o, order) \cap Present(o) |->
                    MergedSame(r.file[f], o.file[f])])
MergeDiff(r, o) ==
    PutFiles(r, [f \in Present(r) \cap Present(o) |-> MergedDiff(r.file[f], o.file[f])])

RebasedOnto(r, b) ==
    PutFiles([r EXCEPT !.base = b],
             [f \in Present(r) |->
                 Filed(Counts(r.file[f].block),
                       [DiffInfo(b, f) EXCEPT !.lines = @ \cup Added(r.file[f].block)])])

(* New increments for every file, from the diff against another base.      *)
Rebased(r, b) ==
    PutFiles([r EXCEPT !.base = b],
             [f \in Present(r) |-> Filed(Counts(r.file[f].block), DiffInfo(b, f))])

(***************************************************************************)
(* The tree.  A directory is there when a file beneath it is.  A walk meets*)
(* the files in the order in which an upload happened to add them, but the *)
(* files beneath one directory together.                                   *)
(***************************************************************************)
Beneath == LET B[n \in Nodes] == IF n \in Files THEN {n}
                                 ELSE UNION {B[k] : k \in ToSet(Kids[n])}
           IN  B

Together(S, order) ==
    \A i, j, k \in DOMAIN order :
        i < j /\ j < k /\ {order[i], order[k]} \subseteq S => order[j] \in S

Walks == {order \in SetToSeqs(Files) : \A d \in Dirs : Together(Beneath[d], order)}

(***************************************************************************)
(* Merge requests.  An entry of the request names another report; gotDiff  *)
(* tells whether the diff between the two commits could be fetched.  A     *)
(* report of another module fails the request, which then stores nothing;  *)
(* an error while merging is logged only.                                  *)
(***************************************************************************)
MergeOne(b, r, o, order, gotDiff) ==
    IF o = b THEN r
    ELSE IF CommitOf[o] = CommitOf[b] \/ ~gotDiff
    THEN MergeSame(r, rep[o], order)
    ELSE MergeDiff(r, rep[o])

(* others is the sequence of the request's reports, one or two, which are  *)
(* merged one after the other; order and got have for each of them the     *)
(* order of its files and whether its diff was fetched.                    *)
Merged(b, r, others, order, got) ==
    LET first == MergeOne(b, r, others[1], order[1], got[1])
    IN  IF Len(others) = 1 THEN first
        ELSE MergeOne(b, first, others[2], order[2], got[2])

Init == rep = [r \in Reports |-> EmptyReport(NoBase)]

MergeReports(b, others) ==
    /\ \A i \in DOMAIN others : ModuleOf[others[i]] = ModuleOf[b]
    /\ \E order \in [DOMAIN others -> Walks], got \in [DOMAIN others -> BOOLEAN] :
          rep' = [rep EXCEPT ![b] = Merged(b, @, others, order, got)]

MergeRefused(b, others) ==
    /\ \E i \in DOMAIN others : ModuleOf[others[i]] # ModuleOf[b]
    /\ UNCHANGED vars

RebaseReport(r, b) ==
    rep' = [rep EXCEPT ![r] = Rebased(@, b)]

(* GetDiff failed: the request returns before it changes anything.         *)
RebaseRefused == UNCHANGED vars

(* A snapshot is a new report, under a key of its own, with the meta data  *)
(* of its source, into which the source is merged.                         *)
SnapshotOf(r, order) == MergeSame([EmptyReport(r.base) EXCEPT !.total = r.total],
                                  r, order)

CreateSnapshot(s, r) ==
    /\ CommitOf[s] = CommitOf[r] /\ ModuleOf[s] = ModuleOf[r]
    /\ rep[s] = EmptyReport(NoBase)
    /\ \E order \in Walks :
          rep' = [rep EXCEPT ![s] = SnapshotOf(rep[r], order)]

(* A unit test upload makes a new report; a file it cannot add is left out.*)
UploadUnittest(u) ==
    LET against == IF u.got THEN u.base ELSE NoBase
        good == {f \in DOMAIN u.lines : Encodable(u.lines[f])}
    IN  rep' = [rep EXCEPT ![u.report] =
                  PutFiles(EmptyReport(u.base),
                           [f \in good |-> Filed(u.lines[f], DiffInfo(against, f))])]

(* A system test upload changes the stored report, whose meta data it      *)
(* writes anew; a file that cannot be encoded ends it before it stores.    *)
UploadSystest(u) ==
    LET against == IF u.got THEN u.base ELSE NoBase
        opened == [rep[u.report] EXCEPT !.base = u.base, !.total = 0]
    IN  /\ \A f \in DOMAIN u.lines : Encodable(u.lines[f])
        /\ rep' = [rep EXCEPT ![u.report] =
               PutFiles(opened, [f \in DOMAIN u.lines |->
                                    Filed(u.lines[f], DiffInfo(against, f))])]

UploadRefused(u) ==
    /\ \E f \in DOMAIN u.lines : ~Encodable(u.lines[f])
    /\ UNCHANGED vars

Upload(u) ==
    \/ u.kind = "unittest" /\ UploadUnittest(u)
    \/ u.kind = "systest" /\ UploadSystest(u)
    \/ u.kind = "systest" /\ UploadRefused(u)

Requests == {<<o>> : o \in Reports} \cup {os \in Reports \X Reports : os[1] # os[2]}

Next ==
    \/ \E u \in Uploads : Upload(u)
    \/ \E b \in Targets, others \in Requests :
          MergeReports(b, others) \/ MergeRefused(b, others)
    \/ \E r \in Targets, b \in Bases : RebaseReport(r, b)
    \/ RebaseRefused
    \/ \E p \in Snapshots : CreateSnapshot(p[1], p[2])

Spec == Init /\ [][Next]_vars

(***************************************************************************)
(* Queries.  With a base commit, a query first rebases its own copy of the *)
(* report; the stored one stays as it is.                                  *)
(***************************************************************************)
Preview(r, b) == IF b = NoBase THEN r ELSE Rebased(r, b)

(* The statistics of a directory are computed when they are asked for.     *)
NodeStat(r, n) ==
    [field \in {"total", "instr", "cover", "added", "deleted", "incrInstr", "incrCover"} |->
        SumFunction([f \in Beneath[n] \cap Present(r) |-> r.file[f].stat[field]])]

Coverage(r, n) == Percent(NodeStat(r, n).cover, NodeStat(r, n).instr)
IncrCoverage(r, n) == Percent(NodeStat(r, n).incrCover, NodeStat(r, n).incrInstr)

Listed(r, d) == {k \in ToSet(Kids[d]) : Beneath[k] \cap Present(r) # {}}

(* A directory's flag is set when the tree is decoded, from the children   *)
(* that are added to it, each before its own children: so it knows of the  *)
(* files right in it, with the statistics that were stored.                *)
Flag(r, shown, n) ==
    IF n \in Files THEN HasIncrement(shown.file[n].stat)
    ELSE \E f \in ToSet(Kids[n]) \cap Present(r) : HasIncrement(r.file[f].stat)

TreeNodesByFlag(r, n, isIncrement) ==
    {k \in IF n \in Files THEN {n} ELSE Listed(r, n) :
        isIncrement => Flag(r, r, k)}

(* GetTreeNodes: one level, or the file itself.                            *)
TreeNodes(r, n, isIncrement) ==
    {k \in IF n \in Files THEN {n} ELSE Listed(r, n) :
        isIncrement => HasIncrement(NodeStat(r, k))}

(* GetFileCoverage marks the added lines of the new base in the stored     *)
(* lines of the file.                                                      *)
FileView(r, f, b) ==
    [i \in DOMAIN r.file[f].block |->
        [r.file[f].block[i] EXCEPT !.incr = @ \/ i \in DiffInfo(b, f).lines]]

-----------------------------------------------------------------------------
(***************************************************************************)
(* Properties.                                                             *)
(***************************************************************************)
(* Types: every entry has a block of lines that can be stored.             *)
TypeOK ==
    \A r \in Reports :
        /\ rep[r].base \in Bases \cup {NoBase}
        /\ rep[r].total \in Nat
        /\ \A f \in Present(rep[r]) :
              /\ Counts(rep[r].file[f].block) \in Seq(-1..MaxCount)
              /\ rep[r].file[f].stat \in Stat

(* The statistics in .cno and the flags in .cda are written from one diff  *)
(* by different code, and read back, merged and rebased any number of times*)
(* they still tell the same: the entry of a file says of its lines and its *)
(* increments exactly what is in its block.                                *)
StatsFitLines ==
    \A r \in Reports : \A f \in Present(rep[r]) :
        LET e == rep[r].file[f]
        IN  e.stat = StatOf(Counts(e.block),
                            [added |-> e.stat.added, deleted |-> e.stat.deleted,
                             lines |-> Added(e.block)])

(* What is covered in a report, and no merge and no rebase takes that back:*)
(* only an upload or a new snapshot replaces what a line had.              *)
Covered(r, f) == IF f \in Present(r) THEN Hit(Counts(r.file[f].block)) ELSE {}

Replaced == \/ \E u \in Uploads : Upload(u)
            \/ \E p \in Snapshots : CreateSnapshot(p[1], p[2])

CoverageIsKept ==
    [][\/ Replaced
       \/ \A r \in Reports, f \in Files : Covered(rep[r], f) \subseteq Covered(rep'[r], f)
      ]_vars

(* A merge of one other report that is asked for again, because the answer *)
(* of the first was lost, changes nothing more: of the same commit or not, *)
(* complete or ended by an error.                                          *)
MergeCanBeRetried ==
    \A b \in Targets, o \in Reports, got \in BOOLEAN : \A order \in Walks :
        LET once == MergeOne(b, rep[b], o, order, got)
        IN  MergeOne(b, once, o, order, got) = once

(* Reports of one commit give the same lines whichever is merged first, if *)
(* they agree on the length of each file and, for a file that the merged   *)
(* report lacks, on its instructions: the first merge brings them.         *)
SameLengths(r, o) ==
    \A f \in Present(r) \cap Present(o) :
        Len(r.file[f].block) = Len(o.file[f].block)
SameInstructions(r, o, f) ==
    f \in Present(r) \cap Present(o) =>
        Instr(Counts(r.file[f].block)) = Instr(Counts(o.file[f].block))

MergeOrderIsFree ==
    \A b \in Targets, o, p \in Reports :
        /\ CommitOf[o] = CommitOf[b] /\ CommitOf[p] = CommitOf[b]
        /\ o # b /\ p # b
        /\ SameLengths(rep[b], rep[o]) /\ SameLengths(rep[b], rep[p])
        /\ SameLengths(rep[o], rep[p])
        => \A order \in Walks :
             LET Then(x, y) == MergeSame(MergeSame(rep[b], rep[x], order), rep[y], order)
             IN  \A f \in Files :
                   f \in Present(rep[b]) \/ SameInstructions(rep[o], rep[p], f) =>
                   \/ f \notin Present(Then(o, p)) /\ f \notin Present(Then(p, o))
                   \/ Then(o, p).file[f].block = Then(p, o).file[f].block

(* Rebasing leaves nothing of the base a report had before, and nothing but*)
(* increments changes: looking at base b first does not matter.            *)
RebaseForgets ==
    \A r \in Targets, b, c \in Bases :
        /\ Rebased(Rebased(rep[r], b), c) = Rebased(rep[r], c)
        /\ \A n \in Nodes : Coverage(Rebased(rep[r], b), n) = Coverage(rep[r], n)

(* A snapshot shows what its source shows: the same lines and statistics,  *)
(* whatever order its files are met in.                                    *)
SnapshotIsFaithful ==
    \A r \in Reports : \A order \in Walks :
        SnapshotOf(rep[r], order).file = rep[r].file

(* In the increment view every file with increments can be reached: each   *)
(* directory above it is listed by the one above, with a stored or a chosen*)
(* base.                                                                   *)
IncrementsCanBeReached ==
    \A r \in Targets, b \in Bases \cup {NoBase} :
        LET shown == Preview(rep[r], b)
        IN  \A f \in Present(shown), d \in Dirs :
              HasIncrement(shown.file[f].stat) /\ f \in Beneath[d] =>
                  \E n \in TreeNodes(shown, d, TRUE) : f \in Beneath[n]
=============================================================================
