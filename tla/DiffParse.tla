------------------------------ MODULE DiffParse ------------------------------
(***************************************************************************)
(* The parser of git diffs: from the lines of a diff to the line numbers   *)
(* that were added to and deleted from each file, with two line counters   *)
(* that every line of a hunk moves.                                        *)
(*                                                                         *)
(* A patch is a sequence of files, a file a record of its old and new name *)
(* and its hunks, a hunk a sequence of Ops.  The text of a line matters    *)
(* only where the parser looks at it: an added line whose text begins with *)
(* ++, a deleted one whose text begins with --.                            *)
(***************************************************************************)
EXTENDS Integers, Sequences, SequencesExt

CONSTANTS
    Patches,    \* the patches that are parsed
    Names,      \* the names of their files
    Gap         \* unchanged lines between two hunks

Ops == {"keep", "add", "del", "add plus", "del minus"}

(* No later file of a patch has a name that an earlier one has or had: git *)
(* finds the old name of a renamed file gone, and reports no copies.       *)
ASSUME DiffAssumption ==
    /\ Gap \in Nat \ {0}
    /\ Patches \subseteq Seq([old : Names, new : Names, hunks : Seq(Seq(Ops))])
    /\ \A p \in Patches : \A i, j \in DOMAIN p : i < j => p[i].new \notin {p[j].new, p[j].old}

VARIABLES
    patch,      \* what was changed
    at,         \* the line that is parsed next: its file, its part, its place there
    inHunk,     \* isHunk
    oldLine,    \* oldLineNum
    newLine,    \* newLineNum
    files       \* GitDiff.DiffFiles

diffVars == <<patch, at, inHunk, oldLine, newLine, files>>

(***************************************************************************)
(* What is true of a patch: the numbers of its lines.                      *)
(***************************************************************************)
InOld == {"keep", "del", "del minus"}
InNew == {"keep", "add", "add plus"}
Plain == {"keep", "add", "del"}

(* The lines of S among the first n of a hunk, and among all of them.      *)
Before(ops, n, S) == Cardinality({i \in 1..n : ops[i] \in S})
Count(ops, S) == Before(ops, Len(ops), S)

(* The first line of hunk h, in the old (S = InOld) or the new file.       *)
FirstLine(file, h, S) ==
    LET earlier == UNION {{g} \X {i \in DOMAIN file.hunks[g] : file.hunks[g][i] \in S} :
                          g \in 1..h - 1}
    IN  1 + (h - 1) * Gap + Cardinality(earlier)

LineOf(file, h, i, S) == FirstLine(file, h, S) + Before(file.hunks[h], i - 1, S)

(* The lines of a file that ops of Kind make, counting lines of S.         *)
LinesOf(file, Kind, S) ==
    UNION {{LineOf(file, h, i, S) :
               i \in {j \in DOMAIN file.hunks[h] : file.hunks[h][j] \in Kind}} :
           h \in DOMAIN file.hunks}

(***************************************************************************)
(* The text of a diff: for each file its header (part 0), its hunks, and   *)
(* the end.  A hunk that has no lines in a file starts there at the line   *)
(* before it.                                                              *)
(***************************************************************************)
FileHeader(f) == <<[kind |-> "diff", old |-> f.old, new |-> f.new],
                   [kind |-> "old name"], [kind |-> "new name"]>>

Start(f, h, S) == FirstLine(f, h, S) - IF Count(f.hunks[h], S) = 0 THEN 1 ELSE 0

HunkHeader(f, h) == [kind |-> "hunk", old |-> Start(f, h, InOld), new |-> Start(f, h, InNew)]

HunkText(f, h) ==
    [i \in 1..Len(f.hunks[h]) + 1 |->
        IF i = 1 THEN HunkHeader(f, h) ELSE [kind |-> f.hunks[h][i - 1]]]

FileEnd == <<[kind |-> "no newline"], [kind |-> "empty"]>>

Part(f, part) == IF part = 0 THEN FileHeader(f)
                 ELSE IF part \in DOMAIN f.hunks THEN HunkText(f, part) ELSE FileEnd

(***************************************************************************)
(* The parser, a line at a time.                                           *)
(***************************************************************************)
NewHunk == [added |-> {}, deleted |-> {}, same |-> {}]

DiffInit ==
    /\ patch \in Patches
    /\ at = [file |-> 1, part |-> 0, i |-> 1]
    /\ inHunk = FALSE
    /\ oldLine = 0
    /\ newLine = 0
    /\ files = <<>>

Unread == at.file \in DOMAIN patch
Line == Part(patch[at.file], at.part)[at.i]

ToNextLine ==
    at' = IF at.i < Len(Part(patch[at.file], at.part)) THEN [at EXCEPT !.i = @ + 1]
          ELSE IF at.part <= Len(patch[at.file].hunks)
               THEN [file |-> at.file, part |-> at.part + 1, i |-> 1]
               ELSE [file |-> at.file + 1, part |-> 0, i |-> 1]

ParseFileHeader ==
    /\ Unread /\ Line.kind = "diff"
    /\ files' = Append(files, [old |-> Line.old, new |-> Line.new, hunks |-> <<>>])
    /\ inHunk' = FALSE
    /\ ToNextLine
    /\ UNCHANGED <<patch, oldLine, newLine>>

KeptLine(start, line) == IF inHunk THEN line ELSE start

(* The header of a hunk sets a counter.                                    *)
StartLine(start, line) == start

ParseHunkHeader ==
    /\ Unread /\ Line.kind = "hunk"
    /\ files' = [files EXCEPT ![Len(files)].hunks = Append(@, NewHunk)]
    /\ inHunk' = TRUE
    /\ oldLine' = StartLine(Line.old, oldLine)
    /\ newLine' = StartLine(Line.new, newLine)
    /\ ToNextLine
    /\ UNCHANGED patch

(* Lines that begin with --- or +++ are taken for the header of a file.    *)
IsSourceLine(kind) ==
    kind \notin {"no newline", "empty", "old name", "new name", "add plus", "del minus"}

CountedFirst(hunk, kind) ==
    CASE kind \in {"add", "add plus"} -> [hunk EXCEPT !.added = @ \cup {newLine + 1}]
      [] kind \in {"del", "del minus"} -> [hunk EXCEPT !.deleted = @ \cup {oldLine + 1}]
      [] OTHER -> [hunk EXCEPT !.same = @ \cup {<<oldLine, newLine>>}]

(* The hunk with what a line of it says.                                   *)
Noted(hunk, kind) ==
    CASE kind \in {"add", "add plus"} -> [hunk EXCEPT !.added = @ \cup {newLine}]
      [] kind \in {"del", "del minus"} -> [hunk EXCEPT !.deleted = @ \cup {oldLine}]
      [] OTHER -> [hunk EXCEPT !.same = @ \cup {<<oldLine, newLine>>}]

(* How far a line moves each counter.                                      *)
OldStep(kind) == IF kind \in InOld THEN 1 ELSE 0
NewStep(kind) == IF kind \in InNew THEN 1 ELSE 0

ParseHunk ==
    /\ Unread /\ inHunk /\ Line.kind \notin {"diff", "hunk"}
    /\ IsSourceLine(Line.kind)
    /\ files' = LET f == Len(files)
                    h == Len(files[f].hunks)
                IN  [files EXCEPT ![f].hunks[h] = Noted(@, Line.kind)]
    /\ oldLine' = oldLine + OldStep(Line.kind)
    /\ newLine' = newLine + NewStep(Line.kind)
    /\ ToNextLine
    /\ UNCHANGED <<patch, inHunk>>

PassOver ==
    /\ Unread /\ Line.kind \notin {"diff", "hunk"}
    /\ ~inHunk \/ ~IsSourceLine(Line.kind)
    /\ ToNextLine
    /\ UNCHANGED <<patch, inHunk, oldLine, newLine, files>>

DiffNext == ParseFileHeader \/ ParseHunkHeader \/ ParseHunk \/ PassOver

DiffSpec == DiffInit /\ [][DiffNext]_diffVars

(***************************************************************************)
(* What the callers ask for: a file by its new name, or by its old one;    *)
(* of two files with a claim to a name the later has it.                   *)
(***************************************************************************)
DiffFileOf(name) ==
    LET claims == {i \in DOMAIN files : name \in {files[i].new, files[i].old}}
    IN  files[Max(claims)]

FileChangeLines(file) == UNION {file.hunks[h].added : h \in DOMAIN file.hunks}
DeletedLines(file) == UNION {file.hunks[h].deleted : h \in DOMAIN file.hunks}

-----------------------------------------------------------------------------
(* Types; the counters are past every line of the hunk that was noted.     *)
DiffTypeOK ==
    /\ inHunk \in BOOLEAN
    /\ oldLine \in Nat /\ newLine \in Nat
    /\ inHunk =>
          LET hunk == Last(Last(files).hunks)
          IN  /\ hunk.added \subseteq 0..newLine - 1
              /\ hunk.deleted \subseteq 0..oldLine - 1
              /\ hunk.same \subseteq (0..oldLine - 1) \X (0..newLine - 1)

LooksPlain == \A i \in DOMAIN patch : \A h \in DOMAIN patch[i].hunks :
                 ToSet(patch[i].hunks[h]) \subseteq Plain

UnchangedLines(file) == UNION {file.hunks[h].same : h \in DOMAIN file.hunks}

Parsed == ~Unread

(* The added and deleted lines of every file are those the change really   *)
(* has, and the lines kept are paired old with new, over several hunks and *)
(* files, new and emptied files, a missing last newline - so long as no    *)
(* line looks like a header.                                               *)
LinesAreRight ==
    Parsed /\ LooksPlain =>
        \A i \in DOMAIN patch :
            LET parsed == DiffFileOf(patch[i].new)
                kept == UnchangedLines(parsed)
            IN  /\ FileChangeLines(parsed) = LinesOf(patch[i], {"add"}, InNew)
                /\ DeletedLines(parsed) = LinesOf(patch[i], {"del"}, InOld)
                /\ {p[1] : p \in kept} = LinesOf(patch[i], {"keep"}, InOld)
                /\ {p[2] : p \in kept} = LinesOf(patch[i], {"keep"}, InNew)
                /\ \A p, q \in kept : p[1] < q[1] <=> p[2] < q[2]
=============================================================================
