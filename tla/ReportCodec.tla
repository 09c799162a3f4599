----------------------------- MODULE ReportCodec -----------------------------
(***************************************************************************)
(* The text of a .cno object: how a tree becomes lines, and the reader that*)
(* makes a tree of lines again, line by line, with a stack of the          *)
(* directories it is in.  Trees are built by AddFile.                      *)
(*                                                                         *)
(* A tree is the sequence of its nodes, each before its children: a record *)
(* of path, dir (is it a directory), data (a file's columns; 0 for a       *)
(* directory, whose columns are computed) and incr (has_increment).  A line*)
(* is a record of what the reader tells apart.  Names have no colon and no *)
(* surrounding space.                                                      *)
(***************************************************************************)
EXTENDS Integers, Sequences, SequencesExt

CONSTANTS
    Paths,      \* paths of files, sequences of names
    MaxFiles,   \* bound: files of a report
    Forms       \* the forms a stored report may have

AllForms == {"current", "more sections", "old"}

ASSUME CodecAssumption == Forms \subseteq AllForms /\ Paths \subseteq Seq(STRING) \ {<<>>}

VARIABLES
    built,      \* the tree that was encoded
    form,       \* the form it was encoded in
    text,       \* the lines of the object
    pos,        \* the line that is read next
    section,    \* where the reader is: "none", "skip", "meta", "tree"
    seen,       \* the sections that were met
    total,      \* total_files as it was read
    nodes,      \* the nodes that were read
    parents,    \* the stack: positions in nodes of the open directories
    result      \* "building", "reading", and how reading ended

codecVars == <<built, form, text, pos, section, seen, total, nodes, parents, result>>

(***************************************************************************)
(* Trees.                                                                  *)
(***************************************************************************)
Dir(path) == [path |-> path, dir |-> TRUE, data |-> 0, incr |-> FALSE]
File(path, data, incr) == [path |-> path, dir |-> FALSE, data |-> data, incr |-> incr]

(* Of the columns, data stands for; odd ones have changed instructions.    *)
HasIncr(data) == data % 2 = 1
NewTree == <<Dir(<<>>)>>
FilesOf(t) == Cardinality({i \in DOMAIN t : ~t[i].dir})

(* The last position of the subtree at position i.                         *)
SubtreeEnd(t, i) ==
    LET after == {j \in i + 1..Len(t) : Len(t[j].path) <= Len(t[i].path)}
    IN  IF after = {} THEN Len(t) ELSE Min(after) - 1

(* The first node of that path, which is the child that FindChild finds in *)
(* the directory before it, or 0.                                          *)
FindNode(t, path) ==
    LET found == {j \in DOMAIN t : t[j].path = path}
    IN  IF found = {} THEN 0 ELSE Min(found)

IsDir(t, path) == FindNode(t, path) # 0 /\ t[FindNode(t, path)].dir
IsFile(t, path) == FindNode(t, path) # 0 /\ ~t[FindNode(t, path)].dir

AddFirst(t, i, new) == SubSeq(t, 1, i) \o new \o SubSeq(t, i + 1, Len(t))

(* A child comes after all there is below its directory; it may have nodes *)
(* below it in turn.                                                       *)
AddBelow(t, i, new) ==
    SubSeq(t, 1, SubtreeEnd(t, i)) \o new \o SubSeq(t, SubtreeEnd(t, i) + 1, Len(t))

(* AddFile goes down the directories of the path as far as there are any   *)
(* and makes those that are missing; a file in the place of one ends it.   *)
(* The file itself is added without a look at what is there.               *)
InWay(t, path) == \E n \in 1..Len(path) - 1 : IsFile(t, SubSeq(path, 1, n))

AddToTree(t, path, data) ==
    LET there == Max({n \in 0..Len(path) - 1 : IsDir(t, SubSeq(path, 1, n))})
        made == [k \in 1..Len(path) - there |->
                    IF there + k < Len(path) THEN Dir(SubSeq(path, 1, there + k))
                    ELSE File(path, data, HasIncr(data))]
    IN  AddBelow(t, FindNode(t, SubSeq(path, 1, there)), made)

(***************************************************************************)
(* Encoding.  The old form has no slash after a directory and no column    *)
(* has_increment; other sections are passed over.                          *)
(***************************************************************************)
IndentSize == 2

SectionLine(tag) == [kind |-> "section", tag |-> tag]
MetaLine(key, val) == [kind |-> "meta", key |-> key, val |-> val]
OtherLine == [kind |-> "other"]

NodeLine(n, f) ==
    [kind   |-> "node",
     indent |-> IndentSize * Len(n.path),
     name   |-> IF n.path = <<>> THEN "*" ELSE Last(n.path),
     slash  |-> n.dir /\ f # "old",
     data   |-> n.data,
     has    |-> IF f = "old" THEN "none" ELSE IF n.incr THEN "1" ELSE "0"]

Heading(t, f) ==
    IF f = "more sections"
    THEN <<SectionLine("meta"), MetaLine("total_files", FilesOf(t)), MetaLine("columns", 0),
           SectionLine("notes"), OtherLine, SectionLine("tree")>>
    ELSE <<SectionLine("meta"), MetaLine("total_files", FilesOf(t)), MetaLine("columns", 0),
           SectionLine("tree")>>

Encoded(t, f) == Heading(t, f) \o [i \in DOMAIN t |-> NodeLine(t[i], f)]

(***************************************************************************)
(* Reading.                                                                *)
(***************************************************************************)
CodecInit ==
    /\ built = NewTree
    /\ form \in Forms
    /\ text = <<>>
    /\ pos = 1
    /\ section = "none"
    /\ seen = {}
    /\ total = 0
    /\ nodes = <<>>
    /\ parents = <<>>
    /\ result = "building"

Build(path) ==
    /\ result = "building"
    /\ FilesOf(built) < MaxFiles
    /\ \A i \in DOMAIN built : built[i].dir \/ built[i].path # path
    /\ ~InWay(built, path)
    /\ built' = AddToTree(built, path, FilesOf(built) + 1)
    /\ UNCHANGED <<form, text, pos, section, seen, total, nodes, parents, result>>

(* The object is opened: what the encoder wrote, or nothing at all.        *)
StartReading ==
    /\ result = "building"
    /\ result' = "reading"
    /\ text' \in {Encoded(built, form), <<>>}
    /\ UNCHANGED <<built, form, pos, section, seen, total, nodes, parents>>

Reading(kind) == result = "reading" /\ pos <= Len(text) /\ text[pos].kind = kind

ToNext == pos' = pos + 1 /\ UNCHANGED <<built, form, text, result>>

ReadSection ==
    /\ Reading("section")
    /\ section' = IF text[pos].tag \in {"meta", "tree"} THEN text[pos].tag ELSE "skip"
    /\ ToNext
    /\ seen' = seen \cup {section'}
    /\ UNCHANGED <<total, nodes, parents>>

ReadMeta ==
    /\ Reading("meta") /\ section = "meta"
    /\ total' = IF text[pos].key = "total_files" THEN text[pos].val ELSE total
    /\ ToNext
    /\ UNCHANGED <<section, seen, nodes, parents>>

SkipLine ==
    /\ Reading("other") /\ section = "skip"
    /\ ToNext
    /\ UNCHANGED <<section, seen, total, nodes, parents>>

(* A node without a slash is a directory if the next line is deeper.       *)
NextIsDeeper ==
    pos < Len(text) /\ text[pos + 1].kind = "node" /\ text[pos + 1].indent > text[pos].indent

UncutParents(line) == parents

(* The stack is cut back to the level of the line.                         *)
ParentsOf(line) ==
    LET level == line.indent \div IndentSize
    IN  IF level < Len(parents) THEN SubSeq(parents, 1, level) ELSE parents

(* The name is compared with the dashes before it.                         *)
IsRoot(line) == line.indent = 0 /\ line.name = "*"

ReadRoot ==
    /\ Reading("node") /\ section = "tree" /\ IsRoot(text[pos])
    /\ nodes' = NewTree
    /\ parents' = Append(parents, 1)
    /\ ToNext
    /\ UNCHANGED <<section, seen, total>>

ReadNode ==
    LET line == text[pos]
        isDir == line.slash \/ NextIsDeeper
        kept == ParentsOf(line)
        path == Append(nodes[Last(kept)].path, line.name)
        incr == IF line.has = "none" THEN HasIncr(line.data) ELSE line.has = "1"
        node == IF isDir THEN Dir(path) ELSE File(path, line.data, incr)
    IN  /\ Reading("node") /\ section = "tree" /\ ~IsRoot(line)
        /\ kept # <<>>
        /\ nodes' = AddBelow(nodes, Last(kept), <<node>>)
        /\ parents' = IF isDir
                      THEN Append(kept, SubtreeEnd(nodes, Last(kept)) + 1) ELSE kept
        /\ ToNext
        /\ UNCHANGED <<section, seen, total>>

EndReading ==
    /\ result = "reading" /\ pos > Len(text)
    /\ result' = IF "meta" \notin seen THEN "no meta"
                 ELSE IF "tree" \notin seen THEN "no tree" ELSE "read"
    /\ UNCHANGED <<built, form, text, pos, section, seen, total, nodes, parents>>

CodecNext ==
    \/ \E path \in Paths : Build(path)
    \/ StartReading
    \/ ReadSection \/ ReadMeta \/ SkipLine \/ ReadRoot \/ ReadNode
    \/ EndReading

CodecSpec == CodecInit /\ [][CodecNext]_codecVars

-----------------------------------------------------------------------------
(* Types.                                                                  *)
CodecTypeOK ==
    /\ section \in {"none", "skip", "meta", "tree"}
    /\ result \in {"building", "reading", "read", "no meta", "no tree"}
    /\ \A i \in DOMAIN parents : parents[i] \in DOMAIN nodes /\ nodes[parents[i]].dir

(* Whatever tree of files was stored, nested and in whatever order, with a *)
(* file and a directory of one name too, is what is read: every file under *)
(* its path, with its columns, in its place.  Of a report of the old form  *)
(* the reader must find out which nodes are directories and which files    *)
(* have increments; it ends up with the same tree.                         *)
RoundTrip == result = "read" => nodes = built /\ total = FilesOf(built)
=============================================================================
