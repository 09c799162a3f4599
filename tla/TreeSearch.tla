----------------------------- MODULE TreeSearch -----------------------------
(***************************************************************************)
(* The search in a report's tree: a visitor that the walk over the tree    *)
(* tells of each directory it enters and leaves and of each file, with a   *)
(* stack of the open directories and a depth below which it looks no more. *)
(*                                                                         *)
(* The tree is one that AddFile makes (ReportCodec), a node is its place in*)
(* it: a commit has one file or directory of a path, so that the paths by  *)
(* which the visitor keeps what it found tell the same.                    *)
(***************************************************************************)
EXTENDS ReportCodec

CONSTANTS
    SearchPaths,    \* paths of files
    MaxSearchFiles  \* bound: files of a tree

ASSUME SearchAssumption == SearchPaths \subseteq Seq(STRING) \ {<<>>}

VARIABLES
    tree,       \* the report's tree
    searching,  \* has Match been called?
    hits,       \* the nodes for which isMatch says yes
    place,         \* the node that the walk comes to next
    stack,      \* the directories it is in
    matched,    \* what was found
    pruneDepth  \* how many of them are a match or inside one

searchVars == <<tree, searching, hits, place, stack, matched, pruneDepth>>

(* The nodes below a node.                                                 *)
Below(t, i) == i + 1..SubtreeEnd(t, i)

(***************************************************************************)
(* What matches: a name that contains the word, and an increment if asked. *)
(* changed are the files with an increment, against the base commit of the *)
(* query.  A directory's flag was set when the tree was decoded, from the  *)
(* children that were added to it, each before its own children: it knows  *)
(* of the files right in it, and of the increments that were stored.       *)
(***************************************************************************)
HasIncrement(t, i, changed) ==
    IF t[i].dir
    THEN \E j \in Below(t, i) : Len(t[j].path) = Len(t[i].path) + 1 /\ t[j].incr
    ELSE i \in changed

IsMatch(t, i, named, changed, isIncrement) ==
    i \in named /\ (isIncrement => HasIncrement(t, i, changed))

SearchInit ==
    /\ tree = NewTree
    /\ searching = FALSE
    /\ hits = {}
    /\ place = 1
    /\ stack = <<>>
    /\ matched = {}
    /\ pruneDepth = 0

Add(path) ==
    /\ ~searching
    /\ FilesOf(tree) < MaxSearchFiles
    /\ FindNode(tree, path) = 0
    /\ ~InWay(tree, path)
    /\ tree' = AddToTree(tree, path, FilesOf(tree) + 1)
    /\ UNCHANGED <<searching, hits, place, stack, matched, pruneDepth>>

SearchNodes ==
    /\ ~searching
    /\ searching' = TRUE
    /\ \E named \in SUBSET DOMAIN tree, isIncrement \in BOOLEAN,
          changed \in SUBSET {i \in DOMAIN tree : ~tree[i].dir} :
          hits' = {i \in DOMAIN tree : IsMatch(tree, i, named, changed, isIncrement)}
    /\ UNCHANGED <<tree, place, stack, matched, pruneDepth>>

(***************************************************************************)
(* The walk: Accept enters a directory, goes through its children, and     *)
(* leaves it.                                                              *)
(***************************************************************************)
IsNext == IF stack = <<>> THEN place = 1 ELSE place \in Below(tree, Last(stack))

(* Ancestors are added from the top of the stack down, until one that is   *)
(* there already.  A directory that is entered is itself on the stack.     *)
AddWithAncestors(n, open) ==
    LET found == matched \cup {n}
        known == {i \in DOMAIN open : open[i] \in found}
        first == IF known = {} THEN 1 ELSE 1 + Max(known)
    IN  IF n \in matched THEN matched ELSE found \cup {open[i] : i \in first..Len(open)}

VisitDirEnter ==
    /\ searching /\ IsNext /\ tree[place].dir
    /\ stack' = Append(stack, place)
    /\ pruneDepth' = IF pruneDepth > 0 THEN pruneDepth + 1 ELSE IF place \in hits THEN 1 ELSE 0
    /\ matched' = IF pruneDepth = 0 /\ place \in hits THEN AddWithAncestors(place, stack') ELSE matched
    /\ place' = place + 1
    /\ UNCHANGED <<tree, searching, hits>>

StaysPruned(depth) == depth

DepthOutside(depth) == IF depth > 0 THEN depth - 1 ELSE depth

VisitDirExit ==
    /\ searching /\ stack # <<>> /\ ~IsNext
    /\ pruneDepth' = DepthOutside(pruneDepth)
    /\ stack' = Front(stack)
    /\ UNCHANGED <<tree, searching, hits, place, matched>>

VisitFile ==
    /\ searching /\ IsNext /\ ~tree[place].dir
    /\ matched' = IF pruneDepth = 0 /\ place \in hits THEN AddWithAncestors(place, stack) ELSE matched
    /\ place' = place + 1
    /\ UNCHANGED <<tree, searching, hits, stack, pruneDepth>>

SearchNext ==
    \/ \E path \in SearchPaths : Add(path)
    \/ SearchNodes
    \/ VisitDirEnter \/ VisitDirExit \/ VisitFile

SearchSpec == SearchInit /\ [][SearchNext]_searchVars

Searched == place > 1 /\ stack = <<>>

-----------------------------------------------------------------------------
(* Types; no deeper is pruned than the walk is.                            *)
SearchTypeOK ==
    /\ hits \subseteq DOMAIN tree
    /\ place \in 1..Len(tree) + 1
    /\ stack \in Seq(DOMAIN tree)
    /\ matched \subseteq DOMAIN tree
    /\ pruneDepth \in 0..Len(stack)

(* A search finds what it should, whatever matches: each match is returned *)
(* or lies beneath a match that is (the walk is pruned there, and is so no *)
(* longer once it has left that directory), and nothing beneath a returned *)
(* match is returned.                                                      *)
SearchIsComplete ==
    Searched =>
        /\ \A n \in hits : n \in matched \/ \E m \in matched \cap hits : n \in Below(tree, m)
        /\ \A m \in matched \cap hits : Below(tree, m) \cap matched = {}

(***************************************************************************)
(* Expected by the documentation; a run shows otherwise.                   *)
(***************************************************************************)
(* report.go:49: Match returns the nodes that match and their ancestors;   *)
(* the tree the browser builds of the answer hangs by them.                *)
SearchReturnsAncestors ==
    Searched => \A n \in matched, d \in DOMAIN tree : n \in Below(tree, d) => d \in matched
=============================================================================
