------------------------------- MODULE Readers -------------------------------
(***************************************************************************)
(* The sequential algorithms, each by itself: the readers of .cno text, of *)
(* diffs and of profiles, and the search in a tree.  A behaviour begins    *)
(* with one of them and the others rest.                                   *)
(***************************************************************************)
EXTENDS TreeSearch, DiffParse, GoProfile

VARIABLE reader

vars == <<reader, codecVars, diffVars, profVars, searchVars>>

CodecRests == CodecInit /\ form = "current"
DiffRests == /\ patch = <<>> /\ at = [file |-> 1, part |-> 0, i |-> 1]
             /\ inHunk = FALSE /\ oldLine = 0 /\ newLine = 0 /\ files = <<>>
ProfRests == /\ profile = <<>> /\ next = 1 /\ outcome = "empty"
             /\ lines = [f \in ProfFiles |-> <<>>]
SearchRests == SearchInit

Init ==
    \/ reader = "codec" /\ CodecInit /\ DiffRests /\ ProfRests /\ SearchRests
    \/ reader = "diff" /\ CodecRests /\ DiffInit /\ ProfRests /\ SearchRests
    \/ reader = "profile" /\ CodecRests /\ DiffRests /\ ProfInit /\ SearchRests
    \/ reader = "search" /\ CodecRests /\ DiffRests /\ ProfRests /\ SearchInit

Next ==
    /\ UNCHANGED reader
    /\ \/ reader = "codec" /\ CodecNext /\ UNCHANGED <<diffVars, profVars, searchVars>>
       \/ reader = "diff" /\ DiffNext /\ UNCHANGED <<codecVars, profVars, searchVars>>
       \/ reader = "profile" /\ ProfNext /\ UNCHANGED <<codecVars, diffVars, searchVars>>
       \/ reader = "search" /\ SearchNext /\ UNCHANGED <<codecVars, diffVars, profVars>>

Spec == Init /\ [][Next]_vars

(* Types, of all of them.                                                  *)
TypeOK == CodecTypeOK /\ DiffTypeOK /\ ProfTypeOK /\ SearchTypeOK
=============================================================================
