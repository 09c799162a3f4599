------------------------------ MODULE MCReaders ------------------------------
EXTENDS Readers, TLC

CONSTANTS MaxOps,   \* bound: lines of a hunk
          MaxBlocks \* bound: blocks of a profile

(* a and b are names; a/b/... and a file a in the root come in any order.  *)
MCPaths == {<<"a">>, <<"b">>, <<"a", "a">>, <<"a", "b">>, <<"b", "a">>,
            <<"a", "b", "a">>, <<"a", "b", "b">>}
MCSearchPaths == {<<"b">>, <<"a", "a">>, <<"a", "b", "a">>, <<"a", "b", "b">>}

Hunks == UNION {[1..n -> Ops] : n \in 1..MaxOps}
ShortHunks == {<<"add">>, <<"del", "keep">>, <<"keep", "add">>}
DiffFile(old, new, hunks) == [old |-> old, new |-> new, hunks |-> hunks]

MCPatches ==
    {<<DiffFile("f", "f", <<h>>)>> : h \in Hunks}
    \cup {<<DiffFile("f", "f", <<g, h>>), DiffFile("g", "h", <<k>>)>> :
             g, h, k \in ShortHunks}

Block(f, first, last, count) ==
    [kind |-> "block", file |-> f, first |-> first, last |-> last, count |-> count]
Mode == [kind |-> "mode"]
ProfLines == {Block(f, r[1], r[2], c) : f \in {"f"}, c \in {0, 1, 2, 4},
                                        r \in {<<1, 1>>, <<1, 3>>, <<2, 4>>}}
             \cup {Block("g", 2, 2, 1), [kind |-> "other"], Mode}
MCProfiles == UNION {[1..n -> ProfLines] : n \in 0..MaxBlocks}
=============================================================================
