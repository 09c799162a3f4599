--------------------------- MODULE MCCoverContent ---------------------------
EXTENDS CoverContent

CONSTANTS base, same, far, alien, snap, root, d1, d2, f1, f2, b1, b2

(* d1/d2/f1 and, after it, f2 in the root.                                 *)
MCKids == (root :> <<d1, f2>>) @@ (d1 :> <<d2>>) @@ (d2 :> <<f1>>)
MCModuleOf == [r \in Reports |-> IF r = alien THEN "n" ELSE "m"]
MCCommitOf == [r \in Reports |-> IF r = far THEN "c2" ELSE "c1"]

Change(added, deleted, lines) ==
    [added |-> added, deleted |-> deleted, lines |-> lines]

(* Base b1 changed the first line of f1 and one beyond what is covered, b2 *)
(* the second line of f1 and a line of f2.                                 *)
MCDiff ==
    (b1 :> (f1 :> Change(2, 0, {1, 4}) @@ f2 :> NoDiff)) @@
    (b2 :> (f1 :> Change(1, 1, {2}) @@ f2 :> Change(1, 0, {1})))

Put(r, kind, lines, b, got) ==
    [report |-> r, kind |-> kind, lines |-> lines, base |-> b, got |-> got]

(* The largest count is 2, so the line with 3 cannot be stored; far is of  *)
(* another commit, where f1 is shorter; of same, the second upload does not*)
(* know the first line of f1 for an instruction.                           *)
MCUploads == {
    Put(base, "unittest", f1 :> <<1, 0, -1>> @@ f2 :> <<3>>, b1, TRUE),
    Put(base, "systest", f1 :> <<0, 2, -1>>, b2, FALSE),
    Put(base, "systest", f1 :> <<0, 3, -1>>, NoBase, FALSE),
    Put(same, "unittest", f1 :> <<0, 1, -1>> @@ f2 :> <<1>>, NoBase, FALSE),
    Put(same, "systest", f1 :> <<-1, 2, -1>> @@ f2 :> <<2>>, NoBase, FALSE),
    Put(far, "systest", f1 :> <<0, 1>> @@ f2 :> <<1>>, b2, TRUE)}
MCSnapshots == {<<snap, same>>}
=============================================================================
