---------------------------- MODULE MCCoverServer ----------------------------
EXTENDS CoverServer, TLC

CONSTANTS u1, u2, s1, s2, a1, a2, c1, c2, b1

(* Two runs for one commit.                                                *)
MCCommitOf == [u \in Uploads |-> c1]
MCRunOf == (u1 :> 1) @@ (u2 :> 2)
MCBaseOf == [u \in Uploads |-> b1]
MCShort == [c \in Commits |-> c]
=============================================================================
