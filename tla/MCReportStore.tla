--------------------------- MODULE MCReportStore ---------------------------
EXTENDS ReportStore, TLC

CONSTANTS s1, s2, f1, f2, l1, l2

(* f2 is the path "f1/...": it cannot be added next to a file f1.          *)
MCInside == {<<f2, f1>>}
MCNoInside == {}

SessionSymmetry == Permutations({s1, s2})
LineSymmetry == Permutations({s1, s2}) \cup Permutations({l1, l2})
=============================================================================
