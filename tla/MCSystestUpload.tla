--------------------------- MODULE MCSystestUpload ---------------------------
EXTENDS SystestUpload, TLC

CONSTANTS f1, f2

(* Two files of one package, or of two packages; in those they can have    *)
(* names of their own or the same name.                                    *)
OneDir  == [f \in Files |-> "a"]
TwoDirs == (f1 :> "a") @@ (f2 :> "b")
OwnBase == (f1 :> "x") @@ (f2 :> "y")
SameBase == [f \in Files |-> "x"]
=============================================================================
