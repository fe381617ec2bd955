--------------------------- MODULE MCVerification ---------------------------
(***************************************************************************)
(* Instances of Verification for TLC.                                      *)
(***************************************************************************)
EXTENDS Verification

CONSTANTS f1, f2, low

\* f1 can be rolled back to a value it recorded, f2 cannot.
UndoFirst == [f \in Fix |-> IF f = f1 THEN low ELSE NoValue]

\* Both would be rolled back to the same value.
UndoBoth == [f \in Fix |-> low]
=============================================================================
