--------------------------- MODULE MCPortRegistry ---------------------------
(***************************************************************************)
(* Instances of PortRegistry for TLC: three requests, two of which come    *)
(* from one project.                                                       *)
(***************************************************************************)
EXTENDS PortRegistry

CONSTANTS q1, q2, q3, a, b

TwoProjects == [q \in Request |-> IF q = q1 THEN a ELSE b]
=============================================================================
