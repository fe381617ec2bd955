---------------------------- MODULE MCNginxSites ----------------------------
(***************************************************************************)
(* Instances of NginxSites for TLC.                                        *)
(***************************************************************************)
EXTENDS NginxSites

CONSTANTS a, b, c1, c2, c3

\* Project a has a good configuration and one that the lint rejects; b wants the
\* same domain, and nginx rejects its configuration in the passing run.
OwnerMap == [c \in Config |-> IF c = c3 THEN b ELSE a]
OneHost == [c \in Config |-> CHOOSE d \in Domain : TRUE]
=============================================================================
