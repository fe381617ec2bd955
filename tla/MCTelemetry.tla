---------------------------- MODULE MCTelemetry ----------------------------
(***************************************************************************)
(* Instances of Telemetry for TLC.                                         *)
(***************************************************************************)
EXTENDS Telemetry

\* An application at rest, and one that has restarted too often and grown.
Calm == [state |-> "running", restarts |-> 0, cpu |-> 5, mem |-> 40, limit |-> 100, disk |-> 50]
Ill == [Calm EXCEPT !.restarts = 3, !.mem = 70]

Conditions == {Calm, Ill}
=============================================================================
