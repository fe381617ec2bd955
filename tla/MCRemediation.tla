---------------------------- MODULE MCRemediation ----------------------------
(***************************************************************************)
(* Instances of Remediation for TLC.                                       *)
(***************************************************************************)
EXTENDS Remediation, TLC

CONSTANTS f1, f2, i1

\* One incident throughout: fixes of different incidents share only the queue.
OneIncident == [f \in Fix |-> i1]

\* One port reassignment with its two commands, approved by two operators.
RaceMode == [f \in Fix |-> "watched"]
RaceWidth == [f \in Fix |-> 2]
NoReversal == [f \in Fix |-> NoFix]

\* Operators differ only in their names, and no property of the race is about
\* what must eventually happen.
AnyOperator == Permutations(Session)

\* A staged and watched fix of two commands, and the reversal its failure
\* proposes, which is immediate, so that the instance has fixes of both kinds.
LiveMode == [f \in Fix |-> IF f = f2 THEN "immediate" ELSE "watched"]
LiveWidth == [f \in Fix |-> IF f = f1 THEN 2 ELSE 1]
LiveReversal == [f \in Fix |-> IF f = f1 THEN f2 ELSE NoFix]
=============================================================================
