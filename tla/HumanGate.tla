------------------------------ MODULE HumanGate ------------------------------
(***************************************************************************)
(* What the remediation pipeline promises its users, with no mention of    *)
(* HTTP handlers, queues or agents: work happens on a server only under a  *)
(* grant that a named human gave for that fix, and no grant is withdrawn.  *)
(***************************************************************************)
CONSTANTS Fix,      \* proposed fixes
          Session,  \* a human operator working through the API
          Step      \* positions in the plan of commands of one approval

VARIABLES granted,  \* <<f, s>>: operator s has approved fix f
          done      \* <<f, s, k>>: step k of that approval was performed

gateVars == <<granted, done>>

GateInit == granted = {} /\ done = {}

Grant(f, s) ==
    /\ <<f, s>> \notin granted
    /\ granted' = granted \union {<<f, s>>}
    /\ UNCHANGED done

Perform(f, s, k) ==
    /\ <<f, s>> \in granted
    /\ <<f, s, k>> \notin done
    /\ done' = done \union {<<f, s, k>>}
    /\ UNCHANGED granted

GateNext ==
    \E f \in Fix, s \in Session :
        Grant(f, s) \/ \E k \in Step : Perform(f, s, k)

GateSpec == GateInit /\ [][GateNext]_gateVars
=============================================================================
