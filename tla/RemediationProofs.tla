-------------------------- MODULE RemediationProofs --------------------------
(***************************************************************************)
(* Proofs about Remediation for any number of fixes, incidents, operators  *)
(* and faults.                                                             *)
(***************************************************************************)
EXTENDS Remediation, TLAPS

(***************************************************************************)
(* Types                                                                   *)
(***************************************************************************)

\* The plan of an approval and the probe of a fix are commands.
LEMMA CommandNames ==
    /\ \A f \in Fix, s \in Session, k \in Step : <<f, s, k>> \in Cmd
    /\ \A f \in Fix : Probe(f) \in Cmd
    /\ \A f \in Fix, s \in Session : Plan(f, s) \subseteq Work(f)
    /\ \A f \in Fix : Work(f) \subseteq Cmd
    /\ \A c \in Cmd : c = <<c[1], c[2], c[3]>> /\ c[1] \in Fix /\ c[3] \in Step
<1>1. \A f \in Fix : 1..Width[f] \subseteq Step
  BY FixAssumption DEF Step
<1> QED
  BY <1>1 DEF Cmd, Work, Plan, Probe, Step

LEMMA TypeStep == TypeOK /\ [Next]_vars => TypeOK'
<1> SUFFICES ASSUME TypeOK, [Next]_vars PROVE TypeOK'
  OBVIOUS
<1> USE FixAssumption, SessionAssumption, CommandNames DEF TypeOK
<1>1. ASSUME NEW s \in Session, NEW f \in Fix, ApproveCheck(s, f) PROVE TypeOK'
  BY <1>1 DEF ApproveCheck, fixVars, queueVars, agentVars
<1>2. ASSUME NEW s \in Session, ApprovePersist(s) PROVE TypeOK'
  <2>1. checking[s] \in Fix
    BY <1>2 DEF ApprovePersist
  <2> QED
    BY <1>2, <2>1 DEF ApprovePersist, queueVars, agentVars, FixStatus
<1>3. ASSUME NEW s \in Session, ApproveUndone(s) PROVE TypeOK'
  BY <1>3 DEF ApproveUndone, fixVars, queueVars, agentVars
<1>4. ASSUME NEW s \in Session, ApproveCommit(s) PROVE TypeOK'
  <2>1. checking[s] \in Fix
    BY <1>4 DEF ApproveCommit
  <2>2. fixStatus' \in [Fix -> FixStatus] /\ approvedBy' \in [Fix -> Session \union {Verifier}]
    BY <1>4, <2>1 DEF ApproveCommit, FixStatus
  <2>3. command' \in [Cmd -> CommandStatus]
    BY <1>4, <2>1 DEF ApproveCommit, CommandStatus
  <2>4. born' \in [Cmd -> Nat] /\ clock' \in Nat
    <3>1. ASSUME NEW c \in Cmd PROVE clock + c[3] \in Nat
      <4>1. c[3] \in 1..2
        BY DEF Step
      <4> HIDE CommandNames
      <4> QED
        BY <4>1
    <3> QED
      BY <1>4, <2>1, <3>1 DEF ApproveCommit
  <2>5. approvals' \subseteq Fix \X Session /\ incident' \in [Incident -> IncidentStatus]
    BY <1>4, <2>1 DEF ApproveCommit, IncidentStatus
  <2> QED
    BY <1>4, <2>2, <2>3, <2>4, <2>5 DEF ApproveCommit, agentVars
<1>5. ASSUME NEW s \in Session, ApproveAbort(s) PROVE TypeOK'
  BY <1>5 DEF ApproveAbort, fixVars, queueVars, agentVars
<1>6. ASSUME NEW s \in Session, NEW f \in Fix, Reject(s, f) PROVE TypeOK'
  BY <1>6 DEF Reject, queueVars, handlerVars, agentVars, FixStatus
<1>7. ASSUME NEW i \in Incident, Close(i) PROVE TypeOK'
  BY <1>7 DEF Close, fixVars, queueVars, handlerVars, agentVars, IncidentStatus
<1>8. ASSUME Poll PROVE TypeOK'
  BY <1>8 DEF Poll, Batch, Pending, fixVars, handlerVars, CommandStatus
<1>9. ASSUME NEW c \in Cmd, Execute(c) PROVE TypeOK'
  BY <1>9 DEF Execute, fixVars, queueVars, handlerVars
<1>10. ASSUME NEW c \in Cmd, NEW ok \in BOOLEAN, WorkResult(c, ok) PROVE TypeOK'
  <2>1. Aggregate(c[1], [command EXCEPT ![c] = Outcome(ok)]) \in FixStatus
    BY DEF Aggregate, FixStatus
  <2>2. Outcome(ok) \in CommandStatus
    BY DEF Outcome, CommandStatus
  <2>3. incident' \in [Incident -> IncidentStatus]
    BY <1>10 DEF WorkResult, IncidentStatus
  <2>4. handoff' \subseteq Fix
    BY <1>10 DEF WorkResult
  <2> QED
    BY <1>10, <2>1, <2>2, <2>3, <2>4 DEF WorkResult
<1>11. ASSUME NEW f \in Fix, NEW ok \in BOOLEAN, ProbeResult(f, ok) PROVE TypeOK'
  <2>1. Outcome(ok) \in CommandStatus
    BY DEF Outcome, CommandStatus
  <2> QED
    BY <1>11, <2>1 DEF ProbeResult, fixVars, handlerVars
<1>12. ASSUME NEW f \in Fix, StartVerification(f) PROVE TypeOK'
  <2>1. verification' \in [Fix -> Verification]
    BY <1>12 DEF StartVerification, Opening, Verification
  <2>2. command' \in [Cmd -> CommandStatus]
    BY <1>12 DEF StartVerification, CommandStatus
  <2>3. born' \in [Cmd -> Nat] /\ clock' \in Nat
    <3>1. clock + 1 \in Nat /\ clock + 2 \in Nat
      OBVIOUS
    <3>2. \/ UNCHANGED <<born, clock>>
          \/ born' = [born EXCEPT ![Probe(f)] = clock + 1] /\ clock' = clock + 2
      BY <1>12 DEF StartVerification
    <3> QED
      BY <3>1, <3>2
  <2> QED
    BY <1>12, <2>1, <2>2, <2>3 DEF StartVerification, agentVars
<1>13. ASSUME NEW f \in Fix, Resolve(f) PROVE TypeOK'
  <2>1. Proposed(f) \subseteq [Fix -> FixStatus]
    BY DEF Proposed, FixStatus
  <2>2. verification' \in [Fix -> Verification]
    BY <1>13 DEF Resolve, Verification
  <2>3. fixStatus' \in [Fix -> FixStatus]
    BY <1>13, <2>1 DEF Resolve
  <2>4. incident' \in [Incident -> IncidentStatus]
    BY <1>13 DEF Resolve, IncidentStatus
  <2> QED
    BY <1>13, <2>2, <2>3, <2>4 DEF Resolve, queueVars, handlerVars, agentVars
<1>14. ASSUME AgentCrash PROVE TypeOK'
  BY <1>14 DEF AgentCrash, fixVars, queueVars, handlerVars
<1>15. ASSUME FallSilent PROVE TypeOK'
  BY <1>15 DEF FallSilent, fixVars, queueVars, handlerVars, agentVars
<1>16. ASSUME ServerCrash PROVE TypeOK'
  BY <1>16 DEF ServerCrash, fixVars, queueVars, agentVars
<1>17. ASSUME NEW c \in Cmd, NEW ok \in BOOLEAN, LoseResult(<<c, ok>>) PROVE TypeOK'
  BY <1>17 DEF LoseResult, fixVars, queueVars, handlerVars
<1>18. CASE UNCHANGED vars
  BY <1>18 DEF vars, fixVars, queueVars, handlerVars, agentVars
<1> HIDE FixAssumption, SessionAssumption, CommandNames DEF TypeOK
<1> QED
  BY <1>1, <1>2, <1>3, <1>4, <1>5, <1>6, <1>7, <1>8, <1>9, <1>10, <1>11, <1>12,
     <1>13, <1>14, <1>15, <1>16, <1>17, <1>18
     DEF Next, Operator, Agent, Results, Failures

\* Every variable stays in its domain, whatever the constants are.
THEOREM TypeCorrect == Spec => []TypeOK
<1>1. Init => TypeOK
  BY FixAssumption, SessionAssumption
     DEF Init, TypeOK, FixStatus, Verification, IncidentStatus, CommandStatus
<1> QED
  BY <1>1, TypeStep, PTL DEF Spec

(***************************************************************************)
(* The command queue                                                       *)
(***************************************************************************)

queueState == <<command, checking, handoff, verification, inbox, wire, ran>>

LEMMA QueueUntouched == QueueInv /\ UNCHANGED queueState => QueueInv'
BY DEF QueueInv, PlansAreWhole, NamesAreFresh, OneDelivery, queueState, Probe

LEMMA FirstStep == 1 \in Step
BY DEF Step

\* A step that turns no command from or to "absent" keeps the plans whole.
LEMMA PlansUntouched ==
    ASSUME PlansAreWhole,
           \A f \in Fix, s \in Session, k \in Step :
               (command'[<<f, s, k>>] = "absent") <=> (command[<<f, s, k>>] = "absent")
    PROVE  PlansAreWhole'
BY FirstStep, Zenon DEF PlansAreWhole

\* The first command of a checked approval is a command.
LEMMA CheckedName ==
    ASSUME TypeOK, NEW s \in Session, checking[s] # NoFix
    PROVE  checking[s] \in Fix /\ <<checking[s], s, 1>> \in Cmd
<1>1. checking[s] \in Fix
  BY DEF TypeOK
<1> QED
  BY <1>1, CommandNames, FirstStep

\* Enqueuing the plan of the fix a session has checked.
LEMMA QueueCommit ==
    ASSUME TypeOK, QueueInv, NEW s \in Session, ApproveCommit(s)
    PROVE  QueueInv'
<1> DEFINE f == checking[s]
<1>1. f \in Fix
  BY DEF ApproveCommit, TypeOK
<1>2. /\ command' = [c \in Cmd |-> IF c \in Plan(f, s) THEN "pending" ELSE command[c]]
      /\ checking' = [checking EXCEPT ![s] = NoFix]
      /\ UNCHANGED <<handoff, verification, inbox, wire, ran>>
  BY DEF ApproveCommit, agentVars
<1>3. \A k \in Step : command[<<f, s, k>>] = "absent"
  BY <1>1 DEF QueueInv, PlansAreWhole, NamesAreFresh, ApproveCommit
<1>4. \A c \in Plan(f, s) : command[c] = "absent"
  BY <1>1, <1>3, FixAssumption DEF Plan, Step
<1>5. \A g \in Fix, t \in Session, k \in Step :
        <<g, t, k>> \in Plan(f, s) <=> (g = f /\ t = s /\ k \in 1..Width[f])
  BY <1>1 DEF Plan
<1>6. \A g \in Fix, t \in Session, k \in Step :
        command'[<<g, t, k>>] = IF g = f /\ t = s /\ k \in 1..Width[f] THEN "pending"
                                ELSE command[<<g, t, k>>]
  BY <1>2, <1>5, CommandNames
<1>7. PlansAreWhole'
  <2>1. 1 \in 1..Width[f]
    BY <1>1, FixAssumption
  <2> SUFFICES ASSUME NEW g \in Fix, NEW t \in Session, NEW k \in Step
               PROVE  command'[<<g, t, k>>] # "absent"
                        <=> (k \in 1..Width[g] /\ command'[<<g, t, 1>>] # "absent")
    BY DEF PlansAreWhole
  <2>2. CASE g = f /\ t = s
    BY <1>3, <1>6, <2>1, <2>2, FirstStep
  <2>3. CASE ~(g = f /\ t = s)
    BY <1>6, <2>3, FirstStep DEF QueueInv, PlansAreWhole
  <2> QED
    BY <2>2, <2>3
<1>8. NamesAreFresh'
  <2>1. \A t \in Session : checking'[t] # NoFix => command'[<<checking'[t], t, 1>>] = "absent"
    <3> SUFFICES ASSUME NEW t \in Session, checking'[t] # NoFix
                 PROVE  command'[<<checking'[t], t, 1>>] = "absent"
      OBVIOUS
    <3>1. t # s /\ checking'[t] = checking[t] /\ checking[t] \in Fix
      BY <1>2 DEF TypeOK
    <3> QED
      BY <1>6, <3>1, FirstStep DEF QueueInv, NamesAreFresh
  <2>2. \A g \in Fix : command'[Probe(g)] = command[Probe(g)]
    <3>1. \A g \in Fix : Probe(g) \notin Plan(f, s)
      BY SessionAssumption DEF Probe, Plan
    <3> QED
      BY <1>2, <3>1, CommandNames
  <2> QED
    BY <1>2, <2>1, <2>2 DEF QueueInv, NamesAreFresh, Probe
<1>9. OneDelivery'
  BY <1>2, <1>4 DEF QueueInv, OneDelivery, TypeOK
<1> QED
  BY <1>7, <1>8, <1>9 DEF QueueInv

LEMMA QueuePoll ==
    ASSUME TypeOK, QueueInv, Poll
    PROVE  QueueInv'
<1>1. PICK B \in SUBSET Pending :
        /\ command' = [c \in Cmd |-> IF c \in B THEN "claimed" ELSE command[c]]
        /\ inbox' \subseteq B
  BY DEF Poll
<1>2. inbox = {} /\ UNCHANGED <<checking, handoff, verification, wire, ran>>
  BY DEF Poll, fixVars, handlerVars
<1>3. \A c \in Cmd : (command'[c] = "absent") <=> (command[c] = "absent")
  BY <1>1 DEF Pending
<1>4. PlansAreWhole'
  BY <1>3, CommandNames, PlansUntouched DEF QueueInv
<1>5. NamesAreFresh'
  <2>1. \A s \in Session : checking[s] # NoFix => <<checking[s], s, 1>> \in Cmd
    BY CheckedName
  <2> QED
    BY <1>2, <1>3, <2>1, CommandNames DEF QueueInv, NamesAreFresh, Probe
<1>6. OneDelivery'
  BY <1>1, <1>2 DEF QueueInv, OneDelivery, Pending, TypeOK
<1> QED
  BY <1>4, <1>5, <1>6 DEF QueueInv

LEMMA QueueExecute ==
    ASSUME TypeOK, QueueInv, NEW c \in Cmd, Execute(c)
    PROVE  QueueInv'
<1>1. UNCHANGED <<command, checking, handoff, verification>>
  BY DEF Execute, fixVars, queueVars, handlerVars
<1>2. PlansAreWhole' /\ NamesAreFresh'
  BY <1>1 DEF QueueInv, PlansAreWhole, NamesAreFresh, Probe
<1>3. OneDelivery'
  <2>1. command[c] = "claimed" /\ c \notin ran /\ \A ok \in BOOLEAN : <<c, ok>> \notin wire
    BY DEF Execute, QueueInv, OneDelivery
  <2>2. PICK ok \in BOOLEAN : wire' = wire \union {<<c, ok>>}
    BY DEF Execute
  <2>3. inbox' = inbox \ {c} /\ ran' = ran \union {c}
    BY DEF Execute
  <2> QED
    BY <1>1, <2>1, <2>2, <2>3 DEF QueueInv, OneDelivery
<1> QED
  BY <1>2, <1>3 DEF QueueInv

\* A result, of a fix's command or of a probe, ends the life of a claimed command.
LEMMA QueueResult ==
    ASSUME TypeOK, QueueInv, NEW c \in Cmd, NEW ok \in BOOLEAN,
           <<c, ok>> \in wire,
           wire' = wire \ {<<c, ok>>},
           command' = [command EXCEPT ![c] = Outcome(ok)],
           UNCHANGED <<checking, verification, inbox, ran>>,
           \A f \in handoff' : f \in handoff \/ verification[f] = "not_applicable"
    PROVE  QueueInv'
<1>1. /\ command[c] = "claimed" /\ c \in ran /\ <<c, ~ok>> \notin wire /\ c \notin inbox
  BY DEF QueueInv, OneDelivery
<1>2. Outcome(ok) \in {"succeeded", "failed"}
  BY DEF Outcome
<1>3. \A d \in Cmd : command'[d] = IF d = c THEN Outcome(ok) ELSE command[d]
  BY DEF TypeOK
<1>4. \A d \in Cmd : (command'[d] = "absent") <=> (command[d] = "absent")
  BY <1>1, <1>2, <1>3
<1>5. PlansAreWhole'
  BY <1>4, CommandNames, PlansUntouched DEF QueueInv
<1>6. NamesAreFresh'
  <2>1. \A s \in Session : checking[s] # NoFix => <<checking[s], s, 1>> \in Cmd
    BY CheckedName
  <2> QED
    BY <1>4, <2>1, CommandNames DEF QueueInv, NamesAreFresh, Probe
<1>7. OneDelivery'
  <2>1. \A d \in inbox : command'[d] = "claimed" /\ d \notin ran
    BY <1>1, <1>3 DEF QueueInv, OneDelivery, TypeOK
  <2>2. \A d \in ran : command'[d] \notin {"absent", "pending"}
    BY <1>2, <1>3 DEF QueueInv, OneDelivery, TypeOK
  <2>3. \A d \in Cmd, o \in BOOLEAN : <<d, o>> \in wire' =>
          command'[d] = "claimed" /\ d \in ran /\ <<d, ~o>> \notin wire'
    <3> SUFFICES ASSUME NEW d \in Cmd, NEW o \in BOOLEAN, <<d, o>> \in wire'
                 PROVE  command'[d] = "claimed" /\ d \in ran /\ <<d, ~o>> \notin wire'
      OBVIOUS
    <3>1. <<d, o>> \in wire /\ <<d, o>> # <<c, ok>>
      OBVIOUS
    <3>2. command[d] = "claimed" /\ d \in ran /\ <<d, ~o>> \notin wire
      BY <3>1 DEF QueueInv, OneDelivery
    <3>3. d # c
      <4>1. CASE o = ok
        BY <3>1, <4>1
      <4>2. CASE o = ~ok
        BY <1>1, <3>1, <4>2
      <4> QED
        BY <4>1, <4>2
    <3> QED
      BY <1>3, <3>2, <3>3
  <2> QED
    BY <2>1, <2>2, <2>3 DEF OneDelivery
<1> QED
  BY <1>5, <1>6, <1>7 DEF QueueInv

LEMMA QueueStart ==
    ASSUME TypeOK, QueueInv, NEW f \in Fix, StartVerification(f)
    PROVE  QueueInv'
<1>1. verification[f] = "not_applicable" /\ command[Probe(f)] = "absent"
  BY DEF StartVerification, QueueInv, NamesAreFresh
<1>2. /\ UNCHANGED <<checking, inbox, wire, ran>>
      /\ handoff' = handoff \ {f}
      /\ \A g \in Fix : verification'[g] = "not_applicable" => g # f /\ verification[g] = "not_applicable"
      /\ \A g \in Fix : g # f => verification'[g] = verification[g]
  BY DEF StartVerification, Opening, agentVars, TypeOK
<1>3. \A c \in Cmd : command'[c] = command[c] \/ (c = Probe(f) /\ command'[c] = "pending")
  BY DEF StartVerification, TypeOK
<1>4. PlansAreWhole'
  <2>1. \A g \in Fix, s \in Session, k \in Step : command'[<<g, s, k>>] = command[<<g, s, k>>]
    BY <1>3, CommandNames, SessionAssumption DEF Probe
  <2> QED
    BY <2>1, PlansUntouched DEF QueueInv
<1>5. NamesAreFresh'
  <2>1. \A s \in Session : checking[s] # NoFix =>
          /\ <<checking[s], s, 1>> \in Cmd
          /\ <<checking[s], s, 1>> # Probe(f)
    BY CheckedName, SessionAssumption DEF Probe
  <2>2. \A g \in Fix : g # f => Probe(g) # Probe(f)
    BY DEF Probe
  <2>3. \A g \in Fix : verification'[g] = "not_applicable" => command'[Probe(g)] = "absent"
    BY <1>2, <1>3, <2>2, CommandNames DEF QueueInv, NamesAreFresh
  <2>4. \A g \in handoff' : verification'[g] = "not_applicable"
    BY <1>2 DEF QueueInv, NamesAreFresh, TypeOK
  <2> QED
    BY <1>2, <1>3, <2>1, <2>3, <2>4 DEF QueueInv, NamesAreFresh, Probe
<1>6. OneDelivery'
  BY <1>1, <1>2, <1>3 DEF QueueInv, OneDelivery, TypeOK
<1> QED
  BY <1>4, <1>5, <1>6 DEF QueueInv

LEMMA QueueStep == TypeOK /\ QueueInv /\ [Next]_vars => QueueInv'
<1> SUFFICES ASSUME TypeOK, QueueInv, [Next]_vars PROVE QueueInv'
  OBVIOUS
<1>1. ASSUME NEW s \in Session, NEW f \in Fix, ApproveCheck(s, f) PROVE QueueInv'
  <2>1. /\ checking' = [checking EXCEPT ![s] = f]
        /\ command[<<f, s, 1>>] = "absent"
        /\ UNCHANGED <<command, handoff, verification, inbox, wire, ran>>
    BY <1>1 DEF ApproveCheck, fixVars, queueVars, agentVars
  <2> QED
    BY <2>1 DEF QueueInv, PlansAreWhole, NamesAreFresh, OneDelivery, Probe, TypeOK
<1>2. ASSUME NEW s \in Session, ApprovePersist(s) PROVE QueueInv'
  BY <1>2, QueueUntouched DEF ApprovePersist, queueVars, agentVars, queueState
<1>3. ASSUME NEW s \in Session, ApproveUndone(s) PROVE QueueInv'
  BY <1>3, QueueUntouched DEF ApproveUndone, fixVars, queueVars, agentVars, queueState
<1>4. ASSUME NEW s \in Session, ApproveCommit(s) PROVE QueueInv'
  BY <1>4, QueueCommit
<1>5. ASSUME NEW s \in Session, ApproveAbort(s) PROVE QueueInv'
  <2>1. /\ checking' = [checking EXCEPT ![s] = NoFix]
        /\ UNCHANGED <<command, handoff, verification, inbox, wire, ran>>
    BY <1>5 DEF ApproveAbort, fixVars, queueVars, agentVars
  <2> QED
    BY <2>1 DEF QueueInv, PlansAreWhole, NamesAreFresh, OneDelivery, Probe, TypeOK
<1>6. ASSUME NEW s \in Session, NEW f \in Fix, Reject(s, f) PROVE QueueInv'
  BY <1>6, QueueUntouched DEF Reject, queueVars, handlerVars, agentVars, queueState
<1>7. ASSUME NEW i \in Incident, Close(i) PROVE QueueInv'
  BY <1>7, QueueUntouched DEF Close, fixVars, queueVars, handlerVars, agentVars, queueState
<1>8. CASE Poll
  BY <1>8, QueuePoll
<1>9. ASSUME NEW c \in Cmd, Execute(c) PROVE QueueInv'
  BY <1>9, QueueExecute
<1>10. ASSUME NEW c \in Cmd, NEW ok \in BOOLEAN, WorkResult(c, ok) PROVE QueueInv'
  <2>1. \A f \in handoff' : f \in handoff \/ verification[f] = "not_applicable"
    BY <1>10 DEF WorkResult
  <2> QED
    BY <1>10, <2>1, QueueResult DEF WorkResult
<1>11. ASSUME NEW f \in Fix, NEW ok \in BOOLEAN, ProbeResult(f, ok) PROVE QueueInv'
  <2>1. Probe(f) \in Cmd
    BY CommandNames
  <2> QED
    BY <1>11, <2>1, QueueResult DEF ProbeResult, fixVars, handlerVars
<1>12. ASSUME NEW f \in Fix, StartVerification(f) PROVE QueueInv'
  BY <1>12, QueueStart
<1>13. ASSUME NEW f \in Fix, Resolve(f) PROVE QueueInv'
  <2>1. /\ verification[f] # "not_applicable"
        /\ \A g \in Fix : g # f => verification'[g] = verification[g]
        /\ verification'[f] # "not_applicable"
    BY <1>13 DEF Resolve, Watched, TypeOK
  <2>2. UNCHANGED <<command, checking, handoff, inbox, wire, ran>>
    BY <1>13 DEF Resolve, queueVars, handlerVars, agentVars
  <2> QED
    BY <2>1, <2>2 DEF QueueInv, PlansAreWhole, NamesAreFresh, OneDelivery, Probe, TypeOK
<1>14. CASE AgentCrash
  <2>1. inbox' = {} /\ UNCHANGED <<command, checking, handoff, verification, wire, ran>>
    BY <1>14 DEF AgentCrash, fixVars, queueVars, handlerVars
  <2> QED
    BY <2>1 DEF QueueInv, PlansAreWhole, NamesAreFresh, OneDelivery, Probe
<1>15. CASE FallSilent
  BY <1>15, QueueUntouched DEF FallSilent, fixVars, queueVars, handlerVars, agentVars, queueState
<1>16. CASE ServerCrash
  <2>1. /\ checking' = [s \in Session |-> NoFix]
        /\ handoff' = {}
        /\ UNCHANGED <<command, verification, inbox, wire, ran>>
    BY <1>16 DEF ServerCrash, fixVars, queueVars, agentVars
  <2> QED
    BY <2>1 DEF QueueInv, PlansAreWhole, NamesAreFresh, OneDelivery, Probe
<1>17. ASSUME NEW c \in Cmd, NEW ok \in BOOLEAN, LoseResult(<<c, ok>>) PROVE QueueInv'
  <2>1. wire' \subseteq wire /\ UNCHANGED <<command, checking, handoff, verification, inbox, ran>>
    BY <1>17 DEF LoseResult, fixVars, queueVars, handlerVars
  <2> QED
    BY <2>1 DEF QueueInv, PlansAreWhole, NamesAreFresh, OneDelivery, Probe
<1>18. CASE UNCHANGED vars
  BY <1>18, QueueUntouched DEF vars, fixVars, queueVars, handlerVars, agentVars, queueState
<1> QED
  BY <1>1, <1>2, <1>3, <1>4, <1>5, <1>6, <1>7, <1>8, <1>9, <1>10, <1>11, <1>12,
     <1>13, <1>14, <1>15, <1>16, <1>17, <1>18
     DEF Next, Operator, Agent, Results, Failures

LEMMA QueueInit == Init => QueueInv
<1> SUFFICES ASSUME Init PROVE QueueInv
  OBVIOUS
<1>1. \A c \in Cmd : command[c] = "absent"
  BY DEF Init
<1>2. PlansAreWhole
  BY <1>1, CommandNames, FirstStep, Zenon DEF PlansAreWhole
<1>3. NamesAreFresh
  BY <1>1, CommandNames DEF Init, NamesAreFresh
<1>4. OneDelivery
  BY DEF Init, OneDelivery
<1> QED
  BY <1>2, <1>3, <1>4 DEF QueueInv

LEMMA QueueCorrect == Spec => []QueueInv
<1>1. Init => QueueInv
  BY QueueInit
<1> QED
  BY <1>1, QueueStep, TypeCorrect, PTL DEF Spec

\* However many operators, lost answers, lost results and crashes: a command in
\* the queue or in the agent's batch has not been executed before.
THEOREM ExecutedAtMostOnce == Spec => []NothingRunsTwice
<1>1. QueueInv => NothingRunsTwice
  BY DEF QueueInv, OneDelivery, NothingRunsTwice, Pending
<1> QED
  BY <1>1, QueueCorrect, PTL

(***************************************************************************)
(* Signatures                                                              *)
(***************************************************************************)

signedState == <<approvals, undone, approvedBy, fixStatus, checking, persisted, command>>

LEMMA SignedUntouched == SignedInv /\ UNCHANGED signedState => SignedInv'
BY DEF SignedInv, signedState, Given

\* A step that changes commands of operators only from one present status to
\* another, and nothing else a signature depends on.
LEMMA SignedQueue ==
    ASSUME SignedInv, UNCHANGED <<approvals, undone, approvedBy, fixStatus, checking, persisted>>,
           \A f \in Fix, s \in Session, k \in Step :
               command'[<<f, s, k>>] # "absent" => command[<<f, s, k>>] # "absent"
    PROVE  SignedInv'
BY DEF SignedInv, Given

LEMMA SignedStep ==
    ASSUME TypeOK, QueueInv, SignedInv, [Next]_vars
    PROVE  SignedInv'
<1>1. ASSUME NEW s \in Session, NEW f \in Fix, ApproveCheck(s, f) PROVE SignedInv'
  <2>1. /\ checking' = [checking EXCEPT ![s] = f] /\ checking[s] = NoFix
        /\ fixStatus[f] = "proposed" /\ Mode[f] # "advisory"
        /\ UNCHANGED <<approvals, undone, approvedBy, fixStatus, persisted, command>>
    BY <1>1 DEF ApproveCheck, fixVars, queueVars
  <2>2. s \notin persisted /\ f # NoFix
    BY <2>1, FixAssumption DEF SignedInv, Given
  <2>3. \A t \in Session : checking'[t] = IF t = s THEN f ELSE checking[t]
    BY <2>1 DEF TypeOK
  <2> QED
    BY <2>1, <2>2, <2>3 DEF SignedInv, Given, TypeOK
<1>2. ASSUME NEW s \in Session, ApprovePersist(s) PROVE SignedInv'
  <2> DEFINE f == checking[s]
  <2>1. f \in Fix /\ f # NoFix /\ Mode[f] # "advisory"
    BY <1>2, FixAssumption DEF ApprovePersist, SignedInv
  <2>2. /\ fixStatus' = [fixStatus EXCEPT ![f] = "approved"]
        /\ approvedBy' = [approvedBy EXCEPT ![f] = s]
        /\ approvals' = approvals \union {<<f, s>>}
        /\ persisted' = persisted \union {s}
        /\ UNCHANGED <<undone, checking, command>>
    BY <1>2 DEF ApprovePersist, queueVars
  <2>3. \A g \in Fix : /\ fixStatus'[g] = IF g = f THEN "approved" ELSE fixStatus[g]
                       /\ approvedBy'[g] = IF g = f THEN s ELSE approvedBy[g]
    BY <2>1, <2>2 DEF TypeOK
  <2> QED
    BY <2>1, <2>2, <2>3 DEF SignedInv, Given
<1>3. ASSUME NEW s \in Session, ApproveUndone(s) PROVE SignedInv'
  <2> DEFINE f == checking[s]
  <2>1. f \in Fix /\ Mode[f] # "advisory"
    BY <1>3, FixAssumption DEF ApproveUndone, SignedInv
  <2>2. /\ undone' = undone \union {<<f, s>>}
        /\ persisted' = persisted \union {s}
        /\ UNCHANGED <<approvals, approvedBy, fixStatus, checking, command>>
    BY <1>3 DEF ApproveUndone, fixVars, queueVars
  <2>3. checking[s] # NoFix
    BY <2>1, FixAssumption
  <2> QED
    BY <2>1, <2>2, <2>3 DEF SignedInv, Given
<1>4. ASSUME NEW s \in Session, ApproveCommit(s) PROVE SignedInv'
  <2> DEFINE f == checking[s]
  <2>1. f \in Fix /\ f # NoFix /\ Mode[f] # "advisory"
    BY <1>4 DEF ApproveCommit, SignedInv, TypeOK
  <2>2. /\ command' = [c \in Cmd |-> IF c \in Plan(f, s) THEN "pending" ELSE command[c]]
        /\ checking' = [checking EXCEPT ![s] = NoFix]
        /\ persisted' = persisted \ {s}
    BY <1>4 DEF ApproveCommit
  <2>3. \A g \in Fix, t \in Session, k \in Step : command'[<<g, t, k>>] # "absent" =>
          (g = f /\ t = s) \/ command[<<g, t, k>>] # "absent"
    BY <2>1, <2>2, CommandNames DEF Plan
  <2>4. \A t \in Session : checking'[t] = IF t = s THEN NoFix ELSE checking[t]
    BY <2>2 DEF TypeOK
  <2>5. CASE s \in persisted
    <3>1. UNCHANGED <<fixStatus, approvedBy, approvals, undone>> /\ <<f, s>> \in Given
      BY <1>4, <2>1, <2>5 DEF ApproveCommit, SignedInv
    <3> QED
      BY <2>1, <2>2, <2>3, <2>4, <3>1 DEF SignedInv, Given
  <2>6. CASE s \notin persisted
    <3>1. /\ fixStatus' = [fixStatus EXCEPT ![f] = "approved"]
          /\ approvedBy' = [approvedBy EXCEPT ![f] = s]
          /\ approvals' = approvals \union {<<f, s>>}
          /\ undone' = undone
      BY <1>4, <2>6 DEF ApproveCommit
    <3>2. \A g \in Fix : /\ fixStatus'[g] = IF g = f THEN "approved" ELSE fixStatus[g]
                         /\ approvedBy'[g] = IF g = f THEN s ELSE approvedBy[g]
      BY <2>1, <3>1 DEF TypeOK
    <3> QED
      BY <2>1, <2>2, <2>3, <2>4, <3>1, <3>2 DEF SignedInv, Given
  <2> QED
    BY <2>5, <2>6
<1>5. ASSUME NEW s \in Session, ApproveAbort(s) PROVE SignedInv'
  <2>1. /\ checking' = [checking EXCEPT ![s] = NoFix]
        /\ persisted' = persisted \ {s}
        /\ UNCHANGED <<approvals, undone, approvedBy, fixStatus, command>>
    BY <1>5 DEF ApproveAbort, fixVars, queueVars
  <2>2. \A t \in Session : checking'[t] = IF t = s THEN NoFix ELSE checking[t]
    BY <2>1 DEF TypeOK
  <2> QED
    BY <2>1, <2>2 DEF SignedInv, Given
<1>6. ASSUME NEW s \in Session, NEW f \in Fix, Reject(s, f) PROVE SignedInv'
  <2>1. /\ fixStatus' = [fixStatus EXCEPT ![f] = "rejected"]
        /\ approvedBy' = [approvedBy EXCEPT ![f] = s]
        /\ UNCHANGED <<approvals, undone, checking, persisted, command>>
    BY <1>6 DEF Reject, queueVars, handlerVars
  <2>2. \A g \in Fix : /\ fixStatus'[g] = IF g = f THEN "rejected" ELSE fixStatus[g]
                       /\ approvedBy'[g] = IF g = f THEN s ELSE approvedBy[g]
    BY <2>1 DEF TypeOK
  <2> QED
    BY <2>1, <2>2 DEF SignedInv, Given
<1>7. ASSUME NEW i \in Incident, Close(i) PROVE SignedInv'
  BY <1>7, SignedUntouched DEF Close, fixVars, queueVars, handlerVars, signedState
<1>8. CASE Poll
  <2>1. UNCHANGED <<approvals, undone, approvedBy, fixStatus, checking, persisted>>
    BY <1>8 DEF Poll, fixVars, handlerVars
  <2>2. \A c \in Cmd : command'[c] # "absent" => command[c] # "absent"
    BY <1>8 DEF Poll, Batch, Pending
  <2> QED
    BY <2>1, <2>2, SignedQueue, CommandNames
<1>9. ASSUME NEW c \in Cmd, Execute(c) PROVE SignedInv'
  BY <1>9, SignedUntouched DEF Execute, fixVars, queueVars, handlerVars, signedState
<1>10. ASSUME NEW c \in Cmd, NEW ok \in BOOLEAN, WorkResult(c, ok) PROVE SignedInv'
  <2> DEFINE f == c[1]
  <2>1. /\ fixStatus' = [fixStatus EXCEPT ![f] = Aggregate(f, [command EXCEPT ![c] = Outcome(ok)])]
        /\ command' = [command EXCEPT ![c] = Outcome(ok)]
        /\ UNCHANGED <<approvals, undone, approvedBy, checking, persisted>>
    BY <1>10 DEF WorkResult
  <2>2. command[c] # "absent"
    BY <1>10 DEF WorkResult, QueueInv, OneDelivery
  <2>3. Aggregate(f, [command EXCEPT ![c] = Outcome(ok)]) \notin {"absent", "proposed"}
    BY DEF Aggregate
  <2>4. \A d \in Cmd : command'[d] # "absent" => command[d] # "absent"
    BY <2>1, <2>2 DEF TypeOK
  <2>5. \A g \in Fix : fixStatus'[g] = fixStatus[g] \/ fixStatus'[g] \notin {"absent", "proposed"}
    BY <2>1, <2>3 DEF TypeOK
  <2> QED
    BY <2>1, <2>4, <2>5, CommandNames DEF SignedInv, Given
<1>11. ASSUME NEW f \in Fix, NEW ok \in BOOLEAN, ProbeResult(f, ok) PROVE SignedInv'
  <2>1. UNCHANGED <<approvals, undone, approvedBy, fixStatus, checking, persisted>>
    BY <1>11 DEF ProbeResult, fixVars, handlerVars
  <2>2. command[Probe(f)] # "absent" /\ Probe(f) \in Cmd
    BY <1>11, CommandNames DEF ProbeResult, QueueInv, OneDelivery
  <2>3. \A d \in Cmd : command'[d] # "absent" => command[d] # "absent"
    BY <1>11, <2>2 DEF ProbeResult, TypeOK
  <2> QED
    BY <2>1, <2>3, SignedQueue, CommandNames
<1>12. ASSUME NEW f \in Fix, StartVerification(f) PROVE SignedInv'
  <2>1. UNCHANGED <<approvals, undone, approvedBy, fixStatus, checking, persisted>>
    BY <1>12 DEF StartVerification
  <2>2. \A c \in Cmd : c # Probe(f) => command'[c] = command[c]
    BY <1>12 DEF StartVerification, TypeOK
  <2>3. \A g \in Fix, s \in Session, k \in Step : <<g, s, k>> # Probe(f)
    BY SessionAssumption DEF Probe
  <2> QED
    BY <2>1, <2>2, <2>3, SignedQueue, CommandNames
<1>13. ASSUME NEW f \in Fix, Resolve(f) PROVE SignedInv'
  <2>1. UNCHANGED <<approvals, undone, approvedBy, checking, persisted, command>>
    BY <1>13 DEF Resolve, queueVars, handlerVars
  <2>2. \A g \in Fix : fixStatus'[g] = fixStatus[g] \/ fixStatus[g] = "absent"
    BY <1>13 DEF Resolve, Proposed, TypeOK
  <2> QED
    BY <2>1, <2>2 DEF SignedInv, Given
<1>14. CASE AgentCrash
  BY <1>14, SignedUntouched DEF AgentCrash, fixVars, queueVars, handlerVars, signedState
<1>15. CASE FallSilent
  BY <1>15, SignedUntouched DEF FallSilent, fixVars, queueVars, handlerVars, signedState
<1>16. CASE ServerCrash
  BY <1>16 DEF ServerCrash, SignedInv, Given, fixVars, queueVars
<1>17. ASSUME NEW c \in Cmd, NEW ok \in BOOLEAN, LoseResult(<<c, ok>>) PROVE SignedInv'
  BY <1>17, SignedUntouched DEF LoseResult, fixVars, queueVars, handlerVars, signedState
<1>18. CASE UNCHANGED vars
  BY <1>18, SignedUntouched DEF vars, fixVars, queueVars, handlerVars, signedState
<1> QED
  BY <1>1, <1>2, <1>3, <1>4, <1>5, <1>6, <1>7, <1>8, <1>9, <1>10, <1>11, <1>12,
     <1>13, <1>14, <1>15, <1>16, <1>17, <1>18
     DEF Next, Operator, Agent, Results, Failures

LEMMA SignedCorrect == Spec => []SignedInv
<1>1. Init => SignedInv
  BY CommandNames DEF Init, SignedInv, Given
<1>2. TypeOK /\ QueueInv /\ SignedInv /\ [Next]_vars => SignedInv'
  BY SignedStep
<1> QED
  BY <1>1, <1>2, TypeCorrect, QueueCorrect, PTL DEF Spec

\* "Nothing runs without a named human approving it", for any number of fixes
\* and operators and every combination of faults: a command stems from its
\* operator's approval of its fix, which is executable, and the record of the
\* fix says so unless that approval lost a port race.
THEOREM EveryCommandIsSigned == Spec => []DispatchedIsSigned
<1>1. TypeOK /\ SignedInv => DispatchedIsSigned
  <2> SUFFICES ASSUME TypeOK, SignedInv, NEW f \in Fix, NEW c \in Siblings(f, command)
               PROVE  /\ <<f, c[2]>> \in Given
                      /\ Mode[f] # "advisory"
                      /\ <<f, c[2]>> \in approvals =>
                           approvedBy[f] \in Session /\ fixStatus[f] \notin {"absent", "proposed"}
    BY DEF DispatchedIsSigned
  <2>1. PICK s \in Session, k \in Step : c = <<f, s, k>> /\ command[<<f, s, k>>] # "absent"
    BY DEF Siblings, Work
  <2>2. <<f, s>> \in Given /\ c[2] = s
    BY <2>1 DEF SignedInv
  <2> QED
    BY <2>2 DEF SignedInv
<1> QED
  BY <1>1, TypeCorrect, SignedCorrect, PTL

(***************************************************************************)
(* The human gate                                                          *)
(***************************************************************************)

\* What the operators' commands have done on the servers.
Done == {c \in ran : c[2] # Verifier}

LEMMA GateStutters ==
    ASSUME UNCHANGED <<approvals, undone, ran>> PROVE UNCHANGED Gate!gateVars
BY DEF Gate!gateVars, Given

\* An approval grants its fix, unless an earlier one by the same operator,
\* whose record was lost, has done so; nothing else is done in that step.
LEMMA GateGrants ==
    ASSUME NEW f \in Fix, NEW s \in Session,
           Given' = Given \union {<<f, s>>}, ran' = ran
    PROVE  [Gate!GateNext]_(Gate!gateVars)
<1>1. CASE <<f, s>> \in Given
  BY <1>1 DEF Gate!gateVars
<1>2. CASE <<f, s>> \notin Given
  <2>1. Gate!Grant(f, s)
    BY <1>2 DEF Gate!Grant
  <2> QED
    BY <2>1 DEF Gate!GateNext
<1> QED
  BY <1>1, <1>2

\* Executing a command is one granted step, or a health check.
LEMMA GatePerforms ==
    ASSUME TypeOK, QueueInv, SignedInv, NEW c \in Cmd, Execute(c)
    PROVE  [Gate!GateNext]_(Gate!gateVars)
<1>1. /\ c \in inbox /\ ran' = ran \union {c} /\ Given' = Given
      /\ command[c] = "claimed" /\ c \notin ran
  BY DEF Execute, QueueInv, OneDelivery, Given
<1>2. CASE c[2] = Verifier
  <2>1. Done' = Done
    BY <1>1, <1>2 DEF Done
  <2> QED
    BY <1>1, <2>1 DEF Gate!gateVars, Done
<1>3. CASE c[2] # Verifier
  <2>1. PICK f \in Fix, s \in Session, k \in Step : c = <<f, s, k>>
    BY <1>3 DEF Cmd
  <2>2. <<f, s>> \in Given
    BY <1>1, <2>1 DEF SignedInv
  <2>3. Done' = Done \union {<<f, s, k>>} /\ <<f, s, k>> \notin Done
    BY <1>1, <1>3, <2>1 DEF Done
  <2>4. Gate!Perform(f, s, k)
    BY <1>1, <2>2, <2>3 DEF Gate!Perform, Done
  <2> QED
    BY <2>4 DEF Gate!GateNext
<1> QED
  BY <1>2, <1>3

LEMMA GateStep ==
    ASSUME TypeOK, QueueInv, SignedInv, [Next]_vars
    PROVE  [Gate!GateNext]_(Gate!gateVars)
<1>1. ASSUME NEW s \in Session, NEW f \in Fix, ApproveCheck(s, f)
      PROVE UNCHANGED <<approvals, undone, ran>>
  BY <1>1 DEF ApproveCheck, agentVars
<1>2. ASSUME NEW s \in Session, ApprovePersist(s) PROVE [Gate!GateNext]_(Gate!gateVars)
  <2>1. checking[s] \in Fix /\ Given' = Given \union {<<checking[s], s>>} /\ ran' = ran
    BY <1>2, FixAssumption DEF ApprovePersist, Given, agentVars
  <2> QED
    BY <2>1, GateGrants
<1>3. ASSUME NEW s \in Session, ApproveUndone(s) PROVE [Gate!GateNext]_(Gate!gateVars)
  <2>1. checking[s] \in Fix /\ Given' = Given \union {<<checking[s], s>>} /\ ran' = ran
    BY <1>3, FixAssumption DEF ApproveUndone, Given, agentVars
  <2> QED
    BY <2>1, GateGrants
<1>4. ASSUME NEW s \in Session, ApproveCommit(s) PROVE [Gate!GateNext]_(Gate!gateVars)
  <2>1. CASE s \in persisted
    BY <1>4, <2>1, GateStutters DEF ApproveCommit, agentVars
  <2>2. CASE s \notin persisted
    <3>1. checking[s] \in Fix /\ Given' = Given \union {<<checking[s], s>>} /\ ran' = ran
      BY <1>4, <2>2 DEF ApproveCommit, Given, TypeOK, agentVars
    <3> QED
      BY <3>1, GateGrants
  <2> QED
    BY <2>1, <2>2
<1>5. ASSUME NEW s \in Session, ApproveAbort(s) PROVE UNCHANGED <<approvals, undone, ran>>
  BY <1>5 DEF ApproveAbort, agentVars
<1>6. ASSUME NEW s \in Session, NEW f \in Fix, Reject(s, f) PROVE UNCHANGED <<approvals, undone, ran>>
  BY <1>6 DEF Reject, agentVars
<1>7. ASSUME NEW i \in Incident, Close(i) PROVE UNCHANGED <<approvals, undone, ran>>
  BY <1>7 DEF Close, agentVars
<1>8. ASSUME Poll PROVE UNCHANGED <<approvals, undone, ran>>
  BY <1>8 DEF Poll
<1>9. ASSUME NEW c \in Cmd, Execute(c) PROVE [Gate!GateNext]_(Gate!gateVars)
  BY <1>9, GatePerforms
<1>10. ASSUME NEW c \in Cmd, NEW ok \in BOOLEAN, WorkResult(c, ok) PROVE UNCHANGED <<approvals, undone, ran>>
  BY <1>10 DEF WorkResult
<1>11. ASSUME NEW f \in Fix, NEW ok \in BOOLEAN, ProbeResult(f, ok) PROVE UNCHANGED <<approvals, undone, ran>>
  BY <1>11 DEF ProbeResult
<1>12. ASSUME NEW f \in Fix, StartVerification(f) PROVE UNCHANGED <<approvals, undone, ran>>
  BY <1>12 DEF StartVerification, agentVars
<1>13. ASSUME NEW f \in Fix, Resolve(f) PROVE UNCHANGED <<approvals, undone, ran>>
  BY <1>13 DEF Resolve, agentVars
<1>14. CASE AgentCrash
  BY <1>14, GateStutters DEF AgentCrash
<1>15. CASE FallSilent
  BY <1>15, GateStutters DEF FallSilent, agentVars
<1>16. CASE ServerCrash
  BY <1>16, GateStutters DEF ServerCrash, agentVars
<1>17. ASSUME NEW c \in Cmd, NEW ok \in BOOLEAN, LoseResult(<<c, ok>>) PROVE UNCHANGED <<approvals, undone, ran>>
  BY <1>17 DEF LoseResult
<1>18. CASE UNCHANGED vars
  BY <1>18, GateStutters DEF vars, agentVars
<1> QED
  BY <1>1, <1>2, <1>3, <1>4, <1>5, <1>6, <1>7, <1>8, <1>9, <1>10, <1>11, <1>12,
     <1>13, <1>14, <1>15, <1>16, <1>17, <1>18, GateStutters
     DEF Next, Operator, Agent, Results, Failures

\* The pipeline implements the human gate: the steps of the queue, the agent
\* and verification are steps of "grant, then perform once" or none, for any
\* number of fixes and operators and every combination of faults.
THEOREM PipelineImplementsGate == Spec => ImplementsGate
<1>1. Init => Gate!GateInit
  BY DEF Init, Gate!GateInit, Given
<1>2. TypeOK /\ QueueInv /\ SignedInv /\ [Next]_vars => [Gate!GateNext]_(Gate!gateVars)
  BY GateStep
<1> QED
  BY <1>1, <1>2, TypeCorrect, QueueCorrect, SignedCorrect, PTL DEF Spec, ImplementsGate, Gate!GateSpec

(***************************************************************************)
(* Outcomes                                                                *)
(***************************************************************************)

\* No success is lost, and no failure added or removed.
CommandsKept ==
    \A f \in Fix : \A c \in Work(f) :
        /\ command[c] = "succeeded" => command'[c] = "succeeded"
        /\ command'[c] = "failed" => command[c] = "failed"
        /\ command[c] = "failed" => command'[c] = "failed"

\* A fix moves only to a status that claims nothing about its commands.
StatusKept ==
    \A f \in Fix : \/ fixStatus'[f] = fixStatus[f]
                   \/ fixStatus'[f] \in {"approved", "rejected"}
                   \/ fixStatus[f] = "absent" /\ fixStatus'[f] = "proposed"

\* Verification starts only for fixes that were handed off.
WatchKept ==
    /\ handoff' \subseteq handoff /\ handoff' \subseteq Fix
    /\ \A f \in Fix : verification'[f] # "not_applicable" =>
         verification[f] # "not_applicable" \/ f \in handoff

LEMMA OutcomeKept ==
    ASSUME OutcomeInv, CommandsKept, StatusKept, WatchKept
    PROVE  OutcomeInv'
<1> USE DEF CommandsKept, StatusKept, WatchKept
<1>1. \A f \in Fix : PlanSucceeded(f) => PlanSucceeded(f)'
  <2> SUFFICES ASSUME NEW f \in Fix, NEW s \in Session,
                      \A c \in Plan(f, s) : command[c] = "succeeded"
               PROVE  \A c \in Plan(f, s) : command'[c] = "succeeded"
    BY DEF PlanSucceeded
  <2> QED
    BY CommandNames
<1>2. SuccessIsBacked'
  BY <1>1 DEF OutcomeInv, SuccessIsBacked
<1>3. FailureMatchesCommands'
  BY DEF OutcomeInv, FailureMatchesCommands
<1>4. VerdictNeedsExecution'
  BY <1>1 DEF OutcomeInv, VerdictNeedsExecution
<1>5. \A f \in handoff' : PlanSucceeded(f)'
  BY <1>1 DEF OutcomeInv
<1> QED
  BY <1>2, <1>3, <1>4, <1>5 DEF OutcomeInv

\* A plan, once enqueued, is among the siblings as a whole.
LEMMA PlanIsSiblings ==
    ASSUME TypeOK, QueueInv, NEW f \in Fix, NEW s \in Session, NEW k \in Step,
           command[<<f, s, k>>] # "absent"
    PROVE  \A c \in Plan(f, s) : c \in Siblings(f, command)
<1>1. \A j \in 1..Width[f] : j \in Step /\ command[<<f, s, j>>] # "absent"
  BY FixAssumption DEF QueueInv, PlansAreWhole, Step
<1> QED
  BY <1>1 DEF Plan, Siblings, Work

\* The aggregation in submit_result keeps what a status and a verdict mean.
LEMMA OutcomeResult ==
    ASSUME TypeOK, QueueInv, OutcomeInv, NEW c \in Cmd, NEW ok \in BOOLEAN, WorkResult(c, ok)
    PROVE  OutcomeInv'
<1> DEFINE f == c[1]
           cmds == [command EXCEPT ![c] = Outcome(ok)]
           status == Aggregate(f, cmds)
<1>1. /\ c \in Work(f) /\ f \in Fix /\ command[c] = "claimed"
      /\ command' = cmds
      /\ fixStatus' = [fixStatus EXCEPT ![f] = status]
      /\ verification' = verification
      /\ handoff' \subseteq handoff \union {f}
      /\ status # "succeeded" => handoff' = handoff
  BY CommandNames DEF WorkResult, QueueInv, OneDelivery
<1>2. \A d \in Cmd : command'[d] = IF d = c THEN Outcome(ok) ELSE command[d]
  BY <1>1 DEF TypeOK
<1>3. Outcome(ok) \in {"succeeded", "failed"}
  BY DEF Outcome
<1>4. \A g \in Fix : PlanSucceeded(g) => PlanSucceeded(g)'
  <2> SUFFICES ASSUME NEW g \in Fix, NEW s \in Session,
                      \A d \in Plan(g, s) : command[d] = "succeeded"
               PROVE  \A d \in Plan(g, s) : command'[d] = "succeeded"
    BY DEF PlanSucceeded
  <2>1. Plan(g, s) \subseteq Cmd /\ c \notin Plan(g, s)
    BY <1>1, CommandNames
  <2> QED
    BY <1>2, <2>1
<1>5. \A g \in Fix : g # f =>
        /\ fixStatus'[g] = fixStatus[g]
        /\ \A d \in Work(g) : command'[d] = command[d]
  <2>1. \A g \in Fix : g # f => \A d \in Work(g) : d \in Cmd /\ d # c
    BY CommandNames DEF Work
  <2> QED
    BY <1>1, <1>2, <2>1 DEF TypeOK
<1>6. Siblings(f, cmds) = Siblings(f, command)
  <2>1. \A d \in Work(f) : cmds[d] # "absent" <=> command[d] # "absent"
    BY <1>1, <1>2, <1>3, CommandNames
  <2> QED
    BY <2>1 DEF Siblings
<1>7. fixStatus'[f] = status
  BY <1>1 DEF TypeOK
<1>8. status = "succeeded" => PlanSucceeded(f)' /\ \A d \in Work(f) : command'[d] # "failed"
  <2> SUFFICES ASSUME status = "succeeded"
               PROVE  PlanSucceeded(f)' /\ \A d \in Work(f) : command'[d] # "failed"
    OBVIOUS
  <2>1. \A d \in Siblings(f, command) : command'[d] = "succeeded"
    BY <1>1, <1>6 DEF Aggregate
  <2>2. \A d \in Work(f) : d \notin Siblings(f, command) => command'[d] = "absent"
    BY <1>1, <1>6 DEF Siblings
  <2>3. PICK s \in Session, k \in Step : c = <<f, s, k>>
    BY <1>1 DEF Work
  <2>4. \A d \in Plan(f, s) : command'[d] = "succeeded"
    BY <1>1, <2>1, <2>3, PlanIsSiblings
  <2> QED
    BY <2>1, <2>2, <2>4 DEF PlanSucceeded
<1>9. /\ status = "failed" => \E d \in Work(f) : command'[d] = "failed"
      /\ (\E d \in Work(f) : command'[d] = "failed") => status = "failed"
  <2>1. \A d \in Work(f) : command'[d] = "failed" <=> d \in Siblings(f, cmds) /\ cmds[d] = "failed"
    BY <1>1 DEF Siblings
  <2>2. status = "failed" <=> \E d \in Siblings(f, cmds) : cmds[d] = "failed"
    BY DEF Aggregate
  <2> QED
    BY <2>1, <2>2 DEF Siblings
<1>10. SuccessIsBacked'
  BY <1>4, <1>5, <1>7, <1>8 DEF OutcomeInv, SuccessIsBacked
<1>11. FailureMatchesCommands'
  BY <1>5, <1>7, <1>9 DEF OutcomeInv, FailureMatchesCommands
<1>12. VerdictNeedsExecution' /\ \A g \in handoff' : PlanSucceeded(g)'
  BY <1>1, <1>4, <1>8 DEF OutcomeInv, VerdictNeedsExecution, TypeOK
<1> QED
  BY <1>10, <1>11, <1>12 DEF OutcomeInv

\* Steps that touch no command, no status and neither side of the hand-off.
outcomeState == <<command, fixStatus, verification, handoff>>

LEMMA OutcomeUntouched == OutcomeInv /\ UNCHANGED outcomeState => OutcomeInv'
BY DEF OutcomeInv, SuccessIsBacked, FailureMatchesCommands, VerdictNeedsExecution,
       PlanSucceeded, outcomeState

LEMMA OutcomeStep ==
    ASSUME TypeOK, QueueInv, OutcomeInv, [Next]_vars
    PROVE  OutcomeInv'
<1> USE DEF outcomeState
<1>1. ASSUME NEW s \in Session, NEW f \in Fix, ApproveCheck(s, f) PROVE OutcomeInv'
  BY <1>1, OutcomeUntouched DEF ApproveCheck, fixVars, queueVars
<1>2. ASSUME NEW s \in Session, ApprovePersist(s) PROVE OutcomeInv'
  <2>1. CommandsKept /\ WatchKept
    BY <1>2 DEF ApprovePersist, queueVars, TypeOK, CommandsKept, WatchKept
  <2>2. StatusKept
    BY <1>2 DEF ApprovePersist, TypeOK, StatusKept
  <2> QED
    BY <2>1, <2>2, OutcomeKept
<1>3. ASSUME NEW s \in Session, ApproveUndone(s) PROVE OutcomeInv'
  BY <1>3, OutcomeUntouched DEF ApproveUndone, fixVars, queueVars
<1>4. ASSUME NEW s \in Session, ApproveCommit(s) PROVE OutcomeInv'
  <2>1. WatchKept /\ StatusKept
    BY <1>4 DEF ApproveCommit, TypeOK, WatchKept, StatusKept
  <2>2. checking[s] \in Fix
    BY <1>4 DEF ApproveCommit, TypeOK
  <2>3. \A c \in Plan(checking[s], s) : command[c] = "absent"
    <3>1. command[<<checking[s], s, 1>>] = "absent"
      BY <1>4 DEF ApproveCommit, QueueInv, NamesAreFresh
    <3>2. \A k \in 1..Width[checking[s]] : k \in Step
      BY <2>2, FixAssumption DEF Step
    <3>3. \A k \in 1..Width[checking[s]] : command[<<checking[s], s, k>>] = "absent"
      BY <2>2, <3>1, <3>2 DEF QueueInv, PlansAreWhole
    <3> QED
      BY <3>3 DEF Plan
  <2>4. \A c \in Cmd : \/ command'[c] = command[c]
                       \/ command[c] = "absent" /\ command'[c] = "pending"
    BY <1>4, <2>3 DEF ApproveCommit
  <2>5. CommandsKept
    BY <2>4, CommandNames DEF CommandsKept
  <2> QED
    BY <2>1, <2>5, OutcomeKept
<1>5. ASSUME NEW s \in Session, ApproveAbort(s) PROVE OutcomeInv'
  BY <1>5, OutcomeUntouched DEF ApproveAbort, fixVars, queueVars
<1>6. ASSUME NEW s \in Session, NEW f \in Fix, Reject(s, f) PROVE OutcomeInv'
  <2>1. CommandsKept /\ WatchKept
    BY <1>6 DEF Reject, queueVars, handlerVars, TypeOK, CommandsKept, WatchKept
  <2>2. StatusKept
    BY <1>6 DEF Reject, TypeOK, StatusKept
  <2> QED
    BY <2>1, <2>2, OutcomeKept
<1>7. ASSUME NEW i \in Incident, Close(i) PROVE OutcomeInv'
  BY <1>7, OutcomeUntouched DEF Close, fixVars, queueVars, handlerVars
<1>8. CASE Poll
  <2>1. WatchKept /\ StatusKept
    BY <1>8 DEF Poll, fixVars, handlerVars, TypeOK, WatchKept, StatusKept
  <2>2. PICK B \in SUBSET Pending :
           command' = [c \in Cmd |-> IF c \in B THEN "claimed" ELSE command[c]]
    BY <1>8 DEF Poll
  <2>3. \A c \in Cmd : \/ command'[c] = command[c]
                       \/ command[c] = "pending" /\ command'[c] = "claimed"
    BY <2>2 DEF Pending
  <2>4. CommandsKept
    BY <2>3, CommandNames DEF CommandsKept
  <2> QED
    BY <2>1, <2>4, OutcomeKept
<1>9. ASSUME NEW c \in Cmd, Execute(c) PROVE OutcomeInv'
  BY <1>9, OutcomeUntouched DEF Execute, fixVars, queueVars, handlerVars
<1>10. ASSUME NEW c \in Cmd, NEW ok \in BOOLEAN, WorkResult(c, ok) PROVE OutcomeInv'
  BY <1>10, OutcomeResult
<1>11. ASSUME NEW f \in Fix, NEW ok \in BOOLEAN, ProbeResult(f, ok) PROVE OutcomeInv'
  <2>1. WatchKept /\ StatusKept
    BY <1>11 DEF ProbeResult, fixVars, handlerVars, TypeOK, WatchKept, StatusKept
  <2>2. \A g \in Fix : \A c \in Work(g) : c \in Cmd /\ c # Probe(f)
    BY CommandNames, SessionAssumption DEF Work, Probe
  <2>3. \A c \in Cmd : c # Probe(f) => command'[c] = command[c]
    BY <1>11 DEF ProbeResult, TypeOK
  <2>4. CommandsKept
    BY <2>2, <2>3 DEF CommandsKept
  <2> QED
    BY <2>1, <2>4, OutcomeKept
<1>12. ASSUME NEW f \in Fix, StartVerification(f) PROVE OutcomeInv'
  <2>1. WatchKept /\ StatusKept
    BY <1>12 DEF StartVerification, TypeOK, WatchKept, StatusKept
  <2>2. \A g \in Fix : \A c \in Work(g) : c \in Cmd /\ c # Probe(f)
    BY CommandNames, SessionAssumption DEF Work, Probe
  <2>3. \A c \in Cmd : c # Probe(f) => command'[c] = command[c]
    BY <1>12 DEF StartVerification, TypeOK
  <2>4. CommandsKept
    BY <2>2, <2>3 DEF CommandsKept
  <2> QED
    BY <2>1, <2>4, OutcomeKept
<1>13. ASSUME NEW f \in Fix, Resolve(f) PROVE OutcomeInv'
  <2>1. CommandsKept
    BY <1>13 DEF Resolve, queueVars, CommandsKept
  <2>2. fixStatus' = fixStatus \/ fixStatus' \in Proposed(f)
    BY <1>13 DEF Resolve
  <2>3. StatusKept
    BY <2>2 DEF Proposed, TypeOK, StatusKept
  <2>4. WatchKept
    BY <1>13 DEF Resolve, Watched, handlerVars, TypeOK, WatchKept
  <2> QED
    BY <2>1, <2>3, <2>4, OutcomeKept
<1>14. CASE AgentCrash
  BY <1>14, OutcomeUntouched DEF AgentCrash, fixVars, queueVars, handlerVars
<1>15. CASE FallSilent
  BY <1>15, OutcomeUntouched DEF FallSilent, fixVars, queueVars, handlerVars
<1>16. CASE ServerCrash
  <2>1. CommandsKept /\ StatusKept /\ WatchKept
    BY <1>16 DEF ServerCrash, fixVars, queueVars, CommandsKept, StatusKept, WatchKept
  <2> QED
    BY <2>1, OutcomeKept
<1>17. ASSUME NEW c \in Cmd, NEW ok \in BOOLEAN, LoseResult(<<c, ok>>) PROVE OutcomeInv'
  BY <1>17, OutcomeUntouched DEF LoseResult, fixVars, queueVars, handlerVars
<1>18. CASE UNCHANGED vars
  BY <1>18, OutcomeUntouched DEF vars, fixVars, queueVars, handlerVars
<1> QED
  BY <1>1, <1>2, <1>3, <1>4, <1>5, <1>6, <1>7, <1>8, <1>9, <1>10, <1>11, <1>12,
     <1>13, <1>14, <1>15, <1>16, <1>17, <1>18
     DEF Next, Operator, Agent, Results, Failures

LEMMA OutcomeCorrect == Spec => []OutcomeInv
<1>1. Init => OutcomeInv
  <2> SUFFICES ASSUME Init PROVE OutcomeInv
    OBVIOUS
  <2>1. \A f \in Fix : \A c \in Work(f) : command[c] = "absent"
    BY CommandNames DEF Init
  <2>2. \A f \in Fix : /\ fixStatus[f] \in {"absent", "proposed"}
                     /\ verification[f] = "not_applicable"
    BY DEF Init
  <2>3. handoff = {}
    BY DEF Init
  <2> QED
    BY <2>1, <2>2, <2>3 DEF OutcomeInv, SuccessIsBacked, FailureMatchesCommands, VerdictNeedsExecution
<1>2. TypeOK /\ QueueInv /\ OutcomeInv /\ [Next]_vars => OutcomeInv'
  BY OutcomeStep
<1> QED
  BY <1>1, <1>2, TypeCorrect, QueueCorrect, PTL DEF Spec

\* Under every race and every fault of the model, a fix is reported as
\* succeeded only on the success of a whole approved plan and without a
\* failed command.
THEOREM SuccessCorrect == Spec => []SuccessIsBacked
<1>1. OutcomeInv => SuccessIsBacked
  BY DEF OutcomeInv
<1> QED
  BY <1>1, OutcomeCorrect, PTL

\* A fix is reported as failed exactly on account of its own commands.
THEOREM FailureCorrect == Spec => []FailureMatchesCommands
<1>1. OutcomeInv => FailureMatchesCommands
  BY DEF OutcomeInv
<1> QED
  BY <1>1, OutcomeCorrect, PTL

\* No verdict, and no pending watch, before the plan ran to its end.
THEOREM VerdictCorrect == Spec => []VerdictNeedsExecution
<1>1. OutcomeInv => VerdictNeedsExecution
  BY DEF OutcomeInv
<1> QED
  BY <1>1, OutcomeCorrect, PTL
=============================================================================
