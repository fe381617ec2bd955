----------------------------- MODULE Remediation -----------------------------
(***************************************************************************)
(* The path of a fix through ViljaOps: proposed by the investigator,       *)
(* approved by an operator, turned into agent commands, claimed by the     *)
(* polling agent, executed on the server, reported back, aggregated into   *)
(* the status of the fix and handed to verification.                       *)
(*                                                                         *)
(* Handlers are FastAPI functions that run in parallel on a thread pool,   *)
(* each with its own READ COMMITTED transaction and no row locks.  A       *)
(* handler is one action here, except where it commits in the middle or    *)
(* decides on a row it reads well before it writes: approval is a check    *)
(* and a commit, and the hand-off of a result to verification comes after  *)
(* the commit of the result.                                               *)
(***************************************************************************)
EXTENDS Naturals, FiniteSets

CONSTANTS
    Fix,         \* rows of fix_actions: the proposed ones and their reversals
    NoFix,       \* "no fix"
    Incident,    \* incidents the fixes belong to
    IncidentOf,  \* [Fix -> Incident]
    Mode,        \* [Fix -> "advisory" | "immediate" | "watched"], the catalog entry
    Width,       \* [Fix -> 1..2], how many commands _build_commands returns
    Staged,      \* the reassign_port and apply_nginx_config fixes: building their
                 \* commands commits, and the approval with them
    Reversal,    \* [Fix -> Fix \union {NoFix}], the rollback a failure may propose
    Session,     \* operators, each with one request at a time
    Verifier,    \* stands for "no fix" in a health check's fix_action_id
    PollLimit,   \* how many commands one poll returns
    Faults       \* what may go wrong: a subset of FaultKind

FaultKind == {"lost_poll", "lost_result", "agent_crash", "server_crash", "port_race"}

ASSUME FixAssumption ==
    /\ NoFix \notin Fix
    /\ IncidentOf \in [Fix -> Incident]
    /\ Mode \in [Fix -> {"advisory", "immediate", "watched"}]
    /\ Width \in [Fix -> 1..2]
    /\ Staged \subseteq Fix
    /\ Reversal \in [Fix -> Fix \union {NoFix}]
    /\ \A f \in Fix : Reversal[f] # NoFix => IncidentOf[Reversal[f]] = IncidentOf[f]

ASSUME SessionAssumption ==
    /\ Verifier \notin Session
    /\ PollLimit \in Nat \ {0}
    /\ Faults \subseteq FaultKind

\* A command is named by its fix, the request that created it and its place
\* in the list _build_commands returned; a health check by its fix alone.
Step == 1..2
Cmd == Fix \X (Session \union {Verifier}) \X Step
Work(f) == {<<f, s, k>> : s \in Session, k \in Step}
Plan(f, s) == {<<f, s, k>> : k \in 1..Width[f]}
Probe(f) == <<f, Verifier, 1>>

FixStatus == {"absent", "proposed", "approved", "rejected", "executing", "succeeded", "failed"}
IncidentStatus == {"open", "diagnosed", "fixing", "resolved", "dismissed"}
CommandStatus == {"absent", "pending", "claimed", "succeeded", "failed"}
Verification == {"not_applicable", "pending", "passed", "failed", "unknown"}

VARIABLES
    fixStatus, approvedBy,   \* FixAction.status, .approved_by
    verification,            \* FixAction.verification_status
    incident,                \* Incident.status
    command, born, clock,    \* AgentCommand.status, .created_at and the time it is taken from
    checking,                \* the fix whose approval a session has checked
    persisted,               \* sessions whose approval is committed without its commands
    handoff,                 \* fixes a result handler is about to call start_verification on
    approvals,               \* history: <<f, s>> once the approval of f by s is committed
    undone,                  \* history: <<f, s>> once a lost port race has rolled it back
    online,                  \* Server.online: seen in the last two minutes
    inbox, wire, ran         \* the agent's batch, results under way, commands it has executed

fixVars == <<fixStatus, approvedBy, verification>>
queueVars == <<command, born, clock>>
handlerVars == <<checking, persisted, handoff>>
agentVars == <<inbox, wire, ran>>
vars == <<fixVars, incident, queueVars, handlerVars, approvals, undone, online, agentVars>>

Init ==
    /\ fixStatus = [f \in Fix |->
                      IF \E g \in Fix : Reversal[g] = f THEN "absent" ELSE "proposed"]
    /\ approvedBy = [f \in Fix |-> Verifier]
    /\ verification = [f \in Fix |-> "not_applicable"]
    /\ incident \in [Incident -> {"open", "diagnosed"}]
    /\ command = [c \in Cmd |-> "absent"]
    /\ born = [c \in Cmd |-> 0]
    /\ clock = 0
    /\ checking = [s \in Session |-> NoFix]
    /\ persisted = {}
    /\ handoff = {}
    /\ approvals = {} /\ undone = {}
    /\ online = TRUE
    /\ inbox = {} /\ wire = {} /\ ran = {}

-----------------------------------------------------------------------------
(* Operators at the API *)

\* approve_fix up to the last early return: every guard is read from rows
\* that nothing locks.  A session stands for one request per fix, so that its
\* commands have names of their own; the last guard bounds the model that way.
ApproveCheck(s, f) ==
    /\ checking[s] = NoFix
    /\ fixStatus[f] = "proposed"
    /\ Mode[f] # "advisory"
    /\ online
    /\ command[<<f, s, 1>>] = "absent"
    /\ checking' = [checking EXCEPT ![s] = f]
    /\ UNCHANGED <<fixVars, incident, queueVars, persisted, handoff, online, agentVars, approvals, undone>>

\* Mutant: the commit inside allocate comes after its rollback.
ApprovePersistLost(s) ==
    /\ checking[s] \in Staged
    /\ s \notin persisted
    /\ persisted' = persisted \union {s}
    /\ UNCHANGED <<fixVars, incident, queueVars, checking, handoff, approvals, undone,
                   online, agentVars>>

\* _build_commands of a staged fix: releasing the old port, allocating the new
\* one and creating an Nginx config all commit the session, and with it the
\* approval set a few lines above.
ApprovePersist(s) ==
    /\ checking[s] \in Staged
    /\ s \notin persisted
    /\ fixStatus' = [fixStatus EXCEPT ![checking[s]] = "approved"]
    /\ approvedBy' = [approvedBy EXCEPT ![checking[s]] = s]
    /\ approvals' = approvals \union {<<checking[s], s>>}
    /\ persisted' = persisted \union {s}
    /\ UNCHANGED <<verification, incident, queueVars,
                   checking, handoff, online, agentVars, undone>>

\* A reassign_port with no old port to release, when the first insert of
\* allocate loses a race: its rollback also undoes the approval, and the
\* handler goes on with the next port.
ApproveUndone(s) ==
    /\ "port_race" \in Faults
    /\ checking[s] \in Staged
    /\ s \notin persisted
    /\ persisted' = persisted \union {s}
    /\ undone' = undone \union {<<checking[s], s>>}
    /\ UNCHANGED <<fixVars, incident, queueVars, checking, handoff, approvals,
                   online, agentVars>>

\* The commit of approve_fix: the commands enter the queue.  An approval that
\* was already persisted is not dirty any more, so its row is not written again.
ApproveCommit(s) ==
    /\ checking[s] # NoFix
    /\ checking[s] \in Staged => s \in persisted
    /\ LET f == checking[s] IN
         /\ fixStatus' = IF s \in persisted THEN fixStatus
                         ELSE [fixStatus EXCEPT ![f] = "approved"]
         /\ approvedBy' = IF s \in persisted THEN approvedBy
                          ELSE [approvedBy EXCEPT ![f] = s]
         /\ approvals' = IF s \in persisted THEN approvals ELSE approvals \union {<<f, s>>}
         /\ command' = [c \in Cmd |-> IF c \in Plan(f, s) THEN "pending" ELSE command[c]]
         /\ born' = [c \in Cmd |-> IF c \in Plan(f, s) THEN clock + c[3] ELSE born[c]]
         /\ clock' = clock + 2
         /\ incident' = [incident EXCEPT ![IncidentOf[f]] = "fixing"]
    /\ checking' = [checking EXCEPT ![s] = NoFix]
    /\ persisted' = persisted \ {s}
    /\ UNCHANGED <<verification, handoff, online, agentVars, undone>>

\* _build_commands raises (no image to roll back to, no domain, no free port,
\* Nginx lint): what was not committed is dropped.
ApproveAbort(s) ==
    /\ checking[s] # NoFix
    /\ checking' = [checking EXCEPT ![s] = NoFix]
    /\ persisted' = persisted \ {s}
    /\ UNCHANGED <<fixVars, incident, queueVars, handoff, online, agentVars, approvals, undone>>

\* reject_fix looks at no status: it applies to a fix in any state.
Reject(s, f) ==
    /\ checking[s] = NoFix
    /\ fixStatus[f] # "absent"
    /\ fixStatus' = [fixStatus EXCEPT ![f] = "rejected"]
    /\ approvedBy' = [approvedBy EXCEPT ![f] = s]
    /\ UNCHANGED <<verification, incident, queueVars,
                   handlerVars, online, agentVars, approvals, undone>>

\* confirm_incident and dismiss_incident close an incident whatever its fixes do.
Close(i) ==
    /\ \/ incident' = [incident EXCEPT ![i] = "resolved"]
       \/ incident' = [incident EXCEPT ![i] = "dismissed"]
    /\ UNCHANGED <<fixVars, queueVars, handlerVars, online, agentVars, approvals, undone>>

-----------------------------------------------------------------------------
(* The agent *)

Pending == {c \in Cmd : command[c] = "pending"}

\* The batch of one poll: the oldest pending commands, at most PollLimit.
Batch(B) ==
    /\ B \subseteq Pending
    /\ \A b \in B, p \in Pending \ B : born[b] < born[p]
    /\ Cardinality(B) <= PollLimit
    /\ B = Pending \/ Cardinality(B) = PollLimit

\* Mutant: the claim is not committed.
PollUnclaimed ==
    /\ inbox = {}
    /\ \E B \in SUBSET Pending : Batch(B) /\ inbox' = B
    /\ online' = TRUE
    /\ UNCHANGED <<fixVars, incident, queueVars, handlerVars, wire, ran, approvals, undone>>

\* poll_commands claims and commits before it answers, so a lost answer loses
\* the batch.  The agent polls only when the previous batch is finished.
Poll ==
    /\ inbox = {}
    /\ \E B \in SUBSET Pending :
         /\ Batch(B)
         /\ command' = [c \in Cmd |-> IF c \in B THEN "claimed" ELSE command[c]]
         /\ \/ inbox' = B
            \/ "lost_poll" \in Faults /\ inbox' = {}
    /\ online' = TRUE
    /\ UNCHANGED <<fixVars, incident, born, clock, handlerVars, wire, ran, approvals, undone>>

\* The agent executes its batch in the order received and posts each outcome.
Execute(c) ==
    /\ c \in inbox
    /\ \A d \in inbox : born[c] <= born[d]
    /\ inbox' = inbox \ {c}
    /\ ran' = ran \union {c}
    /\ \E ok \in BOOLEAN : wire' = wire \union {<<c, ok>>}
    /\ UNCHANGED <<fixVars, incident, queueVars, handlerVars, online, approvals, undone>>

\* The agent process dies: the rest of its batch lived only in memory.
AgentCrash ==
    /\ "agent_crash" \in Faults
    /\ inbox' = {}
    /\ UNCHANGED <<fixVars, incident, queueVars, handlerVars, online, wire, ran, approvals, undone>>

\* A POST fails: _post sleeps, returns None, and the caller drops the result.
LoseResult(m) ==
    /\ "lost_result" \in Faults
    /\ m \in wire
    /\ wire' = wire \ {m}
    /\ UNCHANGED <<fixVars, incident, queueVars, handlerVars, online, inbox, ran, approvals, undone>>

\* 120 seconds without a heartbeat, a poll or a result.
FallSilent ==
    /\ online' = FALSE
    /\ UNCHANGED <<fixVars, incident, queueVars, handlerVars, agentVars, approvals, undone>>

-----------------------------------------------------------------------------
(* Results and verification *)

\* Mutant: only commands that have reported are looked at.
SiblingsReported(f, cmds) == {c \in Work(f) : cmds[c] \in {"succeeded", "failed"}}

\* The commands submit_result finds under the fix_action_id of f; a health
\* check carries no fix_action_id and is not among them.
Siblings(f, cmds) == {c \in Work(f) : cmds[c] # "absent"}

\* Mutants: one success is enough; a failure among successes is forgiven;
\* a failure is not looked for.
AggregateAny(f, cmds) ==
    IF \E c \in Siblings(f, cmds) : cmds[c] = "failed" THEN "failed"
    ELSE IF \E c \in Siblings(f, cmds) : cmds[c] = "succeeded" THEN "succeeded"
    ELSE "executing"

AggregateLenient(f, cmds) ==
    IF \A c \in Siblings(f, cmds) : cmds[c] = "failed" THEN "failed"
    ELSE IF \A c \in Siblings(f, cmds) : cmds[c] \in {"succeeded", "failed"} THEN "succeeded"
    ELSE "executing"

AggregateHopeful(f, cmds) ==
    IF \A c \in Siblings(f, cmds) : cmds[c] = "succeeded" THEN "succeeded" ELSE "executing"

\* The status of a fix after a result: any failure, all successes, or neither.
Aggregate(f, cmds) ==
    IF \E c \in Siblings(f, cmds) : cmds[c] = "failed" THEN "failed"
    ELSE IF \A c \in Siblings(f, cmds) : cmds[c] = "succeeded" THEN "succeeded"
    ELSE "executing"

\* Mutant: the agent's word is stored as it comes.
OutcomeRaw(ok) == IF ok THEN "ok" ELSE "failed"

Outcome(ok) == IF ok THEN "succeeded" ELSE "failed"

\* submit_result of a command that belongs to a fix, up to its commit.
WorkResult(c, ok) ==
    LET f == c[1]
        cmds == [command EXCEPT ![c] = Outcome(ok)]
        status == Aggregate(f, cmds)
    IN /\ <<c, ok>> \in wire
       /\ c \in Work(f)
       /\ wire' = wire \ {<<c, ok>>}
       /\ command' = cmds
       /\ fixStatus' = [fixStatus EXCEPT ![f] = status]
       /\ incident' = CASE status = "succeeded" -> [incident EXCEPT ![IncidentOf[f]] = "fixing"]
                        [] status = "failed" -> [incident EXCEPT ![IncidentOf[f]] = "diagnosed"]
                        [] OTHER -> incident
       /\ handoff' = IF status = "succeeded" /\ verification[f] = "not_applicable"
                     THEN handoff \union {f} ELSE handoff
       /\ online' = TRUE
       /\ UNCHANGED <<approvedBy, verification,
                      born, clock, checking, persisted, inbox, ran, approvals, undone>>

\* submit_result of a health check: nothing here moves but its own command;
\* what it writes into the record of the watch is modelled in Verification.
ProbeResult(f, ok) ==
    /\ <<Probe(f), ok>> \in wire
    /\ wire' = wire \ {<<Probe(f), ok>>}
    /\ command' = [command EXCEPT ![Probe(f)] = Outcome(ok)]
    /\ online' = TRUE
    /\ UNCHANGED <<fixVars, incident, born, clock, handlerVars, inbox, ran, approvals, undone>>

\* Mutant: an immediate fix is not judged.
OpeningWatched(f) == IF Mode[f] = "immediate" THEN "not_applicable" ELSE "pending"

\* An immediate fix has met its criterion by its command's success.
Opening(f) == IF Mode[f] = "immediate" THEN "passed" ELSE "pending"

\* start_verification.  A watched fix gets, when its deployment has a port,
\* one health check.
StartVerification(f) ==
    /\ f \in handoff
    /\ handoff' = handoff \ {f}
    /\ verification' = [verification EXCEPT ![f] = Opening(f)]
    /\ \/ /\ Mode[f] = "watched"
          /\ command' = [command EXCEPT ![Probe(f)] = "pending"]
          /\ born' = [born EXCEPT ![Probe(f)] = clock + 1]
          /\ clock' = clock + 2
       \/ UNCHANGED <<command, born, clock>>
    /\ UNCHANGED <<fixStatus, approvedBy, incident, checking, persisted, online,
                   agentVars, approvals, undone>>

\* The rollback _propose_rollback adds when the agent captured the previous value.
Proposed(f) ==
    IF Reversal[f] # NoFix /\ fixStatus[Reversal[f]] = "absent"
    THEN {fixStatus, [fixStatus EXCEPT ![Reversal[f]] = "proposed"]}
    ELSE {fixStatus}

Watched(f) == Mode[f] = "watched" /\ verification[f] # "not_applicable"

\* The commit of one evaluation by the sweep or by force_verify.  Verification
\* models how the verdict comes about; here it is any, and it may overwrite
\* another's, because two evaluators may have loaded the row while it was
\* pending.  Only a failure reopens the incident and proposes a rollback.
Resolve(f) ==
    /\ Watched(f)
    /\ \/ /\ verification' = [verification EXCEPT ![f] = "failed"]
          /\ incident' \in {incident, [incident EXCEPT ![IncidentOf[f]] = "diagnosed"]}
          /\ fixStatus' \in Proposed(f)
       \/ /\ \E v \in {"passed", "unknown"} :
               verification' = [verification EXCEPT ![f] = v]
          /\ UNCHANGED <<incident, fixStatus>>
    /\ UNCHANGED <<approvedBy, queueVars, handlerVars, online, agentVars, approvals, undone>>

\* The control plane restarts: requests under way are gone, committed rows stay.
ServerCrash ==
    /\ "server_crash" \in Faults
    /\ checking' = [s \in Session |-> NoFix]
    /\ persisted' = {}
    /\ handoff' = {}
    /\ UNCHANGED <<fixVars, incident, queueVars, online, agentVars, approvals, undone>>

-----------------------------------------------------------------------------
Operator ==
    \/ \E s \in Session :
         \/ ApprovePersist(s) \/ ApproveUndone(s) \/ ApproveCommit(s) \/ ApproveAbort(s)
         \/ \E f \in Fix : ApproveCheck(s, f) \/ Reject(s, f)
    \/ \E i \in Incident : Close(i)

Agent == Poll \/ \E c \in Cmd : Execute(c)

Results ==
    \/ \E c \in Cmd, ok \in BOOLEAN : WorkResult(c, ok)
    \/ \E f \in Fix, ok \in BOOLEAN : ProbeResult(f, ok)
    \/ \E f \in Fix : StartVerification(f) \/ Resolve(f)

Failures ==
    \/ AgentCrash \/ FallSilent \/ ServerCrash
    \/ \E c \in Cmd, ok \in BOOLEAN : LoseResult(<<c, ok>>)

Next == Operator \/ Agent \/ Results \/ Failures

Spec == Init /\ [][Next]_vars

\* Handlers run to completion, the agent keeps polling and working off its
\* batch, and HTTP delivers; operators and the evidence owe nobody anything.
Fairness ==
    /\ \A s \in Session : WF_vars(ApprovePersist(s) \/ ApproveUndone(s)
                                    \/ ApproveCommit(s) \/ ApproveAbort(s))
    /\ WF_vars(Poll)
    /\ WF_vars(\E c \in Cmd : Execute(c))
    /\ WF_vars(\E c \in Cmd, ok \in BOOLEAN : WorkResult(c, ok))
    /\ WF_vars(\E f \in Fix, ok \in BOOLEAN : ProbeResult(f, ok))
    /\ WF_vars(\E f \in Fix : StartVerification(f))

FairSpec == Spec /\ Fairness

-----------------------------------------------------------------------------
(* Properties *)

\* Every variable stays in its domain.
TypeOK ==
    /\ fixStatus \in [Fix -> FixStatus]
    /\ approvedBy \in [Fix -> Session \union {Verifier}]
    /\ verification \in [Fix -> Verification]
    /\ incident \in [Incident -> IncidentStatus]
    /\ command \in [Cmd -> CommandStatus]
    /\ born \in [Cmd -> Nat]
    /\ clock \in Nat
    /\ checking \in [Session -> Fix \union {NoFix}]
    /\ persisted \subseteq Session
    /\ handoff \subseteq Fix
    /\ approvals \subseteq Fix \X Session /\ undone \subseteq Fix \X Session
    /\ online \in BOOLEAN
    /\ inbox \subseteq Cmd
    /\ wire \subseteq Cmd \X BOOLEAN
    /\ ran \subseteq Cmd

\* What the operators have agreed to: approvals on record, and those whose
\* record the rollback of a lost port race took away.
Given == approvals \union undone

\* "Nothing runs without a named human approving it": whatever the order of
\* approvals, rejections, crashes and losses, a command stems from an approval
\* of its own fix by its own operator, and the fix is executable.  Unless the
\* lost port race of that approval rolled its record back, the fix names an
\* operator and no longer looks proposed, so a later approval is refused.
DispatchedIsSigned ==
    \A f \in Fix : \A c \in Siblings(f, command) :
        /\ <<f, c[2]>> \in Given
        /\ Mode[f] # "advisory"
        /\ <<f, c[2]>> \in approvals =>
             approvedBy[f] \in Session /\ fixStatus[f] \notin {"absent", "proposed"}

\* A command waiting to be executed, in the queue or in the agent's memory,
\* has not been executed before: the claim in poll_commands gives the agent
\* each command at most once, however answers and results are lost.
NothingRunsTwice ==
    /\ ran \intersect inbox = {}
    /\ ran \intersect Pending = {}

\* Every command of one approval of f has succeeded on the server.
PlanSucceeded(f) == \E s \in Session : \A c \in Plan(f, s) : command[c] = "succeeded"

\* A fix is reported as succeeded only when the whole plan of one approval has
\* succeeded and no command of any approval has failed; an approval racing
\* with that one may still add commands.
SuccessIsBacked ==
    \A f \in Fix : fixStatus[f] = "succeeded" =>
        /\ PlanSucceeded(f)
        /\ \A c \in Work(f) : command[c] # "failed"

\* A fix is reported as failed exactly because of its own commands: a failed
\* command cannot be papered over by the late success of a sibling, and a bad
\* health check, which is no sibling, cannot fail the execution of a fix.
FailureMatchesCommands ==
    \A f \in Fix :
        LET broken == \E c \in Work(f) : command[c] = "failed"
        IN /\ fixStatus[f] = "failed" => broken
           /\ broken => fixStatus[f] \in {"failed", "approved", "rejected"}

\* Verification says something about a fix only after one approval's whole
\* plan has succeeded on the server.
VerdictNeedsExecution ==
    \A f \in Fix : verification[f] # "not_applicable" => PlanSucceeded(f)

\* An approval comes to an end: executed, failed or rejected.  A staged fix is
\* left out, as it stays approved for good when building its commands fails
\* after the commit.
ApprovedFinishes ==
    \A f \in Fix \ Staged : fixStatus[f] = "approved"
        ~> fixStatus[f] \in {"succeeded", "failed", "rejected"}

\* Success is never the last word: verification starts.
SuccessIsJudged ==
    \A f \in Fix : fixStatus[f] = "succeeded" ~> verification[f] # "not_applicable"

\* approve_fix refuses a second approval: a fix has the commands of one.
ApprovedOnce ==
    \A f \in Fix, s, t \in Session :
        (command[<<f, s, 1>>] # "absent" /\ command[<<f, t, 1>>] # "absent") => s = t

\* The human gate this pipeline implements; a probe changes nothing on the
\* server and needs no grant, and losing the record of a grant takes none back.
Gate == INSTANCE HumanGate WITH
    granted <- Given,
    done <- {c \in ran : c[2] # Verifier}

ImplementsGate == Gate!GateSpec

-----------------------------------------------------------------------------
(* Inductive strengthenings, used by RemediationProofs *)

\* Approvals enqueue whole plans.
PlansAreWhole ==
    \A f \in Fix, s \in Session, k \in Step :
        command[<<f, s, k>>] # "absent"
            <=> (k \in 1..Width[f] /\ command[<<f, s, 1>>] # "absent")

\* What is about to be enqueued is not in the queue yet.
NamesAreFresh ==
    /\ \A s \in Session : checking[s] # NoFix => command[<<checking[s], s, 1>>] = "absent"
    /\ \A f \in handoff : verification[f] = "not_applicable"
    /\ \A f \in Fix : verification[f] = "not_applicable" => command[Probe(f)] = "absent"

\* A command is claimed while the agent holds it or its result is under way,
\* is executed once, and has one result.
OneDelivery ==
    /\ \A c \in inbox : command[c] = "claimed" /\ c \notin ran
    /\ \A c \in ran : command[c] \notin {"absent", "pending"}
    /\ \A c \in Cmd, ok \in BOOLEAN : <<c, ok>> \in wire =>
         /\ command[c] = "claimed"
         /\ c \in ran
         /\ <<c, ~ok>> \notin wire

QueueInv == PlansAreWhole /\ NamesAreFresh /\ OneDelivery

\* Approvals are made by operators, of executable fixes, which then are not
\* proposed any more unless the record is lost; commands and half-made
\* approvals stem from approvals.
SignedInv ==
    /\ \A f \in Fix, s \in Session : <<f, s>> \in Given => Mode[f] # "advisory"
    /\ \A f \in Fix, s \in Session : <<f, s>> \in approvals =>
         approvedBy[f] \in Session /\ fixStatus[f] \notin {"absent", "proposed"}
    /\ \A f \in Fix, s \in Session, k \in Step :
         command[<<f, s, k>>] # "absent" => <<f, s>> \in Given
    /\ \A s \in Session : checking[s] # NoFix =>
         /\ Mode[checking[s]] # "advisory"
         /\ s \in persisted => <<checking[s], s>> \in Given
    /\ \A s \in persisted : checking[s] # NoFix

OutcomeInv ==
    /\ SuccessIsBacked
    /\ FailureMatchesCommands
    /\ VerdictNeedsExecution
    /\ \A f \in handoff : PlanSucceeded(f)
=============================================================================
