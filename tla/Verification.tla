---------------------------- MODULE Verification ----------------------------
(***************************************************************************)
(* The watch after a fix: verify.py.  Once the commands of a fix have      *)
(* succeeded its row goes to "pending", a health check may be dispatched,  *)
(* and the periodic sweep, or an operator who presses "Check now", turns   *)
(* the telemetry since then into passed, failed or unknown.                *)
(*                                                                         *)
(* Each evaluator is a session that never refreshes what it has loaded     *)
(* (autoflush and expire_on_commit are off), and nothing is locked: the    *)
(* sweep loads all pending rows first and judges them one after another,   *)
(* on the copies it loaded, while agents, operators and other evaluators   *)
(* commit.  The incident is read anew for each fix it judges, as nothing   *)
(* keeps the copy of the fix before, and may change until the verdict.     *)
(* A failure is committed before its follow-up proposals are.              *)
(* One incident with one deployment is modelled; its fixes share it.       *)
(***************************************************************************)
EXTENDS Naturals, Sequences, FiniteSets

CONSTANTS
    Fix,            \* watched fixes of the incident
    Value, NoValue, \* values a rollback can restore, and none
    Undo,           \* [Fix -> Value \union {NoValue}], what _propose_rollback would propose
    Sweeper,        \* runs of verify_fixes, at most one at a time each
    Operator,       \* users of force_verify, one request at a time each
    MaxExtensions,  \* settings.verify_max_extensions
    MayCrash        \* whether a worker may die between two commits

ASSUME WatchAssumption ==
    /\ NoValue \notin Value /\ "escalation" \notin Value
    /\ Undo \in [Fix -> Value \union {NoValue}]
    /\ Sweeper \intersect Operator = {}
    /\ IsFiniteSet(Sweeper) /\ IsFiniteSet(Operator)
    /\ MaxExtensions \in Nat
    /\ MayCrash \in BOOLEAN

Evaluator == Sweeper \union Operator
Followup == {"escalation"} \union Value
Final == {"passed", "failed", "unknown"}
Health == {"none", "ok", "bad"}
Detail == [health : Health, extensions : 0..MaxExtensions]
IncidentRow == [status : {"fixing", "diagnosed", "resolved", "dismissed"}, auto : BOOLEAN]
NotLoaded == [status |-> "not loaded", auto |-> FALSE]

\* A session of an evaluator: the fixes it has loaded and not judged yet, its
\* copies of their records, the fix it is judging with its copy of the
\* incident, and the proposals it still has to make for a failure.
Fresh == [health |-> "none", extensions |-> 0]
Closed == [phase |-> "closed", todo |-> {}, seen |-> [f \in Fix |-> Fresh],
           loaded |-> NotLoaded, at |-> {}, owed |-> <<>>]

VARIABLES
    status,    \* FixAction.verification_status
    detail,    \* FixAction.verification_detail: health_check, extensions_used
    probe,     \* the health check: not sent, under way, or its answer
    elapsed,   \* fixes whose window (from the stored started_at) is over
    sampled,   \* fixes since whose started_at a metric sample has arrived
    recurred,  \* fixes since whose started_at a recurrence is on record
    incident,  \* Incident.status and .auto_verified
    proposals, \* how many rows each kind of follow-up has
    session    \* [Evaluator -> session]

rows == <<status, detail, incident, proposals>>
telemetry == <<elapsed, sampled, recurred>>
vars == <<rows, probe, telemetry, session>>

Init ==
    /\ status = [f \in Fix |-> "not_applicable"]
    /\ detail = [f \in Fix |-> Fresh]
    /\ probe = [f \in Fix |-> "none"]
    /\ elapsed = {} /\ sampled = {} /\ recurred = {}
    /\ incident = [status |-> "fixing", auto |-> FALSE]
    /\ proposals = [k \in Followup |-> 0]
    /\ session = [e \in Evaluator |-> Closed]

Started == {f \in Fix : status[f] # "not_applicable"}

-----------------------------------------------------------------------------
(* What the other parts commit *)

\* start_verification of a watched fix; the health check needs a known port.
Start(f) ==
    /\ status[f] = "not_applicable"
    /\ status' = [status EXCEPT ![f] = "pending"]
    /\ detail' = [detail EXCEPT ![f] = Fresh]
    /\ \/ probe' = [probe EXCEPT ![f] = "sent"]
       \/ UNCHANGED probe
    /\ UNCHANGED <<incident, proposals, telemetry, session>>

\* submit_result of the health check adds its answer to the record, whatever
\* has become of the watch.
HealthResult(f, h) ==
    /\ probe[f] = "sent"
    /\ probe' = [probe EXCEPT ![f] = h]
    /\ detail' = [detail EXCEPT ![f].health = h]
    /\ UNCHANGED <<status, incident, proposals, telemetry, session>>

\* A metric sample counts for every fix whose watch has started.
Sample ==
    /\ sampled' = sampled \union Started
    /\ UNCHANGED <<rows, probe, elapsed, recurred, session>>

\* A watched anomaly, a newer failed deployment or a climbing restart count.
Recur(f) ==
    /\ f \in Started
    /\ recurred' = recurred \union {f}
    /\ UNCHANGED <<rows, probe, elapsed, sampled, session>>

Elapse(f) ==
    /\ f \in Started
    /\ elapsed' = elapsed \union {f}
    /\ UNCHANGED <<rows, probe, sampled, recurred, session>>

\* Approving a fix, its result, and confirm_incident or dismiss_incident.
MoveIncident(s) ==
    /\ incident' = [incident EXCEPT !.status = s]
    /\ UNCHANGED <<status, detail, proposals, probe, telemetry, session>>

-----------------------------------------------------------------------------
(* Evaluators *)

Pending == {f \in Fix : status[f] = "pending"}

\* The sweep loads every pending fix, force_verify the one it was asked for.
Load(e) ==
    /\ session[e].phase = "closed"
    /\ \E F \in (SUBSET Pending) \ {{}} :
         /\ IF e \in Sweeper THEN F = Pending ELSE Cardinality(F) = 1
         /\ session' = [session EXCEPT ![e] =
                [Closed EXCEPT !.phase = "next", !.todo = F, !.seen = detail]]
    /\ UNCHANGED <<rows, probe, telemetry>>

\* Mutant: any answer of the health check ends the window.
DueOnAnswer(e, f) ==
    e \in Operator \/ session[e].seen[f].health # "none" \/ f \in elapsed

\* A forced check and a failed health check do not wait for the window to end.
Due(e, f) == e \in Operator \/ session[e].seen[f].health = "bad" \/ f \in elapsed

\* _evaluate_one returns early: the window is open and nothing bad is known.
Wait(e, f) ==
    /\ session[e].phase = "next" /\ f \in session[e].todo
    /\ ~Due(e, f)
    /\ session' = [session EXCEPT ![e].todo = @ \ {f}]
    /\ UNCHANGED <<rows, probe, telemetry>>

Loaded(e) == incident

\* _evaluate_one goes on: it loads the incident.
Open(e, f) ==
    /\ session[e].phase = "next" /\ f \in session[e].todo
    /\ Due(e, f)
    /\ session' = [session EXCEPT
                     ![e].phase = "judge", ![e].at = {f}, ![e].todo = @ \ {f},
                     ![e].loaded = Loaded(e)]
    /\ UNCHANGED <<rows, probe, telemetry>>

\* Mutants: a health check that has not answered counts as failed; a sample
\* counts only while the window is open, or is not needed once it is over.
RegressedUnlessOk(e, f) == f \in recurred \/ session[e].seen[f].health # "ok"
HeardInWindow(f) == f \in sampled /\ f \notin elapsed
HeardOrElapsed(f) == f \in sampled \/ f \in elapsed

Heard(f) == f \in sampled

\* Watched anomalies, failed deployments and restarts, and the loaded record.
Regressed(e, f) == f \in recurred \/ session[e].seen[f].health = "bad"

\* Setting an attribute to the value the session has loaded writes nothing.
Written(new, loaded) ==
    [status |-> IF new.status = loaded.status THEN incident.status ELSE new.status,
     auto |-> IF new.auto = loaded.auto THEN incident.auto ELSE new.auto]

\* Mutants: the incident is opened as if it had not been diagnosed; a failure
\* moves the status of the incident only.
ReopenedAnew(e) == [status |-> "open", auto |-> FALSE]
ReopenedOnly(e) == [session[e].loaded EXCEPT !.status = "diagnosed"]

Reopened(e) == [status |-> "diagnosed", auto |-> FALSE]

\* Mutants: a rollback makes the escalation superfluous; every verdict is
\* followed by an escalation.
OwedAtMostOne(f, verdict) ==
    IF verdict # "failed" THEN <<>>
    ELSE IF Undo[f] = NoValue THEN <<"escalation">> ELSE <<Undo[f]>>
OwedAlways(f, verdict) == <<"escalation">>

\* A failure is followed by an escalation and, when there is a value to
\* restore, a rollback.
Owed(f, verdict) ==
    IF verdict # "failed" THEN <<>>
    ELSE <<"escalation">> \o IF Undo[f] = NoValue THEN <<>> ELSE <<Undo[f]>>

\* The commit of a verdict: the row of the fix with the session's copy of the
\* record, and the incident as far as the session thinks it has changed.
Conclude(e, f, verdict, new) ==
    /\ status' = [status EXCEPT ![f] = verdict]
    /\ detail' = [detail EXCEPT ![f] = session[e].seen[f]]
    /\ incident' = Written(new, session[e].loaded)
    /\ session' = [session EXCEPT
                     ![e].phase = IF Owed(f, verdict) = <<>> THEN "next" ELSE "ask",
                     ![e].at = {}, ![e].loaded = NotLoaded, ![e].owed = Owed(f, verdict)]
    /\ UNCHANGED <<proposals, probe, telemetry>>

\* _fail: the fix did not hold, and the incident is open again.
Fail(e, f) ==
    /\ session[e].phase = "judge" /\ f \in session[e].at
    /\ Regressed(e, f)
    /\ Conclude(e, f, "failed", Reopened(e))

\* No sample yet: the sweep restarts the clock, once, in the record it has
\* loaded.  Assigning the same, mutated object marks no column as changed, so
\* the commit that follows writes nothing.
Extend(e, f) ==
    /\ session[e].phase = "judge" /\ f \in session[e].at
    /\ ~Regressed(e, f) /\ ~Heard(f)
    /\ e \in Sweeper /\ session[e].seen[f].extensions < MaxExtensions
    /\ session' = [session EXCEPT ![e].phase = "next", ![e].at = {}, ![e].loaded = NotLoaded,
                                  ![e].seen[f].extensions = @ + 1]
    /\ UNCHANGED <<rows, probe, telemetry>>

GiveUp(e, f) ==
    /\ session[e].phase = "judge" /\ f \in session[e].at
    /\ ~Regressed(e, f) /\ ~Heard(f)
    /\ e \in Operator \/ session[e].seen[f].extensions >= MaxExtensions
    /\ Conclude(e, f, "unknown", session[e].loaded)

Pass(e, f) ==
    /\ session[e].phase = "judge" /\ f \in session[e].at
    /\ ~Regressed(e, f) /\ Heard(f)
    /\ Conclude(e, f, "passed", [session[e].loaded EXCEPT !.auto = TRUE])

\* Mutant: nobody looks whether it was proposed before.
AlreadyUnchecked(k) == FALSE

Already(k) == proposals[k] > 0

\* _propose_escalation and _propose_rollback look for a row of their kind ...
Ask(e) ==
    /\ session[e].phase = "ask"
    /\ LET k == Head(session[e].owed)
           left == Tail(session[e].owed)
       IN session' = IF Already(k)
                     THEN [session EXCEPT ![e].owed = left,
                                          ![e].phase = IF left = <<>> THEN "next" ELSE "ask"]
                     ELSE [session EXCEPT ![e].phase = "propose"]
    /\ UNCHANGED <<rows, probe, telemetry>>

\* ... and add one when they found none.
Propose(e) ==
    /\ session[e].phase = "propose"
    /\ LET k == Head(session[e].owed)
           left == Tail(session[e].owed)
       IN /\ proposals' = [proposals EXCEPT ![k] = @ + 1]
          /\ session' = [session EXCEPT ![e].owed = left,
                                        ![e].phase = IF left = <<>> THEN "next" ELSE "ask"]
    /\ UNCHANGED <<status, detail, incident, probe, telemetry>>

Close(e) ==
    /\ session[e].phase = "next" /\ session[e].todo = {}
    /\ session' = [session EXCEPT ![e] = Closed]
    /\ UNCHANGED <<rows, probe, telemetry>>

Crash(e) ==
    /\ MayCrash
    /\ session[e].phase # "closed"
    /\ session' = [session EXCEPT ![e] = Closed]
    /\ UNCHANGED <<rows, probe, telemetry>>

-----------------------------------------------------------------------------
Environment ==
    \/ Sample
    \/ \E f \in Fix : Start(f) \/ Recur(f) \/ Elapse(f) \/ \E h \in {"ok", "bad"} : HealthResult(f, h)
    \/ \E s \in {"fixing", "diagnosed", "resolved", "dismissed"} : MoveIncident(s)

Judge(e) == \E f \in Fix : Fail(e, f) \/ Extend(e, f) \/ GiveUp(e, f) \/ Pass(e, f)

Evaluate(e) ==
    \/ (\E f \in Fix : Wait(e, f) \/ Open(e, f))
    \/ Judge(e) \/ Ask(e) \/ Propose(e) \/ Close(e)

Next == Environment \/ \E e \in Evaluator : Load(e) \/ Evaluate(e) \/ Crash(e)

Spec == Init /\ [][Next]_vars

\* Celery beat starts a sweep every minute and a session that is open goes on
\* to its end; time passes.  Operators and agents owe nothing.
Fairness ==
    /\ \A e \in Sweeper : WF_vars(Load(e))
    /\ \A e \in Evaluator : WF_vars(Evaluate(e))
    /\ \A f \in Fix : WF_vars(Elapse(f))

FairSpec == Spec /\ Fairness

-----------------------------------------------------------------------------
(* Properties *)

\* Every variable stays in its domain.
TypeOK ==
    /\ status \in [Fix -> Final \union {"not_applicable", "pending"}]
    /\ detail \in [Fix -> Detail]
    /\ probe \in [Fix -> Health \union {"sent"}]
    /\ elapsed \subseteq Fix /\ sampled \subseteq Fix /\ recurred \subseteq Fix
    /\ incident \in IncidentRow
    /\ proposals \in [Followup -> Nat]
    /\ \A e \in Evaluator :
         /\ session[e].phase \in {"closed", "next", "judge", "ask", "propose"}
         /\ session[e].todo \subseteq Fix /\ session[e].at \subseteq Fix
         /\ session[e].seen \in [Fix -> Detail]
         /\ session[e].loaded \in IncidentRow \union {NotLoaded}
         /\ session[e].owed \in Seq(Followup)

\* Every verdict rests on evidence from after the fix, however sweeps and
\* forced checks overlap and overwrite each other's record: a fix is called
\* good only when its deployment has reported since, for silence is no health,
\* and bad only after a recurrence or a failed health check.
VerdictsHaveEvidence ==
    \A f \in Fix :
        /\ status[f] = "passed" => f \in sampled
        /\ status[f] = "failed" => f \in recurred \/ probe[f] = "bad"

\* Without an operator's help no verdict comes before the window is over,
\* except on a failed health check.
WindowIsRespected ==
    \A f \in Fix : status[f] \in Final => f \in elapsed \/ probe[f] = "bad"

\* What gives rise to a follow-up: evidence against a fix, which stays.
Grounds(k) ==
    \E f \in Fix : k \in {"escalation", Undo[f]} /\ (f \in recurred \/ probe[f] = "bad")

\* However many sweeps and forced checks overlap, an incident gets no more
\* follow-ups of one kind than there are evaluators, whatever fails and crashes
\* and however often, and none without evidence against one of its fixes.
FollowupsAreBounded ==
    \A k \in Followup :
        /\ proposals[k] <= Cardinality(Evaluator)
        /\ proposals[k] > 0 => Grounds(k)

\* auto_verified, which feeds the dataset, is taken back by the commit that
\* records a failure; an earlier pass does not outlive it.
FailureRevokes ==
    [][\A f \in Fix : (status[f] # "failed" /\ status'[f] = "failed") => ~incident'.auto]_vars

\* A watch whose deployment reports comes to a verdict.
WatchEnds == \A f \in Fix : (status[f] = "pending" /\ f \in sampled) ~> status[f] \in Final

\* A failure leads to an escalation: "never a silent retry loop".
FailureEscalates == \A f \in Fix : status[f] = "failed" ~> proposals["escalation"] > 0

\* The documented end of every watch: passed, failed, or, after one extension
\* without telemetry, unknown.
EveryWatchEnds == \A f \in Fix : status[f] = "pending" ~> status[f] \in Final

\* "A failed health check is decisive evidence": a fix whose record holds one
\* is not passed.
BadHealthIsDecisive ==
    [][\A f \in Fix : (status[f] = "pending" /\ detail[f].health = "bad")
          => status'[f] # "passed"]_vars

-----------------------------------------------------------------------------
(* Inductive strengthenings, used by VerificationProofs *)

Session == [phase : {"closed", "next", "judge", "ask", "propose"}, todo : SUBSET Fix,
            seen : [Fix -> Detail], loaded : IncidentRow \union {NotLoaded},
            at : SUBSET Fix, owed : Seq(Followup)]

\* A session that judges has loaded the incident, and one that proposes owes.
SessionInv ==
    /\ session \in [Evaluator -> Session]
    /\ \A e \in Evaluator :
         /\ session[e].phase = "judge" => session[e].loaded \in IncidentRow
         /\ session[e].phase \in {"ask", "propose"} => session[e].owed # <<>>

\* A health check is sent once, and whoever knows of a bad answer has it from it.
EvidenceInv ==
    /\ VerdictsHaveEvidence
    /\ \A f \in Fix :
         /\ status[f] = "not_applicable" => probe[f] = "none"
         /\ detail[f].health = "bad" => probe[f] = "bad"
         /\ \A e \in Evaluator : session[e].seen[f].health = "bad" => probe[f] = "bad"

\* What is under judgement may be: its window is over or a probe has failed.
WindowInv ==
    /\ WindowIsRespected
    /\ \A e \in Evaluator : \A f \in session[e].at : f \in elapsed \/ probe[f] = "bad"

\* The sessions that have found no follow-up k and are about to add one.
Proposing(k) ==
    {e \in Evaluator : session[e].phase = "propose" /\ Head(session[e].owed) = k}

\* Only who has looked before the first one is there adds another.
BoundedInv ==
    /\ \A k \in Followup :
         /\ proposals[k] + Cardinality(Proposing(k)) <= Cardinality(Evaluator)
         /\ proposals[k] > 0 => Grounds(k)
    /\ \A e \in Evaluator : \A i \in DOMAIN session[e].owed : Grounds(session[e].owed[i])
=============================================================================
