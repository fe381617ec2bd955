------------------------- MODULE VerificationProofs -------------------------
(***************************************************************************)
(* Proofs about Verification for any fixes, sweeps, operators and number   *)
(* of extensions, with or without crashes.                                 *)
(***************************************************************************)
EXTENDS Verification, FiniteSetTheorems, TLAPS

(***************************************************************************)
(* Types                                                                   *)
(***************************************************************************)
RowsOK ==
    /\ status \in [Fix -> Final \union {"not_applicable", "pending"}]
    /\ detail \in [Fix -> Detail]
    /\ probe \in [Fix -> Health \union {"sent"}]
    /\ elapsed \subseteq Fix /\ sampled \subseteq Fix /\ recurred \subseteq Fix
    /\ incident \in IncidentRow
    /\ proposals \in [Followup -> Nat]

TypeInv == RowsOK /\ SessionInv

LEMMA TypeInvImplies == TypeInv => TypeOK
BY DEF TypeInv, RowsOK, TypeOK, SessionInv, Session

LEMMA FreshIsDetail == Fresh \in Detail
BY WatchAssumption DEF Fresh, Detail, Health

LEMMA ClosedIsSession == Closed \in Session /\ Closed.phase = "closed"
BY FreshIsDetail DEF Closed, Session

\* A session that is replaced by a sound one leaves all of them sound.
LEMMA SessionMoves ==
    ASSUME SessionInv, NEW e \in Evaluator, NEW s \in Session,
           session' = [session EXCEPT ![e] = s],
           s.phase = "judge" => s.loaded \in IncidentRow,
           s.phase \in {"ask", "propose"} => s.owed # <<>>
    PROVE  SessionInv'
BY DEF SessionInv

LEMMA OwedType ==
    ASSUME NEW f \in Fix, NEW verdict \in Final
    PROVE  Owed(f, verdict) \in Seq(Followup)
<1>1. "escalation" \in Followup
  BY DEF Followup
<1>2. Undo[f] # NoValue => Undo[f] \in Followup
  BY WatchAssumption DEF Followup
<1>3. <<>> \in Seq(Followup) /\ <<"escalation">> \in Seq(Followup)
  BY <1>1
<1>4. Undo[f] # NoValue => <<Undo[f]>> \in Seq(Followup)
  BY <1>2
<1> QED
  BY <1>3, <1>4 DEF Owed

LEMMA TypeInit == Init => TypeInv
<1> SUFFICES ASSUME Init PROVE TypeInv
  OBVIOUS
<1>1. RowsOK
  BY FreshIsDetail DEF Init, RowsOK, Final, Health, IncidentRow
<1>2. SessionInv
  BY ClosedIsSession DEF Init, SessionInv
<1> QED
  BY <1>1, <1>2 DEF TypeInv

LEMMA ConcludeType ==
    ASSUME TypeInv, NEW e \in Evaluator, NEW f \in Fix, NEW verdict \in Final,
           NEW new \in IncidentRow, session[e].phase = "judge", Conclude(e, f, verdict, new)
    PROVE  TypeInv'
<1>1. /\ session[e] \in Session /\ session[e].loaded \in IncidentRow
      /\ session[e].seen[f] \in Detail
  BY DEF TypeInv, SessionInv, Session
<1>2. incident' \in IncidentRow
  BY <1>1 DEF Conclude, Written, TypeInv, RowsOK, IncidentRow
<1>3. RowsOK'
  BY <1>1, <1>2 DEF Conclude, TypeInv, RowsOK, telemetry
<1> DEFINE s == [session[e] EXCEPT
                    !.phase = IF Owed(f, verdict) = <<>> THEN "next" ELSE "ask",
                    !.at = {}, !.loaded = NotLoaded, !.owed = Owed(f, verdict)]
<1>4. session' = [session EXCEPT ![e] = s]
  BY DEF Conclude
<1>5. s \in Session
  BY <1>1, OwedType DEF Session
<1>6. /\ s.phase \in {"next", "ask"}
      /\ s.phase = "ask" => s.owed # <<>>
  BY <1>1 DEF Session
<1> HIDE DEF s
<1>7. SessionInv'
  BY <1>4, <1>5, <1>6, SessionMoves DEF TypeInv
<1> QED
  BY <1>3, <1>7 DEF TypeInv

LEMMA EnvironmentType == ASSUME TypeInv, Environment PROVE TypeInv'
<1>1. SessionInv'
  <2>1. UNCHANGED session
    BY DEF Environment, Sample, Start, Recur, Elapse, HealthResult, MoveIncident
  <2> QED
    BY <2>1 DEF TypeInv, SessionInv
<1>2. CASE Sample
  BY <1>1, <1>2 DEF Sample, Started, TypeInv, RowsOK, rows
<1>3. ASSUME NEW f \in Fix, Recur(f) \/ Elapse(f) PROVE RowsOK'
  BY <1>3 DEF Recur, Elapse, TypeInv, RowsOK, rows
<1>4. ASSUME NEW f \in Fix, Start(f) PROVE RowsOK'
  BY <1>4, FreshIsDetail DEF Start, TypeInv, RowsOK, telemetry
<1>5. ASSUME NEW f \in Fix, NEW h \in {"ok", "bad"}, HealthResult(f, h) PROVE RowsOK'
  <2>1. [detail[f] EXCEPT !.health = h] \in Detail
    BY DEF TypeInv, RowsOK, Detail, Health
  <2>2. detail' \in [Fix -> Detail]
    BY <1>5, <2>1 DEF HealthResult, TypeInv, RowsOK
  <2>3. probe' \in [Fix -> Health \union {"sent"}]
    BY <1>5 DEF HealthResult, TypeInv, RowsOK, Health
  <2> QED
    BY <1>5, <2>2, <2>3 DEF HealthResult, TypeInv, RowsOK, telemetry
<1>6. ASSUME NEW st \in {"fixing", "diagnosed", "resolved", "dismissed"}, MoveIncident(st)
      PROVE  RowsOK'
  <2>1. incident' \in IncidentRow
    BY <1>6 DEF MoveIncident, TypeInv, RowsOK, IncidentRow
  <2> QED
    BY <1>6, <2>1 DEF MoveIncident, TypeInv, RowsOK, telemetry
<1> QED
  BY <1>1, <1>2, <1>3, <1>4, <1>5, <1>6 DEF Environment, TypeInv

\* A step that touches one session only.
LEMMA SessionOnly ==
    ASSUME TypeInv, NEW e \in Evaluator, NEW s \in Session,
           session' = [session EXCEPT ![e] = s], UNCHANGED <<rows, probe, telemetry>>,
           s.phase = "judge" => s.loaded \in IncidentRow,
           s.phase \in {"ask", "propose"} => s.owed # <<>>
    PROVE  TypeInv'
<1>1. SessionInv'
  BY SessionMoves DEF TypeInv
<1> QED
  BY <1>1 DEF TypeInv, RowsOK, rows, telemetry

\* What a session still owes after its first proposal.
LEMMA OwedLeft ==
    ASSUME TypeInv, NEW e \in Evaluator, session[e].phase \in {"ask", "propose"}
    PROVE  /\ Head(session[e].owed) \in Followup
           /\ Tail(session[e].owed) \in Seq(Followup)
BY DEF TypeInv, SessionInv, Session

LEMMA EvaluateType ==
    ASSUME TypeInv, NEW e \in Evaluator, Evaluate(e) PROVE TypeInv'
<1>1. session[e] \in Session
  BY DEF TypeInv, SessionInv
<1>2. ASSUME NEW f \in Fix, Wait(e, f) PROVE TypeInv'
  <2> DEFINE s == [session[e] EXCEPT !.todo = session[e].todo \ {f}]
  <2>1. session' = [session EXCEPT ![e] = s]
    BY <1>2 DEF Wait, TypeInv, SessionInv
  <2>2. s \in Session /\ s.phase = "next"
    BY <1>1, <1>2 DEF Wait, Session
  <2> QED
    BY <1>2, <2>1, <2>2, SessionOnly DEF Wait
<1>3. ASSUME NEW f \in Fix, Open(e, f) PROVE TypeInv'
  <2> DEFINE s == [session[e] EXCEPT !.phase = "judge", !.at = {f},
                      !.todo = session[e].todo \ {f}, !.loaded = Loaded(e)]
  <2>1. session' = [session EXCEPT ![e] = s]
    BY <1>3 DEF Open, TypeInv, SessionInv
  <2>2. Loaded(e) \in IncidentRow
    BY <1>1 DEF Loaded, Session, TypeInv, RowsOK
  <2>3. s \in Session /\ s.phase = "judge" /\ s.loaded \in IncidentRow
    BY <1>1, <2>2 DEF Session
  <2> QED
    BY <1>3, <2>1, <2>3, SessionOnly DEF Open
<1>4. ASSUME NEW f \in Fix, Extend(e, f) PROVE TypeInv'
  <2> DEFINE d == [session[e].seen EXCEPT ![f].extensions = session[e].seen[f].extensions + 1]
             s == [session[e] EXCEPT !.phase = "next", !.at = {}, !.loaded = NotLoaded, !.seen = d]
  <2>1. session' = [session EXCEPT ![e] = s]
    BY <1>4 DEF Extend, TypeInv, SessionInv
  <2>2. session[e].seen \in [Fix -> Detail] /\ session[e].seen[f] \in Detail
    BY <1>1 DEF Session
  <2>3. session[e].seen[f].extensions + 1 \in 0..MaxExtensions
    BY <1>4, <2>2, WatchAssumption DEF Extend, Detail
  <2>4. [session[e].seen[f] EXCEPT !.extensions = session[e].seen[f].extensions + 1] \in Detail
    BY <2>2, <2>3 DEF Detail
  <2>5. d \in [Fix -> Detail]
    BY <2>2, <2>4
  <2> HIDE DEF d
  <2>6. s \in Session /\ s.phase = "next"
    BY <1>1, <2>5 DEF Session
  <2> QED
    BY <1>4, <2>1, <2>6, SessionOnly DEF Extend
<1>5. ASSUME NEW f \in Fix, Fail(e, f) \/ GiveUp(e, f) \/ Pass(e, f) PROVE TypeInv'
  <2>1. session[e].phase = "judge" /\ session[e].loaded \in IncidentRow
    BY <1>5 DEF Fail, GiveUp, Pass, TypeInv, SessionInv
  <2>2. CASE Fail(e, f)
    <3>1. Reopened(e) \in IncidentRow
      BY DEF Reopened, IncidentRow
    <3> QED
      BY <2>1, <2>2, <3>1, ConcludeType DEF Fail, Final
  <2>3. CASE GiveUp(e, f)
    BY <2>1, <2>3, ConcludeType DEF GiveUp, Final
  <2>4. CASE Pass(e, f)
    <3>1. [session[e].loaded EXCEPT !.auto = TRUE] \in IncidentRow
      BY <2>1 DEF IncidentRow
    <3> QED
      BY <2>1, <2>4, <3>1, ConcludeType DEF Pass, Final
  <2> QED
    BY <1>5, <2>2, <2>3, <2>4
<1>6. CASE Ask(e)
  <2>1. session[e].phase = "ask" /\ session[e].owed # <<>>
    BY <1>6 DEF Ask, TypeInv, SessionInv
  <2> DEFINE left == Tail(session[e].owed)
             s == [session[e] EXCEPT !.owed = left,
                      !.phase = IF left = <<>> THEN "next" ELSE "ask"]
             t == [session[e] EXCEPT !.phase = "propose"]
  <2>2. CASE session' = [session EXCEPT ![e] = s]
    <3>1. s \in Session /\ s.phase \in {"next", "ask"} /\ (s.phase = "ask" => s.owed # <<>>)
      BY <1>1, <2>1, OwedLeft DEF Session
    <3> QED
      BY <1>6, <2>2, <3>1, SessionOnly DEF Ask
  <2>3. CASE session' = [session EXCEPT ![e] = t]
    <3>1. t \in Session /\ t.phase = "propose" /\ t.owed # <<>>
      BY <1>1, <2>1 DEF Session
    <3> QED
      BY <1>6, <2>3, <3>1, SessionOnly DEF Ask
  <2> QED
    BY <1>6, <2>2, <2>3 DEF Ask
<1>7. CASE Propose(e)
  <2>1. session[e].phase = "propose" /\ session[e].owed # <<>>
    BY <1>7 DEF Propose, TypeInv, SessionInv
  <2> DEFINE left == Tail(session[e].owed)
             s == [session[e] EXCEPT !.owed = left,
                      !.phase = IF left = <<>> THEN "next" ELSE "ask"]
  <2>2. s \in Session /\ s.phase \in {"next", "ask"} /\ (s.phase = "ask" => s.owed # <<>>)
    BY <1>1, <2>1, OwedLeft DEF Session
  <2>3. session' = [session EXCEPT ![e] = s]
    BY <1>7 DEF Propose
  <2>4. SessionInv'
    BY <2>2, <2>3, SessionMoves DEF TypeInv
  <2>5. proposals' \in [Followup -> Nat]
    BY <1>7, <2>1, OwedLeft DEF Propose, TypeInv, RowsOK
  <2> QED
    BY <1>7, <2>4, <2>5 DEF Propose, TypeInv, RowsOK, telemetry
<1>8. CASE Close(e)
  BY <1>8, ClosedIsSession, SessionOnly DEF Close
<1> QED
  BY <1>2, <1>3, <1>4, <1>5, <1>6, <1>7, <1>8 DEF Evaluate, Judge

LEMMA LoadType == ASSUME TypeInv, NEW e \in Evaluator, Load(e) PROVE TypeInv'
<1>1. PICK F \in SUBSET Pending :
         session' = [session EXCEPT ![e] =
                        [Closed EXCEPT !.phase = "next", !.todo = F, !.seen = detail]]
  BY DEF Load
<1> DEFINE s == [Closed EXCEPT !.phase = "next", !.todo = F, !.seen = detail]
<1>2. F \subseteq Fix /\ detail \in [Fix -> Detail]
  BY DEF Pending, TypeInv, RowsOK
<1>3. Closed \in Session
  BY ClosedIsSession
<1>4. s \in Session /\ s.phase = "next"
  BY <1>2, <1>3 DEF Session
<1> QED
  BY <1>1, <1>4, SessionOnly DEF Load

LEMMA TypeStep == TypeInv /\ [Next]_vars => TypeInv'
<1> SUFFICES ASSUME TypeInv, [Next]_vars PROVE TypeInv'
  OBVIOUS
<1>1. CASE UNCHANGED vars
  BY <1>1 DEF vars, rows, telemetry, TypeInv, RowsOK, SessionInv
<1>2. ASSUME NEW e \in Evaluator, Crash(e) PROVE TypeInv'
  BY <1>2, ClosedIsSession, SessionOnly DEF Crash
<1> QED
  BY <1>1, <1>2, EnvironmentType, LoadType, EvaluateType DEF Next

LEMMA TypesHold == Spec => []TypeInv
BY TypeInit, TypeStep, PTL DEF Spec

\* Every record, session and proposal stays in its domain, whichever sweeps,
\* forced checks and crashes overlap.
THEOREM TypeCorrect == Spec => []TypeOK
BY TypesHold, TypeInvImplies, PTL

(***************************************************************************)
(* Evidence                                                                *)
(***************************************************************************)
LEMMA EvidenceInit == Init => EvidenceInv
BY DEF Init, EvidenceInv, VerdictsHaveEvidence, Closed, Fresh

\* A verdict that has its evidence may be committed with the session's copy of
\* the record: a bad answer in that copy came from the health check.
LEMMA EvidenceConclude ==
    ASSUME TypeInv, EvidenceInv, NEW e \in Evaluator, NEW f \in Fix, NEW verdict \in Final,
           NEW new, Conclude(e, f, verdict, new),
           verdict = "passed" => f \in sampled,
           verdict = "failed" => f \in recurred \/ probe[f] = "bad"
    PROVE  EvidenceInv'
<1>1. /\ status' = [status EXCEPT ![f] = verdict]
      /\ detail' = [detail EXCEPT ![f] = session[e].seen[f]]
      /\ UNCHANGED <<probe, sampled, recurred>>
  BY DEF Conclude, telemetry
<1>2. \A x \in Evaluator : session'[x].seen = session[x].seen
  BY DEF Conclude, TypeInv, SessionInv, Session
<1>3. \A g \in Fix : detail'[g].health = "bad" => probe[g] = "bad"
  BY <1>1 DEF EvidenceInv, TypeInv, RowsOK
<1>4. \A g \in Fix : /\ status'[g] = "passed" => g \in sampled
                     /\ status'[g] = "failed" => g \in recurred \/ probe[g] = "bad"
                     /\ status'[g] = "not_applicable" => probe[g] = "none"
  BY <1>1 DEF EvidenceInv, VerdictsHaveEvidence, TypeInv, RowsOK, Final
<1> QED
  BY <1>1, <1>2, <1>3, <1>4 DEF EvidenceInv, VerdictsHaveEvidence

\* A step that moves sessions only, none of which learns of a bad answer.
LEMMA EvidenceSessions ==
    ASSUME EvidenceInv, UNCHANGED <<status, detail, probe, sampled, recurred>>,
           \A x \in Evaluator : \A g \in Fix :
              session'[x].seen[g].health = "bad" => probe[g] = "bad"
    PROVE  EvidenceInv'
BY DEF EvidenceInv, VerdictsHaveEvidence

LEMMA EvidenceEnvironment ==
    ASSUME TypeInv, EvidenceInv, Environment PROVE EvidenceInv'
<1>1. CASE Sample
  BY <1>1 DEF Sample, rows, EvidenceInv, VerdictsHaveEvidence
<1>2. ASSUME NEW f \in Fix, Start(f) PROVE EvidenceInv'
  <2>1. probe[f] = "none" /\ probe'[f] \in {"none", "sent"}
    BY <1>2 DEF Start, EvidenceInv, TypeInv, RowsOK
  <2>2. \A g \in Fix \ {f} : /\ status'[g] = status[g] /\ detail'[g] = detail[g]
                              /\ probe'[g] = probe[g]
    BY <1>2 DEF Start, TypeInv, RowsOK
  <2>3. status'[f] = "pending" /\ detail'[f].health = "none"
    BY <1>2 DEF Start, Fresh, TypeInv, RowsOK
  <2>4. UNCHANGED <<sampled, recurred, session>>
    BY <1>2 DEF Start, telemetry
  <2>5. probe'[f] = "none" => probe[f] = "none"
    BY <2>1
  <2> QED
    BY <2>1, <2>2, <2>3, <2>4 DEF EvidenceInv, VerdictsHaveEvidence
<1>3. ASSUME NEW f \in Fix, Recur(f) \/ Elapse(f) PROVE EvidenceInv'
  BY <1>3 DEF Recur, Elapse, rows, EvidenceInv, VerdictsHaveEvidence
<1>4. ASSUME NEW f \in Fix, NEW h \in {"ok", "bad"}, HealthResult(f, h) PROVE EvidenceInv'
  <2>1. probe[f] = "sent" /\ probe'[f] = h /\ detail'[f].health = h
    BY <1>4 DEF HealthResult, TypeInv, RowsOK, Detail
  <2>2. \A g \in Fix \ {f} : detail'[g] = detail[g] /\ probe'[g] = probe[g]
    BY <1>4 DEF HealthResult, TypeInv, RowsOK
  <2>3. UNCHANGED <<status, sampled, recurred, session>>
    BY <1>4 DEF HealthResult, telemetry
  <2> QED
    BY <2>1, <2>2, <2>3 DEF EvidenceInv, VerdictsHaveEvidence
<1>5. ASSUME NEW st \in {"fixing", "diagnosed", "resolved", "dismissed"}, MoveIncident(st)
      PROVE  EvidenceInv'
  BY <1>5 DEF MoveIncident, telemetry, EvidenceInv, VerdictsHaveEvidence
<1> QED
  BY <1>1, <1>2, <1>3, <1>4, <1>5 DEF Environment

LEMMA EvidenceEvaluate ==
    ASSUME TypeInv, EvidenceInv, NEW e \in Evaluator, Evaluate(e) PROVE EvidenceInv'
<1>1. session \in [Evaluator -> Session] /\ session[e].seen \in [Fix -> Detail]
  BY DEF TypeInv, SessionInv, Session
<1>2. \A x \in Evaluator : \A g \in Fix :
         session[x].seen[g].health = "bad" => probe[g] = "bad"
  BY DEF EvidenceInv
<1>3. ASSUME NEW f \in Fix, Wait(e, f) \/ Open(e, f) PROVE EvidenceInv'
  <2>1. \A x \in Evaluator : session'[x].seen = session[x].seen
    <3>1. CASE Wait(e, f)
      BY <1>1, <3>1 DEF Wait, Session
    <3>2. CASE Open(e, f)
      BY <1>1, <3>2 DEF Open, Session
    <3> QED
      BY <1>3, <3>1, <3>2
  <2> QED
    BY <1>2, <1>3, <2>1, EvidenceSessions DEF Wait, Open, rows, telemetry
<1>4. ASSUME NEW f \in Fix, Extend(e, f) PROVE EvidenceInv'
  <2>1. \A x \in Evaluator : \A g \in Fix :
           session'[x].seen[g].health = session[x].seen[g].health
    BY <1>1, <1>4 DEF Extend, Session, Detail
  <2> QED
    BY <1>2, <1>4, <2>1, EvidenceSessions DEF Extend, rows, telemetry
<1>5. ASSUME NEW f \in Fix, Fail(e, f) PROVE EvidenceInv'
  <2>1. f \in recurred \/ probe[f] = "bad"
    BY <1>2, <1>5 DEF Fail, Regressed
  <2> QED
    BY <1>5, <2>1, EvidenceConclude DEF Fail, Final
<1>6. ASSUME NEW f \in Fix, GiveUp(e, f) \/ Pass(e, f) PROVE EvidenceInv'
  <2>1. CASE GiveUp(e, f)
    BY <2>1, EvidenceConclude DEF GiveUp, Final
  <2>2. CASE Pass(e, f)
    BY <2>2, EvidenceConclude DEF Pass, Heard, Final
  <2> QED
    BY <1>6, <2>1, <2>2
<1>7. CASE Ask(e) \/ Propose(e)
  <2>1. \A x \in Evaluator : session'[x].seen = session[x].seen
    <3>1. CASE Ask(e) /\ Already(Head(session[e].owed))
      BY <1>1, <3>1 DEF Ask, Session
    <3>2. CASE Ask(e) /\ ~Already(Head(session[e].owed))
      BY <1>1, <3>2 DEF Ask, Session
    <3>3. CASE Propose(e)
      BY <1>1, <3>3 DEF Propose, Session
    <3> QED
      BY <1>7, <3>1, <3>2, <3>3
  <2> QED
    BY <1>2, <1>7, <2>1, EvidenceSessions DEF Ask, Propose, rows, telemetry
<1>8. CASE Close(e)
  <2>1. \A g \in Fix : Closed.seen[g].health = "none"
    BY DEF Closed, Fresh
  <2> QED
    BY <1>1, <1>2, <1>8, <2>1, EvidenceSessions DEF Close, rows, telemetry
<1> QED
  BY <1>3, <1>4, <1>5, <1>6, <1>7, <1>8 DEF Evaluate, Judge

LEMMA EvidenceStep == TypeInv /\ EvidenceInv /\ [Next]_vars => EvidenceInv'
<1> SUFFICES ASSUME TypeInv, EvidenceInv, [Next]_vars PROVE EvidenceInv'
  OBVIOUS
<1>1. /\ session \in [Evaluator -> Session]
      /\ \A x \in Evaluator : \A g \in Fix :
           session[x].seen[g].health = "bad" => probe[g] = "bad"
  BY DEF TypeInv, SessionInv, EvidenceInv
<1>2. CASE UNCHANGED vars
  BY <1>1, <1>2, EvidenceSessions DEF vars, rows, telemetry
<1>3. ASSUME NEW e \in Evaluator, Load(e) PROVE EvidenceInv'
  <2>1. PICK F \in SUBSET Pending :
           session' = [session EXCEPT ![e] =
                          [Closed EXCEPT !.phase = "next", !.todo = F, !.seen = detail]]
    BY <1>3 DEF Load
  <2>2. /\ session'[e].seen = detail
        /\ \A x \in Evaluator \ {e} : session'[x] = session[x]
    BY <1>1, <2>1 DEF Closed
  <2>3. \A g \in Fix : detail[g].health = "bad" => probe[g] = "bad"
    BY DEF EvidenceInv
  <2> QED
    BY <1>1, <1>3, <2>2, <2>3, EvidenceSessions DEF Load, rows, telemetry
<1>4. ASSUME NEW e \in Evaluator, Crash(e) PROVE EvidenceInv'
  <2>1. \A g \in Fix : Closed.seen[g].health = "none"
    BY DEF Closed, Fresh
  <2> QED
    BY <1>1, <1>4, <2>1, EvidenceSessions DEF Crash, rows, telemetry
<1> QED
  BY <1>2, <1>3, <1>4, EvidenceEnvironment, EvidenceEvaluate DEF Next

\* A fix is called good only when its deployment has reported since the fix, and
\* bad only after a recurrence or a failed health check, whichever sweeps and
\* forced checks overlap, overwrite each other's record, or crash.
THEOREM VerdictsAreBacked == Spec => []VerdictsHaveEvidence
<1>1. Spec => []EvidenceInv
  BY TypesHold, EvidenceInit, EvidenceStep, PTL DEF Spec
<1>2. EvidenceInv => VerdictsHaveEvidence
  BY DEF EvidenceInv
<1> QED
  BY <1>1, <1>2, PTL

LEMMA EvidenceHolds == Spec => []EvidenceInv
BY TypesHold, EvidenceInit, EvidenceStep, PTL DEF Spec

(***************************************************************************)
(* Windows, while no operator forces a check                               *)
(***************************************************************************)
LEMMA WindowInit == Init => WindowInv
BY DEF Init, WindowInv, WindowIsRespected, Closed, Final

\* A step that moves sessions and follow-ups, none of which begins to judge.
LEMMA WindowSessions ==
    ASSUME WindowInv, UNCHANGED <<status, probe, elapsed>>,
           \A x \in Evaluator : session'[x].at \subseteq session[x].at
    PROVE  WindowInv'
BY DEF WindowInv, WindowIsRespected

LEMMA WindowConclude ==
    ASSUME TypeInv, WindowInv, NEW e \in Evaluator, NEW f \in session[e].at,
           NEW verdict \in Final, NEW new, Conclude(e, f, verdict, new)
    PROVE  WindowInv'
<1>1. session \in [Evaluator -> Session]
  BY DEF TypeInv, SessionInv
<1>2. \A x \in Evaluator : session'[x].at \subseteq session[x].at
  BY <1>1 DEF Conclude, Session
<1>3. \A g \in Fix : status'[g] \in Final => status[g] \in Final \/ g = f
  BY DEF Conclude, TypeInv, RowsOK
<1>4. UNCHANGED <<probe, elapsed>>
  BY DEF Conclude, telemetry
<1> QED
  BY <1>2, <1>3, <1>4 DEF WindowInv, WindowIsRespected

LEMMA WindowEnvironment ==
    ASSUME TypeInv, EvidenceInv, WindowInv, Environment PROVE WindowInv'
<1>1. UNCHANGED session
  BY DEF Environment, Sample, Start, Recur, Elapse, HealthResult, MoveIncident
<1>2. CASE Sample
  BY <1>1, <1>2, WindowSessions DEF Sample, rows
<1>3. ASSUME NEW f \in Fix, Start(f) PROVE WindowInv'
  <2>1. probe[f] = "none" /\ status'[f] \notin Final
    BY <1>3 DEF Start, EvidenceInv, TypeInv, RowsOK, Final
  <2>2. \A g \in Fix \ {f} : status'[g] = status[g] /\ probe'[g] = probe[g]
    BY <1>3 DEF Start, TypeInv, RowsOK
  <2>3. elapsed' = elapsed
    BY <1>3 DEF Start, telemetry
  <2> QED
    BY <1>1, <2>1, <2>2, <2>3 DEF WindowInv, WindowIsRespected, TypeInv, SessionInv, Session
<1>4. ASSUME NEW f \in Fix, Recur(f) \/ Elapse(f) PROVE WindowInv'
  BY <1>1, <1>4 DEF Recur, Elapse, rows, WindowInv, WindowIsRespected
<1>5. ASSUME NEW f \in Fix, NEW h \in {"ok", "bad"}, HealthResult(f, h) PROVE WindowInv'
  <2>1. \A g \in Fix : probe[g] = "bad" => probe'[g] = "bad"
    BY <1>5 DEF HealthResult, TypeInv, RowsOK
  <2> QED
    BY <1>1, <1>5, <2>1 DEF HealthResult, telemetry, WindowInv, WindowIsRespected, TypeInv,
                             SessionInv, Session
<1>6. ASSUME NEW st \in {"fixing", "diagnosed", "resolved", "dismissed"}, MoveIncident(st)
      PROVE  WindowInv'
  BY <1>1, <1>6, WindowSessions DEF MoveIncident, telemetry
<1> QED
  BY <1>2, <1>3, <1>4, <1>5, <1>6 DEF Environment

LEMMA WindowEvaluate ==
    ASSUME Operator = {}, TypeInv, EvidenceInv, WindowInv, NEW e \in Evaluator, Evaluate(e)
    PROVE  WindowInv'
<1>1. session \in [Evaluator -> Session] /\ session[e].seen \in [Fix -> Detail]
  BY DEF TypeInv, SessionInv, Session
<1>2. ASSUME NEW f \in Fix, Wait(e, f) PROVE WindowInv'
  <2>1. \A x \in Evaluator : session'[x].at = session[x].at
    BY <1>1, <1>2 DEF Wait, Session
  <2> QED
    BY <1>2, <2>1, WindowSessions DEF Wait, rows, telemetry
<1>3. ASSUME NEW f \in Fix, Open(e, f) PROVE WindowInv'
  <2>1. f \in elapsed \/ probe[f] = "bad"
    BY <1>3 DEF Open, Due, EvidenceInv
  <2>2. session'[e].at = {f} /\ \A x \in Evaluator \ {e} : session'[x] = session[x]
    BY <1>1, <1>3 DEF Open, Session
  <2> QED
    BY <1>3, <2>1, <2>2 DEF Open, rows, telemetry, WindowInv, WindowIsRespected
<1>4. ASSUME NEW f \in Fix, Fail(e, f) \/ GiveUp(e, f) \/ Pass(e, f) PROVE WindowInv'
  <2>1. CASE Fail(e, f)
    BY <2>1, WindowConclude DEF Fail, Final
  <2>2. CASE GiveUp(e, f)
    BY <2>2, WindowConclude DEF GiveUp, Final
  <2>3. CASE Pass(e, f)
    BY <2>3, WindowConclude DEF Pass, Final
  <2> QED
    BY <1>4, <2>1, <2>2, <2>3
<1>5. ASSUME NEW f \in Fix, Extend(e, f) PROVE WindowInv'
  <2>1. \A x \in Evaluator : session'[x].at \subseteq session[x].at
    BY <1>1, <1>5 DEF Extend, Session
  <2> QED
    BY <1>5, <2>1, WindowSessions DEF Extend, rows, telemetry
<1>6. CASE Ask(e) \/ Propose(e)
  <2>1. \A x \in Evaluator : session'[x].at = session[x].at
    <3>1. CASE Ask(e) /\ Already(Head(session[e].owed))
      BY <1>1, <3>1 DEF Ask, Session
    <3>2. CASE Ask(e) /\ ~Already(Head(session[e].owed))
      BY <1>1, <3>2 DEF Ask, Session
    <3>3. CASE Propose(e)
      BY <1>1, <3>3 DEF Propose, Session
    <3> QED
      BY <1>6, <3>1, <3>2, <3>3
  <2> QED
    BY <1>6, <2>1, WindowSessions DEF Ask, Propose, rows, telemetry
<1>7. CASE Close(e)
  <2>1. \A x \in Evaluator : session'[x].at \subseteq session[x].at
    BY <1>1, <1>7 DEF Close, Closed
  <2> QED
    BY <1>7, <2>1, WindowSessions DEF Close, rows, telemetry
<1> QED
  BY <1>2, <1>3, <1>4, <1>5, <1>6, <1>7 DEF Evaluate, Judge

LEMMA WindowStep ==
    ASSUME Operator = {} PROVE TypeInv /\ EvidenceInv /\ WindowInv /\ [Next]_vars => WindowInv'
<1> SUFFICES ASSUME TypeInv, EvidenceInv, WindowInv, [Next]_vars PROVE WindowInv'
  OBVIOUS
<1>1. session \in [Evaluator -> Session]
  BY DEF TypeInv, SessionInv
<1>2. CASE UNCHANGED vars
  BY <1>2, WindowSessions DEF vars, rows, telemetry
<1>3. ASSUME NEW e \in Evaluator, Load(e) \/ Crash(e) PROVE WindowInv'
  <2>1. session'[e].at = {} /\ \A x \in Evaluator \ {e} : session'[x] = session[x]
    <3>1. CASE Load(e)
      <4>1. PICK F \in (SUBSET Pending) \ {{}} :
               session' = [session EXCEPT ![e] =
                              [Closed EXCEPT !.phase = "next", !.todo = F, !.seen = detail]]
        BY <3>1 DEF Load
      <4> QED
        BY <1>1, <4>1 DEF Closed
    <3>2. CASE Crash(e)
      BY <1>1, <3>2 DEF Crash, Closed
    <3> QED
      BY <1>3, <3>1, <3>2
  <2>2. \A x \in Evaluator : session'[x].at \subseteq session[x].at
    BY <1>1, <2>1
  <2> QED
    BY <1>3, <2>2, WindowSessions DEF Load, Crash, rows, telemetry
<1> QED
  BY <1>2, <1>3, WindowEnvironment, WindowEvaluate DEF Next

\* Where no operator forces a check, however many sweeps overlap or crash, no
\* verdict is committed before the window of the fix is over, except on a failed
\* health check.
THEOREM WindowsAreRespected == ASSUME Operator = {} PROVE Spec => []WindowIsRespected
<1>1. Spec => []WindowInv
  <2>1. TypeInv /\ EvidenceInv /\ WindowInv /\ [Next]_vars => WindowInv'
    BY WindowStep
  <2> QED
    BY <2>1, TypesHold, EvidenceHolds, WindowInit, PTL DEF Spec
<1>2. WindowInv => WindowIsRespected
  BY DEF WindowInv
<1> QED
  BY <1>1, <1>2, PTL

(***************************************************************************)
(* Follow-ups, for any number of evaluators                                *)
(***************************************************************************)
LEMMA ProposingIsFinite ==
    /\ IsFiniteSet(Evaluator) /\ Cardinality(Evaluator) \in Nat
    /\ \A S \in SUBSET Evaluator :
         /\ IsFiniteSet(S) /\ Cardinality(S) \in Nat
         /\ Cardinality(S) <= Cardinality(Evaluator)
<1>1. IsFiniteSet(Evaluator)
  BY WatchAssumption, FS_Union DEF Evaluator
<1> QED
  BY <1>1, FS_Subset, FS_CardinalityType

LEMMA GroundsStay ==
    ASSUME recurred \subseteq recurred',
           \A f \in Fix : probe[f] = "bad" => probe'[f] = "bad"
    PROVE  \A k \in Followup : Grounds(k) => Grounds(k)'
BY DEF Grounds

LEMMA BoundedInit == Init => BoundedInv
<1> SUFFICES ASSUME Init PROVE BoundedInv
  OBVIOUS
<1>1. \A e \in Evaluator : session[e] = Closed
  BY DEF Init
<1>2. \A e \in Evaluator : session[e].phase = "closed" /\ DOMAIN session[e].owed = {}
  BY <1>1 DEF Closed
<1>3. \A k : Proposing(k) \in SUBSET Evaluator
  BY DEF Proposing
<1>4. \A k \in Followup : proposals[k] = 0
  BY DEF Init
<1>5. \A k \in Followup : proposals[k] + Cardinality(Proposing(k)) <= Cardinality(Evaluator)
  BY <1>3, <1>4, ProposingIsFinite
<1> QED
  BY <1>2, <1>4, <1>5 DEF BoundedInv

\* A step that adds no follow-up, after which no other session than before is
\* about to add one, and none owes more than there are grounds for.
LEMMA BoundedSessions ==
    ASSUME TypeInv, BoundedInv, UNCHANGED proposals,
           recurred \subseteq recurred',
           \A f \in Fix : probe[f] = "bad" => probe'[f] = "bad",
           \A e \in Evaluator : session'[e].phase = "propose" =>
              session[e].phase = "propose" /\ session'[e].owed = session[e].owed,
           \A e \in Evaluator : \A i \in DOMAIN session'[e].owed : Grounds(session'[e].owed[i])
    PROVE  BoundedInv'
<1>1. ASSUME NEW k \in Followup
      PROVE  proposals'[k] + Cardinality(Proposing(k)') <= Cardinality(Evaluator)
  <2>1. Proposing(k)' \subseteq Proposing(k) /\ Proposing(k) \in SUBSET Evaluator
    BY DEF Proposing
  <2>2. /\ Cardinality(Proposing(k)') <= Cardinality(Proposing(k))
        /\ Cardinality(Proposing(k)') \in Nat /\ Cardinality(Proposing(k)) \in Nat
    BY <2>1, ProposingIsFinite, FS_Subset, FS_CardinalityType
  <2>3. proposals[k] \in Nat /\ proposals[k] + Cardinality(Proposing(k)) <= Cardinality(Evaluator)
    BY DEF BoundedInv, TypeInv, RowsOK
  <2> QED
    BY <2>2, <2>3, ProposingIsFinite
<1>2. \A k \in Followup : proposals'[k] > 0 => Grounds(k)'
  BY GroundsStay DEF BoundedInv
<1>3. (\A e \in Evaluator : \A i \in DOMAIN session[e].owed : Grounds(session[e].owed[i]))'
  BY DEF Grounds
<1> QED
  BY <1>1, <1>2, <1>3 DEF BoundedInv

LEMMA BoundedEnvironment ==
    ASSUME TypeInv, EvidenceInv, BoundedInv, Environment PROVE BoundedInv'
<1>1. UNCHANGED <<session, proposals>> /\ recurred \subseteq recurred'
  BY DEF Environment, Sample, Start, Recur, Elapse, HealthResult, MoveIncident, rows, telemetry
<1>2. \A f \in Fix : probe[f] = "bad" => probe'[f] = "bad"
  <2>1. ASSUME NEW g \in Fix, Start(g)
        PROVE  \A f \in Fix : probe[f] = "bad" => probe'[f] = "bad"
    BY <2>1 DEF Start, EvidenceInv, TypeInv, RowsOK
  <2>2. ASSUME NEW g \in Fix, NEW h \in {"ok", "bad"}, HealthResult(g, h)
        PROVE  \A f \in Fix : probe[f] = "bad" => probe'[f] = "bad"
    BY <2>2 DEF HealthResult, TypeInv, RowsOK
  <2>3. CASE UNCHANGED probe
    BY <2>3
  <2> QED
    BY <2>1, <2>2, <2>3 DEF Environment, Sample, Recur, Elapse, MoveIncident
<1>3. \A e \in Evaluator : \A i \in DOMAIN session[e].owed : Grounds(session[e].owed[i])
  BY DEF BoundedInv
<1> QED
  BY <1>1, <1>2, <1>3, BoundedSessions

\* What a failure owes it owes for the evidence it rests on.
LEMMA BoundedConclude ==
    ASSUME TypeInv, BoundedInv, NEW e \in Evaluator, NEW f \in Fix, NEW verdict \in Final,
           NEW new, Conclude(e, f, verdict, new),
           verdict = "failed" => f \in recurred \/ probe[f] = "bad"
    PROVE  BoundedInv'
<1>1. session \in [Evaluator -> Session]
  BY DEF TypeInv, SessionInv
<1>2. UNCHANGED <<proposals, probe, recurred>>
  BY DEF Conclude, telemetry
<1>4. /\ session'[e].owed = Owed(f, verdict) /\ session'[e].phase \in {"next", "ask"}
      /\ \A x \in Evaluator \ {e} : session'[x] = session[x]
  BY <1>1 DEF Conclude, Session
<1>5. \A i \in DOMAIN Owed(f, verdict) : Grounds(Owed(f, verdict)[i])
  <2>1. CASE verdict # "failed"
    BY <2>1 DEF Owed
  <2>2. CASE verdict = "failed"
    <3>1. \A i \in DOMAIN Owed(f, verdict) : Owed(f, verdict)[i] \in {"escalation", Undo[f]}
      <4>1. CASE Undo[f] = NoValue
        BY <2>2, <4>1 DEF Owed
      <4>2. CASE Undo[f] # NoValue
        BY <2>2, <4>2 DEF Owed
      <4> QED
        BY <4>1, <4>2
    <3> QED
      BY <2>2, <3>1 DEF Grounds
  <2> QED
    BY <2>1, <2>2
<1>6. \A x \in Evaluator : \A i \in DOMAIN session[x].owed : Grounds(session[x].owed[i])
  BY DEF BoundedInv
<1>7. \A x \in Evaluator : session'[x].phase = "propose" =>
         session[x].phase = "propose" /\ session'[x].owed = session[x].owed
  BY <1>4
<1>8. \A x \in Evaluator : \A i \in DOMAIN session'[x].owed : Grounds(session'[x].owed[i])
  BY <1>4, <1>5, <1>6
<1> QED
  BY <1>2, <1>7, <1>8, BoundedSessions

\* There are grounds for what is to be proposed next and for the rest.
LEMMA OwedHasGrounds ==
    ASSUME TypeInv, BoundedInv, NEW e \in Evaluator, session[e].phase \in {"ask", "propose"}
    PROVE  /\ Grounds(Head(session[e].owed))
           /\ \A i \in DOMAIN Tail(session[e].owed) : Grounds(Tail(session[e].owed)[i])
<1> DEFINE owed == session[e].owed
<1>1. owed \in Seq(Followup) /\ owed # <<>>
  BY DEF TypeInv, SessionInv, Session
<1>2. \A i \in DOMAIN owed : Grounds(owed[i])
  BY DEF BoundedInv
<1> HIDE DEF owed
<1>3. Head(owed) = owed[1] /\ 1 \in DOMAIN owed
  BY <1>1
<1>4. \A i \in DOMAIN Tail(owed) : Tail(owed)[i] = owed[i + 1] /\ i + 1 \in DOMAIN owed
  BY <1>1
<1>5. (\A i \in DOMAIN Tail(owed) : Grounds(Tail(owed)[i])) /\ Grounds(Head(owed))
  BY <1>2, <1>3, <1>4
<1> QED
  BY <1>5 DEF owed

LEMMA BoundedEvaluate ==
    ASSUME TypeInv, EvidenceInv, BoundedInv, NEW e \in Evaluator, Evaluate(e) PROVE BoundedInv'
<1>1. session \in [Evaluator -> Session] /\ session[e].owed \in Seq(Followup)
  BY DEF TypeInv, SessionInv, Session
<1>2. \A x \in Evaluator : \A i \in DOMAIN session[x].owed : Grounds(session[x].owed[i])
  BY DEF BoundedInv
<1>3. ASSUME NEW f \in Fix, Wait(e, f) \/ Open(e, f) \/ Extend(e, f) PROVE BoundedInv'
  <2>1. /\ session'[e].owed = session[e].owed
        /\ session'[e].phase = session[e].phase \/ session'[e].phase # "propose"
        /\ \A x \in Evaluator \ {e} : session'[x] = session[x]
    <3>1. CASE Wait(e, f)
      BY <1>1, <3>1 DEF Wait, Session
    <3>2. CASE Open(e, f)
      BY <1>1, <3>2 DEF Open, Session
    <3>3. CASE Extend(e, f)
      BY <1>1, <3>3 DEF Extend, Session
    <3> QED
      BY <1>3, <3>1, <3>2, <3>3
  <2>2. UNCHANGED <<proposals, probe, recurred>>
    BY <1>3 DEF Wait, Open, Extend, rows, telemetry
  <2> QED
    BY <1>2, <2>1, <2>2, BoundedSessions
<1>4. ASSUME NEW f \in Fix, Fail(e, f) \/ GiveUp(e, f) \/ Pass(e, f) PROVE BoundedInv'
  <2>1. CASE Fail(e, f)
    <3>1. f \in recurred \/ probe[f] = "bad"
      BY <2>1 DEF Fail, Regressed, EvidenceInv
    <3> QED
      BY <2>1, <3>1, BoundedConclude DEF Fail, Final
  <2>2. CASE GiveUp(e, f)
    BY <2>2, BoundedConclude DEF GiveUp, Final
  <2>3. CASE Pass(e, f)
    BY <2>3, BoundedConclude DEF Pass, Final
  <2> QED
    BY <1>4, <2>1, <2>2, <2>3
<1>5. CASE Ask(e) /\ Already(Head(session[e].owed))
  <2>1. /\ session'[e].owed = Tail(session[e].owed) /\ session'[e].phase \in {"next", "ask"}
        /\ \A x \in Evaluator \ {e} : session'[x] = session[x]
    BY <1>1, <1>5 DEF Ask, Session
  <2>2. UNCHANGED <<proposals, probe, recurred>> /\ session[e].phase = "ask"
    BY <1>5 DEF Ask, rows, telemetry
  <2> QED
    BY <1>2, <2>1, <2>2, OwedHasGrounds, BoundedSessions
<1>6. CASE Ask(e) /\ ~Already(Head(session[e].owed))
  <2> DEFINE k == Head(session[e].owed)
  <2>1. /\ session'[e].owed = session[e].owed
        /\ \A x \in Evaluator \ {e} : session'[x] = session[x]
    BY <1>1, <1>6 DEF Ask, Session
  <2>2. UNCHANGED <<proposals, probe, recurred>> /\ session[e].phase = "ask"
    BY <1>6 DEF Ask, rows, telemetry
  <2>3. proposals \in [Followup -> Nat] /\ k \in Followup /\ proposals[k] = 0
    BY <1>6, <2>2, OwedLeft DEF Already, TypeInv, RowsOK
  <2> HIDE DEF k
  <2>4. ASSUME NEW x \in Followup
        PROVE  proposals[x] + Cardinality(Proposing(x)') <= Cardinality(Evaluator)
    <3>1. CASE x = k
      <4>1. Proposing(x)' \in SUBSET Evaluator
        BY DEF Proposing
      <4>2. Cardinality(Proposing(x)') <= Cardinality(Evaluator)
        BY <4>1, ProposingIsFinite
      <4>3. Cardinality(Proposing(x)') \in Nat
        BY <4>1, ProposingIsFinite
      <4> QED
        BY <2>3, <3>1, <4>2, <4>3
    <3>2. CASE x # k
      <4>1. Proposing(x)' \subseteq Proposing(x) /\ Proposing(x) \in SUBSET Evaluator
        BY <2>1, <3>2 DEF Proposing, k
      <4>2. /\ Cardinality(Proposing(x)') <= Cardinality(Proposing(x))
            /\ Cardinality(Proposing(x)') \in Nat /\ Cardinality(Proposing(x)) \in Nat
        BY <4>1, ProposingIsFinite, FS_Subset, FS_CardinalityType
      <4>3. proposals[x] + Cardinality(Proposing(x)) <= Cardinality(Evaluator)
        BY DEF BoundedInv
      <4> QED
        BY <2>3, <4>2, <4>3, ProposingIsFinite
    <3> QED
      BY <3>1, <3>2
  <2>5. \A x \in Followup : proposals'[x] > 0 => Grounds(x)'
    BY <2>2, GroundsStay DEF BoundedInv
  <2>6. (\A x \in Evaluator : \A i \in DOMAIN session[x].owed : Grounds(session[x].owed[i]))'
    BY <1>2, <2>1, <2>2 DEF Grounds
  <2> QED
    BY <2>2, <2>4, <2>5, <2>6 DEF BoundedInv
<1>7. CASE Propose(e)
  <2> DEFINE k == Head(session[e].owed)
  <2>1. /\ session'[e].owed = Tail(session[e].owed) /\ session'[e].phase \in {"next", "ask"}
        /\ \A x \in Evaluator \ {e} : session'[x] = session[x]
    BY <1>1, <1>7 DEF Propose, Session
  <2>2. /\ session[e].phase = "propose" /\ k \in Followup
        /\ proposals' = [proposals EXCEPT ![k] = proposals[k] + 1]
        /\ UNCHANGED <<probe, recurred>>
    BY <1>7, OwedLeft DEF Propose, telemetry
  <2>3. proposals \in [Followup -> Nat] /\ e \in Proposing(k)
    BY <2>2 DEF TypeInv, RowsOK, Proposing
  <2>4. Grounds(k) /\ \A i \in DOMAIN Tail(session[e].owed) : Grounds(Tail(session[e].owed)[i])
    BY <2>2, OwedHasGrounds
  <2> HIDE DEF k
  <2>5. ASSUME NEW x \in Followup
        PROVE  proposals'[x] + Cardinality(Proposing(x)') <= Cardinality(Evaluator)
    <3>1. /\ proposals[x] + Cardinality(Proposing(x)) <= Cardinality(Evaluator)
          /\ Proposing(x)' \subseteq Proposing(x) \ {e}
          /\ Proposing(x) \in SUBSET Evaluator
      BY <2>1 DEF BoundedInv, Proposing
    <3>2. /\ IsFiniteSet(Proposing(x)) /\ Cardinality(Proposing(x)) \in Nat
          /\ IsFiniteSet(Proposing(x) \ {e}) /\ Cardinality(Proposing(x) \ {e}) \in Nat
          /\ Cardinality(Proposing(x)') \in Nat
      BY <3>1, ProposingIsFinite
    <3>3. Cardinality(Proposing(x)') <= Cardinality(Proposing(x) \ {e})
      BY <3>1, <3>2, FS_Subset
    <3>4. CASE x = k
      <4>1. Cardinality(Proposing(x) \ {e}) = Cardinality(Proposing(x)) - 1
        BY <2>3, <3>2, <3>4, FS_RemoveElement
      <4> QED
        BY <2>2, <2>3, <3>1, <3>2, <3>3, <3>4, <4>1, ProposingIsFinite
    <3>5. CASE x # k
      <4>1. Cardinality(Proposing(x) \ {e}) <= Cardinality(Proposing(x))
        BY <3>2, FS_Subset
      <4>2. proposals'[x] = proposals[x]
        BY <2>2, <2>3, <3>5
      <4> QED
        BY <2>3, <3>1, <3>2, <3>3, <4>1, <4>2, ProposingIsFinite
    <3> QED
      BY <3>4, <3>5
  <2>6. \A x \in Followup : proposals'[x] > 0 => Grounds(x)'
    <3>1. \A x \in Followup : Grounds(x) => Grounds(x)'
      BY <2>2, GroundsStay
    <3>2. \A x \in Followup : x # k => (proposals'[x] > 0 => Grounds(x))
      BY <2>2, <2>3 DEF BoundedInv
    <3> QED
      BY <2>4, <3>1, <3>2
  <2>7. (\A x \in Evaluator : \A i \in DOMAIN session[x].owed : Grounds(session[x].owed[i]))'
    <3>1. \A x \in Evaluator : \A i \in DOMAIN session'[x].owed : Grounds(session'[x].owed[i])
      <4>1. \A x \in Evaluator \ {e} : session'[x].owed = session[x].owed
        BY <2>1
      <4> QED
        BY <1>2, <2>1, <2>4, <4>1
    <3> QED
      BY <2>2, <3>1 DEF Grounds
  <2> QED
    BY <2>5, <2>6, <2>7 DEF BoundedInv
<1>8. CASE Close(e)
  <2>1. /\ session'[e] = Closed /\ UNCHANGED <<proposals, probe, recurred>>
        /\ \A x \in Evaluator \ {e} : session'[x] = session[x]
    BY <1>1, <1>8 DEF Close, rows, telemetry
  <2> QED
    BY <1>2, <2>1, BoundedSessions DEF Closed
<1> QED
  BY <1>3, <1>4, <1>5, <1>6, <1>7, <1>8 DEF Evaluate, Judge

LEMMA BoundedStep == TypeInv /\ EvidenceInv /\ BoundedInv /\ [Next]_vars => BoundedInv'
<1> SUFFICES ASSUME TypeInv, EvidenceInv, BoundedInv, [Next]_vars PROVE BoundedInv'
  OBVIOUS
<1>1. session \in [Evaluator -> Session]
  BY DEF TypeInv, SessionInv
<1>2. \A x \in Evaluator : \A i \in DOMAIN session[x].owed : Grounds(session[x].owed[i])
  BY DEF BoundedInv
<1>3. CASE UNCHANGED vars
  BY <1>2, <1>3, BoundedSessions DEF vars, rows, telemetry
<1>4. ASSUME NEW e \in Evaluator, Load(e) \/ Crash(e) PROVE BoundedInv'
  <2>1. /\ session'[e].owed = <<>> /\ session'[e].phase \in {"next", "closed"}
        /\ \A x \in Evaluator \ {e} : session'[x] = session[x]
    <3>1. CASE Load(e)
      BY <1>1, <3>1 DEF Load, Closed
    <3>2. CASE Crash(e)
      BY <1>1, <3>2 DEF Crash, Closed
    <3> QED
      BY <1>4, <3>1, <3>2
  <2>2. UNCHANGED <<proposals, probe, recurred>>
    BY <1>4 DEF Load, Crash, rows, telemetry
  <2> QED
    BY <1>2, <2>1, <2>2, BoundedSessions
<1> QED
  BY <1>3, <1>4, BoundedEnvironment, BoundedEvaluate DEF Next

\* However many sweeps and forced checks overlap, an incident never gets more
\* follow-ups of one kind than there are evaluators (one with one at work),
\* and none without evidence against one of its fixes: who inserts one in
\* _propose_escalation or _propose_rollback has looked before the first was there.
THEOREM FollowupsStayBounded == Spec => []FollowupsAreBounded
<1>1. Spec => []BoundedInv
  BY TypesHold, EvidenceHolds, BoundedInit, BoundedStep, PTL DEF Spec
<1>2. TypeInv /\ BoundedInv => FollowupsAreBounded
  <2> SUFFICES ASSUME TypeInv, BoundedInv, NEW k \in Followup
               PROVE  proposals[k] <= Cardinality(Evaluator) /\ (proposals[k] > 0 => Grounds(k))
    BY DEF FollowupsAreBounded
  <2>1. Proposing(k) \in SUBSET Evaluator
    BY DEF Proposing
  <2>2. Cardinality(Proposing(k)) \in Nat /\ proposals[k] \in Nat
    BY <2>1, ProposingIsFinite DEF TypeInv, RowsOK
  <2> QED
    BY <2>2, ProposingIsFinite DEF BoundedInv
<1> QED
  BY <1>1, <1>2, TypesHold, PTL

=============================================================================
