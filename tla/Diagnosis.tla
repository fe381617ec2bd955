------------------------------- MODULE Diagnosis -------------------------------
(***************************************************************************)
(* From the logs of a deployment to an incident, and from the incidents to *)
(* the project's risk: the CI job and the webhook both report a failure    *)
(* and both start an analysis in the background, which reads the logs,     *)
(* matches the signatures, asks the language model and writes an incident, *)
(* while logs keep arriving (rca/correlate.py, rca/engine.py,              *)
(* observability/risk.py).                                                 *)
(*                                                                         *)
(* A Line is a class of log messages: one source, one fingerprint.  Says   *)
(* gives the signatures whose patterns it matches, Level the level it is   *)
(* stored with and Deadly whether its text is a failure's, which the       *)
(* stored level may not show.  Confidences are in permille.                *)
(***************************************************************************)
EXTENDS Signatures, ActionCatalog, SequencesExt, FiniteSetsExt

CONSTANTS Line, Source, Level, Says, Deadly,
          Deployments,      \* how many deployments the project makes
          Earlier,          \* successful deployments it has made before
          ActionsLogs,      \* the logs GitHub may return: sequences of lines
          Answers,          \* what the model may say besides evidence and cause
          MaxInvented,      \* bound: evidence ids the model makes up
          MaxRows,          \* bound: rows shipped for a deployment
          MaxAnalyses,      \* bound: analyses that are started
          MaxDays,          \* bound: for how long an incident is open
          MaxCritical,      \* bound: critical anomalies nobody has acknowledged
          Lead, Trail,      \* lines kept around the last error of an Actions log
          Rest,             \* its last lines, kept if it has no error
          Batch,            \* the first rows of a log that are stored
          Limit,            \* the oldest rows that a timeline reads
          Kept              \* the events that a timeline keeps

Permille == 0..1000

ASSUME DiagnosisAssumption ==
    /\ Source \in [Line -> ANY] /\ Says \in [Line -> SUBSET Key]
    /\ Level \in [Line -> 0..4] /\ Deadly \subseteq Line
    /\ {Deployments, Earlier, MaxInvented, MaxRows, MaxAnalyses, MaxDays, MaxCritical,
        Lead, Trail, Rest, Batch} \subseteq Nat
    /\ Limit \in Nat \ {0} /\ Kept \in Nat \ {0}
    /\ ActionsLogs \subseteq Seq(Line)
    /\ \A answer \in Answers : answer.confidence \in Permille    \* as it is clamped

VARIABLES
    logs,       \* LogEvent rows of a deployment, oldest first
    status,     \* of a deployment
    jobs,       \* the analyses in the background, by what started them
    incidents,  \* in the order in which they were written
    risk        \* the last RiskSnapshot

vars == <<logs, status, jobs, incidents, risk>>

Deployment == 1..Deployments
Trigger    == {"finish", "webhook", "analyze"}
Row        == [line : Line, near : BOOLEAN]     \* near: within the window of time
Error      == 3

Idle   == [step |-> "idle"]
Queued == [step |-> "queued"]
Fetching == [step |-> "fetching"]
Ended  == [step |-> "ended"]
NoRisk == [repeats |-> 0, band |-> "unknown", needs_mentor |-> FALSE]

Init ==
    /\ logs = [d \in Deployment |-> <<>>]
    /\ status = [d \in Deployment |-> "none"]
    /\ jobs = [k \in Deployment \X Trigger |-> Idle]
    /\ incidents = <<>>
    /\ risk = NoRisk

-----------------------------------------------------------------------------
\* The elements of s at the indices in I, in their order.
Picked(s, I) ==
    LET at(n) == CHOOSE i \in I : Cardinality({j \in I : j < i}) = n - 1
    IN  [n \in 1..Cardinality(I) |-> s[at(n)]]

LinesOf(rows) == {rows[i].line : i \in DOMAIN rows}

\* The useful slice of an Actions log: all its errors and what surrounds the last.
FailureWindow(text) ==
    LET errors == {i \in DOMAIN text : Level[text[i]] >= Error}
        last   == Max(errors)
    IN  Picked(text, {i \in DOMAIN text :
                         IF errors = {} THEN i > Len(text) - Rest
                         ELSE i \in errors \/ i \in (last - Lead)..(last + Trail)})

\* Mutant: rows out of the window of time are never read.
VisibleInWindow(rows) ==
    LET near == Picked(rows, {i \in DOMAIN rows : rows[i].near})
    IN  SubSeq(near, 1, AtMost(Len(near), Limit))

\* The rows a timeline reads: those in the window, or else all of them.
Visible(rows) ==
    LET near == Picked(rows, {i \in DOMAIN rows : rows[i].near})
        read == IF near = <<>> THEN rows ELSE near
    IN  SubSeq(read, 1, AtMost(Len(read), Limit))

\* One event for each class of messages, at its first row; an event is its line.
Collapsed(rows) ==
    LET first == Picked(rows, {i \in DOMAIN rows : \A j \in 1..(i - 1) :
                                                       rows[j].line # rows[i].line})
    IN  [n \in DOMAIN first |-> first[n].line]

\* What build_timeline may return of all the events: past Kept events the higher
\* levels win, and within a level those near to the failure, which is not told
\* apart here.
Timelines(all) ==
    {Picked(all, K) : K \in {K \in SUBSET DOMAIN all :
                                /\ Cardinality(K) = AtMost(Len(all), Kept)
                                /\ \A i \in K, j \in DOMAIN all \ K :
                                       Level[all[i]] >= Level[all[j]]}}

\* Mutant: a failure is judged by the stored level only.
IsLabelledFailure(event) == Level[event] >= Error

IsFailure(event) == Level[event] >= Error \/ event \in Deadly

\* The hints about the stage that failed.
Signals(events) ==
    LET failed(source) == \E i \in DOMAIN events :
                              Source[events[i]] = source /\ IsFailure(events[i])
    IN  (IF failed("actions") /\ ~failed("docker") THEN {"failed_before_runtime"} ELSE {})
        \cup (IF failed("docker") /\ ~failed("actions") THEN {"build_ok_runtime_failed"} ELSE {})

-----------------------------------------------------------------------------
Candidates(events) ==
    MatchSignatures([n \in DOMAIN events |->
                        [source |-> Source[events[n]], says |-> Says[events[n]]]])

\* What the language model may answer to a timeline with these candidates.
Verdict(job) ==
    [cited : SUBSET (1..(Len(job.events) + MaxInvented)),
     agrees : 0..Len(job.candidates), answer : Answers]

Invented(job, verdict) == verdict.cited \ DOMAIN job.events

\* Mutant: the ids that the model cites are not looked up.
AnyLine(job, verdict) ==
    {IF i \in DOMAIN job.events THEN job.events[i] ELSE "?" : i \in verdict.cited}

\* The lines that the model cites and the timeline has.
Cited(job, verdict) == {job.events[i] : i \in verdict.cited \ Invented(job, verdict)}

LastErrors(events) ==
    LET errors == {i \in DOMAIN events : Level[events[i]] >= Error}
    IN  {i \in errors : Cardinality({j \in errors : j > i}) < 3}

Unknown(job) ==
    [key |-> "", severity |-> "medium", confidence |-> 200,
     evidence |-> {job.events[i] : i \in LastErrors(job.events)},
     fixes |-> <<"escalate_to_devops">>, source |-> "none"]

ByRules(job) ==
    LET top == Head(job.candidates)
    IN  IF job.candidates = <<>> THEN Unknown(job)
        ELSE [key |-> top.key, severity |-> top.severity, confidence |-> top.confidence,
              evidence |-> {job.events[i] : i \in top.evidence},
              fixes |-> top.fixes, source |-> "signature"]

\* Actions that are not in the catalog become an escalation, the fixes of the
\* matched signature are added, and the list is never empty.
ValidateFixes(fixes, known) ==
    LET valid == [i \in 1..AtMost(Len(fixes), 5) |->
                     IF fixes[i] \in Action THEN fixes[i] ELSE "escalate_to_devops"]
        all   == valid \o SelectSeq(known, LAMBDA a : a \notin ToSet(valid))
    IN  IF all = <<>> THEN <<"escalate_to_devops">> ELSE all

\* Evidence that does not exist costs the model some of what it claims.
Honest(job, verdict) ==
    (verdict.answer.confidence
     * Max({400, 1000 - 200 * Cardinality(Invented(job, verdict))})) \div 1000

\* The confidence that the evidence of a verdict leaves it.
Grounded(job, verdict) ==
    IF Cited(job, verdict) = {} THEN AtMost(Honest(job, verdict), 350)
    ELSE Honest(job, verdict)

Sure == 930

\* Mutant: the model's answer stands as it is, however sure the rules are.
Trusting(job, verdict) ==
    [key |-> IF verdict.agrees = 0 THEN "" ELSE job.candidates[verdict.agrees].key,
     severity |-> verdict.answer.severity, confidence |-> Grounded(job, verdict),
     evidence |-> Cited(job, verdict),
     fixes |-> ValidateFixes(verdict.answer.fixes, <<>>), source |-> "llm"]

\* The model's verdict, checked against the timeline and the rules.
Merge(job, verdict) ==
    LET known == job.candidates[verdict.agrees]
        agreed == verdict.agrees # 0
        trust == Grounded(job, verdict)
    IN  IF ~agreed /\ job.candidates # <<>> /\ Head(job.candidates).confidence >= Sure
        THEN ByRules(job)
        ELSE [key        |-> IF agreed THEN known.key ELSE "",
              severity   |-> IF verdict.answer.severity \in DOMAIN Severity
                             THEN verdict.answer.severity
                             ELSE IF agreed THEN known.severity ELSE "medium",
              confidence |-> IF agreed THEN AtMost(990, (trust + known.confidence) \div 2 + 50)
                             ELSE trust,
              evidence   |-> Cited(job, verdict),
              fixes      |-> ValidateFixes(verdict.answer.fixes,
                                           IF agreed THEN known.fixes ELSE <<>>),
              source     |-> IF agreed THEN "hybrid" ELSE "llm"]

\* The model has answered, or could not be reached.
Results(job) == {ByRules(job)} \cup {Merge(job, v) : v \in Verdict(job)}

\* The incident that _persist writes; its fixes are all only proposed.
Incident(d, result, signals) ==
    [deployment |-> d, key |-> result.key, severity |-> result.severity,
     evidence |-> result.evidence, fixes |-> result.fixes, source |-> result.source,
     signals |-> signals, confidence |-> result.confidence,
     status |-> IF result.confidence >= 400 THEN "diagnosed" ELSE "open"]

-----------------------------------------------------------------------------
Start(d) ==
    /\ status[d] = "none" /\ (d > 1 => status[d - 1] \notin {"none", "building"})
    /\ status' = [status EXCEPT ![d] = "building"]
    /\ UNCHANGED <<logs, jobs, incidents, risk>>

\* CI or the agent ships a line, in time or late, with a clock that may be wrong.
Ingest(d, row) ==
    /\ status[d] # "none" /\ Len(logs[d]) < MaxRows
    /\ \E p \in 1..(Len(logs[d]) + 1) : logs' = [logs EXCEPT ![d] = InsertAt(@, p, row)]
    /\ UNCHANGED <<status, jobs, incidents, risk>>

\* The CI job reports the outcome; a failure is analysed in the background.
Finish(d, outcome) ==
    /\ status[d] = "building"
    /\ status' = [status EXCEPT ![d] = outcome]
    /\ jobs' = IF outcome = "failed" THEN [jobs EXCEPT ![<<d, "finish">>] = Queued] ELSE jobs
    /\ UNCHANGED <<logs, incidents, risk>>

Analyses == Cardinality({k \in DOMAIN jobs : jobs[k] # Idle})

\* GitHub reports the run's conclusion, whether the CI job reported it or not.
Webhook(d, conclusion) ==
    /\ status[d] # "none" /\ (conclusion = "running" => status[d] # "failed")
    /\ jobs[<<d, "webhook">>] = Idle /\ Analyses < MaxAnalyses
    /\ status' = [status EXCEPT ![d] = conclusion]
    /\ jobs' = [jobs EXCEPT ![<<d, "webhook">>] = IF conclusion = "failed" THEN Fetching ELSE Ended]
    /\ UNCHANGED <<logs, incidents, risk>>

\* The steps of a background analysis.
Fetched(d) ==
    jobs[<<d, "webhook">>] = Fetching /\ jobs' = [jobs EXCEPT ![<<d, "webhook">>] = Queued]

Read(d, t) ==
    /\ jobs[<<d, t>>] = Queued
    /\ \E all \in {Collapsed(Visible(logs[d]))} : \E events \in Timelines(all) :
           jobs' = [jobs EXCEPT ![<<d, t>>] =
                       IF events = <<>> THEN Ended
                       ELSE [step |-> "asking", events |-> events, rows |-> logs[d]]]

Answered(d, t) == jobs[<<d, t>>].step = "asking" /\ jobs' = [jobs EXCEPT ![<<d, t>>] = Ended]

\* Its handler stores the run's log, if GitHub gives it, before it analyses.  It
\* takes the time of the delivery for the end of the deployment, and the log may
\* be far from that.
FetchLogs(d, text, near) ==
    /\ Fetched(d)
    /\ LET slice == FailureWindow(text)
       IN  logs' = [logs EXCEPT ![d] = @ \o [i \in 1..AtMost(Len(slice), Batch) |->
                                                 [line |-> slice[i], near |-> near]]]
    /\ UNCHANGED <<status, incidents, risk>>

\* A member asks for an analysis, of a deployment in any status.
AnalyzeNow(d) ==
    /\ status[d] # "none" /\ jobs[<<d, "analyze">>] = Idle /\ Analyses < MaxAnalyses
    /\ jobs' = [jobs EXCEPT ![<<d, "analyze">>] = Queued]
    /\ UNCHANGED <<logs, status, incidents, risk>>

\* The analysis reads the logs once; without an event it ends with no incident.
BuildTimeline(d, t) == Read(d, t) /\ UNCHANGED <<logs, status, incidents, risk>>

\* The result of the analysis is written as an incident.
Conclude(d, t) ==
    /\ Answered(d, t)
    /\ \E candidates \in {Candidates(jobs[<<d, t>>].events)} :
           \E result \in Results([events |-> jobs[<<d, t>>].events, candidates |-> candidates]) :
               incidents' = Append(incidents, Incident(d, result, Signals(jobs[<<d, t>>].events)))
    /\ UNCHANGED <<logs, status, risk>>

\* A person confirms or dismisses an incident.
Close(i) ==
    /\ incidents[i].status \in {"open", "diagnosed"}
    /\ incidents' = [incidents EXCEPT ![i].status = "closed"]
    /\ UNCHANGED <<logs, status, jobs, risk>>

-----------------------------------------------------------------------------
Open == {i \in DOMAIN incidents : incidents[i].status # "closed"}

Repeats(key) == Cardinality({i \in Open : incidents[i].key = key})

Started == {d \in Deployment : status[d] # "none"}
Failed  == {d \in Started : status[d] = "failed"}

\* How many of the latest deployments failed in a row.
Streak == Cardinality({d \in Failed : \A e \in Started : e > d => e \in Failed})

\* The weights of the signals that collect_signals finds, 0 if there is none.
DeploymentWeight ==
    LET total  == Cardinality(Started) + Earlier
        failed == Cardinality(Failed)
        ok     == Earlier > 0 \/ \E d \in Started : status[d] = "running"
    IN  IF total = 0 THEN 20
        ELSE (IF 2 * failed >= total /\ total >= 2 THEN (35 * failed) \div total ELSE 0)
             + (IF Streak >= 3 THEN AtMost(8 * Streak, 35) ELSE 0)
             + (IF ~ok /\ total >= 2 THEN 25 ELSE 0)

\* The signatures of which more than one incident is open.
Repeated == {k \in {incidents[i].key : i \in Open} \ {""} : Repeats(k) >= 2}

\* Mutant: an open incident weighs less.
LighterIncidentWeight(days) ==
    (IF Open = {} THEN 0 ELSE 2 * Cardinality(Open) + 3 * days) + 15 * Cardinality(Repeated)

\* days: for how long the oldest of the open incidents has been open.
IncidentWeight(days) ==
    LET critical == {i \in Open : incidents[i].severity = "critical"}
    IN  (IF Open = {} THEN 0
         ELSE AtMost(30, 6 * Cardinality(Open) + 8 * Cardinality(critical) + 3 * days))
        + 15 * Cardinality(Repeated)

AnomalyWeight(critical) == AtMost(8 * critical, 25)

\* The model may add to the need for a mentor, never take from it; it is asked if
\* there is a signal, and every signal weighs something.
Evaluate(days, critical, blocked) ==
    LET total == AtMost(100, DeploymentWeight + IncidentWeight(days) + AnomalyWeight(critical))
        band  == IF total < 25 THEN "green" ELSE IF total < 55 THEN "amber" ELSE "red"
    IN  /\ risk' = [repeats |-> IF Repeated = {} THEN 0 ELSE Max({Repeats(k) : k \in Repeated}),
                    band |-> band,
                    needs_mentor |-> band \in {"amber", "red"} \/ (blocked /\ total > 0)]
        /\ UNCHANGED <<logs, status, jobs, incidents>>

-----------------------------------------------------------------------------
Analysis == \E d \in Deployment :
    \/ \E text \in ActionsLogs \cup {<<>>}, near \in BOOLEAN : FetchLogs(d, text, near)
    \/ \E t \in Trigger : BuildTimeline(d, t) \/ Conclude(d, t)

Reports == \E d \in Deployment :
    \/ Start(d)
    \/ \E row \in Row : Ingest(d, row)
    \/ \E outcome \in {"running", "failed"} : Finish(d, outcome) \/ Webhook(d, outcome)
    \/ AnalyzeNow(d)

People ==
    \/ \E i \in DOMAIN incidents : Close(i)
    \/ /\ risk = NoRisk          \* bound: one snapshot
       /\ \E days \in 0..MaxDays, critical \in 0..MaxCritical, blocked \in BOOLEAN :
              Evaluate(days, critical, blocked)

Next == Analysis \/ Reports \/ People

Spec == Init /\ [][Next]_vars

\* A background analysis runs by itself, and the model's client gives up after
\* its timeout: a step of some job is taken.
FairSpec ==
    /\ Spec
    /\ WF_jobs(\E d \in Deployment : Fetched(d) \/ \E t \in Trigger : Read(d, t) \/ Answered(d, t))

-----------------------------------------------------------------------------
JobStep == {"idle", "fetching", "queued", "asking", "ended"}

\* Types of the rows, the jobs, the incidents and the risk snapshot.
TypeOK ==
    /\ \A d \in Deployment : logs[d] \in Seq(Row)
    /\ status \in [Deployment -> {"none", "building", "running", "failed"}]
    /\ DOMAIN jobs = Deployment \X Trigger
    /\ \A k \in DOMAIN jobs : jobs[k].step \in JobStep
    /\ \A n \in DOMAIN incidents :
           /\ incidents[n].deployment \in Deployment
           /\ incidents[n].key \in Key \cup {""}
           /\ incidents[n].severity \in DOMAIN Severity
           /\ incidents[n].confidence \in Permille
           /\ incidents[n].status \in {"open", "diagnosed", "closed"}
    /\ risk.band \in {"unknown", "green", "amber", "red"} /\ risk.needs_mentor \in BOOLEAN

\* An incident says nothing that nobody can point to: what it cites is in the
\* logs of its deployment, whatever the model made up and whatever arrived while
\* it was thinking; the signature it names has a line behind it, from a source
\* where the signature may occur; and with neither it stays open
\* (match_signatures, engine._merge, engine._persist).
DiagnosisIsInTheLogs ==
    \A n \in DOMAIN incidents :
        LET lines == LinesOf(logs[incidents[n].deployment])
        IN /\ incidents[n].evidence \subseteq lines
           /\ incidents[n].key # "" =>
                \E l \in lines, m \in DOMAIN SIGNATURES :
                    /\ SIGNATURES[m].key = incidents[n].key
                    /\ SIGNATURES[m].key \in Says[l] /\ Source[l] \in SIGNATURES[m].from
           /\ incidents[n].status = "diagnosed" =>
                incidents[n].key # "" \/ incidents[n].evidence # {}

\* Rows of a job that no bound of the timeline cuts.
Uncut(rows) ==
    /\ Len(rows) <= Limit
    /\ Cardinality(LinesOf(Visible(rows))) <= Kept

Concluding(d, t) == jobs[<<d, t>>].step = "asking" /\ incidents' # incidents /\ jobs'[<<d, t>>] = Ended

\* What the analysis concludes fits the logs it read, if no bound cut them: a
\* failure that a rule is sure of is named, whatever the model says, and the
\* hint that the container never started is not given when its log shows it
\* failing, even by a line stored with a harmless level (engine._merge,
\* correlate._is_failure).
ConclusionFitsTheLogs ==
    [][\A d \in Deployment, t \in Trigger :
           Concluding(d, t) /\ Uncut(jobs[<<d, t>>].rows) =>
               \A l \in LinesOf(Visible(jobs[<<d, t>>].rows)) :
                   /\ (\E m \in DOMAIN SIGNATURES :
                          /\ SIGNATURES[m].confidence >= Sure
                          /\ SIGNATURES[m].key \in Says[l]
                          /\ Source[l] \in SIGNATURES[m].from)
                      => Last(incidents').key # ""
                   /\ "failed_before_runtime" \in Last(incidents').signals
                      => Source[l] # "docker" \/ l \notin Deadly]_vars

\* A project that is told that it repeats one failure is told to see a mentor,
\* "the clearest signal that a 30-minute mentor session would unblock them":
\* the weights and the bands add up to that (risk.score).
RepeatsCallMentor == risk.repeats > 0 => risk.needs_mentor

\* A failure whose logs are there gets its incident, even if every clock is
\* wrong (build_timeline).  A restart of the server, which loses the analysis, is
\* left to Deployments.
FailureIsExplained ==
    \A d \in Deployment :
        (\E t \in Trigger : jobs[<<d, t>>] = Queued) /\ logs[d] # <<>>
            ~> \E n \in DOMAIN incidents : incidents[n].deployment = d

\* What the code says of its repeats: "the same failure has recurred n times"
\* (risk.py): as many deployments have failed.
RepeatsAreDeployments == risk.repeats <= Cardinality(Failed)
=============================================================================
