--------------------------- MODULE TelemetryProofs ---------------------------
(***************************************************************************)
(* Proofs about Telemetry for any conditions, fixes, thresholds of samples *)
(* and lengths of the windows.  What detect makes of the samples is left   *)
(* closed: the proofs use only that it is a set of kinds that depends on   *)
(* nothing else.                                                           *)
(***************************************************************************)
EXTENDS Telemetry, FiniteSetTheorems, TLAPS

(***************************************************************************)
(* Types                                                                   *)
(***************************************************************************)
LEMMA Bounds ==
    Window \in Nat /\ MinSamples \in Nat /\ Suppress \in Nat /\ 3 <= Window
BY TelemetryAssumption

LEMMA HistoryIsFunction == TypeInv => history \in [1..Window -> Samples \union {NoSample}]
BY Bounds DEF TypeInv

LEMMA FindingsAreKinds == TypeInv => Findings \subseteq Kind
<1> SUFFICES ASSUME TypeInv PROVE Findings \subseteq Kind
  OBVIOUS
<1> DEFINE H == [1..Window -> Samples \union {NoSample}]
           D(h) == IF Cardinality(Heard(h)) < MinSamples THEN {} ELSE {k \in Kind : Detected(h, k)}
<1>1. history \in H
  BY HistoryIsFunction
<1>2. detect = [h \in H |-> D(h)]
  BY DEF detect, Samples
<1>3. \A h \in H : D(h) \subseteq Kind
  OBVIOUS
<1> HIDE DEF H, D
<1>4. Findings = D(history)
  BY <1>1, <1>2 DEF Findings
<1> QED
  BY <1>1, <1>3, <1>4

LEMMA TypesImply == TypeInv => TypeOK
<1> SUFFICES ASSUME TypeInv PROVE TypeOK
  OBVIOUS
<1>1. history \in [1..Window -> Samples \union {NoSample}]
  BY HistoryIsFunction
<1>2. \A i \in Heard(history) : history[i] \in {Sampled(c) : c \in Condition}
  BY <1>1 DEF Heard, Samples
<1>3. \A p \in Persister : /\ jobs[p].step \in {"idle", "stored", "detected", "adding"}
                           /\ jobs[p].found \subseteq Kind
  BY DEF TypeInv, Job
<1>4. watch.phase \in {"none", "open", "passed", "failed"}
  BY DEF TypeInv, Watches
<1> QED
  BY <1>1, <1>2, <1>3, <1>4 DEF TypeInv, TypeOK, Rows

LEMMA IdleIsJob == Idle \in Job
BY DEF Idle, Job

LEMMA TypeInit == Init => TypeInv
<1> SUFFICES ASSUME Init PROVE TypeInv
  OBVIOUS
<1>1. history \in Seq(Samples \union {NoSample}) /\ Len(history) = Window
  BY Bounds DEF Init
<1>2. watch \in Watches
  BY DEF Init, NoWatch, Watches
<1> QED
  BY <1>1, <1>2, IdleIsJob DEF Init, TypeInv

LEMMA SampleRestarts == ASSUME NEW c \in Condition PROVE Sampled(c).restarts \in Nat
BY TelemetryAssumption DEF Sampled

LEMMA AgedType == ASSUME rows \subseteq Rows PROVE Aged(rows) \subseteq Rows
<1>1. ASSUME NEW r \in Rows, r.age < Suppress PROVE [r EXCEPT !.age = @ + 1] \in Rows
  BY <1>1, Bounds DEF Rows
<1>2. ASSUME NEW r \in Rows PROVE [r EXCEPT !.age = Suppress + 1, !.open = FALSE] \in Rows
  <2>1. Suppress + 1 \in 0..Suppress + 1
    BY Bounds
  <2>2. [r EXCEPT !.age = Suppress + 1] \in Rows
    BY <2>1 DEF Rows
  <2>3. [[r EXCEPT !.age = Suppress + 1] EXCEPT !.open = FALSE] \in Rows
    BY <2>2 DEF Rows
  <2>4. [[r EXCEPT !.age = Suppress + 1] EXCEPT !.open = FALSE]
          = [r EXCEPT !.age = Suppress + 1, !.open = FALSE]
    OBVIOUS
  <2> QED
    BY <2>3, <2>4
<1> SUFFICES ASSUME NEW x \in Aged(rows) PROVE x \in Rows
  OBVIOUS
<1>3. CASE x \in {[r EXCEPT !.age = @ + 1] : r \in {q \in rows : q.open /\ q.age < Suppress}}
  <2>1. PICK r \in rows : r.age < Suppress /\ x = [r EXCEPT !.age = @ + 1]
    BY <1>3
  <2> QED
    BY <1>1, <2>1
<1>4. CASE x \in {[r EXCEPT !.age = Suppress + 1, !.open = FALSE] :
                     r \in {q \in rows : q.since /\ ~(q.open /\ q.age < Suppress)}}
  <2>1. PICK r \in rows : x = [r EXCEPT !.age = Suppress + 1, !.open = FALSE]
    BY <1>4
  <2> QED
    BY <1>2, <2>1
<1> QED
  BY <1>3, <1>4 DEF Aged

LEMMA ElapseType ==
    ASSUME TypeInv, NEW sample \in Samples \union {NoSample}, Elapse(sample)
    PROVE  /\ history' \in Seq(Samples \union {NoSample}) /\ Len(history') = Window
           /\ rows' \subseteq Rows
           /\ scanned' \in BOOLEAN
<1>1. history \in Seq(Samples \union {NoSample}) /\ Len(history) = Window /\ history # <<>>
  BY Bounds DEF TypeInv
<1>2. history' = Append(Tail(history), sample)
  BY DEF Elapse
<1>3. history' \in Seq(Samples \union {NoSample}) /\ Len(history') = Window
  BY <1>1, <1>2, Bounds
<1> QED
  BY <1>3, AgedType DEF Elapse, TypeInv

LEMMA GoOnType ==
    ASSUME TypeInv, NEW p \in Persister, NEW step \in {"idle", "stored", "detected", "adding"},
           NEW found \in SUBSET Kind, GoOn(p, step, found), rows' \subseteq Rows
    PROVE  TypeInv'
<1>1. [step |-> step, found |-> found] \in Job
  BY DEF Job
<1>2. jobs' \in [Persister -> Job]
  BY <1>1, IdleIsJob DEF GoOn, TypeInv
<1>3. scanned' \in BOOLEAN
  BY DEF GoOn, TypeInv
<1> QED
  BY <1>2, <1>3 DEF GoOn, TypeInv

LEMMA ProcessType ==
    ASSUME TypeInv, NEW p \in Persister, Process(p) PROVE TypeInv'
<1>1. jobs[p].found \subseteq Kind /\ rows \subseteq Rows
  BY DEF TypeInv, Job
<1>2. CASE Detect(p)
  BY <1>1, <1>2, FindingsAreKinds, GoOnType DEF Detect
<1>3. CASE ReadOpen(p)
  BY <1>1, <1>3, GoOnType DEF ReadOpen, Fresh
<1>4. CASE Store(p)
  <2>1. \A k \in Kind : \A s \in BOOLEAN :
           [kind |-> k, age |-> 0, open |-> TRUE, since |-> s] \in Rows
    BY Bounds DEF Rows
  <2>2. \A k \in Kind : Watching(k) \in BOOLEAN
    BY DEF Watching
  <2>3. rows' \subseteq Rows
    BY <1>1, <1>4, <2>1, <2>2 DEF Store
  <2> QED
    BY <1>4, <2>3, GoOnType DEF Store
<1> QED
  BY <1>2, <1>3, <1>4 DEF Process

LEMMA TypeStep == TypeInv /\ [Next]_vars => TypeInv'
<1> SUFFICES ASSUME TypeInv, [Next]_vars PROVE TypeInv'
  OBVIOUS
<1>1. ASSUME NEW c \in Condition, Heartbeat(c) PROVE TypeInv'
  <2>1. Sampled(c) \in Samples \union {NoSample}
    BY DEF Samples
  <2>2. jobs' \in [Persister -> Job]
    BY <1>1 DEF Heartbeat, TypeInv, Job
  <2>3. watch' \in Watches
    BY <1>1 DEF Heartbeat, TypeInv, Watches
  <2>4. Elapse(Sampled(c)) /\ latest' \in Nat
    BY <1>1, SampleRestarts DEF Heartbeat
  <2> QED
    BY <2>1, <2>2, <2>3, <2>4, ElapseType DEF TypeInv
<1>2. CASE Silence
  BY <1>2, ElapseType DEF Silence, TypeInv
<1>3. ASSUME NEW r \in rows, Acknowledge(r) PROVE TypeInv'
  <2>1. [r EXCEPT !.open = FALSE] \in Rows
    BY DEF TypeInv, Rows
  <2> QED
    BY <1>3, <2>1 DEF Acknowledge, TypeInv
<1>4. CASE Crash
  BY <1>4, IdleIsJob DEF Crash, TypeInv
<1>5. ASSUME NEW a \in Fix, StartWatch(a) PROVE TypeInv'
  <2>1. watch' \in Watches
    BY <1>5 DEF StartWatch, TypeInv, Watches
  <2> QED
    BY <1>5, <2>1 DEF StartWatch, TypeInv
<1>6. CASE Judge
  <2>1. \A r \in rows : [r EXCEPT !.since = FALSE] \in Rows
    BY DEF TypeInv, Rows
  <2>2. watch' \in Watches
    BY <1>6 DEF Judge, Watches
  <2> QED
    BY <1>6, <2>1, <2>2 DEF Judge, TypeInv
<1>7. CASE UNCHANGED vars
  BY <1>7 DEF vars, TypeInv
<1> QED
  BY <1>1, <1>2, <1>3, <1>4, <1>5, <1>6, <1>7, ProcessType DEF Next

LEMMA TypesHold == Spec => []TypeInv
BY TypeInit, TypeStep, PTL DEF Spec

\* Samples, anomalies on record, jobs and the watch stay in their domains,
\* whatever is detected in the samples.
THEOREM TypeCorrect == Spec => []TypeOK
BY TypesHold, TypesImply, PTL

(***************************************************************************)
(* What has been looked at is on record                                    *)
(***************************************************************************)
LEMMA ScanInit == Init => ScanInv
BY DEF Init, ScanInv, Idle, Persister

\* Rows that suppress a kind stay while the samples do.
Kept(R, S) == \A k \in Kind : OnRecord(k, R) => OnRecord(k, S)

LEMMA ScanKept ==
    ASSUME TypeInv, ScanInv, UNCHANGED history, jobs'["beat"] = jobs["beat"], UNCHANGED scanned,
           Kept(rows, rows')
    PROVE  ScanInv'
<1>1. Findings' = Findings
  BY DEF Findings
<1> QED
  BY <1>1, FindingsAreKinds DEF ScanInv, Kept

LEMMA StoreKeeps == ASSUME NEW p \in Persister, Store(p) PROVE Kept(rows, rows')
BY DEF Store, Kept, OnRecord

LEMMA AcknowledgeKeeps ==
    ASSUME TypeInv, NEW r \in rows, Acknowledge(r) PROVE Kept(rows, rows')
<1> SUFFICES ASSUME NEW k \in Kind, NEW x \in rows, x.kind = k, x.age <= Suppress
             PROVE  OnRecord(k, rows')
  BY DEF Kept, OnRecord
<1>1. CASE x # r
  BY <1>1 DEF Acknowledge, OnRecord
<1>2. CASE x = r
  <2> DEFINE y == [r EXCEPT !.open = FALSE]
  <2>1. y.kind = r.kind /\ y.age = r.age /\ y \in rows'
    BY DEF Acknowledge, TypeInv, Rows
  <2> QED
    BY <1>2, <2>1 DEF OnRecord
<1> QED
  BY <1>1, <1>2

LEMMA JudgeKeeps == ASSUME TypeInv, Judge PROVE Kept(rows, rows')
<1> SUFFICES ASSUME NEW k \in Kind, NEW x \in rows, x.kind = k, x.age <= Suppress
             PROVE  OnRecord(k, rows')
  BY DEF Kept, OnRecord
<1> DEFINE y == [x EXCEPT !.since = FALSE]
<1>1. y.kind = x.kind /\ y.age = x.age
  BY DEF TypeInv, Rows
<1>2. y \in rows'
  BY DEF Judge
<1> QED
  BY <1>1, <1>2 DEF OnRecord

\* When the request of a heartbeat ends by itself and detect has not raised,
\* all findings are on record.
LEMMA ScanEnds ==
    ASSUME TypeInv, ScanInv, Process("beat"), jobs'["beat"] = Idle, ~Raised
    PROVE  \A k \in Findings : OnRecord(k, rows')
<1>1. jobs \in [Persister -> Job] /\ "beat" \in Persister
  BY DEF TypeInv, Persister
<1>2. ASSUME NEW step \in {"idle", "detected", "adding"}, NEW found,
             GoOn("beat", step, found), step # "idle"
      PROVE  found = {}
  BY <1>1, <1>2 DEF GoOn, Idle
<1>3. CASE Detect("beat")
  BY <1>2, <1>3 DEF Detect
<1>4. CASE ReadOpen("beat")
  <2>1. /\ jobs["beat"].found = Findings /\ Fresh(jobs["beat"].found) = {} /\ rows' = rows
    BY <1>2, <1>4 DEF ReadOpen, ScanInv
  <2> QED
    BY <2>1 DEF Fresh, Suppresses, OnRecord
<1>5. CASE Store("beat")
  <2>1. \A k \in Findings : k \in jobs["beat"].found \/ OnRecord(k, rows)
    BY <1>5 DEF Store, ScanInv
  <2>2. ASSUME NEW k \in jobs["beat"].found PROVE OnRecord(k, rows')
    <3> DEFINE r == [kind |-> k, age |-> 0, open |-> TRUE, since |-> Watching(k)]
    <3>1. r \in rows'
      BY <1>5, Zenon DEF Store
    <3>2. r.kind = k /\ r.age <= Suppress
      BY Bounds
    <3> QED
      BY <3>1, <3>2 DEF OnRecord
  <2>3. Kept(rows, rows')
    BY <1>1, <1>5, StoreKeeps
  <2> QED
    BY <2>1, <2>2, <2>3, FindingsAreKinds DEF Kept
<1> QED
  BY <1>3, <1>4, <1>5 DEF Process

LEMMA ProcessKeeps == ASSUME NEW p \in Persister, Process(p) PROVE Kept(rows, rows')
<1>1. CASE rows' = rows
  BY <1>1 DEF Kept
<1>2. CASE Store(p)
  BY <1>2, StoreKeeps
<1> QED
  BY <1>1, <1>2 DEF Process, Detect, ReadOpen

LEMMA ScanBeat ==
    ASSUME TypeInv, ScanInv, Process("beat") PROVE ScanInv'
<1>1. jobs \in [Persister -> Job] /\ "beat" \in Persister
  BY DEF TypeInv, Persister
<1>2. Findings' = Findings /\ Findings \subseteq Kind
  BY FindingsAreKinds DEF Process, Detect, ReadOpen, Store, GoOn, Findings
<1>3. Kept(rows, rows')
  BY <1>1, ProcessKeeps
<1>4. ASSUME scanned' PROVE \A k \in Findings : OnRecord(k, rows')
  <2>1. CASE scanned
    BY <1>2, <1>3, <2>1 DEF ScanInv, Kept
  <2>2. CASE ~scanned
    <3>1. \A step, found : GoOn("beat", step, found) => found = {} /\ ~Raised
      BY <1>4, <2>2 DEF GoOn
    <3>2. \A step, found : GoOn("beat", step, found) => jobs'["beat"] = Idle
      BY <1>1, <3>1 DEF GoOn
    <3>3. \E step, found : GoOn("beat", step, found)
      BY DEF Process, Detect, ReadOpen, Store
    <3> QED
      BY <3>1, <3>2, <3>3, ScanEnds
  <2> QED
    BY <2>1, <2>2
<1>5. CASE Detect("beat")
  <2> DEFINE found == IF Raised THEN {} ELSE Findings
  <2>1. jobs'["beat"] = IF found = {} THEN Idle ELSE [step |-> "detected", found |-> found]
    BY <1>1, <1>5 DEF Detect, GoOn
  <2>2. found # {} => found = Findings
    OBVIOUS
  <2> HIDE DEF found
  <2>3. /\ jobs'["beat"].step = "detected" => jobs'["beat"].found = Findings
        /\ jobs'["beat"].step # "adding"
    BY <2>1, <2>2 DEF Idle
  <2> QED
    BY <1>2, <1>4, <2>3 DEF ScanInv
<1>6. CASE ReadOpen("beat")
  <2> DEFINE found == Fresh(jobs["beat"].found)
  <2>1. jobs["beat"].found = Findings /\ rows' = rows
    BY <1>6 DEF ReadOpen, ScanInv
  <2>2. jobs'["beat"] = IF found = {} THEN Idle ELSE [step |-> "adding", found |-> found]
    BY <1>1, <1>6 DEF ReadOpen, GoOn
  <2>3. \A k \in Findings : k \in found \/ OnRecord(k, rows)
    BY <2>1 DEF Fresh, Suppresses, OnRecord
  <2> HIDE DEF found
  <2>4. /\ jobs'["beat"].step # "detected"
        /\ jobs'["beat"].step = "adding" => jobs'["beat"].found = found
    BY <2>2 DEF Idle
  <2> QED
    BY <1>2, <1>4, <2>1, <2>3, <2>4 DEF ScanInv
<1>7. CASE Store("beat")
  <2>1. jobs'["beat"] = Idle
    BY <1>1, <1>7 DEF Store, GoOn
  <2> QED
    BY <1>2, <1>4, <2>1 DEF ScanInv, Idle
<1> QED
  BY <1>5, <1>6, <1>7 DEF Process

LEMMA ScanStep == TypeInv /\ ScanInv /\ [Next]_vars => ScanInv'
<1> SUFFICES ASSUME TypeInv, ScanInv, [Next]_vars PROVE ScanInv'
  OBVIOUS
<1>1. jobs \in [Persister -> Job] /\ "beat" \in Persister
  BY DEF TypeInv, Persister
<1>2. CASE UNCHANGED vars
  BY <1>2, ScanKept DEF vars, Kept
<1>3. ASSUME NEW c \in Condition, Heartbeat(c) PROVE ScanInv'
  <2>1. jobs'["beat"].step = "stored" /\ scanned' = FALSE
    BY <1>1, <1>3 DEF Heartbeat, Elapse, Job
  <2> QED
    BY <2>1 DEF ScanInv
<1>4. CASE Silence
  <2>1. jobs'["beat"].step = "idle" /\ scanned' = FALSE
    BY <1>4 DEF Silence, Elapse, Idle
  <2> QED
    BY <2>1 DEF ScanInv
<1>5. ASSUME NEW p \in Persister, Process(p), p # "beat" PROVE ScanInv'
  <2>1. jobs'["beat"] = jobs["beat"] /\ scanned' = scanned /\ history' = history
    BY <1>1, <1>5, <1>5 DEF Process, Detect, ReadOpen, Store, GoOn, TypeInv
  <2> QED
    BY <1>5, <2>1, ProcessKeeps, ScanKept
<1>6. ASSUME NEW r \in rows, Acknowledge(r) PROVE ScanInv'
  BY <1>6, AcknowledgeKeeps, ScanKept DEF Acknowledge
<1>7. CASE Crash
  <2>1. jobs'["beat"].step = "idle" /\ Findings' = Findings
    BY <1>1, <1>7 DEF Crash, Idle, Findings
  <2> QED
    BY <1>7, <2>1 DEF Crash, ScanInv
<1>8. ASSUME NEW a \in Fix, StartWatch(a) PROVE ScanInv'
  BY <1>8, ScanKept DEF StartWatch, Kept
<1>9. CASE Judge
  BY <1>9, JudgeKeeps, ScanKept DEF Judge
<1> QED
  BY <1>2, <1>3, <1>4, <1>5, <1>6, <1>7, <1>8, <1>9, ScanBeat DEF Next

LEMMA ScansHold == Spec => []ScanInv
BY TypesHold, ScanInit, ScanStep, PTL DEF Spec

\* A watch ends well only by Judge.
LEMMA PassIsByJudge ==
    ASSUME TypeInv, [Next]_vars, watch.phase = "open", watch'.phase = "passed" PROVE Judge
<1>1. watch \in Watches
  BY DEF TypeInv
<1>2. CASE UNCHANGED watch
  BY <1>2
<1>3. ASSUME NEW c \in Condition, Heartbeat(c) PROVE FALSE
  <2>1. watch'.phase = "open"
    BY <1>1, <1>3 DEF Heartbeat, Watches
  <2> QED
    BY <2>1
<1>4. ASSUME NEW a \in Fix, StartWatch(a) PROVE FALSE
  BY <1>4 DEF StartWatch
<1> QED
  BY <1>2, <1>3, <1>4
     DEF Next, Silence, Process, Detect, ReadOpen, Store, GoOn, Acknowledge, Crash, vars

\* A fix is not passed while the newest samples show what its watch is for,
\* however requests, sweeps, acknowledgements and restarts interleave, except
\* where a row from before the watch hides the new anomaly.
THEOREM RecurrencesRefute == Spec => RecurrenceRefutes
<1>1. TypeInv /\ ScanInv /\ [Next]_vars =>
        [watch.phase = "open" /\ watch'.phase = "passed" /\ scanned
           => \A k \in Watched \intersect Findings :
                  \E r \in rows : r.kind = k /\ ~r.since /\ r.age <= Suppress]_vars
  <2> SUFFICES ASSUME TypeInv, ScanInv, [Next]_vars,
                      watch.phase = "open", watch'.phase = "passed", scanned,
                      NEW k \in Watched \intersect Findings
               PROVE  \E r \in rows : r.kind = k /\ ~r.since /\ r.age <= Suppress
    OBVIOUS
  <2>1. PICK r \in rows : r.kind = k /\ r.age <= Suppress
    BY DEF ScanInv, OnRecord
  <2>2. Judge
    BY PassIsByJudge
  <2>3. ~Refuted
    BY <2>2 DEF Judge
  <2>4. ~r.since
    BY <2>3, Zenon DEF Refuted
  <2> QED
    BY <2>1, <2>4
<1> QED
  BY <1>1, TypesHold, ScansHold, PTL DEF Spec, RecurrenceRefutes

(***************************************************************************)
(* The detector as committed                                               *)
(***************************************************************************)

\* With enough samples detect raises, and with fewer it finds nothing.
LEMMA NoFindings == ASSUME SlopeRaises, TypeInv PROVE Raised \/ Findings = {}
<1> DEFINE H == [1..Window -> Samples \union {NoSample}]
           D(h) == IF Cardinality(Heard(h)) < MinSamples THEN {} ELSE {k \in Kind : Detected(h, k)}
<1>1. history \in H
  BY HistoryIsFunction
<1>2. detect = [h \in H |-> D(h)]
  BY DEF detect, Samples
<1>3. IsFiniteSet(Heard(history)) /\ Cardinality(Heard(history)) \in Nat
  <2>1. IsFiniteSet(1..Window)
    BY FS_Interval, Bounds
  <2> QED
    BY <2>1, FS_Subset, FS_CardinalityType DEF Heard
<1>4. CASE Cardinality(Heard(history)) < MinSamples
  <2>1. D(history) = {}
    BY <1>4
  <2> HIDE DEF H, D
  <2> QED
    BY <1>1, <1>2, <2>1 DEF Findings
<1>5. CASE ~(Cardinality(Heard(history)) < MinSamples)
  BY <1>3, <1>5, Bounds DEF Raised
<1> QED
  BY <1>4, <1>5

LEMMA NothingGoesOn ==
    ASSUME TypeInv, NothingFound, NEW p \in Persister, NEW step, GoOn(p, step, {})
    PROVE  \A q \in Persister : jobs'[q].found = {}
BY DEF GoOn, NothingFound, TypeInv, Idle

LEMMA NothingFoundStep ==
    ASSUME SlopeRaises, TypeInv, NothingFound, [Next]_vars PROVE NothingFound'
<1>1. ASSUME NEW c \in Condition, Heartbeat(c) PROVE NothingFound'
  <2>1. Aged({}) = {}
    BY DEF Aged
  <2>2. jobs' = [jobs EXCEPT !["beat"].step = "stored"] /\ rows' = {}
    BY <1>1, <2>1 DEF Heartbeat, Elapse, NothingFound
  <2> QED
    BY <2>2 DEF NothingFound, TypeInv, Job
<1>2. CASE Silence
  BY <1>2 DEF Silence, Elapse, Aged, NothingFound
<1>3. ASSUME NEW p \in Persister, Process(p) PROVE NothingFound'
  <2>1. CASE Detect(p)
    <3>1. GoOn(p, "detected", {}) /\ rows' = {}
      BY <2>1, NoFindings DEF Detect, NothingFound
    <3> QED
      BY <3>1, NothingGoesOn DEF NothingFound
  <2>2. CASE ReadOpen(p)
    <3>1. GoOn(p, "adding", {}) /\ rows' = {}
      BY <2>2 DEF ReadOpen, Fresh, NothingFound
    <3> QED
      BY <3>1, NothingGoesOn DEF NothingFound
  <2>3. CASE Store(p)
    <3>1. GoOn(p, "idle", {}) /\ rows' = {}
      BY <2>3 DEF Store, NothingFound
    <3> QED
      BY <3>1, NothingGoesOn DEF NothingFound
  <2> QED
    BY <1>3, <2>1, <2>2, <2>3 DEF Process
<1>4. ASSUME NEW r \in rows, Acknowledge(r) PROVE NothingFound'
  BY DEF NothingFound
<1>5. CASE Crash
  BY <1>5 DEF Crash, Idle, NothingFound
<1>6. ASSUME NEW a \in Fix, StartWatch(a) PROVE NothingFound'
  BY <1>6 DEF StartWatch, NothingFound
<1>7. CASE Judge
  BY <1>7 DEF Judge, NothingFound
<1>8. CASE UNCHANGED vars
  BY <1>8 DEF vars, NothingFound
<1> QED
  BY <1>1, <1>2, <1>3, <1>4, <1>5, <1>6, <1>7, <1>8 DEF Next

\* With line 46 as committed no anomaly is ever put on record, whatever the
\* samples show and however heartbeats, sweeps and restarts interleave: what
\* the watch of a fix reads of the anomalies is always empty.
THEOREM NothingIsRecorded == ASSUME SlopeRaises PROVE Spec => [](rows = {})
<1>1. Init => NothingFound
  BY DEF Init, NothingFound, Idle
<1>2. TypeInv /\ NothingFound /\ [Next]_vars => NothingFound'
  BY NothingFoundStep
<1>3. NothingFound => rows = {}
  BY DEF NothingFound
<1> QED
  BY <1>1, <1>2, <1>3, TypesHold, PTL DEF Spec
=============================================================================
