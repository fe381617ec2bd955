------------------------------- MODULE Telemetry -------------------------------
(***************************************************************************)
(* From the counters of a container to the verdict on a fix: the agent     *)
(* reads them and posts a heartbeat, the control plane stores a sample,    *)
(* looks for anomalies in the samples of the last hours and records those  *)
(* that are not on record yet, a sweep of the workers does the same, and   *)
(* the watch of a fix reads the records (collectors.py, main.py,           *)
(* observability/anomaly.py, remediation/verify.py).                       *)
(*                                                                         *)
(* One deployment whose container has a memory limit or is gone.  Time is  *)
(* counted in heartbeats; what is older than a bound is forgotten.  The    *)
(* agent sends no HTTP counters (main.py:60-72), so the two anomalies that *)
(* rest on them do not occur.                                              *)
(***************************************************************************)
EXTENDS ActionCatalog, SequencesExt, FiniteSetsExt

CONSTANTS
    Condition,      \* states of the container and the host's disk
    Fix,            \* actions that are approved and watched
    NoSample,       \* a heartbeat that did not come
    SlopeRaises,    \* TRUE as committed: _slope_per_hour raises a TypeError
    Window,         \* heartbeats whose samples detect reads, 180 minutes
    MinSamples,     \* MIN_SAMPLES
    Long, Pinned,   \* samples needed to call the CPU saturated, and how many are looked at
    PerHour,        \* heartbeats in an hour
    Suppress        \* heartbeats for which an open anomaly suppresses its kind

ASSUME TelemetryAssumption ==
    /\ Condition \subseteq [state : {"running", "restarting", "exited"}, restarts : Nat,
                            cpu : Nat, mem : Nat, limit : Nat \ {0}, disk : 0..100]
    /\ Fix \subseteq {a \in Action : SpecFor(a).watch # {}}
    /\ SlopeRaises \in BOOLEAN
    /\ MinSamples \in 3..Window /\ {Window, Long, PerHour, Suppress} \subseteq Nat
    /\ Pinned \in 1..Long

VARIABLES
    history,    \* the sample of each of the last heartbeats, if it came
    latest,     \* the restarts in the newest sample ever, if there is one
    rows,       \* Anomaly rows
    jobs,       \* the heartbeat's request and the workers' sweep
    scanned,    \* ghost: the newest sample has been looked at
    watch       \* the verification of the last fix

vars == <<history, latest, rows, jobs, scanned, watch>>

Persister == {"beat", "sweep"}
Kind == {"memory_leak_trend", "memory_ceiling", "cpu_spike", "cpu_saturation",
         "restart_loop", "disk_pressure"}
Idle == [step |-> "idle", found |-> {}]
NoWatch == [phase |-> "none"]

Init ==
    /\ history = [i \in 1..Window |-> NoSample]
    /\ latest = NoSample
    /\ rows = {}
    /\ jobs = [p \in Persister |-> Idle]
    /\ scanned = FALSE
    /\ watch = NoWatch

-----------------------------------------------------------------------------
(* The agent *)

\* docker stats and docker inspect are asked of running containers only, and
\* of restarting ones for the restarts; the others report zeros.
Sampled(c) ==
    [cpu |-> IF c.state = "running" THEN c.cpu ELSE 0,
     mem |-> IF c.state = "running" THEN c.mem ELSE 0,
     limit |-> IF c.state = "running" THEN c.limit ELSE 0,
     restarts |-> IF c.state = "exited" THEN 0 ELSE c.restarts,
     disk |-> c.disk]

\* Mutant: nothing is forgotten.
AgedForEver(R) == {[r EXCEPT !.age = @ + 1] : r \in R}

\* A row is of interest while it suppresses its kind or refutes a fix.
Aged(R) ==
    {[r EXCEPT !.age = @ + 1] : r \in {q \in R : q.open /\ q.age < Suppress}}
    \union {[r EXCEPT !.age = Suppress + 1, !.open = FALSE] :
                r \in {q \in R : q.since /\ ~(q.open /\ q.age < Suppress)}}

Elapse(sample) ==
    /\ jobs["beat"] = Idle
    /\ history' = Append(Tail(history), sample)
    /\ rows' = Aged(rows)
    /\ scanned' = FALSE

\* The sample is committed before anything is detected in it.
Heartbeat(c) ==
    /\ Elapse(Sampled(c))
    /\ latest' = Sampled(c).restarts
    /\ jobs' = [jobs EXCEPT !["beat"].step = "stored"]
    /\ watch' = IF watch.phase = "open" THEN [watch EXCEPT !.heard = TRUE] ELSE watch

\* A heartbeat that is not sent or not received is not sent again.
Silence ==
    /\ Elapse(NoSample)
    /\ UNCHANGED <<latest, jobs, watch>>

-----------------------------------------------------------------------------
(* anomaly.detect *)

Heard(h) == {i \in 1..Window : h[i] # NoSample}
Newest(h) == h[Max(Heard(h))]
Oldest(h) == h[Min(Heard(h))]

\* Numerator and denominator of the least-squares slope of v per heartbeat.
Total(Op(_), v) == MapThenSumSet(Op, DOMAIN v)
Rise(v) == Cardinality(DOMAIN v) * Total(LAMBDA i : i * v[i], v)
           - Total(LAMBDA i : i, v) * Total(LAMBDA i : v[i], v)
Run(v) == Cardinality(DOMAIN v) * Total(LAMBDA i : i * i, v) - Total(LAMBDA i : i, v) ^ 2

\* The values of the samples in order, and twice the median of a sequence.
Series(v) == LET order == SetToSortSeq(DOMAIN v, <)
             IN [n \in DOMAIN order |-> v[order[n]]]
TwiceMedian(s) == LET t == SortSeq(s, <)
                      n == Len(s)
                  IN t[(n + 1) \div 2] + t[n \div 2 + 1]
Distance(a, b) == IF a < b THEN b - a ELSE a - b

\* The robust z-score of the last value exceeds z, which is 3 or more.  If the
\* median deviation is zero, the scale is a third of the largest deviation and
\* no score exceeds 3.
Exceeds(s, z) ==
    LET double == TwiceMedian(s)
        deviation == TwiceMedian([n \in DOMAIN s |-> Distance(2 * s[n], double)])
    IN deviation > 0 /\ 20000 * (2 * Last(s) - double) > 14826 * z * deviation

Mem(h) == [i \in Heard(h) |-> h[i].mem]
Cpu(h) == Series([i \in Heard(h) |-> h[i].cpu])
Limit(h) == Max({h[i].limit : i \in Heard(h)})
Growing(h) == /\ Rise(Mem(h)) * PerHour > 5 * Run(Mem(h))
              /\ 100 * Newest(h).mem > 50 * Limit(h)
Soon(h) == (Limit(h) - Newest(h).mem) * Run(Mem(h)) < 24 * PerHour * Rise(Mem(h))

Detected(h, k) ==
    \/ k = "memory_leak_trend" /\ Limit(h) > 0 /\ Growing(h) /\ Soon(h)
    \/ k = "memory_ceiling" /\ Limit(h) > 0 /\ ~Growing(h) /\ 100 * Newest(h).mem > 92 * Limit(h)
    \/ k = "cpu_spike" /\ Newest(h).cpu > 70 /\ Exceeds(Cpu(h), 4)
    \/ k = "cpu_saturation" /\ Len(Cpu(h)) >= Long
       /\ \A n \in Len(Cpu(h)) - Pinned + 1 .. Len(Cpu(h)) : Cpu(h)[n] > 85
    \/ k = "restart_loop" /\ Newest(h).restarts - Oldest(h).restarts >= 3
    \/ k = "disk_pressure" /\ Newest(h).disk > 85

\* What detect finds is a function of the samples alone.
detect == [h \in [1..Window -> {Sampled(c) : c \in Condition} \union {NoSample}] |->
              IF Cardinality(Heard(h)) < MinSamples THEN {} ELSE {k \in Kind : Detected(h, k)}]

Findings == detect[history]

\* Line 46 subtracts a number from a pair; both callers log the exception.
Raised == SlopeRaises /\ Cardinality(Heard(history)) >= MinSamples

-----------------------------------------------------------------------------
(* Requests and sweeps *)

Watched == SpecFor(watch.fix).watch

Watching(k) == watch.phase = "open" /\ k \in Watched

\* Mutant: whatever is on record suppresses its kind, however old.
SuppressesAlways(r) == TRUE

\* The kinds that persist finds on record: recent and not acknowledged.
Suppresses(r) == r.open /\ r.age <= Suppress

Fresh(found) == {k \in found : ~\E r \in rows : r.kind = k /\ Suppresses(r)}

\* A job goes on, or ends; the end of the heartbeat's is the end of the scan.
GoOn(p, step, found) ==
    /\ jobs' = [jobs EXCEPT ![p] = IF found = {} THEN Idle ELSE [step |-> step, found |-> found]]
    /\ scanned' = (scanned \/ (p = "beat" /\ found = {} /\ ~Raised))
    /\ UNCHANGED <<history, latest, watch>>

\* The heartbeat's request goes on to detect, the sweep starts with it.
Detect(p) ==
    /\ jobs[p].step = IF p = "beat" THEN "stored" ELSE "idle"
    /\ GoOn(p, "detected", IF Raised THEN {} ELSE Findings)
    /\ UNCHANGED rows

ReadOpen(p) ==
    /\ jobs[p].step = "detected"
    /\ GoOn(p, "adding", Fresh(jobs[p].found))
    /\ UNCHANGED rows

Store(p) ==
    /\ jobs[p].step = "adding"
    /\ rows' = rows \union {[kind |-> k, age |-> 0, open |-> TRUE, since |-> Watching(k)] :
                              k \in jobs[p].found}
    /\ GoOn(p, "idle", {})

\* acknowledge: a user takes note of an anomaly.
Acknowledge(r) ==
    /\ r.open
    /\ rows' = (rows \ {r}) \union {[r EXCEPT !.open = FALSE]}
    /\ UNCHANGED <<history, latest, jobs, scanned, watch>>

\* The control plane restarts; nobody repeats what it was doing.
Crash ==
    /\ jobs' = [p \in Persister |-> Idle]
    /\ UNCHANGED <<history, latest, rows, scanned, watch>>

-----------------------------------------------------------------------------
(* The watch of a fix *)

RestartSensitive == {"restart_container", "recreate_container", "rollback_deployment", "set_env_var"}

\* start_verification notes the restarts it finds.
StartWatch(a) ==
    /\ watch.phase # "open"
    /\ watch' = [phase |-> "open", fix |-> a,
                 baseline |-> IF a \in RestartSensitive THEN latest ELSE NoSample,
                 heard |-> FALSE]
    /\ UNCHANGED <<history, latest, rows, jobs, scanned>>


\* Mutant: an anomaly that a user has acknowledged does not count.
RefutedUnlessAcknowledged == \E r \in rows : r.since /\ r.open

\* A watched anomaly detected since, or restarts beyond the baseline.
Refuted ==
    \/ \E r \in rows : r.since
    \/ /\ watch.fix \in RestartSensitive
       /\ latest # NoSample /\ watch.baseline # NoSample
       /\ latest > watch.baseline + 1

\* _evaluate_one when the window is over or the check is forced.
Judge ==
    /\ watch.phase = "open"
    /\ Refuted \/ watch.heard
    /\ watch' = [phase |-> IF Refuted THEN "failed" ELSE "passed"]
    /\ rows' = {[r EXCEPT !.since = FALSE] : r \in {q \in rows : q.age <= Suppress}}
    /\ UNCHANGED <<history, latest, jobs, scanned>>

-----------------------------------------------------------------------------
Process(p) == Detect(p) \/ ReadOpen(p) \/ Store(p)

Next ==
    \/ \E c \in Condition : Heartbeat(c)
    \/ Silence
    \/ \E p \in Persister : Process(p)
    \/ \E r \in rows : Acknowledge(r)
    \/ Crash
    \/ \E a \in Fix : StartWatch(a)
    \/ Judge

Spec == Init /\ [][Next]_vars

-----------------------------------------------------------------------------
\* Samples, rows, jobs and the watch have their types.
TypeOK ==
    /\ DOMAIN history = 1..Window
    /\ \A i \in Heard(history) : history[i] \in {Sampled(c) : c \in Condition}
    /\ latest \in Nat \union {NoSample}
    /\ rows \subseteq [kind : Kind, age : 0..Suppress + 1, open : BOOLEAN, since : BOOLEAN]
    /\ \A p \in Persister : /\ jobs[p].step \in {"idle", "stored", "detected", "adding"}
                           /\ jobs[p].found \subseteq Kind
    /\ watch.phase \in {"none", "open", "passed", "failed"}
    /\ scanned \in BOOLEAN

\* "Detect what is about to break, before it does" (anomaly.py:1): when the
\* request of a heartbeat ends by itself, what the stored samples show is on
\* record, by this request or by another one before it.
ProblemIsRecorded ==
    [][jobs["beat"] # Idle /\ jobs'["beat"] = Idle /\ Process("beat")
        => \A k \in Findings : \E r \in rows' : r.kind = k /\ r.age <= Suppress]_vars

\* A fix is not passed while the newest samples show what its watch is for,
\* except where an anomaly of that kind was on record when the watch began
\* and hides the new one (anomaly.py:234-244, verify.py:243-252).
RecurrenceRefutes ==
    [][watch.phase = "open" /\ watch'.phase = "passed" /\ scanned
        => \A k \in Watched \intersect Findings :
               \E r \in rows : r.kind = k /\ ~r.since /\ r.age <= Suppress]_vars

-----------------------------------------------------------------------------
(* Inductive strengthenings, used by TelemetryProofs *)

Samples == {Sampled(c) : c \in Condition}
Rows == [kind : Kind, age : 0..Suppress + 1, open : BOOLEAN, since : BOOLEAN]
Job == [step : {"idle", "stored", "detected", "adding"}, found : SUBSET Kind]
Watches == [phase : {"none", "passed", "failed"}]
           \union [phase : {"open"}, fix : Fix, baseline : Nat \union {NoSample}, heard : BOOLEAN]

TypeInv ==
    /\ history \in Seq(Samples \union {NoSample}) /\ Len(history) = Window
    /\ latest \in Nat \union {NoSample}
    /\ rows \subseteq Rows
    /\ jobs \in [Persister -> Job]
    /\ watch \in Watches
    /\ scanned \in BOOLEAN

OnRecord(k, R) == \E r \in R : r.kind = k /\ r.age <= Suppress

\* The samples do not change under the request of a heartbeat: what it has
\* found is what they show, what it does not add is on record already, and so
\* is all of it once the newest sample has been looked at.
ScanInv ==
    /\ jobs["beat"].step = "detected" => jobs["beat"].found = Findings
    /\ jobs["beat"].step = "adding" =>
         \A k \in Findings : k \in jobs["beat"].found \/ OnRecord(k, rows)
    /\ scanned => \A k \in Findings : OnRecord(k, rows)

\* No anomaly is on record, and no job is about to add one.
NothingFound ==
    /\ rows = {}
    /\ \A p \in Persister : jobs[p].found = {}
=============================================================================
