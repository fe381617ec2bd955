--------------------------- MODULE DeploymentProofs ---------------------------
(***************************************************************************)
(* Proofs about Deployments for any number of jobs, deliveries and         *)
(* mishaps, and for every workflow.                                        *)
(***************************************************************************)
EXTENDS Deployments, FiniteSetTheorems, SequenceTheorems, WellFoundedInduction, TLAPS

(***************************************************************************)
(* The greatest of some numbers, and sequences with one element changed    *)
(***************************************************************************)
LEMMA LatestIsGreatest ==
    ASSUME NEW n \in Nat, NEW S \in SUBSET (1..n), S # {}
    PROVE  Latest(S) \in S /\ \A j \in S : j <= Latest(S)
<1> DEFINE R == OpToRel(<, Nat)
           D == {n - x : x \in S}
<1>1. \A x, y \in Nat : y < x => <<y, x>> \in R
  BY DEF OpToRel
<1>2. IsWellFoundedOn(R, Nat)
  BY NatLessThanWellFounded DEF OpToRel
<1>3. D \subseteq Nat /\ D # {}
  <2>1. \A x \in S : n - x \in Nat
    OBVIOUS
  <2> QED
    BY <2>1
<1> HIDE DEF R, D
<1>4. PICK d \in D : \A y \in D : <<y, d>> \notin R
  BY <1>2, <1>3, WFMin
<1>5. PICK x \in S : d = n - x
  BY <1>4 DEF D
<1>6. ASSUME NEW y \in S PROVE y <= x
  <2>1. n - y \in D /\ n - y \in Nat /\ n - x \in Nat /\ x \in Nat /\ y \in Nat
    BY DEF D
  <2>2. ~(n - y < n - x)
    BY <1>1, <1>4, <1>5, <2>1
  <2> QED
    BY <2>1, <2>2
<1> QED
  BY <1>6 DEF Latest

LEMMA LatestType ==
    ASSUME NEW n \in Nat, NEW S \in SUBSET (1..n)
    PROVE  /\ Latest(S) \in {None} \cup S
           /\ Latest(S) = None <=> S = {}
<1>1. CASE S = {}
  BY <1>1 DEF Latest
<1>2. CASE S # {}
  <2>1. Latest(S) \in S
    BY <1>2, LatestIsGreatest
  <2>2. Latest(S) # 0
    BY <2>1
  <2> QED
    BY <1>2, <2>1, <2>2 DEF None
<1> QED
  BY <1>1, <1>2

LEMMA ChangeOne ==
    ASSUME NEW T, NEW s \in Seq(T), NEW i \in 1..Len(s), NEW v \in T
    PROVE  /\ [s EXCEPT ![i] = v] \in Seq(T)
           /\ Len([s EXCEPT ![i] = v]) = Len(s)
OBVIOUS

LEMMA AddOne ==
    ASSUME NEW T, NEW s \in Seq(T), NEW v \in T
    PROVE  /\ Append(s, v) \in Seq(T) /\ Len(Append(s, v)) = Len(s) + 1
           /\ Append(s, v)[Len(s) + 1] = v
           /\ \A i \in 1..Len(s) : Append(s, v)[i] = s[i]
OBVIOUS

(***************************************************************************)
(* Types                                                                   *)
(***************************************************************************)
Rollback == {"not_attempted", "succeeded", "failed"}
Status == {"building", "running", "failed"}
Exception == {"rerun", "fix", "ask", "finish", "verdict", "jobs"}
RowType == [run : Attempt \cup {Other}, status : Status,
            image : {None} \cup Attempt, port : {"assigned", "none"},
            rollback : Rollback, logs : BOOLEAN, diagnosed : BOOLEAN]
JobType == [run : {None} \cup Attempt, row : Nat,
            step : {"idle", "checkout", "register", "build", "clear", "run", "health",
                    "ship", "undo", "restore", "report"},
            status : {"success", "failure", "cancelled"}, rollback : Rollback]
HookType == [run : Attempt, ok : BOOLEAN]
WriterType == [nr : 1..MaxEvents, run : Attempt \cup {Other},
               verdict : {"running", "failed"}, row : Nat, seen : Status]
AppType == [build : {None} \cup Attempt, port : {"none", "assigned", "random"}]

JobOK == ci \in JobType /\ ci.row \in {None} \cup 1..Len(rows)
ServerOK == built \in [Attempt -> {None} \cup Attempt] /\ live \in AppType
QueuesOK ==
    /\ hooks \subseteq HookType
    /\ writers \subseteq WriterType /\ \A w \in writers : w.row \in {None} \cup 1..Len(rows)
    /\ jobs \subseteq [row : 1..Len(rows), from : {"finish", "hook"}]
PassedOK == passed \subseteq Attempt \X Attempt
BoundsOK ==
    /\ flow \in Flow
    /\ attempts \in 0..MaxAttempts /\ events \in 0..MaxEvents
    /\ history \subseteq Exception

Types == rows \in Seq(RowType) /\ JobOK /\ ServerOK /\ PassedOK /\ QueuesOK /\ BoundsOK

\* A job under way has a run and an attempt.
JobRuns == ci.step # "idle" => ci.run # None /\ attempts > 0

TypeInv == Types /\ JobRuns

LEMMA RowsAreRows ==
    ASSUME Types PROVE /\ Len(rows) \in Nat /\ DOMAIN rows = 1..Len(rows)
                       /\ \A i \in 1..Len(rows) : rows[i] \in RowType
BY DEF Types

LEMMA TypesImply == Types => TypeOK
<1> SUFFICES ASSUME Types PROVE TypeOK
  OBVIOUS
<1>1. Len(rows) \in Nat /\ DOMAIN rows = 1..Len(rows)
  BY RowsAreRows
<1>2. rows \in Seq(RowType) /\ RowType = [run : Attempt \cup {Other},
             status : {"building", "running", "failed"},
             image : {None} \cup Attempt, port : {"assigned", "none"},
             rollback : {"not_attempted", "succeeded", "failed"},
             logs : BOOLEAN, diagnosed : BOOLEAN]
  BY DEF Types, RowType, Rollback, Status
<1>3. ci \in [run : {None} \cup Attempt, row : {None} \cup DOMAIN rows,
              step : {"idle", "checkout", "register", "build", "clear", "run", "health",
                      "ship", "undo", "restore", "report"},
              status : {"success", "failure", "cancelled"},
              rollback : {"not_attempted", "succeeded", "failed"}]
  BY <1>1 DEF Types, JobOK, JobType, Rollback
<1>4. writers \subseteq [nr : 1..MaxEvents, run : Attempt \cup {Other},
                         verdict : {"running", "failed"}, row : {None} \cup DOMAIN rows,
                         seen : {"building", "running", "failed"}]
  <2> SUFFICES ASSUME NEW w \in writers
               PROVE  w \in [nr : 1..MaxEvents, run : Attempt \cup {Other},
                         verdict : {"running", "failed"}, row : {None} \cup DOMAIN rows,
                         seen : {"building", "running", "failed"}]
    OBVIOUS
  <2>1. w \in WriterType /\ w.row \in {None} \cup DOMAIN rows
    BY <1>1 DEF Types, QueuesOK
  <2> QED
    BY <2>1 DEF WriterType, Status
<1>5. flow \in Flow /\ jobs \subseteq [row : DOMAIN rows, from : {"finish", "hook"}]
  BY <1>1 DEF Types, BoundsOK, QueuesOK
<1>6. /\ built \in [Attempt -> {None} \cup Attempt]
      /\ live \in [build : {None} \cup Attempt, port : {"none", "assigned", "random"}]
      /\ passed \subseteq Attempt \X Attempt
      /\ hooks \subseteq [run : Attempt, ok : BOOLEAN]
      /\ attempts \in 0..MaxAttempts /\ events \in 0..MaxEvents
      /\ history \subseteq {"rerun", "fix", "ask", "finish", "verdict", "jobs"}
  BY DEF Types, ServerOK, AppType, PassedOK, QueuesOK, HookType, BoundsOK, Exception
<1> QED
  BY ONLY <1>2, <1>3, <1>4, <1>5, <1>6 DEF TypeOK

LEMMA TypeInit == Init => TypeInv
<1> SUFFICES ASSUME Init PROVE TypeInv
  OBVIOUS
<1>1. rows \in Seq(RowType) /\ Len(rows) = 0
  BY DEF Init
<1>2. ci \in JobType /\ ci.row = None /\ ci.step = "idle"
  BY DEF Init, Idle, JobType, Rollback, None
<1>3. ServerOK
  BY DEF Init, ServerOK, NoApp, AppType
<1>4. QueuesOK /\ PassedOK
  BY DEF Init, QueuesOK, PassedOK
<1>5. BoundsOK
  <2>1. attempts \in 0..MaxAttempts /\ events \in 0..MaxEvents
    BY DeploymentsAssumption DEF Init
  <2> QED
    BY <2>1, Zenon DEF Init, BoundsOK
<1> QED
  BY <1>1, <1>2, <1>3, <1>4, <1>5 DEF TypeInv, JobRuns, Types, JobOK

LEMMA NewRowType ==
    ASSUME NEW run \in Attempt \cup {Other}, NEW status \in Status,
           NEW port \in {"assigned", "none"}
    PROVE  Row(run, status, port) \in RowType
BY DEF Row, RowType, Rollback, None

\* The job goes on without touching the rows.
LEMMA FailType == ASSUME Types, Fail PROVE ci' \in JobType /\ ci'.row = ci.row
BY DEF Types, JobOK, JobType, Fail

LEMMA GoType ==
    ASSUME Types, NEW s \in {"idle", "register", "build", "clear", "run", "health", "ship",
                             "undo", "restore", "report"}, Go(s)
    PROVE  ci' \in JobType /\ ci'.row = ci.row
BY DEF Types, JobOK, JobType, Go

LEMMA PortType == ASSUME Types PROVE Port \in {"none", "assigned", "random"}
<1>1. ci.row # None => rows[ci.row] \in RowType
  BY RowsAreRows DEF Types, JobOK
<1> QED
  BY <1>1 DEF Port, RowType

LEMMA SameBounds ==
    ASSUME Types, UNCHANGED <<flow, bounds, history>> PROVE BoundsOK'
BY DEF Types, BoundsOK, bounds

LEMMA EventType ==
    ASSUME Types, Event, flow' = flow,
           history' = history \/ \E call \in Exception : history' = history \cup {call}
    PROVE  BoundsOK' /\ events' \in 1..MaxEvents
BY DeploymentsAssumption DEF Types, BoundsOK, Event

LEMMA TriggerTypes == ASSUME Types, Trigger PROVE Types'
<1>1. PICK run \in {attempts + 1, ci.run} \ {None} :
        /\ ci' = [Idle EXCEPT !.run = run, !.step = "checkout"]
        /\ history' = IF run = ci.run THEN history \cup {"rerun"} ELSE history
  BY DEF Trigger
<1>2. attempts' = attempts + 1 /\ attempts + 1 \in Attempt /\ attempts + 1 \in 0..MaxAttempts
  BY DeploymentsAssumption DEF Trigger, Types, BoundsOK, Attempt
<1>3. run \in Attempt
  BY <1>1, <1>2 DEF Types, JobOK, JobType
<1>4. ci' \in JobType /\ ci'.row = None
  BY <1>1, <1>3 DEF Idle, JobType, Rollback, None
<1>5. BoundsOK'
  BY <1>1, <1>2 DEF Trigger, Types, BoundsOK, Exception
<1>6. UNCHANGED <<rows, built, live, passed, hooks, writers, jobs>>
  BY DEF Trigger, server
<1> QED
  BY <1>4, <1>5, <1>6 DEF Types, JobOK, ServerOK, PassedOK, QueuesOK

LEMMA CheckoutTypes == ASSUME Types, Checkout PROVE Types'
<1>1. ci' \in JobType /\ ci'.row = ci.row
  BY FailType, GoType DEF Checkout
<1> QED
  BY <1>1, SameBounds DEF Checkout, server, Types, JobOK, ServerOK, PassedOK, QueuesOK

\* A step that adds a row.
LEMMA AppendTypes ==
    ASSUME Types, NEW r \in RowType, rows' = Append(rows, r),
           ci' \in JobType, ci'.row \in {ci.row, Len(rows) + 1},
           UNCHANGED <<built, live, passed, hooks>>, writers' \subseteq writers,
           jobs' \subseteq jobs \cup [row : 1..Len(rows) + 1, from : {"finish", "hook"}],
           BoundsOK'
    PROVE  Types'
<1>1. rows' \in Seq(RowType) /\ Len(rows') = Len(rows) + 1 /\ Len(rows) \in Nat
  BY AddOne, LenProperties DEF Types
<1>2. 1..Len(rows) \subseteq 1..Len(rows')
  BY <1>1
<1>3. JobOK'
  BY <1>1, <1>2 DEF Types, JobOK
<1>4. QueuesOK'
  BY <1>1, <1>2 DEF Types, QueuesOK
<1> QED
  BY <1>1, <1>3, <1>4 DEF Types, ServerOK, PassedOK

\* What the register call can do to the rows and the job.
LEMMA RegisterIs ==
    ASSUME Types, JobRuns, Register
    PROVE  /\ UNCHANGED <<flow, built, live, passed, hooks, writers, jobs, bounds, history>>
           /\ ci.run \in Attempt /\ ci.step = "register"
           /\ \/ /\ rows' = Registered
                 /\ \/ flow # "reusable" /\ ci' = [ci EXCEPT !.row = Len(rows) + 1, !.step = "build"]
                    \/ Fail \/ Go("build")
              \/ /\ rows' = Append(rows, Row(ci.run, "failed", "none")) /\ (Fail \/ Go("build"))
              \/ rows' = rows /\ (Fail \/ Go("build"))
<1>1. ci.run \in Attempt
  BY DEF Register, JobRuns, Types, JobOK, JobType
<1> QED
  BY <1>1 DEF Register, server

LEMMA RegisterTypes == ASSUME Types, JobRuns, Register PROVE Types'
<1>1. /\ UNCHANGED <<flow, built, live, passed, hooks, writers, jobs, bounds, history>>
      /\ ci.run \in Attempt
  BY RegisterIs
<1>2. BoundsOK'
  BY <1>1, SameBounds
<1>3. ASSUME NEW r \in RowType, rows' = Append(rows, r),
             ci' \in JobType, ci'.row \in {ci.row, Len(rows) + 1}
      PROVE  Types'
  BY <1>1, <1>2, <1>3, AppendTypes
<1>4. ci' = [ci EXCEPT !.row = Len(rows) + 1, !.step = "build"]
        => ci' \in JobType /\ ci'.row = Len(rows) + 1
  <2>1. Len(rows) + 1 \in Nat
    BY RowsAreRows
  <2> QED
    BY <2>1 DEF Types, JobOK, JobType
<1>5. Fail \/ Go("build") => ci' \in JobType /\ ci'.row = ci.row
  BY FailType, GoType
<1>6. /\ Row(ci.run, "building", "assigned") \in RowType
      /\ Row(ci.run, "failed", "none") \in RowType
  BY <1>1, NewRowType DEF Status
<1>7. CASE rows' = rows /\ (Fail \/ Go("build"))
  BY <1>1, <1>2, <1>5, <1>7 DEF Types, JobOK, ServerOK, PassedOK, QueuesOK
<1> QED
  BY <1>3, <1>4, <1>5, <1>6, <1>7, RegisterIs DEF Registered

\* A step of the job that touches the server only.
LEMMA ServerStepTypes ==
    ASSUME Types, ci' \in JobType, ci'.row = ci.row, ServerOK', BoundsOK', PassedOK',
           UNCHANGED <<rows, hooks, writers, jobs>>
    PROVE  Types'
BY DEF Types, JobOK, QueuesOK

LEMMA BuildRunTypes ==
    ASSUME Types, JobRuns, Build \/ Clear \/ Run \/ Undo PROVE Types'
<1>1. NoApp \in AppType
  BY DEF NoApp, AppType
<1>2. ci.step # "idle" => ci.run \in Attempt /\ attempts \in Attempt
  BY DeploymentsAssumption DEF JobRuns, Types, JobOK, JobType, BoundsOK, Attempt
<1>3. BoundsOK'
  BY SameBounds DEF Build, Clear, Run, Undo
<1>4. CASE Build
  <2>1. ServerOK'
    BY <1>2, <1>4 DEF Build, Types, ServerOK
  <2>2. ci' \in JobType /\ ci'.row = ci.row
    BY <1>4, FailType, GoType DEF Build
  <2> QED
    BY <1>3, <1>4, <2>1, <2>2, ServerStepTypes DEF Build, Types, PassedOK
<1>5. CASE Clear \/ Undo
  <2>1. ServerOK'
    BY <1>1, <1>5 DEF Clear, Undo, Types, ServerOK
  <2>2. ci' \in JobType /\ ci'.row = ci.row
    BY <1>5, GoType DEF Clear, Undo
  <2> QED
    BY <1>3, <1>5, <2>1, <2>2, ServerStepTypes DEF Clear, Undo, Types, PassedOK
<1>6. CASE Run
  <2>1. ServerOK'
    BY <1>2, <1>6, PortType DEF Run, Types, ServerOK, AppType
  <2>2. ci' \in JobType /\ ci'.row = ci.row
    BY <1>6, FailType, GoType DEF Run
  <2>3. PassedOK'
    BY <1>2, <1>6 DEF Run, Pass, Types, PassedOK
  <2> QED
    BY <1>3, <1>6, <2>1, <2>2, <2>3, ServerStepTypes DEF Run
<1> QED
  BY <1>4, <1>5, <1>6

LEMMA HealthTypes == ASSUME Types, JobRuns, Health PROVE Types'
<1>1. ci.run \in Attempt /\ attempts \in Attempt
  BY DeploymentsAssumption DEF Health, JobRuns, Types, JobOK, JobType, BoundsOK, Attempt
<1>2. PassedOK'
  BY <1>1 DEF Health, Pass, Types, PassedOK
<1>3. ServerOK'
  BY DEF Health, Types, ServerOK, server
<1>4. ci' \in JobType /\ ci'.row = ci.row
  BY FailType, GoType DEF Health
<1>5. BoundsOK'
  BY SameBounds DEF Health
<1> QED
  BY <1>2, <1>3, <1>4, <1>5, ServerStepTypes DEF Health

\* A change within one row.
LEMMA RowStepTypes ==
    ASSUME Types, NEW i \in 1..Len(rows), NEW r \in RowType,
           rows' = [rows EXCEPT ![i] = r],
           ci' \in JobType, ci'.row = ci.row,
           UNCHANGED <<built, live, passed>>, BoundsOK',
           hooks' \subseteq HookType, writers' \subseteq writers,
           jobs' \subseteq [row : 1..Len(rows), from : {"finish", "hook"}]
    PROVE  Types'
<1>1. rows' \in Seq(RowType) /\ Len(rows') = Len(rows)
  BY ChangeOne DEF Types
<1> QED
  BY <1>1 DEF Types, JobOK, ServerOK, PassedOK, QueuesOK

\* An analysis, a shipment of logs, or the logs of the agent fill one row's flags.
Flagged(i) ==
    \E logs, diagnosed \in BOOLEAN :
        rows' = [rows EXCEPT ![i] = [rows[i] EXCEPT !.logs = logs, !.diagnosed = diagnosed]]

LEMMA LoggedIsFlagged ==
    ASSUME Types, NEW i \in 1..Len(rows), rows' = [rows EXCEPT ![i].logs = TRUE]
    PROVE  Flagged(i)
<1>1. rows[i] \in RowType
  BY RowsAreRows
<1> DEFINE d == rows[i].diagnosed
<1>2. d \in BOOLEAN /\ [rows[i] EXCEPT !.logs = TRUE]
                          = [rows[i] EXCEPT !.logs = TRUE, !.diagnosed = d]
  BY <1>1 DEF RowType
<1>3. rows' = [rows EXCEPT ![i] = [rows[i] EXCEPT !.logs = TRUE]]
  OBVIOUS
<1> HIDE DEF d
<1> QED
  BY <1>2, <1>3 DEF Flagged

LEMMA FlaggedTypes ==
    ASSUME Types, NEW i \in 1..Len(rows), Flagged(i), ci' \in JobType, ci'.row = ci.row,
           UNCHANGED <<built, live, passed, hooks, writers>>, BoundsOK', jobs' \subseteq jobs
    PROVE  Types'
<1>1. PICK logs, diagnosed \in BOOLEAN :
        rows' = [rows EXCEPT ![i] = [rows[i] EXCEPT !.logs = logs, !.diagnosed = diagnosed]]
  BY DEF Flagged
<1> DEFINE r == [rows[i] EXCEPT !.logs = logs, !.diagnosed = diagnosed]
<1>2. r \in RowType
  BY RowsAreRows DEF RowType
<1> HIDE DEF r
<1>3. /\ hooks' \subseteq HookType /\ writers' \subseteq writers
      /\ jobs' \subseteq [row : 1..Len(rows), from : {"finish", "hook"}]
  BY DEF Types, QueuesOK
<1>4. rows' = [rows EXCEPT ![i] = r]
  BY <1>1 DEF r
<1> QED
  BY <1>2, <1>3, <1>4, RowStepTypes

\* What a step leaves of the rows when it fills in flags only.
SameRows ==
    /\ Len(rows') = Len(rows)
    /\ \A i \in 1..Len(rows) :
          /\ rows'[i].run = rows[i].run /\ rows'[i].image = rows[i].image
          /\ rows'[i].status = rows[i].status /\ rows'[i].port = rows[i].port
          /\ rows'[i].rollback = rows[i].rollback

LEMMA UnchangedRows == ASSUME UNCHANGED rows PROVE SameRows
BY DEF SameRows

LEMMA FlaggedSame == ASSUME Types, NEW i \in 1..Len(rows), Flagged(i) PROVE SameRows
<1>1. PICK logs, diagnosed \in BOOLEAN :
        rows' = [rows EXCEPT ![i] = [rows[i] EXCEPT !.logs = logs, !.diagnosed = diagnosed]]
  BY DEF Flagged
<1> DEFINE r == [rows[i] EXCEPT !.logs = logs, !.diagnosed = diagnosed]
<1>2. /\ r \in RowType /\ rows[i] \in RowType
      /\ r.run = rows[i].run /\ r.image = rows[i].image /\ r.status = rows[i].status
      /\ r.port = rows[i].port /\ r.rollback = rows[i].rollback
  BY RowsAreRows DEF RowType
<1>3. rows' = [rows EXCEPT ![i] = r]
  BY <1>1
<1> HIDE DEF r
<1>4. Len(rows') = Len(rows) /\ \A k \in 1..Len(rows) : rows'[k] = IF k = i THEN r ELSE rows[k]
  BY <1>2, <1>3, ChangeOne, RowsAreRows DEF Types
<1> QED
  BY <1>2, <1>4 DEF SameRows

LEMMA ShipIs ==
    ASSUME Types, Ship
    PROVE  /\ UNCHANGED <<flow, built, live, passed, hooks, writers, jobs, bounds, history>>
           /\ ci.step = "ship" /\ Go(IF ci.status = "failure" THEN "undo" ELSE "report")
           /\ rows' = rows \/ (ci.row \in 1..Len(rows) /\ Flagged(ci.row))
<1>1. rows' = rows \/ (ci.row # None /\ rows' = [rows EXCEPT ![ci.row].logs = TRUE])
  BY DEF Ship
<1>2. ci.row # None => ci.row \in 1..Len(rows)
  BY DEF Types, JobOK
<1> QED
  BY <1>1, <1>2, LoggedIsFlagged DEF Ship, server

LEMMA ShipTypes == ASSUME Types, Ship PROVE Types'
<1>1. ci' \in JobType /\ ci'.row = ci.row
  BY ShipIs, GoType
<1>2. BoundsOK'
  BY ShipIs, SameBounds
<1>3. CASE rows' = rows
  BY <1>1, <1>2, <1>3, ShipIs DEF Types, JobOK, ServerOK, PassedOK, QueuesOK
<1>4. CASE ci.row \in 1..Len(rows) /\ Flagged(ci.row)
  BY <1>1, <1>2, <1>4, ShipIs, FlaggedTypes
<1> QED
  BY <1>3, <1>4, ShipIs

LEMMA LastGoodType == ASSUME Types, NEW dep PROVE LastGood(dep) \in {None} \cup Attempt
<1> DEFINE S == {i \in DOMAIN rows \ {dep} : rows[i].status = "running" /\ rows[i].image # None}
<1>1. S \in SUBSET (1..Len(rows)) /\ Len(rows) \in Nat
  BY RowsAreRows
<1>2. Latest(S) # None => rows[Latest(S)] \in RowType
  BY <1>1, LatestType, RowsAreRows
<1> HIDE DEF S
<1>3. LastGood(dep) = IF Latest(S) = None THEN None ELSE rows[Latest(S)].image
  BY DEF LastGood, S
<1> QED
  BY <1>2, <1>3 DEF RowType

LEMMA SecondType == ASSUME Types PROVE Second \in {None} \cup Attempt
<1>1. CASE Older = {}
  BY <1>1 DEF Second
<1>2. CASE Older # {}
  <2> DEFINE S == {built[x] : x \in Older}
  <2>1. S \in SUBSET (1..MaxAttempts) /\ S # {} /\ MaxAttempts \in Nat
    <3>1. \A x \in Older : built[x] \in {None} \cup Attempt /\ built[x] # None
      BY DEF Older, Types, ServerOK
    <3>2. S \subseteq 1..MaxAttempts
      BY <3>1 DEF Attempt
    <3> QED
      BY <1>2, <3>2, DeploymentsAssumption
  <2>2. Latest(S) \in S
    BY <2>1, LatestIsGreatest
  <2>3. \E r \in Older : built[r] = Latest(S)
    BY <2>2
  <2> HIDE DEF S
  <2>4. (CHOOSE r \in Older : built[r] = Latest(S)) \in Older
    BY <2>3
  <2>5. Second = CHOOSE r \in Older : built[r] = Latest(S)
    BY <1>2 DEF Second, S
  <2> QED
    BY <2>4, <2>5 DEF Older
<1> QED
  BY <1>1, <1>2

LEMMA PreviousType ==
    ASSUME Types, NEW answer \in {None, Answer} PROVE Previous(answer) \in {None} \cup Attempt
<1>1. Answer \in {None} \cup Attempt
  BY LastGoodType DEF Answer
<1> QED
  BY <1>1, SecondType DEF Previous

LEMMA RestoredType ==
    ASSUME Types, NEW image \in Attempt PROVE Restored(image) \in AppType
BY PortType DEF Restored, Types, ServerOK, AppType

\* What a restore leaves of the container and of the job.
LEMMA RestoreIs ==
    ASSUME Types, Restore
    PROVE  /\ UNCHANGED <<flow, rows, built, passed, hooks, writers, jobs>>
           /\ ci.step = "restore"
           /\ \E image \in {None} \cup Attempt : RestoreFrom(image)
           /\ \/ RestoreFrom(Previous(Answer)) /\ Plain
              \/ Loss("ask")
BY PreviousType DEF Restore

LEMMA RestoreFromIs ==
    ASSUME Types, NEW image \in {None} \cup Attempt, RestoreFrom(image)
    PROVE  /\ ci' \in JobType /\ ci'.row = ci.row /\ live' \in AppType
           /\ ci'.run = ci.run /\ ci'.status = ci.status /\ ci'.step = "report"
<1>1. PICK r \in Rollback : ci' = [ci EXCEPT !.step = "report", !.rollback = r]
  <2>1. CASE image = None
    <3>1. ci' = [ci EXCEPT !.step = "report", !.rollback = ci.rollback]
      BY <2>1 DEF RestoreFrom, Types, JobOK, JobType
    <3> QED
      BY <3>1 DEF Types, JobOK, JobType
  <2>2. CASE image # None
    BY <2>2 DEF RestoreFrom, Rollback
  <2> QED
    BY <2>1, <2>2
<1>2. /\ ci' \in JobType /\ ci'.row = ci.row
      /\ ci'.run = ci.run /\ ci'.status = ci.status /\ ci'.step = "report"
  BY <1>1 DEF Types, JobOK, JobType
<1>3. image # None => Restored(image) \in AppType
  BY RestoredType
<1> QED
  BY <1>2, <1>3 DEF RestoreFrom, Types, ServerOK

LEMMA RestoreTypes == ASSUME Types, Restore PROVE Types'
<1>1. PICK image \in {None} \cup Attempt : RestoreFrom(image)
  BY RestoreIs
<1>2. BoundsOK'
  <2>1. CASE Plain
    BY <2>1, RestoreIs, SameBounds DEF Plain
  <2>2. CASE Loss("ask")
    BY <2>2, RestoreIs, EventType DEF Loss, Exception
  <2> QED
    BY <2>1, <2>2, RestoreIs
<1>3. ci' \in JobType /\ ci'.row = ci.row /\ live' \in AppType
  BY <1>1, RestoreFromIs
<1> QED
  BY <1>2, <1>3, RestoreIs DEF Types, JobOK, ServerOK, PassedOK, QueuesOK

\* The report's change to the row of its job.
Finished ==
    [rows[ci.row] EXCEPT !.status = IF ci.status = "success" THEN "running" ELSE "failed",
                         !.image = IF Reusable THEN ci.run ELSE @,
                         !.rollback = ci.rollback]

LEMMA FinishIs ==
    ASSUME Types, ci.row # None, Finish
    PROVE  /\ ci.row \in 1..Len(rows) /\ Finished \in RowType
           /\ rows' = [rows EXCEPT ![ci.row] = Finished]
<1>1. ci.row \in 1..Len(rows) /\ ci.run \in {None} \cup Attempt /\ ci.rollback \in Rollback
  BY DEF Types, JobOK, JobType
<1>2. rows[ci.row] \in RowType /\ rows \in Seq(RowType)
  BY <1>1, RowsAreRows DEF Types
<1>3. Finished \in RowType
  BY <1>1, <1>2 DEF Finished, RowType, Status
<1>4. rows' = [rows EXCEPT ![ci.row] = Finished]
  BY <1>1, <1>2 DEF Finish, Finished, RowType
<1> QED
  BY <1>1, <1>3, <1>4

LEMMA ReportIs ==
    ASSUME Types, JobRuns, Report
    PROVE  /\ UNCHANGED <<flow, built, live, passed, writers>>
           /\ ci.step = "report" /\ Go("idle") /\ ci.run \in Attempt /\ attempts \in Attempt
           /\ attempts' = attempts
           /\ \/ Tell /\ Announce(ci.status = "success") /\ Plain
              \/ Loss("finish") /\ Announce(ci.status = "success") /\ UNCHANGED <<rows, jobs>>
              \/ Tell /\ Announce(FALSE) /\ Loss("verdict")
<1>1. ci.run \in Attempt /\ attempts \in Attempt
  BY DeploymentsAssumption DEF Report, JobRuns, Types, JobOK, JobType, BoundsOK, Attempt
<1> QED
  BY <1>1 DEF Report, server, Plain, bounds, Loss, Event

LEMMA ReportTypes == ASSUME Types, JobRuns, Report PROVE Types'
<1>1. ci' \in JobType /\ ci'.row = ci.row
  BY ReportIs, GoType
<1>2. hooks' \subseteq HookType
  <2>1. ASSUME NEW ok \in BOOLEAN, Announce(ok) PROVE hooks' \subseteq HookType
    <3>1. [run |-> ci.run, ok |-> ok] \in HookType
      BY ReportIs DEF HookType
    <3> QED
      BY <2>1, <3>1 DEF Announce, Types, QueuesOK
  <2>2. (ci.status = "success") \in BOOLEAN
    OBVIOUS
  <2> QED
    BY <2>1, <2>2, ReportIs
<1>3. BoundsOK'
  <2>1. CASE Plain
    BY <2>1, ReportIs, SameBounds DEF Plain
  <2>2. CASE Loss("finish") \/ Loss("verdict")
    BY <2>2, ReportIs, EventType DEF Loss, Exception
  <2> QED
    BY <2>1, <2>2, ReportIs
<1>4. CASE UNCHANGED <<rows, jobs>>
  BY <1>1, <1>2, <1>3, <1>4, ReportIs DEF Types, JobOK, ServerOK, PassedOK, QueuesOK
<1>5. CASE Tell /\ ci.row # None
  <2>1. Finish /\ Schedule
    BY <1>5 DEF Tell
  <2>2. jobs' \subseteq [row : 1..Len(rows), from : {"finish", "hook"}]
    <3>1. ci.row \in 1..Len(rows)
      BY <1>5, <2>1, FinishIs
    <3>2. [row |-> ci.row, from |-> "finish"] \in [row : 1..Len(rows), from : {"finish", "hook"}]
      BY <3>1
    <3> QED
      BY <2>1, <3>2 DEF Schedule, Types, QueuesOK
  <2> QED
    BY <1>1, <1>2, <1>3, <1>5, <2>1, <2>2, FinishIs, ReportIs, RowStepTypes
<1> QED
  BY <1>4, <1>5, ReportIs DEF Tell

LEMMA CancelTypes == ASSUME Types, Cancel PROVE Types'
<1>1. ci' \in JobType /\ ci'.row = ci.row
  BY DEF Cancel, Types, JobOK, JobType
<1>2. live' \in AppType
  <2>1. \A i \in {Previous(Answer), Second} \ {None} : Restored(i) \in AppType
    BY PreviousType, SecondType, RestoredType
  <2> QED
    BY <2>1 DEF Cancel, Types, ServerOK
<1>3. BoundsOK'
  BY EventType DEF Cancel
<1> QED
  BY <1>1, <1>2, <1>3 DEF Cancel, Types, JobOK, ServerOK, PassedOK, QueuesOK

\* A delivery reads the newest row of its run.
LEMMA QueryIs ==
    ASSUME Types, NEW run \in Attempt \cup {Other}, NEW ok \in BOOLEAN, Query(run, ok)
    PROVE  /\ UNCHANGED <<flow, rows, ci, built, live, passed, hooks, jobs, attempts, history>>
           /\ \E w \in WriterType :
                 /\ writers' = writers \cup {w} /\ w.run = run
                 /\ w.verdict = IF ok THEN "running" ELSE "failed"
                 /\ w.row = None \/ (w.row \in 1..Len(rows) /\ rows[w.row].run = run)
<1> DEFINE S == {i \in DOMAIN rows : rows[i].run = run}
           row == Latest(S)
           w == [nr |-> events', run |-> run, verdict |-> IF ok THEN "running" ELSE "failed",
                 row |-> row, seen |-> IF row = None THEN "building" ELSE rows[row].status]
<1>1. /\ UNCHANGED <<flow, rows, ci, built, live, passed, hooks, jobs, attempts, history>>
      /\ Event /\ writers' = writers \cup {w}
  BY DEF Query, server, Event
<1>2. row = None \/ (row \in 1..Len(rows) /\ rows[row].run = run)
  <2>1. S \in SUBSET (1..Len(rows)) /\ Len(rows) \in Nat /\ \A i \in S : rows[i].run = run
    BY RowsAreRows
  <2> HIDE DEF S
  <2> QED
    BY <2>1, LatestType
<1>3. events' \in 1..MaxEvents
  BY <1>1, EventType
<1> HIDE DEF row
<1>4. w \in WriterType
  <2>1. row # None => rows[row] \in RowType
    BY <1>2, RowsAreRows
  <2>2. (IF row = None THEN "building" ELSE rows[row].status) \in Status
    BY <2>1 DEF RowType, Status
  <2>3. row \in Nat
    BY <1>2, RowsAreRows DEF None
  <2>4. (IF ok THEN "running" ELSE "failed") \in {"running", "failed"}
    OBVIOUS
  <2> QED
    BY <1>3, <2>2, <2>3, <2>4 DEF WriterType
<1>5. /\ w.run = run /\ w.verdict = IF ok THEN "running" ELSE "failed"
      /\ w.row = row
  OBVIOUS
<1> HIDE DEF w
<1> QED
  BY <1>1, <1>2, <1>4, <1>5

LEMMA QueryTypes ==
    ASSUME Types, NEW run \in Attempt \cup {Other}, NEW ok \in BOOLEAN, Query(run, ok)
    PROVE  Types'
<1>1. BoundsOK'
  BY EventType DEF Query
<1> QED
  BY <1>1, QueryIs DEF Types, JobOK, ServerOK, PassedOK, QueuesOK

\* Every delivery is one of a job's run or of another workflow's.
LEMMA DeliverIs ==
    ASSUME Types, NEW h \in hooks, Deliver(h)
    PROVE  h.run \in Attempt \cup {Other} /\ h.ok \in BOOLEAN /\ Query(h.run, h.ok)
BY DEF Deliver, Types, QueuesOK, HookType

LEMMA CommitIs ==
    ASSUME Types, NEW w \in writers, Commit(w)
    PROVE  /\ UNCHANGED <<flow, ci, built, live, passed, hooks, bounds, history>>
           /\ writers' = writers \ {w}
           /\ w.run \in Attempt \cup {Other} /\ w.verdict \in {"running", "failed"}
           /\ \/ /\ w.row = None /\ rows' = Append(rows, Row(w.run, w.verdict, "none"))
                 /\ Row(w.run, w.verdict, "none") \in RowType
                 /\ jobs' \subseteq jobs \cup {[row |-> Len(rows) + 1, from |-> "hook"]}
              \/ /\ w.row \in 1..Len(rows)
                 /\ \E v \in {rows[w.row].status, w.verdict} :
                      /\ rows' = [rows EXCEPT ![w.row] = [rows[w.row] EXCEPT !.status = v]]
                      /\ [rows[w.row] EXCEPT !.status = v] \in RowType
                 /\ jobs' \subseteq jobs \cup {[row |-> w.row, from |-> "hook"]}
<1>1. w \in WriterType /\ w.row \in {None} \cup 1..Len(rows)
  BY DEF Types, QueuesOK
<1>2. w.run \in Attempt \cup {Other} /\ w.verdict \in {"running", "failed"}
  BY <1>1 DEF WriterType
<1>3. CASE w.row = None
  <2>1. Row(w.run, w.verdict, "none") \in RowType
    BY <1>2, NewRowType DEF Status
  <2> QED
    BY <1>2, <1>3, <2>1 DEF Commit, server
<1>4. CASE w.row # None
  <2>1. w.row \in 1..Len(rows) /\ rows[w.row] \in RowType
    BY <1>1, <1>4, RowsAreRows
  <2> DEFINE v == IF w.seen = w.verdict THEN rows[w.row].status ELSE w.verdict
  <2>2. rows' = [rows EXCEPT ![w.row] = [rows[w.row] EXCEPT !.status = v]]
    BY <1>4, <2>1 DEF Commit
  <2>3. v \in {rows[w.row].status, w.verdict}
    OBVIOUS
  <2>4. [rows[w.row] EXCEPT !.status = v] \in RowType
    BY <1>2, <2>1 DEF RowType, Status
  <2> HIDE DEF v
  <2> QED
    BY <1>2, <1>4, <2>1, <2>2, <2>3, <2>4 DEF Commit, server
<1> QED
  BY <1>3, <1>4

LEMMA CommitTypes == ASSUME Types, NEW w \in writers, Commit(w) PROVE Types'
<1>1. BoundsOK'
  BY CommitIs, SameBounds
<1>2. ci' \in JobType /\ ci'.row = ci.row /\ writers' \subseteq writers
  BY CommitIs DEF Types, JobOK
<1>3. CASE w.row = None
  <2> DEFINE r == Row(w.run, w.verdict, "none")
             j == [row |-> Len(rows) + 1, from |-> "hook"]
  <2>1. /\ r \in RowType /\ rows' = Append(rows, r) /\ jobs' \subseteq jobs \cup {j}
        /\ UNCHANGED <<built, live, passed, hooks>>
    <3>1. w.row \notin 1..Len(rows)
      BY <1>3, RowsAreRows DEF None
    <3> QED
      BY <3>1, CommitIs, Zenon
  <2>2. j \in [row : 1..Len(rows) + 1, from : {"finish", "hook"}]
    <3>1. Len(rows) + 1 \in 1..Len(rows) + 1
      BY RowsAreRows
    <3> QED
      BY <3>1
  <2> HIDE DEF r, j
  <2>3. jobs' \subseteq jobs \cup [row : 1..Len(rows) + 1, from : {"finish", "hook"}]
    BY <2>1, <2>2
  <2> QED
    BY <1>1, <1>2, <2>1, <2>3, AppendTypes
<1>4. CASE w.row \in 1..Len(rows)
  <2> DEFINE j == [row |-> w.row, from |-> "hook"]
  <2>1. PICK v \in {rows[w.row].status, w.verdict} :
           /\ rows' = [rows EXCEPT ![w.row] = [rows[w.row] EXCEPT !.status = v]]
           /\ [rows[w.row] EXCEPT !.status = v] \in RowType
    BY <1>4, CommitIs DEF None
  <2>2. jobs' \subseteq jobs \cup {j} /\ UNCHANGED <<built, live, passed, hooks>>
    <3>1. w.row # None
      BY <1>4, RowsAreRows DEF None
    <3> QED
      BY <3>1, CommitIs, Zenon
  <2>3. j \in [row : 1..Len(rows), from : {"finish", "hook"}]
    BY <1>4
  <2> HIDE DEF j
  <2>4. /\ hooks' \subseteq HookType
        /\ jobs' \subseteq [row : 1..Len(rows), from : {"finish", "hook"}]
    BY <2>2, <2>3 DEF Types, QueuesOK
  <2> QED
    BY <1>1, <1>2, <1>4, <2>1, <2>2, <2>4, RowStepTypes
<1> QED
  BY <1>3, <1>4, CommitIs

LEMMA AnalyzeIs ==
    ASSUME Types, NEW j \in jobs, Analyze(j)
    PROVE  /\ UNCHANGED <<flow, ci, built, live, passed, hooks, writers, bounds, history>>
           /\ jobs' = jobs \ {j} /\ j.row \in 1..Len(rows) /\ Flagged(j.row)
<1>1. j.row \in 1..Len(rows)
  BY DEF Types, QueuesOK
<1>2. PICK fetched \in BOOLEAN :
        rows' = [rows EXCEPT ![j.row].logs = @ \/ fetched,
                             ![j.row].diagnosed = @ \/ rows[j.row].logs \/ fetched]
  BY DEF Analyze
<1> DEFINE a == rows[j.row].logs \/ fetched
           b == rows[j.row].diagnosed \/ rows[j.row].logs \/ fetched
           one == [rows EXCEPT ![j.row] = [rows[j.row] EXCEPT !.logs = a]]
           two == [one EXCEPT ![j.row] = [one[j.row] EXCEPT !.diagnosed = b]]
<1>3. a \in BOOLEAN /\ b \in BOOLEAN
  OBVIOUS
<1>4. rows' = two
  <2>1. one[j.row].diagnosed = rows[j.row].diagnosed
    BY <1>1, RowsAreRows DEF RowType
  <2> QED
    BY <1>2, <2>1
<1>5. two = [rows EXCEPT ![j.row] = [rows[j.row] EXCEPT !.logs = a, !.diagnosed = b]]
  <2> HIDE DEF a, b
  <2> QED
    BY <1>1, RowsAreRows DEF Types
<1> HIDE DEF a, b, two
<1>6. Flagged(j.row)
  BY <1>3, <1>4, <1>5 DEF Flagged
<1> QED
  BY <1>1, <1>6 DEF Analyze, server

LEMMA IngestIs ==
    ASSUME Types, IngestLogs
    PROVE  /\ UNCHANGED <<flow, ci, built, live, passed, hooks, writers, jobs, attempts, history>>
           /\ Event /\ Len(rows) \in 1..Len(rows) /\ Flagged(Len(rows))
<1>1. Len(rows) \in 1..Len(rows)
  BY DEF Types, IngestLogs
<1>2. rows' = [rows EXCEPT ![Len(rows)].logs = TRUE]
  BY DEF IngestLogs
<1> QED
  BY <1>1, <1>2, LoggedIsFlagged DEF IngestLogs, server, Event

LEMMA RestartTypes == ASSUME Types, Restart PROVE Types'
<1>1. BoundsOK'
  BY EventType DEF Restart, Loss, Exception
<1> QED
  BY <1>1 DEF Restart, server, Types, JobOK, ServerOK, PassedOK, QueuesOK

LEMMA FixTypes == ASSUME Types, NEW i \in DOMAIN rows, FixRollback(i) PROVE Types'
<1> DEFINE S == {j \in DOMAIN rows \ {i} : rows[j].status = "running"}
           previous == Latest(S)
<1>1. /\ previous # None /\ rows[previous].image # None
      /\ Event /\ history' = history \cup {"fix"}
      /\ live' = [build |-> built[rows[previous].image], port |-> rows[previous].port]
      /\ UNCHANGED <<flow, rows, ci, built, passed, hooks, writers, jobs>>
  BY DEF FixRollback
<1>2. previous \in 1..Len(rows)
  <2>1. S \in SUBSET (1..Len(rows)) /\ Len(rows) \in Nat
    BY RowsAreRows
  <2> HIDE DEF S
  <2> QED
    BY <1>1, <2>1, LatestType
<1> HIDE DEF previous
<1>3. rows[previous] \in RowType
  BY <1>2, RowsAreRows
<1>4. ServerOK'
  BY <1>1, <1>3 DEF Types, ServerOK, RowType, AppType
<1>5. BoundsOK'
  BY <1>1, EventType DEF Exception
<1> QED
  BY <1>1, <1>4, <1>5 DEF Types, JobOK, PassedOK, QueuesOK

LEMMA TypesStep == ASSUME Types, JobRuns, [Next]_vars PROVE Types'
<1>1. CASE UNCHANGED vars
  BY <1>1, SameBounds DEF vars, server, Types, JobOK, ServerOK, PassedOK, QueuesOK
<1>2. CASE Trigger \/ Cancel
  BY <1>2, TriggerTypes, CancelTypes
<1>3. CASE Job
  BY <1>3, CheckoutTypes, RegisterTypes, BuildRunTypes, HealthTypes, ShipTypes, RestoreTypes,
     ReportTypes DEF Job
<1>4. ASSUME NEW h \in hooks, Deliver(h) PROVE Types'
  BY <1>4, DeliverIs, QueryTypes
<1>5. CASE DeliverOther
  BY <1>5, QueryTypes DEF DeliverOther
<1>6. ASSUME NEW w \in writers, Commit(w) PROVE Types'
  BY <1>6, CommitTypes
<1>7. ASSUME NEW j \in jobs, Analyze(j) PROVE Types'
  <2>1. BoundsOK' /\ ci' \in JobType
    BY <1>7, AnalyzeIs, SameBounds DEF Types, JobOK
  <2> QED
    BY <1>7, <2>1, AnalyzeIs, FlaggedTypes
<1>8. ASSUME NEW i \in DOMAIN rows, FixRollback(i) PROVE Types'
  BY <1>8, FixTypes
<1>9. CASE IngestLogs
  <2>1. BoundsOK' /\ ci' \in JobType
    BY <1>9, IngestIs, EventType DEF Types, JobOK
  <2> QED
    BY <1>9, <2>1, IngestIs, FlaggedTypes
<1>10. CASE Restart
  BY <1>10, RestartTypes
<1> QED
  BY <1>1, <1>2, <1>3, <1>4, <1>5, <1>6, <1>7, <1>8, <1>9, <1>10 DEF Next

(***************************************************************************)
(* What is said of a run, and what its jobs have done                      *)
(***************************************************************************)
LEMMA SameClaims ==
    ASSUME Types, SameRows, hooks' = hooks, writers' \subseteq writers, Types', NEW run
    PROVE  (Praised(run)' => Praised(run)) /\ (Accused(run)' => Accused(run))
<1>1. DOMAIN rows' = DOMAIN rows /\ DOMAIN rows = 1..Len(rows)
  BY RowsAreRows DEF Types, SameRows
<1> QED
  BY <1>1 DEF SameRows, Praised, Accused

\* A step that changes nothing of what is said, and at most how far the job is.
Quiet ==
    /\ SameRows /\ hooks' = hooks /\ writers' \subseteq writers
    /\ passed' = passed /\ attempts' = attempts /\ history \subseteq history'
    /\ ci'.run = ci.run /\ ci'.row = ci.row
    /\ (ci'.step = "idle") <=> (ci.step = "idle")
    /\ ci'.step \in Before => ci.step \in Before /\ ci'.status = "success"
    /\ ci'.step # "idle" /\ ci'.status # "success" => ci.step \in Before \/ ci.status # "success"
    /\ ci'.step \in {"undo", "restore"} => ci'.status = "failure"
    /\ ci'.step = "health" => ci.step = "health" /\ (live' = live \/ "fix" \in history')
    /\ ci'.step \in {"ship", "report"} /\ ci'.status = "success"
         => ci.step \in {"ship", "report"} /\ ci.status = "success"

LEMMA WorkIsQuiet ==
    ASSUME Types, JobInv, Checkout \/ Build \/ Clear \/ Ship \/ Undo \/ Restore PROVE Quiet
<1>1. ci \in JobType /\ (ci.step \in Before => ci.status = "success")
  BY DEF Types, JobOK, JobInv
<1>2. CASE Checkout \/ Build \/ Clear
  BY <1>1, <1>2, UnchangedRows DEF Checkout, Build, Clear, Go, Fail, JobType, Quiet, Before, bounds
<1>3. CASE Undo
  <2>1. ci.status = "failure" /\ ci.step = "undo" /\ Go("restore")
    BY <1>3 DEF Undo, JobInv
  <2> QED
    BY <1>1, <1>3, <2>1, UnchangedRows DEF Undo, Go, JobType, Quiet, Before, bounds
<1>4. CASE Ship
  <2>1. SameRows
    BY <1>4, ShipIs, UnchangedRows, FlaggedSame
  <2>2. /\ UNCHANGED <<passed, hooks, writers, attempts, history>> /\ ci.step = "ship"
        /\ Go(IF ci.status = "failure" THEN "undo" ELSE "report")
    BY <1>4, ShipIs DEF bounds
  <2> QED
    BY <1>1, <2>1, <2>2 DEF Go, JobType, Quiet, Before
<1>5. CASE Restore
  <2>1. /\ ci'.run = ci.run /\ ci'.row = ci.row /\ ci'.status = ci.status /\ ci'.step = "report"
    BY <1>5, RestoreIs, RestoreFromIs
  <2>2. ci.step = "restore" /\ ci.status = "failure" /\ UNCHANGED <<rows, passed, hooks, writers>>
    BY <1>5 DEF Restore, JobInv
  <2>3. attempts' = attempts /\ history \subseteq history'
    BY <1>5 DEF Restore, Plain, Loss, Event, bounds
  <2> QED
    BY <2>1, <2>2, <2>3, UnchangedRows DEF Quiet, Before
<1> QED
  BY <1>2, <1>3, <1>4, <1>5

LEMMA BackgroundIsQuiet ==
    ASSUME Types, JobInv,
           \/ UNCHANGED vars \/ IngestLogs \/ Restart
           \/ (\E j \in jobs : Analyze(j)) \/ \E i \in DOMAIN rows : FixRollback(i)
    PROVE  Quiet
<1>1. ASSUME SameRows, UNCHANGED <<ci, hooks, passed, attempts>>, writers' \subseteq writers,
             history \subseteq history', live' = live \/ "fix" \in history'
      PROVE  Quiet
  BY <1>1 DEF Quiet, JobInv
<1>2. CASE UNCHANGED vars
  BY <1>1, <1>2, UnchangedRows DEF vars, server, bounds
<1>3. CASE IngestLogs
  BY <1>1, <1>3, IngestIs, FlaggedSame
<1>4. CASE Restart
  BY <1>1, <1>4, UnchangedRows DEF Restart, Loss, Event, server
<1>5. CASE \E j \in jobs : Analyze(j)
  BY <1>1, <1>5, AnalyzeIs, FlaggedSame DEF bounds
<1>6. CASE \E i \in DOMAIN rows : FixRollback(i)
  BY <1>1, <1>6, UnchangedRows DEF FixRollback, Event
<1> QED
  BY <1>2, <1>3, <1>4, <1>5, <1>6

\* The passes nobody can take back stay so.
Kept ==
    \A p \in passed : ci.step = "idle" \/ p[1] # attempts
                        => p \in passed' /\ (ci'.step = "idle" \/ p[1] # attempts')

LEMMA KeptVouches == ASSUME Kept, NEW run, Vouched(run) PROVE Vouched(run)'
BY DEF Kept, Vouched

\* The job passes, as far as it can, and no other.
LEMMA PassIs ==
    ASSUME Types, JobInv, Run \/ Health
    PROVE  /\ UNCHANGED <<flow, rows, built, hooks, writers, jobs, attempts, history>>
           /\ ci.step \in {"run", "health"} /\ ci'.step \notin {"idle", "undo", "restore"}
           /\ ci'.run = ci.run /\ ci'.row = ci.row
           /\ passed' \in {passed, passed \cup {Mine}}
           /\ ci'.status = "success" \/ passed' = passed
           /\ ci'.step \in Before => /\ ci'.step = "health" /\ passed' = passed
                                    /\ live'.build = attempts /\ ci'.status = "success"
           /\ ci'.step \in {"ship", "report"} /\ ci'.status = "success"
                => \/ live'.build # attempts /\ ci.step = "health"
                   \/ Mine \in passed'
           /\ ci.step = "health" => live' = live
<1>1. ci \in JobType /\ ((Run \/ Health) => ci.status = "success")
  BY DEF Types, JobOK, JobInv, Before, Run, Health
<1>2. CASE Run
  <2>1. CASE Fail /\ UNCHANGED <<live, passed>>
    BY <1>1, <1>2, <2>1 DEF Run, Fail, JobType, Before, bounds
  <2>2. CASE live' = [build |-> attempts, port |-> Port] /\ Reusable /\ Go("health") /\ UNCHANGED passed
    BY <1>1, <1>2, <2>2 DEF Run, Go, JobType, Before, bounds
  <2>3. CASE live' = [build |-> attempts, port |-> Port] /\ Go("report") /\ Pass
    BY <1>1, <1>2, <2>3 DEF Run, Go, Pass, Mine, JobType, Before, bounds
  <2> QED
    BY <1>2, <2>1, <2>2, <2>3 DEF Run
<1>3. CASE Health
  BY <1>1, <1>3 DEF Health, Go, Fail, Pass, Mine, JobType, Before, bounds, server
<1> QED
  BY <1>2, <1>3

\* What a report changes of what is said, besides the row of the job.
LEMMA ReportClaims ==
    ASSUME Types, JobInv, Report, Types', NEW run
    PROVE  /\ Praised(run)' => Praised(run) \/ (run = ci.run /\ ci.status = "success")
           /\ Accused(run)' => \/ Accused(run) \/ "verdict" \in history'
                               \/ (run = ci.run /\ ci.status # "success")
<1>1. JobRuns
  BY DEF JobInv, JobRuns
<1>2. writers' = writers /\ ci.step = "report"
  BY <1>1, ReportIs
<1>3. \A i \in DOMAIN rows' :
         /\ i \in DOMAIN rows
         /\ rows'[i].run = rows[i].run /\ rows'[i].port = rows[i].port
         /\ \/ rows'[i].status = rows[i].status
            \/ /\ rows[i].run = ci.run
               /\ rows'[i].status = IF ci.status = "success" THEN "running" ELSE "failed"
  <2>1. CASE rows' = rows
    BY <2>1
  <2>2. CASE ci.row # None /\ Finish
    <3>1. /\ ci.row \in 1..Len(rows) /\ Finished \in RowType
          /\ rows' = [rows EXCEPT ![ci.row] = Finished] /\ rows[ci.row] \in RowType
      BY <2>2, FinishIs, RowsAreRows
    <3>2. /\ Finished.run = rows[ci.row].run /\ Finished.port = rows[ci.row].port
          /\ Finished.status = IF ci.status = "success" THEN "running" ELSE "failed"
      BY <3>1 DEF Finished, RowType
    <3>3. rows[ci.row].run = ci.run
      BY <2>2 DEF JobInv
    <3>4. DOMAIN rows' = DOMAIN rows /\ \A i \in DOMAIN rows :
             rows'[i] = IF i = ci.row THEN Finished ELSE rows[i]
      BY <3>1, RowsAreRows DEF Types
    <3> QED
      BY <3>2, <3>3, <3>4
  <2> QED
    BY <1>1, <2>1, <2>2, ReportIs DEF Tell
<1>4. \A h \in hooks' : \/ h \in hooks
                        \/ h.run = ci.run /\ (h.ok <=> ci.status = "success")
                        \/ h.run = ci.run /\ ~h.ok /\ "verdict" \in history'
  <2>1. PICK ok \in BOOLEAN :
          Announce(ok) /\ ((ok <=> ci.status = "success") \/ (~ok /\ "verdict" \in history'))
    <3>1. CASE Announce(ci.status = "success")
      BY <3>1
    <3>2. CASE Announce(FALSE) /\ Loss("verdict")
      BY <3>2 DEF Loss
    <3> QED
      BY <1>1, <3>1, <3>2, ReportIs
  <2> DEFINE new == [run |-> ci.run, ok |-> ok]
  <2>2. hooks' = hooks \cup {new}
    BY <2>1 DEF Announce
  <2>3. new.run = ci.run /\ (new.ok <=> ok)
    BY Zenon
  <2> HIDE DEF new
  <2> QED
    BY <2>1, <2>2, <2>3
<1> QED
  BY <1>2, <1>3, <1>4 DEF Praised, Accused

\* A query says what its delivery does.
LEMMA QueryClaims ==
    ASSUME Types, NEW of \in Attempt \cup {Other}, NEW ok \in BOOLEAN, Query(of, ok),
           of = Other \/ \E h \in hooks : h.run = of /\ h.ok = ok, Types', NEW run
    PROVE  /\ Praised(run)' => Praised(run) \/ run = Other
           /\ Accused(run)' => Accused(run) \/ run = Other
<1>1. PICK w \in WriterType :
         /\ writers' = writers \cup {w} /\ w.run = of
         /\ w.verdict = IF ok THEN "running" ELSE "failed"
  BY QueryIs
<1>2. rows' = rows /\ hooks' = hooks
  BY QueryIs
<1> QED
  BY <1>1, <1>2 DEF Praised, Accused

LEMMA CommitClaims ==
    ASSUME Types, JobInv, NEW w \in writers, Commit(w), Types', NEW run
    PROVE  (Praised(run)' => Praised(run)) /\ (Accused(run)' => Accused(run))
<1>1. hooks' = hooks /\ writers' \subseteq writers
  BY CommitIs
<1>2. \A i \in DOMAIN rows' :
         \/ /\ i \in DOMAIN rows /\ rows'[i].run = rows[i].run
            /\ rows'[i].port = rows[i].port /\ rows'[i].status = rows[i].status
         \/ rows'[i].run = w.run /\ rows'[i].status = w.verdict
  <2>1. CASE w.row = None
    <3> DEFINE r == Row(w.run, w.verdict, "none")
    <3>1. r \in RowType /\ rows' = Append(rows, r) /\ rows \in Seq(RowType)
      <4>1. w.row \notin 1..Len(rows)
        BY <2>1, RowsAreRows DEF None
      <4>2. rows \in Seq(RowType)
        BY DEF Types
      <4> QED
        BY <4>1, <4>2, CommitIs, Zenon
    <3>2. r.run = w.run /\ r.status = w.verdict
      BY DEF Row
    <3> HIDE DEF r
    <3>3. /\ DOMAIN rows' = 1..Len(rows) + 1 /\ DOMAIN rows = 1..Len(rows) /\ Len(rows) \in Nat
          /\ rows'[Len(rows) + 1] = r /\ \A i \in 1..Len(rows) : rows'[i] = rows[i]
      BY <3>1, AddOne, RowsAreRows
    <3>4. \A i \in 1..Len(rows) + 1 : i \in 1..Len(rows) \/ i = Len(rows) + 1
      BY <3>3
    <3> QED
      BY <3>2, <3>3, <3>4
  <2>2. CASE w.row # None
    <3>1. PICK v \in {rows[w.row].status, w.verdict} :
             /\ rows' = [rows EXCEPT ![w.row] = [rows[w.row] EXCEPT !.status = v]]
             /\ [rows[w.row] EXCEPT !.status = v] \in RowType
      BY <2>2, CommitIs
    <3>2. w.row \in 1..Len(rows) /\ rows[w.row] \in RowType /\ rows[w.row].run = w.run
      BY <2>2, CommitIs, RowsAreRows DEF JobInv
    <3> DEFINE r == [rows[w.row] EXCEPT !.status = v]
    <3>3. r.run = rows[w.row].run /\ r.port = rows[w.row].port /\ r.status = v
      BY <3>2 DEF RowType
    <3>4. DOMAIN rows' = DOMAIN rows /\ \A i \in DOMAIN rows :
             rows'[i] = IF i = w.row THEN r ELSE rows[i]
      BY <3>1, <3>2, RowsAreRows DEF Types
    <3> HIDE DEF r
    <3> QED
      BY <3>2, <3>3, <3>4
  <2> QED
    BY <2>1, <2>2
<1>3. w.verdict \in {"running", "failed"}
  BY CommitIs
<1> QED
  BY <1>1, <1>2, <1>3 DEF Praised, Accused

\* A register call adds rows that say nothing yet, or failed ones without a port.
LEMMA RegisterClaims ==
    ASSUME Types, JobInv, Register, Types', NEW run
    PROVE  (Praised(run)' => Praised(run)) /\ (Accused(run)' => Accused(run))
<1>1. JobRuns
  BY DEF JobInv, JobRuns
<1>2. hooks' = hooks /\ writers' = writers /\ ci.run \in Attempt
  BY <1>1, RegisterIs
<1>3. ASSUME NEW r \in RowType, rows' = Append(rows, r), r.status # "running",
             r.status = "failed" => r.port = "none"
      PROVE  (Praised(run)' => Praised(run)) /\ (Accused(run)' => Accused(run))
  <2>1. /\ DOMAIN rows' = 1..Len(rows) + 1 /\ DOMAIN rows = 1..Len(rows) /\ Len(rows) \in Nat
        /\ rows'[Len(rows) + 1] = r /\ \A i \in 1..Len(rows) : rows'[i] = rows[i]
    BY <1>3, AddOne, RowsAreRows DEF Types
  <2>2. \A i \in 1..Len(rows) + 1 : i \in 1..Len(rows) \/ i = Len(rows) + 1
    BY <2>1
  <2> QED
    BY <1>2, <1>3, <2>1, <2>2 DEF Praised, Accused
<1>4. /\ Row(ci.run, "building", "assigned") \in RowType
      /\ Row(ci.run, "failed", "none") \in RowType
  BY <1>2, NewRowType DEF Status
<1>5. CASE rows' = rows
  BY <1>2, <1>5, UnchangedRows, SameClaims
<1>6. /\ Row(ci.run, "building", "assigned").status = "building"
      /\ Row(ci.run, "failed", "none").status = "failed"
      /\ Row(ci.run, "failed", "none").port = "none"
  BY DEF Row
<1> QED
  BY <1>1, <1>3, <1>4, <1>5, <1>6, RegisterIs DEF Registered

(***************************************************************************)
(* The job                                                                 *)
(***************************************************************************)
LEMMA JobStep == ASSUME Types, Types', JobInv, [Next]_vars PROVE JobInv'

<1>1. JobRuns /\ ci \in JobType /\ ci' \in JobType /\ attempts \in Nat
  BY DEF JobInv, JobRuns, Types, JobOK, BoundsOK
<1>2. CASE Quiet
  <2>1. Mine' = Mine /\ passed' = passed
    BY <1>2 DEF Mine, Quiet
  <2>2. ci.row # None => ci.row \in 1..Len(rows)
    BY DEF Types, JobOK
  <2>3. \A w \in writers : w.row # None => w.row \in 1..Len(rows)
    BY DEF Types, QueuesOK
  <2> QED
    BY <1>2, <2>1, <2>2, <2>3 DEF JobInv, Quiet, SameRows
<1>3. CASE Trigger
  <2>1. PICK run : ci' = [Idle EXCEPT !.run = run, !.step = "checkout"] /\ run # None
    BY <1>3 DEF Trigger
  <2>2. /\ ci'.run # None /\ ci'.row = None /\ ci'.step = "checkout" /\ ci'.status = "success"
        /\ attempts' = attempts + 1 /\ UNCHANGED <<rows, passed, writers>>
    BY <1>3, <2>1 DEF Trigger, Idle, server
  <2>3. Mine' \notin passed'
    <3>1. \A p \in passed : p[1] <= attempts
      BY DEF JobInv
    <3>2. Mine'[1] = attempts + 1
      BY <2>2 DEF Mine
    <3> QED
      BY <1>1, <2>2, <3>1, <3>2
  <2>4. \A p \in passed' : p[1] \in Nat /\ p[1] <= attempts'
    BY <1>1, <2>2 DEF JobInv, Types, PassedOK, Attempt
  <2> QED
    BY <1>1, <2>2, <2>3, <2>4 DEF JobInv
<1>4. CASE Register
  <2>1. /\ UNCHANGED <<passed, writers, attempts>> /\ ci.step = "register"
        /\ ci'.step \notin {"idle", "undo", "restore"} /\ ci'.run = ci.run
        /\ ci'.step \in Before => ci'.status = "success"
    BY <1>1, <1>4, RegisterIs DEF Go, Fail, JobType, bounds, Before, JobInv
  <2>2. Mine' = Mine /\ Mine \notin passed
    BY <2>1 DEF Mine, JobInv, Before
  <2>3. \A i \in 1..Len(rows) : rows'[i].run = rows[i].run
    <3>1. \A r \in RowType : rows' = Append(rows, r) => \A i \in 1..Len(rows) : rows'[i] = rows[i]
      BY AddOne DEF Types
    <3>2. /\ Row(ci.run, "building", "assigned") \in RowType
          /\ Row(ci.run, "failed", "none") \in RowType
      BY <1>1, <1>4, RegisterIs, NewRowType DEF Status
    <3> QED
      BY <1>1, <1>4, <3>1, <3>2, RegisterIs DEF Registered
  <2>4. ci'.row # None => rows'[ci'.row].run = ci'.run
    <3>1. CASE ci'.row = ci.row
      <4>1. ci.row # None => ci.row \in 1..Len(rows) /\ rows[ci.row].run = ci.run
        BY DEF Types, JobOK, JobInv
      <4> QED
        BY <2>1, <2>3, <3>1, <4>1
    <3>2. CASE ci'.row = Len(rows) + 1 /\ rows' = Registered
      <4> DEFINE r == Row(ci.run, "building", "assigned")
      <4>1. r \in RowType /\ rows \in Seq(RowType) /\ rows' = Append(rows, r)
        BY <1>1, <1>4, <3>2, RegisterIs, NewRowType DEF Status, Registered, Types
      <4>2. r.run = ci.run
        BY DEF Row
      <4> HIDE DEF r
      <4>3. rows'[Len(rows) + 1] = r
        BY <4>1, AddOne
      <4> QED
        BY <2>1, <3>2, <4>2, <4>3
    <3>3. \/ ci'.row = ci.row \/ (ci'.row = Len(rows) + 1 /\ rows' = Registered)
      BY <1>1, <1>4, RegisterIs DEF Go, Fail, JobType
    <3> QED
      BY <3>1, <3>2, <3>3
  <2>5. \A w \in writers' : w.row # None => rows'[w.row].run = w.run
    <3>1. \A w \in writers : w.row # None => w.row \in 1..Len(rows)
      BY DEF Types, QueuesOK
    <3> QED
      BY <2>1, <2>3, <3>1 DEF JobInv
  <2> QED
    BY <2>1, <2>2, <2>4, <2>5 DEF JobInv
<1>5. CASE Run \/ Health
  <2>1. Mine' = Mine
    BY <1>5, PassIs DEF Mine
  <2>2. Mine \notin passed /\ Mine[1] = attempts
    BY <1>5, PassIs DEF JobInv, Before, Mine
  <2>3. \A p \in passed' : p[1] <= attempts'
    BY <1>1, <1>5, <2>2, PassIs DEF JobInv
  <2>4. /\ UNCHANGED <<rows, writers, attempts>> /\ ci'.run = ci.run /\ ci'.row = ci.row
        /\ ci'.step \notin {"idle", "undo", "restore"} /\ ci.step # "idle"
    BY <1>5, PassIs
  <2>5. ci'.step \in Before => ci'.status = "success" /\ passed' = passed
    BY <1>5, PassIs
  <2>6. ci'.status # "success" => passed' = passed
    BY <1>5, PassIs
  <2> QED
    BY <2>1, <2>2, <2>3, <2>4, <2>5, <2>6 DEF JobInv
<1>6. CASE Report
  <2>1. /\ UNCHANGED <<passed, writers, attempts>> /\ ci'.step = "idle"
        /\ ci'.run = ci.run /\ ci'.row = ci.row
    BY <1>1, <1>6, ReportIs DEF Go, JobType
  <2>2. \A i \in 1..Len(rows) : rows'[i].run = rows[i].run
    <3>1. CASE rows' = rows
      BY <3>1
    <3>2. CASE ci.row # None /\ Finish
      <4>1. /\ ci.row \in 1..Len(rows) /\ Finished \in RowType
            /\ rows' = [rows EXCEPT ![ci.row] = Finished] /\ rows[ci.row] \in RowType
        BY <3>2, FinishIs, RowsAreRows
      <4>2. Finished.run = rows[ci.row].run
        BY <4>1 DEF Finished, RowType
      <4> QED
        BY <4>1, <4>2, RowsAreRows DEF Types
    <3> QED
      BY <1>1, <1>6, <3>1, <3>2, ReportIs DEF Tell
  <2>3. ci.row # None => ci.row \in 1..Len(rows)
    BY DEF Types, JobOK
  <2>4. \A w \in writers : w.row # None => w.row \in 1..Len(rows)
    BY DEF Types, QueuesOK
  <2> QED
    BY <2>1, <2>2, <2>3, <2>4 DEF JobInv, Before
<1>7. CASE Cancel
  <2>1. /\ UNCHANGED <<rows, writers, attempts>> /\ passed' = passed \ {Mine}
        /\ ci'.run = ci.run /\ ci'.row = ci.row /\ ci'.status = "cancelled"
        /\ ci'.step \in {"ship", "report"} /\ ci.step # "idle"
    BY <1>1, <1>7 DEF Cancel, JobType, Mine, Event
  <2>2. Mine' = Mine
    BY <2>1 DEF Mine
  <2> QED
    BY <2>1, <2>2 DEF JobInv, Before
<1>8. ASSUME NEW run \in Attempt \cup {Other}, NEW ok \in BOOLEAN, Query(run, ok) PROVE JobInv'
  <2>1. /\ UNCHANGED <<rows, ci, passed, attempts>>
        /\ \E w : /\ writers' = writers \cup {w} /\ w.run = run
                  /\ w.row = None \/ rows[w.row].run = run
    BY <1>8, QueryIs
  <2>2. Mine' = Mine
    BY <2>1 DEF Mine
  <2> QED
    BY <2>1, <2>2 DEF JobInv
<1>9. ASSUME NEW w \in writers, Commit(w) PROVE JobInv'
  <2>1. UNCHANGED <<ci, passed, attempts>> /\ writers' \subseteq writers
    BY <1>9, CommitIs DEF bounds
  <2>2. \A i \in 1..Len(rows) : rows'[i].run = rows[i].run
    <3>1. CASE w.row = None
      <4> DEFINE r == Row(w.run, w.verdict, "none")
      <4>1. r \in RowType /\ rows' = Append(rows, r) /\ rows \in Seq(RowType)
        <5>1. w.row \notin 1..Len(rows) /\ rows \in Seq(RowType)
          BY <3>1, RowsAreRows DEF None, Types
        <5> QED
          BY <1>9, <5>1, CommitIs, Zenon
      <4> HIDE DEF r
      <4> QED
        BY <4>1, AddOne
    <3>2. CASE w.row # None
      <4>1. PICK v \in {rows[w.row].status, w.verdict} :
               rows' = [rows EXCEPT ![w.row] = [rows[w.row] EXCEPT !.status = v]]
        BY <1>9, <3>2, CommitIs
      <4>2. w.row \in 1..Len(rows) /\ rows[w.row] \in RowType
        BY <1>9, <3>2, CommitIs, RowsAreRows
      <4>3. [rows[w.row] EXCEPT !.status = v].run = rows[w.row].run
        BY <4>2 DEF RowType
      <4> QED
        BY <4>1, <4>2, <4>3, RowsAreRows DEF Types
    <3> QED
      BY <3>1, <3>2
  <2>3. ci.row # None => ci.row \in 1..Len(rows)
    BY DEF Types, JobOK
  <2>4. \A x \in writers : x.row # None => x.row \in 1..Len(rows)
    BY DEF Types, QueuesOK
  <2>5. Mine' = Mine
    BY <2>1 DEF Mine
  <2> QED
    BY <2>1, <2>2, <2>3, <2>4, <2>5 DEF JobInv
<1>10. CASE Job
  BY <1>2, <1>4, <1>5, <1>6, <1>10, WorkIsQuiet DEF Job
<1>11. ASSUME NEW h \in hooks, Deliver(h) PROVE JobInv'
  BY <1>8, <1>11, DeliverIs
<1>12. CASE DeliverOther
  BY <1>8, <1>12 DEF DeliverOther
<1>13. CASE \/ UNCHANGED vars \/ IngestLogs \/ Restart
            \/ (\E j \in jobs : Analyze(j)) \/ \E i \in DOMAIN rows : FixRollback(i)
  BY <1>2, <1>13, BackgroundIsQuiet
<1> QED
  BY <1>3, <1>7, <1>9, <1>10, <1>11, <1>12, <1>13 DEF Next

(***************************************************************************)
(* What is on record as good has passed                                    *)
(***************************************************************************)
LEMMA VouchStep == ASSUME Types, Types', JobInv, JobInv', VouchInv, [Next]_vars PROVE VouchInv'
<1> DEFINE Runs == Attempt \cup {Other}
           Lives == ci'.step = "health" => live'.build = attempts'
           Good == ci'.step \in {"ship", "report"} /\ ci'.status = "success" => Mine' \in passed'
<1>1. JobRuns /\ ci \in JobType /\ attempts \in Nat /\ ci.run \in {None} \cup Attempt
  BY DEF JobInv, JobRuns, Types, JobOK, JobType, BoundsOK
<1>2. "fix" \notin history =>
        /\ ci.step = "health" => live.build = attempts
        /\ ci.step \in {"ship", "report"} /\ ci.status = "success" => Mine \in passed
        /\ \A run \in Runs : Praised(run) => Vouched(run)
  BY DEF VouchInv
\* What a step has to keep, and what it may add.
<1>3. ASSUME history \subseteq history', Kept,
             "fix" \notin history' => Lives /\ Good,
             \A run \in Runs : Praised(run)' => \/ Praised(run) \/ run = Other
                                                \/ "fix" \in history' \/ Vouched(run)'
      PROVE  VouchInv'
  <2>1. \A run \in Runs : Vouched(run) => Vouched(run)'
    BY <1>3, KeptVouches
  <2>2. \A run : run = Other => Vouched(run)'
    BY DEF Vouched
  <2>3. "fix" \notin history' => \A run \in Runs : Praised(run)' => Vouched(run)'
    BY <1>2, <1>3, <2>1, <2>2
  <2> QED
    BY <1>3, <2>3 DEF VouchInv
<1>4. CASE Quiet
  <2>1. Kept
    BY <1>4 DEF Quiet, Kept
  <2>2. Mine' = Mine
    BY <1>4 DEF Quiet, Mine
  <2>3. \A run \in Runs : Praised(run)' => Praised(run)
    BY <1>4, SameClaims DEF Quiet
  <2>4. history \subseteq history' /\ ("fix" \notin history' => "fix" \notin history)
    BY <1>4 DEF Quiet
  <2>5. "fix" \notin history' => Lives /\ Good
    BY <1>2, <1>4, <2>2, <2>4 DEF Quiet
  <2> QED
    BY <1>3, <2>1, <2>3, <2>4, <2>5
<1>5. CASE Trigger
  <2>1. /\ attempts' = attempts + 1 /\ UNCHANGED <<rows, passed, hooks, writers>>
        /\ history \subseteq history' /\ ci'.step = "checkout"
    BY <1>5 DEF Trigger, Idle, server
  <2>2. Kept
    <3>1. \A p \in passed : p[1] \in Nat /\ p[1] <= attempts
      BY DEF JobInv, Types, PassedOK, Attempt
    <3> QED
      BY <1>1, <2>1, <3>1 DEF Kept
  <2>3. \A run \in Runs : Praised(run)' => Praised(run)
    BY <2>1, UnchangedRows, SameClaims
  <2> QED
    BY <1>3, <2>1, <2>2, <2>3
<1>6. CASE Register
  <2>1. /\ UNCHANGED <<passed, attempts, history>> /\ ci.step = "register"
        /\ ci'.step \notin {"idle", "health"}
        /\ ci'.step \in {"ship", "report"} => ci'.status = "failure"
    BY <1>1, <1>6, RegisterIs DEF Go, Fail, JobType, bounds
  <2>2. Kept
    BY <2>1 DEF Kept
  <2>3. \A run \in Runs : Praised(run)' => Praised(run)
    BY <1>6, RegisterClaims
  <2> QED
    BY <1>3, <2>1, <2>2, <2>3
<1>7. CASE Run \/ Health
  <2>1. /\ UNCHANGED <<rows, hooks, writers, attempts, history>> /\ passed \subseteq passed'
        /\ ci.step \notin {"idle"} /\ Mine' = Mine
    BY <1>7, PassIs DEF Mine
  <2>2. Kept
    BY <2>1 DEF Kept
  <2>3. \A run \in Runs : Praised(run)' => Praised(run)
    BY <2>1, UnchangedRows, SameClaims
  <2>4. Lives
    BY <1>7, PassIs DEF Before
  <2>5. "fix" \notin history => Good
    <3>1. /\ ci'.step \in {"ship", "report"} /\ ci'.status = "success"
               => (live'.build # attempts /\ ci.step = "health") \/ Mine \in passed'
          /\ ci.step = "health" => live' = live
      BY <1>7, <2>1, PassIs
    <3> QED
      BY <1>2, <2>1, <3>1
  <2> QED
    BY <1>3, <2>1, <2>2, <2>3, <2>4, <2>5
<1>8. CASE Report
  <2>1. /\ passed' = passed /\ attempts' = attempts /\ history \subseteq history'
        /\ ci.step = "report" /\ ci'.step = "idle"
    BY <1>1, <1>8, ReportIs DEF Go, JobType, Plain, Loss
  <2>2. Kept
    BY <2>1 DEF Kept
  <2>3. ASSUME NEW run \in Runs, Praised(run)', ~Praised(run), "fix" \notin history'
        PROVE  Vouched(run)'
    <3>1. run = ci.run /\ ci.status = "success"
      BY <1>8, <2>3, ReportClaims
    <3>2. Mine \in passed /\ Mine[2] = ci.run
      BY <1>2, <2>1, <2>3, <3>1 DEF Mine
    <3> QED
      BY <2>1, <3>1, <3>2 DEF Vouched
  <2> QED
    BY <1>3, <2>1, <2>2, <2>3
<1>9. CASE Cancel
  <2>1. /\ UNCHANGED <<rows, hooks, writers, attempts, history>> /\ passed' = passed \ {Mine}
        /\ ci'.status = "cancelled" /\ ci'.step \in {"ship", "report"} /\ ci.step # "idle"
    BY <1>1, <1>9 DEF Cancel, JobType, Mine, Event
  <2>2. Kept
    <3>1. \A p \in passed : p[1] # attempts => p # Mine
      BY DEF Mine
    <3> QED
      BY <2>1, <3>1 DEF Kept
  <2>3. \A run \in Runs : Praised(run)' => Praised(run)
    BY <2>1, UnchangedRows, SameClaims
  <2> QED
    BY <1>3, <2>1, <2>2, <2>3
<1>10. ASSUME NEW of \in Attempt \cup {Other}, NEW ok \in BOOLEAN, Query(of, ok),
              of = Other \/ \E h \in hooks : h.run = of /\ h.ok = ok
       PROVE  VouchInv'
  <2>1. UNCHANGED <<ci, live, passed, attempts, history>>
    BY <1>10, QueryIs
  <2>2. Kept /\ Mine' = Mine
    BY <2>1 DEF Kept, Mine
  <2>3. \A run \in Runs : Praised(run)' => Praised(run) \/ run = Other
    BY <1>10, QueryClaims
  <2>4. "fix" \notin history' => Lives /\ Good
    BY <1>2, <2>1, <2>2
  <2> QED
    BY <1>3, <2>1, <2>2, <2>3, <2>4
<1>11. ASSUME NEW w \in writers, Commit(w) PROVE VouchInv'
  <2>1. UNCHANGED <<ci, live, passed, attempts, history>>
    BY <1>11, CommitIs DEF bounds
  <2>2. Kept /\ Mine' = Mine
    BY <2>1 DEF Kept, Mine
  <2>3. \A run \in Runs : Praised(run)' => Praised(run)
    BY <1>11, CommitClaims
  <2>4. "fix" \notin history' => Lives /\ Good
    BY <1>2, <2>1, <2>2
  <2> QED
    BY <1>3, <2>1, <2>2, <2>3, <2>4
<1>12. CASE Job
  BY <1>4, <1>6, <1>7, <1>8, <1>12, WorkIsQuiet DEF Job
<1>13. ASSUME NEW h \in hooks, Deliver(h) PROVE VouchInv'
  BY <1>10, <1>13, DeliverIs
<1>14. CASE DeliverOther
  BY <1>10, <1>14 DEF DeliverOther
<1>15. CASE \/ UNCHANGED vars \/ IngestLogs \/ Restart
            \/ (\E j \in jobs : Analyze(j)) \/ \E i \in DOMAIN rows : FixRollback(i)
  BY <1>4, <1>15, BackgroundIsQuiet
<1> QED
  BY <1>5, <1>9, <1>11, <1>12, <1>13, <1>14, <1>15 DEF Next

(***************************************************************************)
(* What is on record as failed has not passed                              *)
(***************************************************************************)
LEMMA BlameStep == ASSUME Types, Types', JobInv, JobInv', BlameInv, [Next]_vars PROVE BlameInv'
<1> DEFINE Runs == Attempt \cup {Other}
           Clear0 == history \cap {"rerun", "verdict"} = {}
           Clear1 == history' \cap {"rerun", "verdict"} = {}
<1>1. /\ JobRuns /\ ci \in JobType /\ attempts \in Nat /\ ci.run \in {None} \cup Attempt
      /\ Runs \subseteq Nat
  BY DeploymentsAssumption DEF JobInv, JobRuns, Types, JobOK, JobType, BoundsOK, Attempt, Other
<1>2. Clear0 => /\ ci.run = attempts /\ \A p \in passed : p[1] = p[2]
                /\ \A run \in Runs : Accused(run) => Blamed(run)
  BY DEF BlameInv
<1>3. Clear0 /\ Mine \notin passed => attempts \notin PassedRuns
  BY <1>2 DEF Mine, PassedRuns, Types, PassedOK
\* What a step has to keep, and what it may add.
<1>4. ASSUME history \subseteq history',
             Clear1 => /\ ci'.run = attempts' /\ \A p \in passed' : p[1] = p[2]
                       /\ \A run \in Runs : Blamed(run) => Blamed(run)',
             \A run \in Runs : Accused(run)' => \/ Accused(run) \/ run = Other
                                                \/ ~Clear1 \/ Blamed(run)'
      PROVE  BlameInv'
  <2>1. Clear1 => Clear0
    BY <1>4
  <2>2. \A run : run = Other => Blamed(run)'
    BY DEF Blamed
  <2>3. Clear1 => \A run \in Runs : Accused(run)' => Blamed(run)'
    BY <1>2, <1>4, <2>1, <2>2
  <2> QED
    BY <1>4, <2>3 DEF BlameInv
\* No run passes, and the job is not less over than it was.
<1>5. ASSUME passed' \subseteq passed, attempts' = attempts, ci.step = "idle" => ci'.step = "idle"
      PROVE  \A run \in Runs : Blamed(run) => Blamed(run)'
  BY <1>5 DEF Blamed, PassedRuns
<1>6. CASE Quiet
  <2>1. \A run \in Runs : Accused(run)' => Accused(run)
    BY <1>6, SameClaims DEF Quiet
  <2>2. \A run \in Runs : Blamed(run) => Blamed(run)'
    BY <1>5, <1>6 DEF Quiet
  <2>3. /\ history \subseteq history' /\ ci'.run = ci.run
        /\ attempts' = attempts /\ passed' = passed
    BY <1>6 DEF Quiet
  <2> QED
    BY <1>2, <1>4, <2>1, <2>2, <2>3
<1>7. CASE Trigger
  <2>1. PICK run \in {attempts + 1, ci.run} \ {None} :
          /\ ci' = [Idle EXCEPT !.run = run, !.step = "checkout"]
          /\ history' = IF run = ci.run THEN history \cup {"rerun"} ELSE history
    BY <1>7 DEF Trigger
  <2>2. /\ attempts' = attempts + 1 /\ UNCHANGED <<rows, passed, hooks, writers>>
        /\ history \subseteq history' /\ ci'.run = run
    BY <1>7, <2>1 DEF Trigger, Idle, server
  <2>3. Clear1 => ci'.run = attempts'
    BY <2>1, <2>2
  <2>4. \A r \in Runs : Blamed(r) => Blamed(r)'
    BY <1>1, <2>2 DEF Blamed, PassedRuns
  <2>5. \A r \in Runs : Accused(r)' => Accused(r)
    BY <2>2, UnchangedRows, SameClaims
  <2> QED
    BY <1>2, <1>4, <2>2, <2>3, <2>4, <2>5
<1>8. CASE Register
  <2>1. /\ UNCHANGED <<passed, attempts, history>> /\ ci.step = "register" /\ ci'.run = ci.run
    BY <1>1, <1>8, RegisterIs DEF Go, Fail, JobType, bounds
  <2>2. \A run \in Runs : Accused(run)' => Accused(run)
    BY <1>8, RegisterClaims
  <2>3. \A run \in Runs : Blamed(run) => Blamed(run)'
    BY <1>5, <2>1
  <2> QED
    BY <1>2, <1>4, <2>1, <2>2, <2>3
<1>9. CASE Run \/ Health
  <2>1. /\ UNCHANGED <<rows, hooks, writers, attempts, history>>
        /\ passed' \subseteq passed \cup {Mine} /\ ci'.run = ci.run
        /\ ci.step # "idle" /\ ci'.step # "idle"
    BY <1>9, PassIs
  <2>2. Mine[1] = attempts /\ Mine[2] = ci.run
    BY DEF Mine
  <2>3. Clear1 => ci'.run = attempts' /\ \A p \in passed' : p[1] = p[2]
    BY <1>2, <2>1, <2>2
  <2>4. \A r : r \in PassedRuns' => r \in PassedRuns \/ r = ci.run
    BY <2>1, <2>2 DEF PassedRuns
  <2>5. Clear1 => \A run \in Runs : Blamed(run) => Blamed(run)'
    BY <1>2, <2>1, <2>4 DEF Blamed
  <2>6. \A run \in Runs : Accused(run)' => Accused(run)
    BY <2>1, UnchangedRows, SameClaims
  <2> QED
    BY <1>4, <2>1, <2>3, <2>5, <2>6
<1>10. CASE Report
  <2>1. /\ passed' = passed /\ attempts' = attempts /\ history \subseteq history'
        /\ ci.step = "report" /\ ci'.step = "idle" /\ ci'.run = ci.run
    BY <1>1, <1>10, ReportIs DEF Go, JobType, Plain, Loss
  <2>2. \A run \in Runs : Blamed(run) => Blamed(run)'
    BY <1>5, <2>1
  <2>3. ASSUME NEW run \in Runs, Accused(run)', ~Accused(run), Clear1
        PROVE  Blamed(run)'
    <3>1. run = ci.run /\ ci.status # "success" /\ Clear0
      BY <1>10, <2>1, <2>3, ReportClaims
    <3>2. Mine \notin passed
      BY <2>1, <3>1 DEF JobInv
    <3>3. run = attempts /\ run \notin PassedRuns
      BY <1>2, <1>3, <3>1, <3>2
    <3>4. run \notin PassedRuns'
      BY <2>1, <3>3 DEF PassedRuns
    <3> QED
      BY <1>1, <2>1, <3>3, <3>4 DEF Blamed
  <2> QED
    BY <1>2, <1>4, <2>1, <2>2, <2>3
<1>11. CASE Cancel
  <2>1. /\ UNCHANGED <<rows, hooks, writers, attempts, history>> /\ passed' \subseteq passed
        /\ ci'.run = ci.run /\ ci.step # "idle"
    BY <1>1, <1>11 DEF Cancel, JobType, Event
  <2>2. \A run \in Runs : Accused(run)' => Accused(run)
    BY <2>1, UnchangedRows, SameClaims
  <2>3. \A run \in Runs : Blamed(run) => Blamed(run)'
    BY <1>5, <2>1
  <2> QED
    BY <1>2, <1>4, <2>1, <2>2, <2>3
<1>12. ASSUME UNCHANGED <<ci, passed, attempts, history>>,
              \A run \in Runs : Accused(run)' => Accused(run) \/ run = Other
       PROVE  BlameInv'
  <2>1. \A run \in Runs : Blamed(run) => Blamed(run)'
    BY <1>5, <1>12
  <2> QED
    BY <1>2, <1>4, <1>12, <2>1
<1>13. ASSUME NEW of \in Attempt \cup {Other}, NEW ok \in BOOLEAN, Query(of, ok),
              of = Other \/ \E h \in hooks : h.run = of /\ h.ok = ok
       PROVE  BlameInv'
  BY <1>12, <1>13, QueryIs, QueryClaims
<1>14. ASSUME NEW w \in writers, Commit(w) PROVE BlameInv'
  BY <1>12, <1>14, CommitIs, CommitClaims DEF bounds
<1>15. CASE Job
  BY <1>6, <1>8, <1>9, <1>10, <1>15, WorkIsQuiet DEF Job
<1>16. ASSUME NEW h \in hooks, Deliver(h) PROVE BlameInv'
  BY <1>13, <1>16, DeliverIs
<1>17. CASE DeliverOther
  BY <1>13, <1>17 DEF DeliverOther
<1>18. CASE \/ UNCHANGED vars \/ IngestLogs \/ Restart
            \/ (\E j \in jobs : Analyze(j)) \/ \E i \in DOMAIN rows : FixRollback(i)
  BY <1>6, <1>18, BackgroundIsQuiet
<1> QED
  BY <1>7, <1>11, <1>14, <1>15, <1>16, <1>17, <1>18 DEF Next

(***************************************************************************)
(* Images on record                                                        *)
(***************************************************************************)
LEMMA NoImageStep == ASSUME Types, Types', JobInv, NoImage, [Next]_vars PROVE NoImage'
<1>1. JobRuns /\ ci \in JobType /\ rows \in Seq(RowType) /\ Len(rows) \in Nat
  BY DEF JobInv, JobRuns, Types, JobOK
<1>2. ASSUME flow' = flow, "fix" \in history' => "fix" \in history,
             flow = "reusable" => ci'.row \in {None, ci.row},
             flow # "repaired" => \A i \in DOMAIN rows' :
                 (i \in DOMAIN rows /\ rows'[i].image = rows[i].image) \/ rows'[i].image = None
      PROVE  NoImage'
  BY <1>2 DEF NoImage
<1>3. ASSUME SameRows, flow' = flow, "fix" \in history' => "fix" \in history, ci'.row \in {None, ci.row}
      PROVE  NoImage'
  <2>1. DOMAIN rows' = DOMAIN rows /\ DOMAIN rows = 1..Len(rows)
    BY <1>3, RowsAreRows DEF SameRows, Types
  <2> QED
    BY <1>2, <1>3, <2>1 DEF SameRows
<1>4. ASSUME NEW r \in RowType, rows' = Append(rows, r), r.image = None,
             flow' = flow, history' = history, flow = "reusable" => ci'.row = ci.row
      PROVE  NoImage'
  <2>1. /\ DOMAIN rows' = 1..Len(rows) + 1 /\ DOMAIN rows = 1..Len(rows)
        /\ rows'[Len(rows) + 1] = r /\ \A i \in 1..Len(rows) : rows'[i] = rows[i]
    BY <1>1, <1>4, AddOne, RowsAreRows
  <2>2. \A i \in 1..Len(rows) + 1 : i \in 1..Len(rows) \/ i = Len(rows) + 1
    BY <1>1
  <2> QED
    BY <1>2, <1>4, <2>1, <2>2
<1>5. \A run, status, port : Row(run, status, port).image = None
  BY DEF Row
<1>6. CASE Trigger
  <2>1. UNCHANGED <<flow, rows>> /\ ci'.row = None
    BY <1>6 DEF Trigger, Idle
  <2>2. "fix" \in history' => "fix" \in history
    BY <1>6 DEF Trigger
  <2> QED
    BY <1>3, <2>1, <2>2, UnchangedRows
<1>7. CASE Register
  <2>1. /\ Row(ci.run, "building", "assigned") \in RowType
        /\ Row(ci.run, "failed", "none") \in RowType
    BY <1>1, <1>7, RegisterIs, NewRowType DEF Status
  <2>2. flow' = flow /\ history' = history
    BY <1>1, <1>7, RegisterIs
  <2>3. flow = "reusable" => ci'.row = ci.row
    BY <1>1, <1>7, RegisterIs, FailType, GoType
  <2>4. ci'.row = ci.row \/ rows' = Registered
    BY <1>1, <1>7, RegisterIs, FailType, GoType
  <2>5. CASE rows' = rows
    BY <1>3, <2>2, <2>4, <2>5, UnchangedRows DEF Registered
  <2>6. CASE rows' = Registered \/ rows' = Append(rows, Row(ci.run, "failed", "none"))
    BY <1>4, <1>5, <2>1, <2>2, <2>3, <2>6 DEF Registered
  <2> QED
    BY <1>1, <1>7, <2>5, <2>6, RegisterIs
<1>8. CASE Report
  <2>1. flow' = flow /\ ci'.row = ci.row
    BY <1>1, <1>8, ReportIs, GoType
  <2>2. "fix" \in history' => "fix" \in history
    <3>1. \/ Plain \/ Loss("finish") \/ Loss("verdict")
      BY <1>8 DEF Report
    <3>2. Plain => history' = history
      BY DEF Plain
    <3>3. \A call \in {"finish", "verdict"} : Loss(call) => history' = history \cup {call}
      BY DEF Loss
    <3> QED
      BY <3>1, <3>2, <3>3
  <2>3. CASE rows' = rows
    BY <1>3, <2>1, <2>2, <2>3, UnchangedRows
  <2>4. CASE ci.row # None /\ Finish
    <3>1. /\ ci.row \in 1..Len(rows) /\ Finished \in RowType
          /\ rows' = [rows EXCEPT ![ci.row] = Finished] /\ rows[ci.row] \in RowType
      BY <2>4, FinishIs, RowsAreRows
    <3>2. flow # "repaired" => Finished.image = rows[ci.row].image
      <4>1. flow # "repaired" => ~Reusable
        BY <2>4 DEF NoImage, Reusable, Types, BoundsOK, Flow
      <4> QED
        BY <3>1, <4>1 DEF Finished, RowType
    <3>3. DOMAIN rows' = DOMAIN rows /\ \A i \in DOMAIN rows :
             rows'[i] = IF i = ci.row THEN Finished ELSE rows[i]
      BY <3>1, RowsAreRows DEF Types
    <3> QED
      BY <1>2, <2>1, <2>2, <3>2, <3>3
  <2> QED
    BY <1>1, <1>8, <2>3, <2>4, ReportIs DEF Tell
<1>9. ASSUME NEW w \in writers, Commit(w) PROVE NoImage'
  <2>1. UNCHANGED <<flow, ci, history>>
    BY <1>9, CommitIs
  <2>2. CASE w.row = None
    <3> DEFINE r == Row(w.run, w.verdict, "none")
    <3>1. r \in RowType /\ rows' = Append(rows, r)
      <4>1. w.row \notin 1..Len(rows)
        BY <2>2, RowsAreRows DEF None
      <4> QED
        BY <1>9, <4>1, CommitIs, Zenon
    <3>2. r.image = None
      BY <1>5
    <3> HIDE DEF r
    <3> QED
      BY <1>4, <2>1, <3>1, <3>2
  <2>3. CASE w.row # None
    <3>1. PICK v \in {rows[w.row].status, w.verdict} :
             rows' = [rows EXCEPT ![w.row] = [rows[w.row] EXCEPT !.status = v]]
      BY <1>9, <2>3, CommitIs
    <3>2. w.row \in 1..Len(rows) /\ rows[w.row] \in RowType
      BY <1>9, <2>3, CommitIs, RowsAreRows
    <3> DEFINE r == [rows[w.row] EXCEPT !.status = v]
    <3>3. r.image = rows[w.row].image
      BY <3>2 DEF RowType
    <3>4. DOMAIN rows' = DOMAIN rows /\ \A i \in DOMAIN rows :
             rows'[i] = IF i = w.row THEN r ELSE rows[i]
      BY <3>1, <3>2, RowsAreRows DEF Types
    <3> HIDE DEF r
    <3> QED
      BY <1>2, <2>1, <3>3, <3>4
  <2> QED
    BY <2>2, <2>3
<1>10. ASSUME NEW i \in DOMAIN rows, FixRollback(i) PROVE NoImage'
  <2> DEFINE S == {j \in DOMAIN rows \ {i} : rows[j].status = "running"}
  <2>1. /\ Latest(S) # None /\ rows[Latest(S)].image # None
        /\ UNCHANGED <<flow, rows, ci>>
    BY <1>10 DEF FixRollback
  <2>2. Latest(S) \in DOMAIN rows
    <3>1. S \in SUBSET (1..Len(rows)) /\ Len(rows) \in Nat
      BY RowsAreRows
    <3> HIDE DEF S
    <3> QED
      BY <2>1, <3>1, LatestType, RowsAreRows
  <2> QED
    BY <2>1, <2>2 DEF NoImage
<1>11. CASE \/ Checkout \/ Build \/ Clear \/ Ship \/ Undo \/ Restore \/ Run \/ Health
  <2>1. SameRows /\ ci'.row = ci.row
    BY <1>11, WorkIsQuiet, PassIs, UnchangedRows DEF Quiet
  <2>2. flow' = flow /\ ("fix" \in history' => "fix" \in history)
    BY <1>11 DEF Checkout, Build, Clear, Ship, Undo, Restore, Run, Health, Plain, Loss
  <2> QED
    BY <1>3, <2>1, <2>2
<1>12. CASE \/ UNCHANGED vars \/ IngestLogs \/ Restart \/ \E j \in jobs : Analyze(j)
  <2>1. SameRows /\ ci'.row = ci.row
    BY <1>12, BackgroundIsQuiet DEF Quiet
  <2>2. flow' = flow /\ ("fix" \in history' => "fix" \in history)
    BY <1>12 DEF vars, IngestLogs, Restart, Analyze, Loss
  <2> QED
    BY <1>3, <2>1, <2>2
<1>13. CASE Cancel
  <2>1. UNCHANGED <<flow, rows, history>> /\ ci'.row = ci.row
    BY <1>1, <1>13 DEF Cancel, JobType
  <2> QED
    BY <1>3, <2>1, UnchangedRows
<1>14. ASSUME NEW run \in Attempt \cup {Other}, NEW ok \in BOOLEAN, Query(run, ok) PROVE NoImage'
  <2>1. UNCHANGED <<flow, rows, ci, history>>
    BY <1>14, QueryIs
  <2> QED
    BY <1>3, <2>1, UnchangedRows
<1>15. ASSUME NEW h \in hooks, Deliver(h) PROVE NoImage'
  BY <1>14, <1>15, DeliverIs
<1>16. CASE DeliverOther
  BY <1>14, <1>16 DEF DeliverOther
<1> QED
  BY <1>6, <1>7, <1>8, <1>9, <1>10, <1>11, <1>12, <1>13, <1>15, <1>16 DEF Next, Job

(***************************************************************************)
(* Theorems                                                                *)
(***************************************************************************)
LEMMA AgreeInit == Init => AgreeInv
<1> SUFFICES ASSUME Init PROVE AgreeInv
  OBVIOUS
<1>1. /\ rows = <<>> /\ ci = Idle /\ passed = {} /\ hooks = {} /\ writers = {}
      /\ attempts = 0 /\ history = {} /\ DOMAIN rows = {}
  BY DEF Init
<1>2. JobInv
  BY <1>1 DEF JobInv, Idle, Before
<1>3. \A run : ~Praised(run) /\ ~Accused(run)
  BY <1>1 DEF Praised, Accused
<1>4. VouchInv /\ BlameInv
  BY <1>1, <1>3 DEF VouchInv, BlameInv, Idle, None
<1> QED
  BY <1>2, <1>4 DEF AgreeInv

\* The inductive invariant: types, how far the job is, and what supports each
\* thing said of a run.
THEOREM Inductive == Spec => [](Types /\ AgreeInv)
<1>1. Init => Types /\ AgreeInv
  BY TypeInit, AgreeInit DEF TypeInv
<1>2. Types /\ AgreeInv /\ [Next]_vars => (Types /\ AgreeInv)'
  <2> SUFFICES ASSUME Types, AgreeInv, [Next]_vars PROVE (Types /\ AgreeInv)'
    OBVIOUS
  <2>1. JobInv /\ VouchInv /\ BlameInv /\ JobRuns
    BY DEF AgreeInv, JobInv, JobRuns
  <2>2. Types'
    BY <2>1, TypesStep
  <2>3. JobInv'
    BY <2>1, <2>2, JobStep
  <2>4. VouchInv' /\ BlameInv'
    BY <2>1, <2>2, <2>3, VouchStep, BlameStep
  <2> QED
    BY <2>2, <2>3, <2>4 DEF AgreeInv
<1> QED
  BY <1>1, <1>2, PTL DEF Spec

\* Whatever is lost, repeated, cancelled or run at once, every variable keeps its
\* type: no job, delivery or analysis works on a row that does not exist.
THEOREM TypeCorrect == Spec => []TypeOK
BY Inductive, TypesImply, PTL

\* However the reports of the jobs, the deliveries of GitHub and the analyses of
\* the control plane are ordered, what is on record as running has come up, and
\* without re-runs what has passed is not on record as failed.
THEOREM ReportsAlwaysAgree == Spec => []ReportsAgree
<1>1. Types /\ AgreeInv => ReportsAgree
  <2> SUFFICES ASSUME Types, AgreeInv, "fix" \notin history, NEW i \in DOMAIN rows
               PROVE  /\ rows[i].status = "running" => rows[i].run \in PassedRuns \cup {Other}
                      /\ rows[i].status = "failed" /\ rows[i].port = "assigned"
                         /\ history \cap {"rerun", "verdict"} = {}
                           => rows[i].run \notin PassedRuns
    BY DEF ReportsAgree
  <2>1. rows[i].run \in Attempt \cup {Other}
    BY RowsAreRows DEF RowType
  <2>2. rows[i].status = "running" => Vouched(rows[i].run)
    BY <2>1 DEF AgreeInv, VouchInv, Praised
  <2>3. Vouched(rows[i].run) => rows[i].run \in PassedRuns \cup {Other}
    BY DEF Vouched, PassedRuns
  <2>4. ASSUME rows[i].status = "failed", rows[i].port = "assigned",
               history \cap {"rerun", "verdict"} = {}
        PROVE  Blamed(rows[i].run)
    <3>1. Accused(rows[i].run)
      BY <2>4 DEF Accused
    <3> QED
      BY <2>1, <2>4, <3>1 DEF AgreeInv, BlameInv
  <2>5. Blamed(rows[i].run) => rows[i].run \notin PassedRuns
    <3>1. Other \notin PassedRuns
      BY DeploymentsAssumption DEF Types, PassedOK, PassedRuns, Other, Attempt
    <3> QED
      BY <3>1 DEF Blamed
  <2> QED
    BY <2>2, <2>3, <2>4, <2>5
<1> QED
  BY <1>1, Inductive, PTL

\* As committed, neither workflow ever puts an image on record: the control plane
\* names no deployment to go back to, and no rollback fix is ever carried out.
THEOREM NothingToGoBackTo ==
    Spec => [](flow # "repaired" => /\ \A dep \in 0..Len(rows) : LastGood(dep) = None
                                    /\ "fix" \notin history)
<1>1. Init => NoImage
  BY DEF Init, NoImage, Idle
<1>2. Types /\ AgreeInv /\ NoImage /\ [Next]_vars => NoImage'
  <2> SUFFICES ASSUME Types, AgreeInv, NoImage, [Next]_vars PROVE NoImage'
    OBVIOUS
  <2>1. JobInv /\ JobRuns
    BY DEF AgreeInv, JobInv, JobRuns
  <2> QED
    BY <2>1, TypesStep, NoImageStep
<1>3. Types /\ NoImage => (flow # "repaired" => /\ \A dep \in 0..Len(rows) : LastGood(dep) = None
                                               /\ "fix" \notin history)
  <2> SUFFICES ASSUME NoImage, flow # "repaired", NEW dep PROVE LastGood(dep) = None
    BY DEF NoImage
  <2>1. {i \in DOMAIN rows \ {dep} : rows[i].status = "running" /\ rows[i].image # None} = {}
    BY DEF NoImage
  <2> QED
    BY <2>1 DEF LastGood, Latest
<1> QED
  BY <1>1, <1>2, <1>3, Inductive, PTL DEF Spec

=============================================================================
