------------------------------ MODULE Deployments ------------------------------
(***************************************************************************)
(* The deployments of one project to one server, from the push to the      *)
(* diagnosis: the CI workflow on the server's runner, the endpoints it     *)
(* calls (routers/deployments.py), GitHub's workflow_run deliveries        *)
(* (routers/webhooks.py) and the rollback fix (routers/incidents.py).      *)
(*                                                                         *)
(* A project uses the reusable workflow of .github, or the one that the    *)
(* onboarding report generates (analyzers/plan.py).  The reusable one, as  *)
(* committed, cannot read the answer of its register step; it is modelled  *)
(* so, and once more with that line repaired.  The runs of one branch      *)
(* follow one another.  An image is named after its commit and so by its   *)
(* run; a re-run builds the same name anew.                                *)
(***************************************************************************)
EXTENDS Integers, FiniteSets, Sequences

CONSTANTS
    MaxAttempts,    \* bound: jobs started, re-runs included
    MaxEvents       \* bound: deliveries, cancellations, losses, restarts, rollback
                    \* fixes and shipments of logs by the agent, all together

ASSUME DeploymentsAssumption == MaxAttempts \in Nat /\ MaxEvents \in Nat

VARIABLES
    flow,       \* the workflow the project uses
    rows,       \* the Deployment rows in the order of started_at
    ci,         \* the job on the runner
    built,      \* the attempt whose build each of the server's images is, by name
    live,       \* the container of the project: the build it runs, its port
    passed,     \* ghost: builds that answered their own health check in a job that
                \* was not cancelled then, with their runs
    hooks,      \* workflow_run deliveries GitHub makes, any number of times
    writers,    \* deliveries at work between their query and their commit
    jobs,       \* background analyses of the control plane
    attempts, events,
    history     \* ghost: what the properties make an exception of

server == <<built, live>>
bounds == <<attempts, events>>
vars == <<flow, rows, ci, server, passed, hooks, writers, jobs, bounds, history>>

Attempt == 1..MaxAttempts
Other == MaxAttempts + 1    \* a run of any other workflow of the repository
None == 0
NoApp == [build |-> None, port |-> "none"]

Row(run, status, port) ==
    [run |-> run, status |-> status, image |-> None, port |-> port,
     rollback |-> "not_attempted", logs |-> FALSE, diagnosed |-> FALSE]

Idle == [run |-> None, row |-> None, step |-> "idle", status |-> "success",
         rollback |-> "not_attempted"]

\* "reusable" is the workflow of .github as committed.
Flow == {"reusable", "repaired", "generated"}
Reusable == flow # "generated"

Init ==
    /\ flow \in Flow
    /\ rows = <<>>
    /\ ci = Idle
    /\ built = [r \in Attempt |-> None]
    /\ live = NoApp
    /\ passed = {}
    /\ hooks = {} /\ writers = {} /\ jobs = {}
    /\ attempts = 0 /\ events = 0
    /\ history = {}

Event == events < MaxEvents /\ events' = events + 1 /\ UNCHANGED attempts
Plain == UNCHANGED <<bounds, history>>
Loss(call) == Event /\ history' = history \cup {call}

Go(s) == ci' = [ci EXCEPT !.step = s]

\* A step that fails skips to the ones that run always or on failure.
Fail == ci' = [ci EXCEPT !.status = "failure",
                         !.step = IF Reusable THEN "ship" ELSE "report"]

\* The port the job believes it was given: without the answer of the register
\* step it is empty, and docker publishes on a port of its own choice.
Port == IF ci.row = None THEN "random" ELSE rows[ci.row].port

(***************************************************************************)
(* The job                                                                 *)
(***************************************************************************)
\* A push, or a re-run of the last run, which keeps the run's id.
Trigger ==
    /\ ci.step = "idle" /\ attempts < MaxAttempts
    /\ attempts' = attempts + 1
    /\ \E run \in {attempts + 1, ci.run} \ {None} :
          /\ ci' = [Idle EXCEPT !.run = run, !.step = "checkout"]
          /\ history' = IF run = ci.run THEN history \cup {"rerun"} ELSE history
    /\ UNCHANGED <<flow, rows, server, passed, hooks, writers, jobs, events>>

Checkout ==
    /\ ci.step = "checkout"
    /\ Go("register") \/ Fail
    /\ UNCHANGED <<flow, rows, server, passed, hooks, writers, jobs, bounds, history>>

Registered == Append(rows, Row(ci.run, "building", "assigned"))

\* POST /start.  allocate keeps a project's port (PortRegistry); without a free
\* one the row is kept as failed and answered 507, which the curl of the
\* generated workflow takes for an answer, as it does any error.  The reusable
\* workflow's inline script, as committed, is no valid Python (a backslash
\* within an f-string), so there the step fails after its call has succeeded.
Register ==
    /\ ci.step = "register"
    /\ \/ /\ rows' = Registered
          /\ IF flow = "reusable" THEN Fail
             ELSE ci' = [ci EXCEPT !.row = Len(rows) + 1, !.step = "build"]
       \/ /\ \A i \in DOMAIN rows : rows[i].port # "assigned"
          /\ rows' = Append(rows, Row(ci.run, "failed", "none"))
          /\ IF Reusable THEN Fail ELSE Go("build")
       \/ /\ rows' \in {rows, Registered}
          /\ Fail \/ (~Reusable /\ Go("build"))
    /\ UNCHANGED <<flow, server, passed, hooks, writers, jobs, bounds, history>>

Build ==
    /\ ci.step = "build"
    /\ \/ /\ Go("clear")
          /\ built' = [built EXCEPT ![ci.run] = attempts]
       \/ Fail /\ UNCHANGED built
    /\ UNCHANGED <<flow, rows, live, passed, hooks, writers, jobs, bounds, history>>

Clear ==
    /\ ci.step = "clear"
    /\ Go("run")
    /\ live' = NoApp
    /\ UNCHANGED <<flow, rows, built, passed, hooks, writers, jobs, bounds, history>>

Pass == passed' = IF live'.build = attempts THEN passed \cup {<<attempts, ci.run>>} ELSE passed

\* The generated workflow checks nothing but that docker starts the container.
Run ==
    /\ ci.step = "run"
    /\ \/ /\ live = NoApp
          /\ live' = [build |-> attempts, port |-> Port]
          /\ IF Reusable THEN Go("health") /\ UNCHANGED passed ELSE Go("report") /\ Pass
       \/ Fail /\ UNCHANGED <<live, passed>>
    /\ UNCHANGED <<flow, rows, built, hooks, writers, jobs, bounds, history>>

\* Mutant: the loop ends in success when the container never answers.
HealthUnchecked ==
    /\ ci.step = "health"
    /\ Go("ship")
    /\ UNCHANGED <<flow, rows, server, hooks, writers, jobs, bounds, history>>
    /\ (passed' = passed \/ Pass)

\* The check asks the port, whichever container it is that answers.
Health ==
    /\ ci.step = "health"
    /\ UNCHANGED <<flow, rows, server, hooks, writers, jobs, bounds, history>>
    /\ \/ live # NoApp /\ Pass /\ Go("ship")
       \/ passed' = passed /\ Fail

\* Runs always, and its failure does not fail the job.
Ship ==
    /\ ci.step = "ship"
    /\ Go(IF ci.status = "failure" THEN "undo" ELSE "report")
    /\ rows' \in {rows} \cup IF ci.row = None THEN {}
                            ELSE {[rows EXCEPT ![ci.row].logs = TRUE]}
    /\ UNCHANGED <<flow, server, passed, hooks, writers, jobs, bounds, history>>

Undo ==
    /\ ci.step = "undo"
    /\ Go("restore")
    /\ live' = NoApp
    /\ UNCHANGED <<flow, rows, built, passed, hooks, writers, jobs, bounds, history>>

Latest(S) == IF S = {} THEN None ELSE CHOOSE i \in S : \A j \in S : j <= i

LastGood(dep) ==
    LET good == Latest({i \in DOMAIN rows \ {dep} :
                   rows[i].status = "running" /\ rows[i].image # None})
    IN  IF good = None THEN None ELSE rows[good].image

\* The second of the images docker lists, which it does in the order of their
\* builds, the newest first.
Older == {r \in Attempt : built[r] # None /\ \E x \in Attempt : built[r] < built[x]}
Second == IF Older = {} THEN None
          ELSE CHOOSE r \in Older : built[r] = Latest({built[x] : x \in Older})

\* Mutant: the guess from the local images alone.
PreviousLocal(answer) == Second

\* The image asked for is the control plane's last good one; if it names none,
\* or cannot be asked, the second newest of the server.
Previous(answer) == IF answer = None THEN Second ELSE answer

Restored(image) == [build |-> built[image], port |-> Port]

\* The restored container is confirmed to run after three seconds.
RestoreFrom(image) ==
    IF image = None
    THEN ci' = [ci EXCEPT !.step = "report"] /\ UNCHANGED live
    ELSE \/ /\ live = NoApp
            /\ live' = Restored(image)
            /\ ci' = [ci EXCEPT !.step = "report", !.rollback = "succeeded"]
         \/ /\ UNCHANGED live
            /\ ci' = [ci EXCEPT !.step = "report",
                        !.rollback = IF live = NoApp THEN "failed" ELSE "succeeded"]

Answer == IF ci.row = None THEN None ELSE LastGood(ci.row)

Restore ==
    /\ ci.step = "restore"
    /\ \/ /\ RestoreFrom(Previous(Answer))
          /\ Plain
       \/ RestoreFrom(Previous(None)) /\ Loss("ask")
    /\ UNCHANGED <<flow, rows, built, passed, hooks, writers, jobs>>

\* Mutant: any status counts as a success.
FinishRunning ==
    rows' = [rows EXCEPT ![ci.row].status = "running",
                         ![ci.row].image = IF Reusable THEN ci.run ELSE @,
                         ![ci.row].rollback = ci.rollback]

\* Mutant: the job's word is stored as it is.
FinishVerbatim == rows' = [rows EXCEPT ![ci.row].status = ci.status]

\* finish_deployment.  A reported image is stored whatever the outcome; a
\* success with a domain also requests a configuration (NginxSites).
Finish ==
    rows' = [rows EXCEPT
        ![ci.row].status = IF ci.status = "success" THEN "running" ELSE "failed",
        ![ci.row].image = IF Reusable THEN ci.run ELSE @,
        ![ci.row].rollback = ci.rollback]

\* Mutant: failures are left to the webhook.
LeaveToWebhook == UNCHANGED jobs

Schedule ==
    jobs' = IF ci.status = "success" THEN jobs ELSE jobs \cup {[row |-> ci.row, from |-> "finish"]}

Tell == IF ci.row = None THEN UNCHANGED <<rows, jobs>> ELSE Finish /\ Schedule

\* GitHub announces how a run has ended.
Announce(ok) == hooks' = hooks \cup {[run |-> ci.run, ok |-> ok]}

\* Runs always; a call that fails does not fail the job.  A job cancelled when
\* it has said how it ends has said something else than GitHub will.
Report ==
    /\ ci.step = "report"
    /\ Go("idle")
    /\ \/ Tell /\ Announce(ci.status = "success") /\ Plain
       \/ Loss("finish") /\ Announce(ci.status = "success") /\ UNCHANGED <<rows, jobs>>
       \/ Tell /\ Announce(FALSE) /\ Loss("verdict")
    /\ UNCHANGED <<flow, server, passed, writers>>

\* A user, the job's timeout, or, for the generated workflow, the next push
\* ends the step under way.  What runs always still does, the rollback of a
\* failure does not.
Cancel ==
    /\ ci.step \notin {"idle", "report"} /\ ci.status # "cancelled"
    /\ ci' = [ci EXCEPT !.status = "cancelled",
                        !.step = IF Reusable /\ ci.step \notin {"ship", "undo", "restore"}
                                 THEN "ship" ELSE "report"]
    /\ live' \in {live} \cup IF ci.step = "restore" /\ live = NoApp
                             THEN {Restored(i) : i \in {Previous(Answer), Second} \ {None}}
                             ELSE {}
    /\ passed' = passed \ {<<attempts, ci.run>>}
    /\ Event
    /\ UNCHANGED <<flow, rows, built, hooks, writers, jobs, history>>

(***************************************************************************)
(* The control plane                                                       *)
(***************************************************************************)
\* _handle_workflow_completed runs on a thread of its own for each delivery.
\* Anyone may have GitHub deliver again.  The newest row of the run is read;
\* the commit adds one where there was none, and otherwise writes the status if
\* it is another than was read.
Query(run, ok) ==
    LET row == Latest({i \in DOMAIN rows : rows[i].run = run})
    IN  /\ Event
        /\ writers' = writers \cup
              {[nr |-> events', run |-> run, verdict |-> IF ok THEN "running" ELSE "failed",
                row |-> row, seen |-> IF row = None THEN "building" ELSE rows[row].status]}
        /\ UNCHANGED <<flow, rows, ci, server, passed, hooks, jobs, history>>

\* The run of a job, or of any other workflow of the repository.
Deliver(h) == Query(h.run, h.ok)
DeliverOther == \E ok \in BOOLEAN : Query(Other, ok)

Commit(w) ==
    LET dep == IF w.row = None THEN Len(rows) + 1 ELSE w.row
    IN  /\ rows' = IF w.row = None THEN Append(rows, Row(w.run, w.verdict, "none"))
                   ELSE [rows EXCEPT ![dep].status = IF w.seen = w.verdict THEN @ ELSE w.verdict]
        /\ jobs' = IF w.verdict = "running" THEN jobs
                   ELSE jobs \cup {[row |-> dep, from |-> "hook"]}
        /\ writers' = writers \ {w}
        /\ UNCHANGED <<flow, ci, server, passed, hooks, bounds, history>>

\* analyze_deployment after the finish call or after the delivery, when the
\* logs of the failed job may have been fetched from GitHub.
Analyze(j) ==
    /\ j \in jobs
    /\ jobs' = jobs \ {j}
    /\ \E fetched \in IF j.from = "hook" THEN BOOLEAN ELSE {FALSE} :
          rows' = [rows EXCEPT ![j.row].logs = @ \/ fetched,
                               ![j.row].diagnosed = @ \/ rows[j.row].logs \/ fetched]
    /\ UNCHANGED <<flow, ci, server, passed, hooks, writers, bounds, history>>

\* The agent ships container logs to the project's newest deployment.
IngestLogs ==
    /\ rows # <<>>
    /\ Event
    /\ rows' = [rows EXCEPT ![Len(rows)].logs = TRUE]
    /\ UNCHANGED <<flow, ci, server, passed, hooks, writers, jobs, history>>

\* Background tasks die with the process.
Restart ==
    /\ jobs # {} \/ writers # {}
    /\ jobs' = {} /\ writers' = {}
    /\ Loss("jobs")
    /\ UNCHANGED <<flow, rows, ci, server, passed, hooks>>

\* A rollback fix of the incident of row i, planned and carried out: the newest
\* other deployment on record as running, refused if that one has no image.
FixRollback(i) ==
    LET previous == Latest({j \in DOMAIN rows \ {i} : rows[j].status = "running"})
    IN  /\ rows[i].diagnosed
        /\ previous # None /\ rows[previous].image # None
        /\ Event /\ history' = history \cup {"fix"}
        /\ live' = [build |-> built[rows[previous].image], port |-> rows[previous].port]
        /\ UNCHANGED <<flow, rows, ci, built, passed, hooks, writers, jobs>>

Job == \/ Checkout \/ Register \/ Build \/ Clear \/ Run \/ Health
       \/ Ship \/ Undo \/ Restore \/ Report

Next ==
    \/ Trigger \/ Job \/ Cancel
    \/ \E h \in hooks : Deliver(h)
    \/ DeliverOther
    \/ \E w \in writers : Commit(w)
    \/ \E j \in jobs : Analyze(j)
    \/ \E i \in DOMAIN rows : FixRollback(i)
    \/ IngestLogs \/ Restart

Spec == Init /\ [][Next]_vars

\* As many rows as there can be: one for each job and each delivery.
Index == 1..MaxAttempts + MaxEvents

\* A started job ends within its timeout, and a background task runs until the
\* process stops.
FairSpec ==
    /\ Spec
    /\ WF_vars(Job)
    /\ \A i \in Index : WF_vars(Analyze([row |-> i, from |-> "finish"]))

-----------------------------------------------------------------------------
\* Every variable stays in its domain, the bounds included.
TypeOK ==
    /\ flow \in Flow
    /\ rows \in Seq([run : Attempt \cup {Other}, status : {"building", "running", "failed"},
                     image : {None} \cup Attempt, port : {"assigned", "none"},
                     rollback : {"not_attempted", "succeeded", "failed"},
                     logs : BOOLEAN, diagnosed : BOOLEAN])
    /\ ci \in [run : {None} \cup Attempt, row : {None} \cup DOMAIN rows,
               step : {"idle", "checkout", "register", "build", "clear", "run", "health",
                       "ship", "undo", "restore", "report"},
               status : {"success", "failure", "cancelled"},
               rollback : {"not_attempted", "succeeded", "failed"}]
    /\ built \in [Attempt -> {None} \cup Attempt]
    /\ live \in [build : {None} \cup Attempt, port : {"none", "assigned", "random"}]
    /\ passed \subseteq Attempt \X Attempt
    /\ hooks \subseteq [run : Attempt, ok : BOOLEAN]
    /\ writers \subseteq [nr : 1..MaxEvents, run : Attempt \cup {Other},
                          verdict : {"running", "failed"}, row : {None} \cup DOMAIN rows,
                          seen : {"building", "running", "failed"}]
    /\ jobs \subseteq [row : DOMAIN rows, from : {"finish", "hook"}]
    /\ attempts \in 0..MaxAttempts /\ events \in 0..MaxEvents
    /\ history \subseteq {"rerun", "fix", "ask", "finish", "verdict", "jobs"}

PassedRuns == {p[2] : p \in passed}

(***************************************************************************)
(* When a job of the repaired workflow that knows its deployment ends      *)
(* otherwise than by being cancelled, what runs is the newest deployment   *)
(* on record as good, on the project's port, or the deployment says that   *)
(* its rollback failed and nothing runs (models.py:186-193), as long as    *)
(* nothing is re-run, no fix cuts in, and neither the question nor the     *)
(* report is lost.                                                         *)
(***************************************************************************)
LastGoodIsRestored ==
    /\ flow = "repaired" /\ ci.step = "idle" /\ ci.row # None /\ ci.status # "cancelled"
    /\ history \cap {"rerun", "fix", "ask", "finish", "verdict"} = {}
    /\ LastGood(None) # None
    => \/ live = [build |-> built[LastGood(None)], port |-> "assigned"]
       \/ live = NoApp /\ rows[ci.row].rollback = "failed"

(***************************************************************************)
(* Under any workflow, however reports and deliveries overlap, overtake    *)
(* one another or are repeated, and whichever jobs are cancelled or run    *)
(* again: a deployment is on record as running only if a job of its run    *)
(* has seen its container come up (for the reusable workflow: answer the   *)
(* check), so what is offered for a rollback has "survived its own health  *)
(* check" (deployments.py:294-296), as long as no fix puts another         *)
(* container in its way.  And without re-runs, a deployment with a port    *)
(* whose job has passed is not on record as failed, unless the job is      *)
(* cancelled after it has reported (deployments.py:125-126,                *)
(* webhooks.py:81).                                                        *)
(***************************************************************************)
ReportsAgree ==
    "fix" \notin history => \A i \in DOMAIN rows :
        /\ rows[i].status = "running" => rows[i].run \in PassedRuns \cup {Other}
        /\ rows[i].status = "failed" /\ rows[i].port = "assigned"
           /\ history \cap {"rerun", "verdict"} = {}
             => rows[i].run \notin PassedRuns

\* A failed or cancelled job whose logs have been shipped is diagnosed, unless the report or
\* the control plane's memory of it is lost (deployments.py:172-174).
FailureIsDiagnosed ==
    \A i \in Index :
        (ci.step = "report" /\ ci.row = i /\ ci.status # "success" /\ rows[i].logs)
            ~> ((i \in DOMAIN rows /\ rows[i].diagnosed) \/ history \cap {"finish", "jobs"} # {})

\* Whenever no job is under way, the app answers on the port the registry gave
\* it: the workflow's rollback "restarts the previous image on this exact port
\* when it can" (deployments.py:176-178).
AppKeepsItsPort ==
    Reusable /\ ci.step = "idle" => live.port # "random"

(***************************************************************************)
(* Inductive strengthenings                                                *)
(***************************************************************************)
Mine == <<attempts, ci.run>>
Before == {"checkout", "register", "build", "clear", "run", "health"}

JobInv ==
    /\ ci.step # "idle" => ci.run # None /\ attempts > 0
    /\ ci.row # None => rows[ci.row].run = ci.run
    /\ ci.step \in Before => ci.status = "success"
    /\ ci.step \in Before \/ (ci.step # "idle" /\ ci.status # "success") => Mine \notin passed
    /\ ci.step \in {"undo", "restore"} => ci.status = "failure"
    /\ \A p \in passed : p[1] <= attempts
    /\ \A w \in writers : w.row # None => rows[w.row].run = w.run

\* The run is on record, or about to be, as good or as failed.
Praised(run) ==
    \/ \E i \in DOMAIN rows : rows[i].run = run /\ rows[i].status = "running"
    \/ \E h \in hooks : h.run = run /\ h.ok
    \/ \E w \in writers : w.run = run /\ w.verdict = "running"
Accused(run) ==
    \/ \E i \in DOMAIN rows : /\ rows[i].run = run
                              /\ rows[i].status = "failed" /\ rows[i].port = "assigned"
    \/ \E h \in hooks : h.run = run /\ ~h.ok
    \/ \E w \in writers : w.run = run /\ w.verdict = "failed"

\* The run has a job that has passed and that nobody can cancel any more.
Vouched(run) ==
    run = Other \/ \E p \in passed : p[2] = run /\ (ci.step = "idle" \/ p[1] # attempts)

VouchInv ==
    "fix" \notin history =>
        /\ ci.step = "health" => live.build = attempts
        /\ ci.step \in {"ship", "report"} /\ ci.status = "success" => Mine \in passed
        /\ \A run \in Attempt \cup {Other} : Praised(run) => Vouched(run)

\* The run's only job is over and has not passed.
Blamed(run) ==
    run = Other \/ (run \notin PassedRuns /\ run <= attempts
                    /\ (ci.step = "idle" \/ run # attempts))

BlameInv ==
    history \cap {"rerun", "verdict"} = {} =>
        /\ ci.run = attempts
        /\ \A p \in passed : p[1] = p[2]
        /\ \A run \in Attempt \cup {Other} : Accused(run) => Blamed(run)

AgreeInv == JobInv /\ VouchInv /\ BlameInv

\* As committed, no workflow puts an image on record.
NoImage ==
    flow # "repaired" =>
        /\ \A i \in DOMAIN rows : rows[i].image = None
        /\ flow = "reusable" => ci.row = None
        /\ "fix" \notin history

=============================================================================
