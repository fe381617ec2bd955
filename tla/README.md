# A verification development for ViljaOps

ViljaOps is a control plane (FastAPI, Celery, PostgreSQL) and an agent on each
server. It watches deployments, explains their failures, proposes fixes, lets an
operator approve a fix, has the agent execute it and judges the effect. This
directory holds TLA+ models of its protocols, TLC configurations that check them,
and theorems proved with TLAPS. `PROJECT.json` lists components, runs, mutants,
hazards, findings and theorems, and maps each definition to the lines it models.
Paths below are relative to `control-plane/app/` unless they start with `agent/`,
which stands for `agent/viljaops_agent/`.

1. Inventory. 2. Modules. 3. Runs. 4. Fairness. 5. Theorems. 6. Findings.
7. Claims the code does not keep. 8. Other observations. 9. Not modelled. 10. Plan.

## 1. Inventory

| Component | State | Operations | Interacts with | What makes it correct |
|---|---|---|---|---|
| Approval gate, `routers/incidents.py` | `FixAction.status`, `approved_by`, `Incident.status` | approve, reject, confirm, dismiss | enqueues commands; calls the port registry and the Nginx service, which commit | nothing runs without an approval; a fix's status tells what its commands did |
| Action catalog, `rca/fixes.py` | constant | lookup | gate, verification, analysis | only its entries are ever executed |
| Command queue and results, `routers/agents.py` | `AgentCommand` rows, `Server.last_seen_at` | poll, submit result, heartbeat | agent by HTTP; hands succeeded fixes to verification | each command at most once, in order |
| Agent loop and transport, `agent/main.py`, `transport.py` | the batch in memory | poll, execute, post, heartbeat | control plane, executor | what was executed becomes known |
| Agent executor, `agent/executor.py` | containers, env file, Nginx sites | thirteen handlers | Docker, Nginx, the CI workflow on the same server | a failure or a kill keeps the old version |
| Agent collectors and configuration | counters of containers | sample | heartbeat | a sample says what the container does |
| Verification agent, `remediation/verify.py` | `verification_status`, `_detail`, `auto_verified` | start, sweep, forced check, escalate, propose a rollback | telemetry rows, the queue | verdicts rest on evidence; every watch ends |
| Port registry, `infra/ports.py` | `port_allocations`, unique by server and port | allocate, release, reserve, reconcile | deployments, approvals, heartbeats | a port has one holder; refusals are justified |
| Nginx configurations, `infra/nginx.py` | `nginx_configs` | validate a domain, create, dispatch, mark applied | approvals, results | records and disk agree; one applied configuration per project |
| Deployments and webhooks, `routers/deployments.py`, `webhooks.py`, two CI workflows | `deployments`, images and container on the server | start, logs, last good image, finish, delivery | ports, analysis, rollback fixes | what is on record as running has come up; a failed job puts the last good version back |
| Anomaly detection, `observability/anomaly.py` | `anomalies` | detect, persist, acknowledge, sweep | heartbeats, verification | a problem is recorded, a recurrence refutes |
| Root cause analysis, `rca/` | incidents, fixes | timeline, match, merge, validate, persist | model service | a diagnosis is in the logs |
| Risk score, `observability/risk.py` | `RiskSnapshot` | recompute | workers | who repeats a failure is sent to a mentor |
| Workers' schedule, `workers/` | none | beat | sweeps | sweeps happen |
| Model service, retrieval, dataset, analysers, accounts, GitHub, frontend | rows, files, text | requests | outside | not protocols, section 9 |

What is hard here: handlers are plain functions on a thread pool, each with its
own READ COMMITTED session, no row locks, no version columns; sessions are created with
`autoflush=False, expire_on_commit=False` (`db.py:20`), so what one has loaded is
never refreshed. Services commit in the middle of their callers' work, and roll
it back. The agent keeps claimed work in memory only, drives Docker and Nginx by
calls that may time out, shares the server with the CI runner, and does not repeat a
failed POST. Background tasks die with their process. Outcomes of one job are
reported by two parties in any order. `hazards` in `PROJECT.json` names the lines.

## 2. Modules

Each component has a module, an `MC` module with the constants of its instances,
and, where there are theorems, a module of proofs.

| Module | Models |
|---|---|
| `HumanGate` | the promise of the platform: nothing without a grant, and no grant is withdrawn |
| `Remediation`, `RemediationProofs` | gate, queue, agent loop, results, hand-off; implements `HumanGate` |
| `Verification`, `VerificationProofs` | sweeps and forced checks on stale sessions |
| `PortRegistry`, `PortProofs` | concurrent requests, releases and heartbeats on one server |
| `NginxSites`, `NginxProofs` | configurations from request to reload: rows, commands, the agent's apply |
| `ContainerCommands`, `ContainerProofs` | the handlers that drive Docker |
| `Deployments`, `DeploymentProofs` | CI job, endpoints, deliveries, background analyses, rollback fixes |
| `Telemetry`, `TelemetryProofs` | counters, heartbeats, detection, suppression, and the watch that reads the records |
| `ActionCatalog` | `ACTION_CATALOG` and the verification specs as a value |
| `Signatures` | the library of failure signatures, scoring and ranking |
| `Diagnosis`, `DiagnosisProofs` | logs, timelines, the model's verdict, incidents and risk; uses the two before |

**Remediation.** `fixStatus`, `approvedBy`, `verification`, `incident`, `command`
and `born` are columns; `clock` orders creation times. A command is named by its
fix, the request that created it and its place in the plan. `ApproveCheck` is
`approve_fix` up to its last early return, `ApprovePersist` the commit that building
the commands of a *staged* fix (`reassign_port`, `apply_nginx_config`) makes,
`ApproveUndone` the rollback in `allocate`, `ApproveCommit` the final commit,
`ApproveAbort` an exception in `_build_commands`. `Poll` claims, commits and answers;
the answer may be lost. `WorkResult` is `submit_result` up to its commit; `handoff`
holds fixes between that and `StartVerification`. `Resolve` is any verdict.
`approvals`, `undone` and `ran` are histories; `ApproveUndone` moves an approval from the first
to the second, and `Given`, what operators have agreed to, is both. What a command does is
success or failure here.

**Verification.** `session[e]` is the database session of an evaluator: the fixes it
still has to judge, its copies of their records, its copy of the incident (read
again for each fix), the proposals it owes. A verdict's commit writes the copy of the record back, and of the
incident only what differs from what was loaded (`Written`), as the ORM does.
`Extend` changes the copy and nothing else: the code mutates the loaded dict and
assigns the same object, which marks no column. Telemetry is three sets of fixes:
window over, sample seen, recurrence seen; `Telemetry` says how they come about.

**PortRegistry.** A request goes through the queries and commits of `allocate`:
`Find` or `Miss`, `Reuse`, `Scan`, then for each candidate `Look` and `Revive` or
`Insert`. `InsertFails` is the `IntegrityError` with its rollback, after which the
flushed Deployment row of `start_deployment` is gone (`stray`). `Release`, `Reconcile`
and `Adopt` are split from their commits. `holds`, `freed` and `seenBusy` are histories.

**NginxSites.** `request` and `status` are a configuration's row. `Validate` is a
query that holds nothing until `Insert` commits. Commands wait in `queue`. The agent's
apply goes by the calls of `apply_nginx_config`: test, swap of the file,
link, test, reload, and restore with a second test. `file`, `enabled` and `serving`
are the disk and what the running Nginx has loaded; `nginx -t` looks at every enabled
site of the server. `Edit` and `OtherReload` are other people on the server. `lost`
records which kinds of message or process were lost.

**ContainerCommands.** A handler is a chain of docker calls, one action each. A call
is a set of outcomes (the containers left, whether it exits with 0); `Call` either takes
one, or breaks: a timeout, of which the caller sees 124 with or without the effect.
`Ignore`, `Require` and `Finish` are the three things the handlers do with an exit
code. Between calls containers die, the agent is killed, and the deploy workflow
removes and starts the project's container by its own calls.

**Deployments.** `ci` is the job on the runner, step by step. `flow` is the workflow that the
project uses: `"reusable"` (`.github/workflows/viljaops-deploy.yml`) as committed, whose register
step fails after its call has succeeded since the inline script that reads the answer does not
parse; `"repaired"`, the same with that line repaired; `"generated"`, the one `analyzers/plan.py`
writes. `rows` are `deployments`, `built` the images of the server and what their names stand
for (docker lists them in the order of their builds), `live` the container. `Cancel` is a user,
the job's timeout or, for the generated workflow, the next push: it ends any step, the rollback
of a failure (`if: failure()`) does not run, shipping and reporting (`if: always()`) do. `hooks`
are the ends of runs that GitHub announces, each delivered any number of times or never; other
workflows of the repository are delivered as runs of `Other`. A delivery is a thread of its own: `Query`
reads the newest row of the run, `writers` holds the deliveries between that and their `Commit`. `jobs` are the
background analyses. An attempt names a build, a run an image. `events` counts what comes from
outside; `history` records the kinds of events that a property makes an exception of.

**Telemetry.** Time is counted in heartbeats; `history` holds the last `Window`
samples. `detect` is a function of these, with the slope, the median and
the robust score in integers. `persist` is split at its query and its commit, and
runs in a heartbeat's request and in the workers' sweep. A row ages until it neither
suppresses its kind nor refutes a fix.

**Signatures, Diagnosis.** A line of a log is a class of messages: the signatures
whose patterns match it, its source, its stored level, whether its text is a
failure's. Scores are in permille. `Timelines` yields every selection that
`build_timeline` may make; `Merge` is `_merge` with the penalties for invented
evidence; `Evaluate` is `risk.score`, with a weight for each group of signals. The text of patterns
and prompts is abstracted. `Picked` stands for each loop that keeps some elements of a list in
their order. What the model answers is assumed to be clamped (`Permille`), as `_merge` does.

## 3. Runs

Bounds are constants of the modules and named in each `.cfg`. No run replaces a
definition. Only `remediation_race` uses symmetry, of its two operators, whom nothing tells apart;
all its properties are safety properties.

| Run | Instance | Shows |
|---|---|---|
| `remediation_race` | one staged fix of two commands, two operators, batches of two, all faults, the port race included | at most one execution under approvals, `HumanGate` is implemented, status and verdict agree with the commands |
| `remediation_live` | a staged watched fix of two commands, its reversal, batches of one, a lost port race, no message lost, fair | immediate approvals finish, success is judged |
| `verification_sweep` | two fixes that would be rolled back to one value, one crashing sweeper | windows, bounded follow-ups (here one escalation and one rollback), revocation |
| `verification_live` | one fix, a sweep and an operator, fair, no crash | verdicts have evidence; watches with telemetry end, failures escalate |
| `verification_stuck` | one fix, one sweeper, fair | finding 1 |
| `ports_race` | three ports, one of them used by a foreign process at times, a deployment and two requests of a second project, three attempts, releases, adoption | fresh ports have one holder, who is on record; refusals are justified |
| `sites` | two projects, one domain, a good, an unlinted and a bad configuration, three dispatches, two edits, two mishaps | records match the disk, sites stay valid, one applied configuration |
| `containers` | two images, three ports (one of a foreign process), every handler with a refused variant, two mishaps | the old container is kept, a failed recreate is undone, one copy runs |
| `deployments` | two attempts under each of the three flows, two events (deliveries, cancellations, lost calls, restarts, rollback fixes, shipments), fair | reports agree, the repaired workflow restores the last good version, failures are diagnosed |
| `diagnosis` | one deployment, three classes of lines, two analyses, one row shipped besides GitHub's log, one invented citation | incidents are in the logs, sure rules win, failures are explained, repeats call a mentor |
| `telemetry` | two conditions, three heartbeats, one watched fix, `SlopeRaises = FALSE` | problems are recorded, recurrences refute |
| `telemetry_silent` | the same with `SlopeRaises = TRUE` | finding 2 |

Why the bounds are enough. A race between check and commit takes two operators; two
commands give every case of aggregation and order. `PollLimit` 1 or 2 stands for 5 and
lies below the number of commands. A third port and a third request give a loser somewhere to go
and someone to lose to; three attempts stand for 50, so that the limit is reached before the
ports end. Two configurations of one project and one of another cover supersession,
clash and an apply that endangers its neighbour; a third dispatch repeats an old one. Two
mishaps let a repair fail as well. Two attempts give a first deployment and a second that fails or runs
the first again; with a third, `AppKeepsItsPort` fails (section 7). Two events let two deliveries of
one run overlap, or one be cancelled and delivered; `TypeOK`, `ReportsAgree` and `LastGoodIsRestored`
were also checked once with three events (12.8 million states), and the first two are theorems. Two conditions,
calm and ill, cross the thresholds for memory, growth and restarts; three samples
stand for the twelve of `MIN_SAMPLES`. Two analyses are what it takes to write two incidents
for one failure.

`SlopeRaises`. As committed, `_slope_per_hour` raises on every call with enough
samples (finding 2), so anomalies are never recorded and everything else in
`Telemetry` would hold for want of rows. `telemetry` checks the module with that one line
repaired (`FALSE`); `telemetry_silent` checks it as committed (`TRUE`).

`flow`. In the same way no row gets an image as long as the reusable workflow is as committed
(theorem `NothingToGoBackTo`), and then nothing is there to be restored. `deployments` checks all three
flows in one run: `ReportsAgree` and `FailureIsDiagnosed` speak of each of them,
`LastGoodIsRestored` of the repaired one only, and says so.

Deadlock is not checked where work comes to an end (a fix, a request for a
port, the deployments within their bounds); it is checked in `containers`.

## 4. Fairness

Only weak fairness, and only where the code drives itself:

* steps of a request that has begun, unless its process dies (`Remediation`,
  `Verification`);
* `Poll` and `Execute`: the agent polls every 15 s and works off its batch;
* arrival of a result, only in the run without losses: the agent makes one POST;
* a sweep's `Load`: Celery beat starts one each minute; `Elapse`: time passes;
* `Job` of `Deployments`: a job has a timeout; the background analysis that the report of a
  failure starts. Deliveries and their commits are not assumed to happen;
* the analyses of `Diagnosis`: the model's client has a timeout.

Operators, approvals, telemetry, pushes and health checks are never assumed to happen.
`PortRegistry`, `NginxSites`, `ContainerCommands` and `Telemetry` state no fairness.

## 5. Theorems

All are proved for every value of the constants that the module's assumptions admit.
Each invariant has a lemma that `Init` establishes it, lemmas that each action
preserves it, and a temporal step. The strengthenings stand at the end of the module
they are about, those of `Diagnosis` with their proofs.

| Module | Theorem | Establishes | From |
|---|---|---|---|
| `RemediationProofs` | `TypeCorrect` | `TypeOK` | |
| | `ExecutedAtMostOnce` | `NothingRunsTwice` | `QueueInv` |
| | `EveryCommandIsSigned` | `DispatchedIsSigned` | `SignedInv` |
| | `PipelineImplementsGate` | `ImplementsGate` | the two above |
| | `SuccessCorrect`, `FailureCorrect`, `VerdictCorrect` | `SuccessIsBacked`, `FailureMatchesCommands`, `VerdictNeedsExecution` | `OutcomeInv`, `QueueInv` |
| `VerificationProofs` | `TypeCorrect` | `TypeOK` | `SessionInv` |
| | `VerdictsAreBacked` | `VerdictsHaveEvidence` | `EvidenceInv` |
| | `WindowsAreRespected` | `WindowIsRespected`, without operators | `WindowInv`, `EvidenceInv` |
| | `FollowupsStayBounded` | `FollowupsAreBounded` | `BoundedInv`, `EvidenceInv` |
| `PortProofs` | `TypeCorrect` | `TypeOK` | `Progress` |
| | `FreshPortsHaveOneHolder`, `FreshGrantsStayOnRecord` | `FreshGrantsAreExclusive`, `GrantsAreOnRecord` | `GrantInv` |
| | `RefusalsAreJustified` | `RefusalIsJustified` | `SearchInv` |
| `NginxProofs` | `TypeCorrect` | `TypeOK` | `AtWork` |
| | `OneConfigIsApplied` | `OneAppliedConfig` | itself |
| | `SitesAreValid` | `SitesStayValid` | `SiteInv` |
| | `RecordsMatchDisk` | `RecordMatchesDisk` | `RecordInv` |
| `ContainerProofs` | `TypeCorrect` | `TypeOK` | `HandlerInv` |
| | `OldContainerIsKept` | `RecreateKeepsOne` | `KeepInv` |
| | `OneContainerRuns` | `OneCopyRuns` | `CalmInv`, `KeepInv` |
| | `FailureIsUndone` | `FailedRecreateIsUndone` | `UndoneInv`, `PlatformInv`, and the two above |
| `TelemetryProofs` | `TypeCorrect` | `TypeOK` | |
| | `RecurrencesRefute` | `RecurrenceRefutes` | `ScanInv` |
| | `NothingIsRecorded` | that `rows` stays empty, with `SlopeRaises = TRUE` | `NothingFound` |
| `DeploymentProofs` | `TypeCorrect` | `TypeOK` | |
| | `ReportsAlwaysAgree` | `ReportsAgree` | `AgreeInv` |
| | `NothingToGoBackTo` | that `LastGood` names nothing and no rollback fix is carried out, unless the register step is repaired | `NoImage` |
| `DiagnosisProofs` | `TypeCorrect` | `TypeOK` | `TypeInv`, `Reading` |
| | `DiagnosesAreInTheLogs` | `DiagnosisIsInTheLogs` | `IncidentsSound`, and the two above |
| | `RepeatsAlwaysCallMentor` | `RepeatsCallMentor` | `TypeInv` |
| | `ConclusionsFitTheLogs` | `ConclusionFitsTheLogs` | `TypeInv`, `Reading` |

Two theorems have a hypothesis beyond the assumptions of their modules: `Operator = {}` for
`WindowsAreRespected`, since a forced check is meant to come before the end of the window (its run
has no operator either); `SlopeRaises = TRUE` for `NothingIsRecorded`, which is the code as committed.
All others hold under every fault, race and number of actors that the modules admit.

Why the strengthenings are needed:

* `QueueInv`: plans enter the queue whole, what is about to enter it is new, and a
  command stays claimed while the agent holds it or its one result is under way.
  Without freshness an approval could put an executed command back.
* `SignedInv` ties a half-made approval to the history: a request that has persisted its
  approval has one in `Given`, whether or not a lost port race has rolled its record back since.
* `OutcomeInv`: a fix waiting for verification has a plan that succeeded; that a result
  meets a claimed command keeps successes from being withdrawn.
* `EvidenceInv`: a bad health check in a record, or in any session's copy of one, was
  the answer of the one check that is ever sent. A stale copy written back therefore
  carries true evidence, though it may erase a newer answer.
* `GrantInv`: only released ports are up for revival, so the holders of a port never
  released stem from one insert, which the unique key decides, or from reuse of a row that
  stays with its project.
* `SiteInv`: while an apply has swapped a site, all the others are valid and what it
  keeps aside is. `RecordInv`: an applied configuration is in its file, or kept aside by the
  apply under way, or about to be superseded by a result that is due.
* `KeepInv` says at each step of a recreate under which name the old container is,
  given only what a failed call may leave behind.
* `CalmInv`: a backup runs only from its renaming until it is stopped, or for ever if the
  agent is killed in between; then no container has the project's name, and every handler
  that could create one looks for it first and fails. `UndoneInv` follows the
  backup to the step that restores it: no backup runs and the protected container
  publishes nothing (`PlatformInv`), so only a foreign process can hold the port.
* `WindowInv`: whatever a session has under judgement has its window over or a failed health
  check; the row alone does not say why a session came to judge it.
* `BoundedInv` counts, besides the follow-ups on record, the sessions that have looked and found
  none: each adds at most one, and who looks later finds it. What a session owes, it owes for
  evidence against a fix, which `EvidenceInv` ties to the record it was judged by.
* `SearchInv`: the ports that a request does not try any more were taken while it ran, and
  are, but for the preferred one, as many as it has tried in vain.
* `ScanInv`: the samples do not change under the request of a heartbeat: what it has found is
  what they show, what it does not add is on record already, and so is all of it once the newest
  sample has been looked at. `NothingFound`: no job has anything to add.
* `AgreeInv` has three parts. `JobInv`: what a job, and a delivery at work, know of their row. `VouchInv`: a run
  that a row, an announcement or a delivery at work calls good has a job that has passed and that nobody can
  cancel any more. `BlameInv`: without re-runs a run that one of them calls bad has its only job
  behind it, without a pass. The announcements and the deliveries at work have to be in it, since each may
  become the row's status later.
* `NoImage`: unless the register step is repaired, the job of the reusable workflow never knows its
  row and the generated one reports no image, so every row is without one.
* `Reading`: the timeline that a job waits with is one of the rows it has read, and these are still
  in the log, since rows are only added. What an answer cites is looked up in that timeline, so it
  is in the log whenever the answer comes. For any classes of lines, signatures they show and answers this rests
  on lemmas about the pipeline: an element of `Picked` is one of the list, a timeline that nothing cuts has
  every class of lines, the library's 36 signatures have a key and a known severity, the first candidate
  is at least as sure as any signature that matches, and each of the three ways to merge keeps both.
* `RepeatsCallMentor` needs of the sums only that no weight is negative and that two open incidents
  of one signature weigh 27 of the 25 that make amber.

Only model-checked: liveness under fairness (`ApprovedFinishes`, `SuccessIsJudged`,
`WatchEnds`, `FailureEscalates`, `FailureIsDiagnosed`, `FailureIsExplained`), which the installed
provers cannot do; `FailureRevokes`, which holds with a single evaluator only; `ProblemIsRecorded` and
`LastGoodIsRestored`, which are about code with a line repaired. All other properties
of the passing runs are theorems.

## 6. Findings

A run whose property quotes the repository and whose counterexample is what the code does.

1. `verification_stuck`, `EveryWatchEnds`: the one extension of a watch is written
   into the loaded dict and never persisted, so a watch without telemetry is extended
   every minute for ever (`remediation/verify.py:296`; the runbook says "One extension is
   granted before giving up").
2. `telemetry_silent`, `ProblemIsRecorded`: `_slope_per_hour` subtracts a number from a
   pair (`observability/anomaly.py:46`) and raises whenever there are enough samples; both
   callers log the exception. No anomaly is ever recorded.

## 7. Claims the code does not keep

These properties are stated in the modules, and violated with the constants given.
They are kept to reproduce the behaviour; the passing runs check what does hold instead.

| Property | In | Constants | What happens |
|---|---|---|---|
| `ApprovedOnce` | `Remediation` | `Fix = {f1}`, two sessions, `Staged = {}`, `Faults = {}` | two approvals of one fix at once both enqueue its commands |
| `GrantsAreExclusive` | `PortRegistry` | two ports, `Deploys = {}`, `Attempts = 2`, `MayRelease = TRUE`, `Foreign = {}` | two requests revive one released row |
| `BadHealthIsDecisive` | `Verification` | one fix, one sweeper, no operator, `MayCrash = FALSE` | a health check fails during a sweep, whose pass erases the answer |
| `PortIsUnchanged` | `ContainerCommands` | `Offered <- Recreates`, `MaxMishaps = 0` | a recreate without `host_port` publishes no port and reports success |
| `DomainHasOneOwner` | `NginxSites` | `Config = {c1, c3}`, `Unlinted = Bad = {}`, two dispatches, no edit or mishap | two projects validate one domain before either has inserted, and both are applied |
| `AppKeepsItsPort` | `Deployments` | `MaxAttempts = 3`, `MaxEvents = 0` | without the register step's answer the container is published on a port of docker's choice |
| `RepeatsAreDeployments` | `Diagnosis` | those of `diagnosis` | two analyses of one failure count as a repeat |

## 8. Other observations

Behaviour the models exhibit or that came up while reading for them; no run of its own.

* The rollback after a lost port race (`ports.py:119`) takes the uncommitted approval with it, and the
  request goes on to dispatch: its commands run for a fix that still looks proposed, names no operator
  and may be approved again. `DispatchedIsSigned` says so: each command has an approval that was
  given, but the record of it is promised only where no such rollback took it away.
* `ApprovedFinishes` leaves out staged fixes: when building the commands fails after
  the approval was committed, the fix stays approved without commands. It fails with
  `Faults = {"lost_result"}`: the transport logs "retrying" (`transport.py:35`) and drops the result.
* `FailureEscalates` fails with `MayCrash = TRUE`: the failure is committed before the
  escalation is proposed, and no later sweep looks at it.
* A failure does not reopen an incident that is resolved between lines 238 and 342 of its judgement:
  the session believes it is open and writes nothing. Overlapping evaluators may each
  propose the same escalation or rollback (`verify.py:372`), and one with a stale `auto_verified`
  leaves the credit of a pass in place.
* `RefusalIsJustified` leaves out deployments in `stray`: each further insert breaks
  their foreign key. A heartbeat that compared ports before an allocation turns the new
  row into a reserved one, and reserved rows have no way back.
* A kill between swap and test leaves a bad file, and later applies are refused
  until someone repairs it. A re-apply that fails marks a configuration failed that is being served.
* `set_env_var` only restarts, and a restart keeps the old environment. A recreate onto
  a taken port leaves a container in state `created`, and the rename back fails.
  `rollback_deployment` removes the container before the old image is known to start. A deploy
  of CI may run between two calls of a recreate.
* The register step of the reusable workflow always fails: its inline script has a
  backslash within an f-string (`viljaops-deploy.yml:75-82`). Each push then leaves a row that stays
  in `building` until GitHub's delivery, reports to no row, and its rollback removes the
  container that was running and restores what is second among the server's images, on a port of docker's choice.
* A cancelled or timed-out job skips the rollback: after `Clear` nothing runs, after `Run` a container
  that nobody has checked. A job cancelled after its report has told the control plane the
  opposite of what GitHub will (`"verdict"` in `history`); the later one stands.
* Two deliveries of one run that overlap between query and commit both add a row. Each run
  of another workflow of the repository becomes a deployment: if it is the newest
  running row, which has no image, a rollback fix is refused with 409, and if it is the newest row,
  the agent's container logs are booked on it.
* A re-run builds the same name anew, so the last good image may be the build that has just failed.
* The workflow's rollback passes neither the env file nor labels. The generated workflow has no health
  check, no rollback, and its `curl` takes an error for an answer. A late delivery sets `finished_at` anew.
* Samples are booked on the newest row with the container's name, so a new deployment
  silences an older watch. `http_5xx` and `http_p95` are never sent. Restart counts of
  180 minutes include those before a fix. A stopped container reports no
  restarts. A flat series never exceeds a score of 3. A slow leak above 92 % hides
  `memory_ceiling`.
* Timelines read the oldest 6000 rows and `_persist` keeps the oldest 4000 events; the
  window falls back to all rows only if none is within it. Agreement of rules and model lifts a
  confidence that had been capped for want of evidence. Three failures in a row
  among many successes still score green.

## 9. Not modelled

* Rendering and linting of Nginx files, the patterns of signatures, parsing of logs, prompts:
  text, with what depends on it abstracted to what a line matches or a configuration passes.
* The model service, retrieval and GitHub: outside services; their answers are any, or none.
* Repository analysers: pattern matching over files. The workflow that `plan.py` generates is in `Deployments`.
* Dataset export, accounts, projects, audit, frontend, scripts: rows, files and pages without a protocol.
* Log shipping (`agent/collectors.py:224` saves its offset before it posts): what is lost or
  doubled is evidence, and `Diagnosis` takes any rows.
* Overlapping handlers of two results of one fix: the agent posts them one after another, so
  they take a timeout of its client first.
* Enrolment of servers, listings, the pull request endpoint, `release_for_project`, which nothing calls.

## 10. Plan

Done: every component above that has a protocol, and a theorem for most safety properties of the
passing runs (the others are named at the end of section 5). What would come next: two servers that share the
registry; results of one fix handled at once; `LastGoodIsRestored` as a theorem once the register step is repaired.
