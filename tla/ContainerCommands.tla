-------------------------- MODULE ContainerCommands --------------------------
(***************************************************************************)
(* The agent's handlers that drive Docker on one server                    *)
(* (agent/viljaops_agent/executor.py).  A handler is a chain of docker     *)
(* calls, one action each; between two of them a container may die and the *)
(* agent itself may be killed.  A call is bounded by a timeout, so it may  *)
(* fail with or without having had its effect, and most handlers ignore    *)
(* the exit codes of the calls in their middle.                            *)
(*                                                                         *)
(* Docker is external: only what the handlers rely on is modelled.         *)
(***************************************************************************)
EXTENDS Integers, FiniteSets

CONSTANTS
    Backup,         \* names a recreate may give the container it replaces
    Image, Port, Value,
    Foreign,        \* host ports held by processes that are not containers
    Shipped,        \* the containers the deploy workflow starts
    SaneLimit,      \* memory limits within 128-16384 MB
    Offered,        \* the commands the control plane may send
    DryRun,         \* config.dry_run
    MaxMishaps      \* bound: failed docker calls, kills of the agent and runs
                    \* of the project's deploy workflow, together

App == "app"
Platform == "platform"      \* a container of config.exclude_containers
NoPort == "no port"

ASSUME ContainerAssumption ==
    /\ {App, Platform} \cap Backup = {}
    /\ Foreign \subseteq Port
    /\ Shipped \subseteq [image : Image, port : Port \ Foreign, limit : SaneLimit,
                          env : Value, state : {"created"}]
    /\ DryRun \in BOOLEAN
    /\ MaxMishaps \in Nat
    /\ \A c \in Offered :
          /\ {"kind", "on", "arg"} \subseteq DOMAIN c /\ c.on \in {App, Platform}
          /\ c.kind = "recreate_container" => c.arg \in Port \cup {NoPort}
          /\ c.kind = "rollback_deployment" => c.arg \in Image
          /\ c.kind = "set_env_var" => c.arg \in Value

Name == {App, Platform} \cup Backup
NoLimit == "no limit"
Own == {App} \cup Backup      \* the containers of the project
Gone == [state |-> "gone"]

Container == [image : Image, port : Port \cup {NoPort}, limit : SaneLimit \cup {NoLimit},
              env : Value, state : {"running", "exited", "created"}]

VARIABLES
    docker,         \* the containers of the server, by name
    envFile,        \* the value in the project's env file
    agent,          \* the handler in progress
    deploy,         \* whether the workflow is between its two docker calls
    faults, crashes, deploys

bounds == <<faults, crashes, deploys>>
vars == <<docker, envFile, agent, deploy, bounds>>

NoCommand == [kind |-> "none"]
Idle == [cmd |-> NoCommand, step |-> "idle", old |-> Gone, bak |-> App]

Mishap == faults + crashes + deploys < MaxMishaps

At(s) == [agent EXCEPT !.step = s]
Ended == agent.step \in {"succeeded", "failed"}

Exists(n) == docker[n] # Gone
Running(n) == docker[n].state = "running"
Recorded(c) == [image |-> c.image, port |-> c.port, limit |-> c.limit, env |-> c.env]

(***************************************************************************)
(* Docker.  A call yields outcomes: the containers it leaves and whether   *)
(* it exits 0.                                                             *)
(***************************************************************************)
Outcome(d, ok) == [docker |-> d, ok |-> ok]
Unchanged(ok) == {Outcome(docker, ok)}
Set(n, c) == [docker EXCEPT ![n] = c]

PortFree(n, p) ==
    \/ p = NoPort
    \/ /\ p \notin Foreign
       /\ \A m \in Name \ {n} : Running(m) => docker[m].port # p

\* A container that starts may run or exit at once; one whose port is taken
\* stays as it was created and docker reports the failure.
Started(n, c) ==
    IF PortFree(n, c.port)
    THEN {Outcome(Set(n, [c EXCEPT !.state = s]), TRUE) : s \in {"running", "exited"}}
    ELSE {Outcome(Set(n, c), FALSE)}

Inspect(n) == Unchanged(Exists(n))
Start(n) == IF Exists(n) THEN Started(n, docker[n]) ELSE Unchanged(FALSE)
Restart(n) ==
    IF Exists(n) THEN Started(n, [docker[n] EXCEPT !.state = "exited"]) ELSE Unchanged(FALSE)
Stop(n) ==
    IF Exists(n) THEN {Outcome(Set(n, [docker[n] EXCEPT !.state = "exited"]), TRUE)}
                 ELSE Unchanged(FALSE)
Run(n, c) ==
    IF Exists(n) THEN Unchanged(FALSE) ELSE Started(n, [c EXCEPT !.state = "created"])
Remove(n) == {Outcome(Set(n, Gone), TRUE)}
Rename(n, m) ==
    IF Exists(n) /\ ~Exists(m)
    THEN {Outcome([docker EXCEPT ![m] = docker[n], ![n] = Gone], TRUE)}
    ELSE Unchanged(FALSE)
Update(n, l) ==
    IF Exists(n) THEN {Outcome(Set(n, [docker[n] EXCEPT !.limit = l]), TRUE)}
                 ELSE Unchanged(FALSE)
Prune == {Outcome([n \in Name |-> IF Running(n) THEN docker[n] ELSE Gone], TRUE)}

\* run (collectors.py) gives up after its timeout and returns 124: docker may
\* or may not have done the work.
Broken(os) == Unchanged(FALSE) \cup {Outcome(o.docker, FALSE) : o \in os}

\* good and bad are the agent once the call has exited 0 or not.
Call(os, good, bad) ==
    /\ \/ /\ \E o \in os : docker' = o.docker /\ agent' = IF o.ok THEN good ELSE bad
          /\ faults' = faults
       \/ /\ Mishap
          /\ \E o \in Broken(os) : docker' = o.docker /\ agent' = IF o.ok THEN good ELSE bad
          /\ faults' = faults + 1
    /\ UNCHANGED <<envFile, deploy, crashes, deploys>>

\* The three ways a handler uses an exit code.
Ignore(os, s) == Call(os, At(s), At(s))
Require(os, s) == Call(os, At(s), At("failed"))
Finish(os) == Call(os, At("succeeded"), At("failed"))

Doing(kind, s) == agent.cmd.kind = kind /\ agent.step = s
Target == agent.cmd.on
Arg == agent.cmd.arg

(***************************************************************************)
(* execute: an unknown kind, a protected or missing target, or an argument *)
(* out of range is refused before anything is touched.                     *)
(***************************************************************************)
FirstStep ==
    [restart_container |-> "restart", recreate_container |-> "inspect",
     rollback_deployment |-> "inspect", set_memory_limit |-> "update",
     set_env_var |-> "write", run_migration |-> "exec", rebuild_image |-> "build",
     prune_docker |-> "prune", prune_logs |-> "inspect",
     stop_conflicting_container |-> "stop", health_check |-> "get"]

Untargeted == {"set_env_var", "rebuild_image", "prune_docker", "health_check"}

\* Mutant: any memory limit is accepted.
RefusedUnlessMemory(c) ==
    \/ c.kind \notin DOMAIN FirstStep
    \/ c.kind \notin Untargeted /\ c.on = Platform

Refused(c) ==
    \/ c.kind \notin DOMAIN FirstStep
    \/ c.kind \notin Untargeted /\ c.on = Platform
    \/ c.kind = "set_memory_limit" /\ c.arg \notin SaneLimit

\* A backup's name ends in the time of day, so it is a new one.  Bound: no
\* recreate once every name of Backup has been left behind.
FreshBackup == {b \in Backup : ~Exists(b)}

Receive(c) ==
    /\ agent.step = "idle"
    /\ c.kind = "recreate_container" => FreshBackup # {}
    /\ agent' = [Idle EXCEPT !.cmd = c,
                    !.step = IF DryRun /\ c.kind \in DOMAIN FirstStep THEN "succeeded"
                             ELSE IF Refused(c) THEN "failed" ELSE FirstStep[c.kind]]
    /\ UNCHANGED <<docker, envFile, deploy, bounds>>

Report ==
    /\ Ended
    /\ agent' = Idle
    /\ UNCHANGED <<docker, envFile, deploy, bounds>>

(***************************************************************************)
(* restart_container                                                       *)
(***************************************************************************)
RestartCall ==
    /\ Doing("restart_container", "restart")
    /\ Require(Restart(Target), "look")

RestartLook ==
    /\ Doing("restart_container", "look")
    /\ Finish(Unchanged(Running(Target)))

(***************************************************************************)
(* recreate_container: move the old container aside, start a new one from  *)
(* its recorded spec, and drop the old one once the new one is running.    *)
(***************************************************************************)
RecreateInspect ==
    /\ Doing("recreate_container", "inspect")
    /\ \E b \in FreshBackup :
          Call(Inspect(Target),
               [At("rename") EXCEPT !.old = docker[Target], !.bak = b], At("failed"))

\* Mutant: docker rm -f, as the catalog describes the action.
RecreateByRemoving ==
    /\ Doing("recreate_container", "rename")
    /\ Ignore(Remove(Target), "stop")

RecreateRename ==
    /\ Doing("recreate_container", "rename")
    /\ Ignore(Rename(Target, agent.bak), "stop")

\* Mutant: the old container goes on running next to the new one.
RecreateUnstopped ==
    /\ Doing("recreate_container", "stop")
    /\ Ignore(Unchanged(TRUE), "run")

RecreateStop ==
    /\ Doing("recreate_container", "stop")
    /\ Ignore(Stop(agent.bak), "run")

Recreated == [agent.old EXCEPT !.port = Arg]

RecreateRun ==
    /\ Doing("recreate_container", "run")
    /\ Call(Run(Target, Recreated), At("look"), At("back"))

\* Mutant: a new container that does not run is left where it is.
RecreateUncleared ==
    /\ Doing("recreate_container", "look")
    /\ Call(Unchanged(Running(Target)), At("drop"), At("back"))

RecreateLook ==
    /\ Doing("recreate_container", "look")
    /\ Call(Unchanged(Running(Target)), At("drop"), At("clear"))

RecreateClear ==
    /\ Doing("recreate_container", "clear")
    /\ Ignore(Remove(Target), "back")

RecreateBack ==
    /\ Doing("recreate_container", "back")
    /\ Ignore(Rename(agent.bak, Target), "again")

RecreateAgain ==
    /\ Doing("recreate_container", "again")
    /\ Call(Start(Target), At("failed"), At("failed"))

RecreateDrop ==
    /\ Doing("recreate_container", "drop")
    /\ Call(Remove(agent.bak), At("succeeded"), At("succeeded"))

(***************************************************************************)
(* rollback_deployment removes the container before the previous image is  *)
(* known to start, and keeps neither its memory limit nor a way back.      *)
(***************************************************************************)
RollbackInspect ==
    /\ Doing("rollback_deployment", "inspect")
    /\ Call(Inspect(Target), [At("clear") EXCEPT !.old = docker[Target]], At("failed"))

RollbackClear ==
    /\ Doing("rollback_deployment", "clear")
    /\ Ignore(Remove(Target), "run")

RollbackRun ==
    /\ Doing("rollback_deployment", "run")
    /\ Finish(Run(Target, [agent.old EXCEPT !.image = Arg, !.limit = NoLimit]))

(***************************************************************************)
(* The handlers of one docker call                                         *)
(***************************************************************************)
UpdateLimit ==
    /\ Doing("set_memory_limit", "update")
    /\ Finish(Update(Target, Arg))

StopConflicting ==
    /\ Doing("stop_conflicting_container", "stop")
    /\ Finish(Stop(Target))

Migrate ==
    /\ Doing("run_migration", "exec")
    /\ \E ok \in {FALSE, Running(Target)} : Finish(Unchanged(ok))

Rebuild ==
    /\ Doing("rebuild_image", "build")
    /\ \E ok \in BOOLEAN : Finish(Unchanged(ok))

TruncateLog ==
    /\ Doing("prune_logs", "inspect")
    /\ Finish(Inspect(Target))

\* image, builder and container prune, each exit code ignored.
PruneAll ==
    /\ Doing("prune_docker", "prune")
    /\ Call(Prune, At("succeeded"), At("succeeded"))

\* An answer on the port needs a container that publishes it; the answer
\* need not be a 2xx.
HealthCheck ==
    /\ Doing("health_check", "get")
    /\ \E ok \in {FALSE, \E n \in Name : Running(n) /\ docker[n].port = Arg} :
          Finish(Unchanged(ok))

(***************************************************************************)
(* set_env_var writes the env file and then restarts the container.  A     *)
(* restart keeps the environment a container was created with.             *)
(***************************************************************************)
SetEnvWrite ==
    /\ Doing("set_env_var", "write")
    /\ envFile' = Arg
    /\ agent' = IF Target = Platform THEN At("failed") ELSE At("restart")
    /\ UNCHANGED <<docker, deploy, bounds>>

SetEnvRestart ==
    /\ Doing("set_env_var", "restart")
    /\ Require(Restart(Target), "look")

SetEnvLook ==
    /\ Doing("set_env_var", "look")
    /\ Call(Unchanged(Running(Target)), At("succeeded"), At("succeeded"))

AgentStep ==
    \/ Report
    \/ RestartCall \/ RestartLook
    \/ RecreateInspect \/ RecreateRename \/ RecreateStop \/ RecreateRun
    \/ RecreateLook \/ RecreateClear \/ RecreateBack \/ RecreateAgain \/ RecreateDrop
    \/ RollbackInspect \/ RollbackClear \/ RollbackRun
    \/ UpdateLimit \/ StopConflicting \/ Migrate \/ Rebuild \/ TruncateLog \/ PruneAll
    \/ HealthCheck
    \/ SetEnvWrite \/ SetEnvRestart \/ SetEnvLook

(***************************************************************************)
(* The environment: containers that die, an agent that is killed, and the  *)
(* deploy workflow, which replaces the container by its own docker calls.  *)
(***************************************************************************)
Dies(n) ==
    /\ Running(n)
    /\ docker' = Set(n, [docker[n] EXCEPT !.state = "exited"])
    /\ UNCHANGED <<envFile, agent, deploy, bounds>>

Crash ==
    /\ agent.step # "idle" /\ ~Ended
    /\ Mishap
    /\ crashes' = crashes + 1
    /\ agent' = Idle
    /\ UNCHANGED <<docker, envFile, deploy, faults, deploys>>

DeployRemoves ==
    /\ ~deploy /\ Mishap
    /\ deploy' = TRUE /\ deploys' = deploys + 1
    /\ docker' = Set(App, Gone)
    /\ UNCHANGED <<envFile, agent, faults, crashes>>

\* The reusable workflow passes the project's env file.
DeployRuns(c) ==
    /\ deploy /\ deploy' = FALSE
    /\ \E o \in Run(App, [c EXCEPT !.env = envFile]) : docker' = o.docker
    /\ UNCHANGED <<envFile, agent, bounds>>

Environment ==
    \/ \E n \in Name : Dies(n)
    \/ Crash
    \/ DeployRemoves
    \/ \E c \in Shipped : DeployRuns(c)

\* The project's container runs, and so does one the agent must not touch.
Init ==
    /\ \E c \in Shipped :
          /\ docker = [n \in Name |->
                CASE n = App      -> [c EXCEPT !.state = "running"]
                  [] n = Platform -> [c EXCEPT !.state = "running", !.port = NoPort]
                  [] OTHER        -> Gone]
          /\ envFile = c.env
    /\ agent = Idle
    /\ deploy = FALSE
    /\ faults = 0 /\ crashes = 0 /\ deploys = 0

Next ==
    \/ \E c \in Offered : Receive(c)
    \/ AgentStep
    \/ Environment

Spec == Init /\ [][Next]_vars

-----------------------------------------------------------------------------
\* The containers, the env file and the handler have their types.
TypeOK ==
    /\ docker \in [Name -> Container \cup {Gone}]
    /\ envFile \in Value
    /\ agent.cmd = NoCommand \/ agent.cmd \in Offered
    /\ agent.old \in Container \cup {Gone} /\ agent.bak \in Own
    /\ deploy \in BOOLEAN
    /\ faults \in Nat /\ crashes \in Nat /\ deploys \in Nat
    /\ faults + crashes + deploys <= MaxMishaps

Recreating == agent.cmd.kind = "recreate_container" /\ agent.old # Gone
Succeeded == agent.step = "succeeded"
Failed == agent.step = "failed"

(***************************************************************************)
(* Until recreate_container has seen the new container running, the old    *)
(* one exists with its image, port, limit and environment, under its own   *)
(* name or the backup's, whichever docker calls failed on the way; and     *)
(* when it reports success, the new one has the recorded spec on the port  *)
(* that was asked for (executor.py:110-146).                               *)
(***************************************************************************)
RecreateKeepsOne ==
    Recreating /\ deploys = 0 =>
        IF Succeeded
        THEN Exists(App) /\ Recorded(docker[App]) = Recorded(Recreated)
        ELSE agent.step # "drop" =>
             \E n \in {App, agent.bak} :
                Exists(n) /\ Recorded(docker[n]) = Recorded(agent.old)

(***************************************************************************)
(* A recreate that fails although docker did all it was told puts the old  *)
(* container back under its name, unless the port it was given is in use   *)
(* (executor.py:126-139).                                                  *)
(***************************************************************************)
FailedRecreateIsUndone ==
    Recreating /\ Failed /\ faults = 0 /\ deploys = 0 /\ Arg \notin Foreign =>
        /\ Exists(App) /\ Recorded(docker[App]) = Recorded(agent.old)
        /\ ~Exists(agent.bak)

\* Two copies of the application never run on the project's volumes at once,
\* as long as docker's calls work and no deploy cuts in (executor.py:111-112).
OneCopyRuns ==
    faults = 0 /\ deploys = 0 => Cardinality({n \in Own : Running(n)}) <= 1

(***************************************************************************)
(* A container recreated without a new port keeps the port it publishes:   *)
(* the handler reports "on host port unchanged" (executor.py:144).         *)
(***************************************************************************)
PortIsUnchanged ==
    Recreating /\ Succeeded /\ Arg = NoPort => docker[App].port = agent.old.port

-----------------------------------------------------------------------------
(* Inductive strengthenings, used by ContainerProofs *)

Chain == {"rename", "stop", "run", "look", "clear", "back", "again", "drop"}

Steps == Chain \cup {"idle", "restart", "inspect", "update", "write", "exec", "build", "prune",
                     "get", "succeeded", "failed"}

Handler == [cmd : Offered \cup {NoCommand}, step : Steps, old : Container \cup {Gone},
            bak : Own]

\* A handler in progress works on a command it has not refused, and once it
\* has inspected its container it knows what it was.
HandlerInv ==
    /\ agent \in Handler
    /\ deploy => deploys > 0
    /\ agent.step # "idle" /\ ~Ended =>
          /\ agent.cmd \in Offered /\ agent.cmd.kind \in DOMAIN FirstStep
          /\ agent.cmd.kind \notin Untargeted => Target = App
    /\ Doing("set_memory_limit", "update") => Arg \in SaneLimit
    /\ agent.cmd.kind = "set_env_var" /\ agent.step \in {"restart", "look"} => Target = App
    /\ agent.cmd.kind = "rollback_deployment" /\ agent.step \in {"clear", "run"} =>
          agent.old # Gone
    /\ agent.cmd.kind = "recreate_container" /\ agent.step \in Chain =>
          agent.old # Gone /\ agent.bak \in Backup

Holds(n) == Exists(n) /\ Recorded(docker[n]) = Recorded(agent.old)
Renewed == Exists(App) /\ Recorded(docker[App]) = Recorded(Recreated)

\* Where the old container is while it is being replaced.
KeepInv ==
    Recreating /\ deploys = 0 =>
        /\ agent.step \in Chain \cup {"succeeded", "failed"}
        /\ agent.step = "rename" => Holds(App)
        /\ agent.step \in {"stop", "run", "back", "again"} => Holds(App) \/ Holds(agent.bak)
        /\ agent.step \in {"look", "clear", "drop"} => Holds(agent.bak)
        /\ agent.step \in {"look", "drop"} \/ Succeeded => Renewed
        /\ Failed => Holds(App) \/ Holds(agent.bak)

Quiet == \A b \in Backup : ~Running(b)

\* Without faults and deploys a backup runs only from its renaming until it
\* is stopped, or for ever if the agent is killed in between; then no container
\* has the project's name again.
CalmInv ==
    faults = 0 /\ deploys = 0 =>
        /\ Exists(App) => Quiet
        /\ Quiet \/ \E b \in Backup : \A c \in Backup \ {b} : ~Running(c)
        /\ agent.cmd.kind = "recreate_container" =>
              /\ agent.step = "rename" => Exists(App) /\ ~Exists(agent.bak)
              /\ agent.step = "stop" => \A c \in Backup \ {agent.bak} : ~Running(c)
              /\ agent.step \in {"stop", "run"} => ~Exists(App)
              /\ agent.step \in Chain \ {"stop"} => Quiet
        /\ agent.cmd.kind = "rollback_deployment" /\ agent.step \in {"clear", "run"} => Quiet

\* The protected container publishes no port.
PlatformInv == Exists(Platform) => docker[Platform].port = NoPort

\* How a recreate is undone when docker does all it is told.
UndoneInv ==
    Recreating /\ faults = 0 /\ deploys = 0 =>
        /\ agent.step \in {"stop", "run", "look", "clear"} => Holds(agent.bak)
        /\ Arg \notin Foreign =>
              /\ agent.step = "back" => Holds(agent.bak) /\ ~Exists(App)
              /\ agent.step = "again" \/ Failed => Holds(App) /\ ~Exists(agent.bak)
=============================================================================
