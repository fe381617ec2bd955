--------------------------- MODULE ContainerProofs ---------------------------
(***************************************************************************)
(* Proofs about ContainerCommands for any images, ports, limits, commands  *)
(* and names of backups, and any number of mishaps.                        *)
(***************************************************************************)
EXTENDS ContainerCommands, FiniteSetTheorems, TLAPS

(***************************************************************************)
(* What a docker call may do                                               *)
(***************************************************************************)
Server == [Name -> Container \cup {Gone}]

LEMMA CallEffect ==
    ASSUME NEW os, NEW good, NEW bad, Call(os, good, bad)
    PROVE  /\ agent' = good \/ agent' = bad
           /\ docker' = docker \/ \E o \in os : docker' = o.docker
           /\ faults' = faults \/ (Mishap /\ faults' = faults + 1)
           /\ UNCHANGED <<envFile, deploy, crashes, deploys>>
BY DEF Call, Broken, Unchanged, Outcome

\* Only a call that docker has carried out exits with 0.
LEMMA CallGood ==
    ASSUME NEW os, NEW good, NEW bad, Call(os, good, bad), agent' # bad
    PROVE  agent' = good /\ \E o \in os : o.ok /\ docker' = o.docker
BY DEF Call, Broken, Unchanged, Outcome

\* Without a fault the call does what docker does.
LEMMA CallWorks ==
    ASSUME NEW os, NEW good, NEW bad, Call(os, good, bad), faults \in Nat, faults' = 0
    PROVE  faults = 0 /\ \E o \in os : docker' = o.docker /\ agent' = IF o.ok THEN good ELSE bad
BY DEF Call

LEMMA Types == Gone \notin Container /\ App \in Name /\ Platform \in Name /\ App # Platform
BY DEF Gone, Container, App, Platform, Name

\* What is started keeps its spec, wherever it was and whether it runs.
LEMMA StartedIs ==
    ASSUME NEW n \in Name, NEW c \in Container, NEW o \in Started(n, c)
    PROVE  \E d \in Container : o.docker = Set(n, d) /\ Recorded(d) = Recorded(c)
<1>1. ASSUME NEW s \in {"running", "exited"}
      PROVE  /\ [c EXCEPT !.state = s] \in Container
             /\ Recorded([c EXCEPT !.state = s]) = Recorded(c)
  BY DEF Container, Recorded
<1> QED
  BY <1>1 DEF Started, Outcome

LEMMA SetType ==
    ASSUME docker \in Server, NEW n \in Name, NEW c \in Container \cup {Gone}
    PROVE  Set(n, c) \in Server
BY DEF Set, Server

\* Another state of a container is no other container.
LEMMA StateIs ==
    ASSUME NEW c \in Container, NEW s \in {"running", "exited", "created"}
    PROVE  /\ [c EXCEPT !.state = s] \in Container
           /\ Recorded([c EXCEPT !.state = s]) = Recorded(c)
           /\ [c EXCEPT !.state = s].state = s
BY DEF Container, Recorded

\* Restart, start and stop of a container change no more than its state.
LEMMA RestartIs ==
    ASSUME docker \in Server, NEW n \in Name,
           NEW o \in Restart(n) \cup Start(n) \cup Stop(n)
    PROVE  \/ o.docker = docker
           \/ /\ Exists(n)
              /\ \E d \in Container :
                    o.docker = Set(n, d) /\ Recorded(d) = Recorded(docker[n])
<1>1. CASE ~Exists(n)
  BY <1>1 DEF Restart, Start, Stop, Unchanged, Outcome
<1>2. CASE Exists(n)
  <2>1. docker[n] \in Container
    BY <1>2 DEF Server, Exists
  <2> DEFINE c == [docker[n] EXCEPT !.state = "exited"]
  <2>2. c \in Container /\ Recorded(c) = Recorded(docker[n])
    BY <2>1, StateIs
  <2>3. o \in Started(n, c) \/ o \in Started(n, docker[n]) \/ o = Outcome(Set(n, c), TRUE)
    <3>1. CASE o \in Restart(n)
      BY <1>2, <3>1, Zenon DEF Restart
    <3>2. CASE o \in Start(n)
      BY <1>2, <3>2, Zenon DEF Start
    <3>3. CASE o \in Stop(n)
      BY <1>2, <3>3, Zenon DEF Stop
    <3> QED
      BY <3>1, <3>2, <3>3
  <2> HIDE DEF c
  <2>4. o = Outcome(Set(n, c), TRUE) => o.docker = Set(n, c)
    BY DEF Outcome
  <2>5. CASE o \in Started(n, c)
    BY <1>2, <2>2, <2>5, StartedIs
  <2>6. CASE o \in Started(n, docker[n])
    BY <1>2, <2>1, <2>6, StartedIs
  <2> QED
    BY <1>2, <2>2, <2>3, <2>4, <2>5, <2>6
<1> QED
  BY <1>1, <1>2

LEMMA RunIs ==
    ASSUME docker \in Server, NEW n \in Name, NEW c \in Container, NEW o \in Run(n, c)
    PROVE  \/ o.docker = docker /\ ~o.ok /\ Exists(n)
           \/ /\ ~Exists(n)
              /\ \E d \in Container : o.docker = Set(n, d) /\ Recorded(d) = Recorded(c)
<1>1. CASE Exists(n)
  BY <1>1 DEF Run, Unchanged, Outcome
<1>2. CASE ~Exists(n)
  <2> DEFINE new == [c EXCEPT !.state = "created"]
  <2>1. o \in Started(n, new)
    BY <1>2, Zenon DEF Run
  <2>2. new \in Container /\ Recorded(new) = Recorded(c)
    BY StateIs
  <2> HIDE DEF new
  <2> QED
    BY <1>2, <2>1, <2>2, StartedIs
<1> QED
  BY <1>1, <1>2

LEMMA RenameIs ==
    ASSUME docker \in Server, NEW n \in Name, NEW m \in Name, NEW o \in Rename(n, m)
    PROVE  \/ o.docker = docker /\ ~(Exists(n) /\ ~Exists(m))
           \/ /\ Exists(n) /\ ~Exists(m)
              /\ o.docker = [docker EXCEPT ![m] = docker[n], ![n] = Gone]
              /\ o.docker \in Server
<1>1. CASE Exists(n) /\ ~Exists(m)
  <2> DEFINE moved == [docker EXCEPT ![m] = docker[n], ![n] = Gone]
  <2>1. o = Outcome(moved, TRUE)
    BY <1>1, Zenon DEF Rename
  <2>2. moved \in Server
    BY DEF Server
  <2> QED
    BY <1>1, <2>1, <2>2 DEF Outcome
<1>2. CASE ~(Exists(n) /\ ~Exists(m))
  BY <1>2 DEF Rename, Unchanged, Outcome
<1> QED
  BY <1>1, <1>2

(***************************************************************************)
(* Types                                                                   *)
(***************************************************************************)
TypeInv == TypeOK /\ HandlerInv

\* A handler that goes on or ends keeps its command and what it knows.
LEMMA AtIs ==
    ASSUME agent \in Handler, NEW s \in Steps
    PROVE  /\ At(s) \in Handler /\ At(s).cmd = agent.cmd /\ At(s).step = s
           /\ At(s).old = agent.old /\ At(s).bak = agent.bak
BY DEF At, Handler

LEMMA IdleIs ==
    Idle \in Handler /\ Idle.step = "idle" /\ Idle.old = Gone /\ Idle.cmd.kind = "none"
<1>1. [cmd |-> NoCommand, step |-> "idle", old |-> Gone, bak |-> App] \in Handler
  BY DEF Handler, Own, Steps
<1>2. NoCommand.kind = "none"
  BY DEF NoCommand
<1> QED
  BY <1>1, <1>2 DEF Idle

\* The handler's part of a call.
LEMMA CallHandler ==
    ASSUME TypeInv, NEW os, NEW good \in Handler, NEW bad \in Handler, Call(os, good, bad)
    PROVE  /\ agent' \in Handler
           /\ (deploy => deploys > 0)'
           /\ envFile' \in Value /\ deploy' \in BOOLEAN
           /\ faults' \in Nat /\ crashes' \in Nat /\ deploys' \in Nat
           /\ faults' + crashes' + deploys' <= MaxMishaps
<1>1. /\ agent' = good \/ agent' = bad
      /\ faults' = faults \/ (Mishap /\ faults' = faults + 1)
      /\ UNCHANGED <<envFile, deploy, crashes, deploys>>
  BY CallEffect
<1>2. MaxMishaps \in Nat
  BY ContainerAssumption
<1> QED
  BY <1>1, <1>2 DEF TypeInv, TypeOK, HandlerInv, Mishap

\* What HandlerInv asks of a handler on its way.
Knows(a) ==
    /\ a.step \notin {"idle", "succeeded", "failed"} =>
          /\ a.cmd \in Offered /\ a.cmd.kind \in DOMAIN FirstStep
          /\ a.cmd.kind \notin Untargeted => a.cmd.on = App
    /\ a.cmd.kind = "set_memory_limit" /\ a.step = "update" => a.cmd.arg \in SaneLimit
    /\ a.cmd.kind = "set_env_var" /\ a.step \in {"restart", "look"} => a.cmd.on = App
    /\ a.cmd.kind = "rollback_deployment" /\ a.step \in {"clear", "run"} => a.old # Gone
    /\ a.cmd.kind = "recreate_container" /\ a.step \in Chain => a.old # Gone /\ a.bak \in Backup

LEMMA HandlerIs ==
    HandlerInv <=> agent \in Handler /\ (deploy => deploys > 0) /\ Knows(agent)
BY DEF HandlerInv, Knows, Ended, Doing, Target, Arg

LEMMA HandlerIsNext ==
    ASSUME agent' \in Handler, (deploy => deploys > 0)', Knows(agent')
    PROVE  HandlerInv'
BY DEF HandlerInv, Knows, Ended, Doing, Target, Arg

LEMMA TypeNext ==
    ASSUME docker' \in Server, agent' \in Handler, (deploy => deploys > 0)', Knows(agent'),
           envFile' \in Value, deploy' \in BOOLEAN,
           faults' \in Nat, crashes' \in Nat, deploys' \in Nat,
           faults' + crashes' + deploys' <= MaxMishaps
    PROVE  TypeInv'
<1>1. HandlerInv'
  BY HandlerIsNext
<1>2. TypeOK'
  BY DEF TypeOK, Server, Handler
<1> QED
  BY <1>1, <1>2 DEF TypeInv

LEMMA EndKnows ==
    ASSUME agent \in Handler, NEW s \in {"succeeded", "failed"}
    PROVE  At(s) \in Handler /\ Knows(At(s))
<1>1. At(s) \in Handler /\ At(s).step = s
  BY AtIs DEF Steps
<1>2. s \notin Chain \cup {"idle", "update", "restart", "look", "clear", "run"}
  BY DEF Chain
<1> QED
  BY <1>1, <1>2 DEF Knows

\* One docker call with the handler that follows it.
LEMMA CallType ==
    ASSUME TypeInv, NEW os, NEW good \in Handler, NEW bad \in Handler, Call(os, good, bad),
           \A o \in os : o.docker \in Server, Knows(good), Knows(bad)
    PROVE  TypeInv'
<1>1. docker \in Server
  BY DEF TypeInv, TypeOK, Server
<1>2. docker' \in Server /\ Knows(agent')
  BY <1>1, CallEffect
<1> QED
  BY <1>2, CallHandler, TypeNext

LEMMA UnchangedType ==
    ASSUME TypeInv, NEW ok PROVE \A o \in Unchanged(ok) : o.docker \in Server
BY DEF Unchanged, Outcome, TypeInv, TypeOK, Server

\* A handler in progress that goes on to a step it may take.
LEMMA AtKnows ==
    ASSUME TypeInv, agent.step # "idle", ~Ended, NEW s \in Steps,
           agent.cmd.kind = "set_memory_limit" => s # "update",
           agent.cmd.kind = "set_env_var" /\ s \in {"restart", "look"} => Target = App,
           agent.cmd.kind = "rollback_deployment" /\ s \in {"clear", "run"} => agent.old # Gone,
           agent.cmd.kind = "recreate_container" /\ s \in Chain =>
              agent.old # Gone /\ agent.bak \in Backup
    PROVE  At(s) \in Handler /\ Knows(At(s))
<1>1. /\ At(s) \in Handler /\ At(s).cmd = agent.cmd /\ At(s).step = s
      /\ At(s).old = agent.old /\ At(s).bak = agent.bak
  BY AtIs DEF TypeInv, HandlerInv
<1>2. /\ agent.cmd \in Offered /\ agent.cmd.kind \in DOMAIN FirstStep
      /\ agent.cmd.kind \notin Untargeted => agent.cmd.on = App
  BY DEF TypeInv, HandlerInv, Target
<1> QED
  BY <1>1, <1>2 DEF Knows, Target

LEMMA EndIs ==
    ASSUME TypeInv
    PROVE  /\ At("succeeded") \in Handler /\ Knows(At("succeeded"))
           /\ At("failed") \in Handler /\ Knows(At("failed"))
BY EndKnows DEF TypeInv, HandlerInv

\* The container a targeted command works on.
LEMMA TargetIs ==
    /\ TypeInv
    /\ agent.step \notin {"idle", "succeeded", "failed"}
    /\ agent.cmd.kind \notin Untargeted
    => Target = App /\ Target \in Name
BY Types DEF TypeInv, HandlerInv, Ended

LEMMA TargetIsToo ==
    TypeInv /\ Doing("set_env_var", "restart") => Target = App /\ Target \in Name
BY Types DEF TypeInv, HandlerInv, Doing

LEMMA ServerIs == TypeInv => docker \in Server
BY DEF TypeInv, TypeOK, Server

LEMMA RestartType ==
    ASSUME TypeInv, NEW n \in Name, NEW o \in Restart(n) \cup Start(n) \cup Stop(n)
    PROVE  o.docker \in Server
BY ServerIs, RestartIs, SetType

LEMMA RunType ==
    ASSUME TypeInv, NEW n \in Name, NEW c \in Container, NEW o \in Run(n, c)
    PROVE  o.docker \in Server
BY ServerIs, RunIs, SetType

LEMMA RenameType ==
    ASSUME TypeInv, NEW n \in Name, NEW m \in Name, NEW o \in Rename(n, m)
    PROVE  o.docker \in Server
BY ServerIs, RenameIs

LEMMA RemoveIs ==
    ASSUME NEW n, NEW o \in Remove(n) PROVE o.docker = Set(n, Gone) /\ o.ok
BY DEF Remove, Outcome

LEMMA RestartActionsType ==
    TypeInv /\ (RestartCall \/ RestartLook \/ SetEnvRestart \/ SetEnvLook) => TypeInv'
<1> SUFFICES ASSUME TypeInv
             PROVE  RestartCall \/ RestartLook \/ SetEnvRestart \/ SetEnvLook => TypeInv'
  OBVIOUS
<1>1. CASE RestartCall
  <2>1. Target \in Name /\ At("look") \in Handler /\ Knows(At("look"))
    BY <1>1, TargetIs, AtKnows DEF RestartCall, Doing, Ended, Untargeted, Steps, Chain
  <2> QED
    BY <1>1, <2>1, EndIs, RestartType, CallType DEF RestartCall, Require
<1>2. CASE RestartLook
  BY <1>2, EndIs, UnchangedType, CallType DEF RestartLook, Finish
<1>3. CASE SetEnvRestart
  <2>1. Target \in Name /\ At("look") \in Handler /\ Knows(At("look"))
    BY <1>3, TargetIsToo, AtKnows DEF SetEnvRestart, Doing, Ended, Untargeted, Steps, Chain
  <2> QED
    BY <1>3, <2>1, EndIs, RestartType, CallType DEF SetEnvRestart, Require
<1>4. CASE SetEnvLook
  BY <1>4, EndIs, UnchangedType, CallType DEF SetEnvLook
<1> QED
  BY <1>1, <1>2, <1>3, <1>4

LEMMA SingleActionsType ==
    TypeInv /\ (UpdateLimit \/ StopConflicting \/ Migrate \/ Rebuild \/ TruncateLog \/ PruneAll
                 \/ HealthCheck) => TypeInv'
<1> SUFFICES ASSUME TypeInv
             PROVE  UpdateLimit \/ StopConflicting \/ Migrate \/ Rebuild \/ TruncateLog
                    \/ PruneAll \/ HealthCheck => TypeInv'
  OBVIOUS
<1>1. CASE UpdateLimit
  <2>1. Target \in Name /\ Arg \in SaneLimit
    <3>1. agent.cmd.kind = "set_memory_limit" /\ agent.step = "update"
      BY <1>1, Zenon DEF UpdateLimit, Doing
    <3>2. agent.cmd.kind \notin Untargeted /\ agent.step \notin {"idle", "succeeded", "failed"}
      BY <3>1 DEF Untargeted
    <3>3. Arg \in SaneLimit
      BY <3>1 DEF Doing, TypeInv, HandlerInv
    <3> QED
      BY <3>2, <3>3, TargetIs
  <2>2. ASSUME NEW o \in Update(Target, Arg) PROVE o.docker \in Server
    <3>1. CASE Exists(Target)
      <4>1. docker[Target] \in Container
        BY <2>1, <3>1, ServerIs DEF Exists, Server
      <4>2. [docker[Target] EXCEPT !.limit = Arg] \in Container
        BY <2>1, <4>1 DEF Container
      <4>3. o.docker = Set(Target, [docker[Target] EXCEPT !.limit = Arg])
        <5>1. o = Outcome(Set(Target, [docker[Target] EXCEPT !.limit = Arg]), TRUE)
          BY <2>2, <3>1, Zenon DEF Update
        <5> QED
          BY <5>1 DEF Outcome
      <4> QED
        BY <2>1, <4>2, <4>3, ServerIs, SetType
    <3>2. CASE ~Exists(Target)
      BY <2>2, <3>2, UnchangedType DEF Update
    <3> QED
      BY <3>1, <3>2
  <2> QED
    BY <1>1, <2>2, EndIs, CallType DEF UpdateLimit, Finish
<1>2. CASE StopConflicting
  <2>1. Target \in Name
    <3>1. agent.cmd.kind = "stop_conflicting_container" /\ agent.step = "stop"
      BY <1>2, Zenon DEF StopConflicting, Doing
    <3>2. agent.cmd.kind \notin Untargeted /\ agent.step \notin {"idle", "succeeded", "failed"}
      BY <3>1 DEF Untargeted
    <3> QED
      BY <3>2, TargetIs
  <2> QED
    BY <1>2, <2>1, EndIs, RestartType, CallType DEF StopConflicting, Finish
<1>3. CASE Migrate
  BY <1>3, EndIs, UnchangedType, CallType DEF Migrate, Finish
<1>4. CASE Rebuild
  BY <1>4, EndIs, UnchangedType, CallType DEF Rebuild, Finish
<1>5. CASE TruncateLog
  BY <1>5, EndIs, UnchangedType, CallType DEF TruncateLog, Finish, Inspect
<1>6. CASE PruneAll
  <2>1. ASSUME NEW o \in Prune PROVE o.docker \in Server
    BY <2>1, ServerIs DEF Prune, Outcome, Server
  <2> QED
    BY <1>6, <2>1, EndIs, CallType DEF PruneAll
<1>7. CASE HealthCheck
  BY <1>7, EndIs, UnchangedType, CallType DEF HealthCheck, Finish
<1> QED
  BY <1>1, <1>2, <1>3, <1>4, <1>5, <1>6, <1>7

\* In a chain that replaces the container, the target is the project's own and
\* the spec that was recorded is one of a container.
LEMMA ChainIs ==
    /\ TypeInv
    /\ \/ agent.cmd.kind = "recreate_container" /\ agent.step \in Chain
       \/ agent.cmd.kind = "rollback_deployment" /\ agent.step \in {"clear", "run"}
    => /\ Target = App /\ Target \in Name
       /\ agent.cmd \in Offered
       /\ agent.old \in Container
       /\ agent.cmd.kind = "recreate_container" =>
             agent.bak \in Backup /\ agent.bak \in Name /\ agent.bak # App /\ agent.bak # Platform
<1> SUFFICES ASSUME TypeInv,
                    \/ agent.cmd.kind = "recreate_container" /\ agent.step \in Chain
                    \/ agent.cmd.kind = "rollback_deployment" /\ agent.step \in {"clear", "run"}
             PROVE  /\ Target = App /\ Target \in Name
                    /\ agent.cmd \in Offered
                    /\ agent.old \in Container
                    /\ agent.cmd.kind = "recreate_container" =>
                          /\ agent.bak \in Backup /\ agent.bak \in Name
                          /\ agent.bak # App /\ agent.bak # Platform
  OBVIOUS
<1>1. agent.step \notin {"idle", "succeeded", "failed"} /\ agent.cmd.kind \notin Untargeted
  BY DEF Chain, Untargeted
<1>2. Target = App /\ Target \in Name /\ agent.cmd \in Offered
  BY <1>1, TargetIs DEF TypeInv, HandlerInv, Ended
<1>3. agent.old \in Container
  BY DEF TypeInv, HandlerInv, Handler
<1>4. agent.cmd.kind = "recreate_container" => agent.bak \in Backup
  BY DEF TypeInv, HandlerInv
<1> QED
  BY <1>2, <1>3, <1>4, ContainerAssumption DEF Name

\* A chain goes on.
LEMMA ChainGoes ==
    ASSUME TypeInv, NEW s \in Chain,
           \/ agent.cmd.kind = "recreate_container" /\ agent.step \in Chain
           \/ agent.cmd.kind = "rollback_deployment" /\ agent.step \in {"clear", "run"}
    PROVE  At(s) \in Handler /\ Knows(At(s))
<1>1. agent.step # "idle" /\ ~Ended /\ s \in Steps
  BY DEF Chain, Ended, Steps
<1>2. /\ agent.old # Gone
      /\ agent.cmd.kind = "recreate_container" => agent.bak \in Backup
  BY DEF TypeInv, HandlerInv
<1> QED
  BY <1>1, <1>2, AtKnows

LEMMA RecreatedIs ==
    /\ TypeInv
    /\ agent.cmd.kind = "recreate_container" /\ agent.step \in Chain
    => Recreated \in Container
<1> SUFFICES ASSUME TypeInv, agent.cmd.kind = "recreate_container", agent.step \in Chain
             PROVE  Recreated \in Container
  OBVIOUS
<1>1. agent.old \in Container /\ Arg \in Port \cup {NoPort}
  BY ChainIs, ContainerAssumption DEF Arg
<1> QED
  BY <1>1 DEF Recreated, Container

\* What an inspection notes down: the container, and a name to keep it under.
LEMMA NotedIs ==
    ASSUME TypeInv, NEW c \in Container, NEW b \in Backup,
           agent.cmd.kind = "recreate_container", agent.step = "inspect"
    PROVE  /\ [At("rename") EXCEPT !.old = c, !.bak = b] \in Handler
           /\ Knows([At("rename") EXCEPT !.old = c, !.bak = b])
<1>1. At("rename") \in Handler /\ At("rename").cmd = agent.cmd /\ At("rename").step = "rename"
  BY AtIs DEF TypeInv, HandlerInv, Steps, Chain
<1>2. agent.cmd \in Offered /\ agent.cmd.kind \in DOMAIN FirstStep
  BY DEF TypeInv, HandlerInv, Ended
<1>3. agent.cmd.kind \notin Untargeted => agent.cmd.on = App
  BY DEF TypeInv, HandlerInv, Ended, Target
<1> DEFINE y == [At("rename") EXCEPT !.old = c, !.bak = b]
<1>4. /\ y \in Handler /\ y.cmd = agent.cmd /\ y.step = "rename"
      /\ y.old = c /\ y.bak = b
  BY <1>1 DEF Handler, Own
<1> HIDE DEF y
<1>5. Knows(y)
  BY <1>2, <1>3, <1>4, Types DEF Knows
<1> QED
  BY <1>4, <1>5 DEF y

LEMMA RecreateType ==
    TypeInv /\ (RecreateInspect \/ RecreateRename \/ RecreateStop \/ RecreateRun \/ RecreateLook
                 \/ RecreateClear \/ RecreateBack \/ RecreateAgain \/ RecreateDrop) => TypeInv'
<1> SUFFICES ASSUME TypeInv
             PROVE  RecreateInspect \/ RecreateRename \/ RecreateStop \/ RecreateRun
                    \/ RecreateLook \/ RecreateClear \/ RecreateBack \/ RecreateAgain
                    \/ RecreateDrop => TypeInv'
  OBVIOUS
<1>1. CASE RecreateInspect
  <2>1. agent.cmd.kind = "recreate_container" /\ agent.step = "inspect" /\ Target \in Name
    <3>1. agent.cmd.kind = "recreate_container" /\ agent.step = "inspect"
      BY <1>1, Zenon DEF RecreateInspect, Doing
    <3> QED
      BY <3>1, TargetIs DEF Untargeted
  <2>2. PICK b \in Backup :
           Call(Inspect(Target), [At("rename") EXCEPT !.old = docker[Target], !.bak = b], At("failed"))
    BY <1>1 DEF RecreateInspect, FreshBackup
  <2>3. CASE Exists(Target)
    <3>1. docker[Target] \in Container
      BY <2>1, <2>3, ServerIs DEF Exists, Server
    <3> QED
      BY <2>1, <2>2, <3>1, NotedIs, EndIs, UnchangedType, CallType DEF Inspect
  <2>4. CASE ~Exists(Target)
    <3>1. agent' = At("failed")
      BY <2>2, <2>4 DEF Call, Inspect, Broken, Unchanged, Outcome
    <3>2. docker' = docker
      BY <2>2, CallEffect DEF Inspect, Unchanged, Outcome
    <3>3. Call(Inspect(Target), At("failed"), At("failed"))
      BY <2>2, <3>1, <3>2 DEF Call
    <3> QED
      BY <3>3, EndIs, UnchangedType, CallType DEF Inspect
  <2> QED
    BY <2>3, <2>4
<1>2. ASSUME agent.cmd.kind = "recreate_container", agent.step \in Chain
      PROVE  /\ Target \in Name /\ agent.bak \in Name /\ Recreated \in Container
             /\ docker \in Server
             /\ \A s \in Chain : At(s) \in Handler /\ Knows(At(s))
  BY <1>2, ChainIs, ChainGoes, RecreatedIs, ServerIs
<1>3. CASE RecreateRename
  BY <1>2, <1>3, RenameType, CallType DEF RecreateRename, Doing, Ignore, Chain
<1>4. CASE RecreateStop
  BY <1>2, <1>4, RestartType, CallType DEF RecreateStop, Doing, Ignore, Chain
<1>5. CASE RecreateRun
  BY <1>2, <1>5, RunType, CallType DEF RecreateRun, Doing, Chain
<1>6. CASE RecreateLook
  BY <1>2, <1>6, UnchangedType, CallType DEF RecreateLook, Doing, Chain
<1>7. CASE RecreateClear
  BY <1>2, <1>7, RemoveIs, SetType, CallType DEF RecreateClear, Doing, Ignore, Chain
<1>8. CASE RecreateBack
  BY <1>2, <1>8, RenameType, CallType DEF RecreateBack, Doing, Ignore, Chain
<1>9. CASE RecreateAgain
  BY <1>2, <1>9, RestartType, EndIs, CallType DEF RecreateAgain, Doing, Chain
<1>10. CASE RecreateDrop
  BY <1>2, <1>10, RemoveIs, SetType, EndIs, CallType DEF RecreateDrop, Doing, Chain
<1> QED
  BY <1>1, <1>3, <1>4, <1>5, <1>6, <1>7, <1>8, <1>9, <1>10

LEMMA RollbackType ==
    TypeInv /\ (RollbackInspect \/ RollbackClear \/ RollbackRun) => TypeInv'
<1> SUFFICES ASSUME TypeInv
             PROVE  RollbackInspect \/ RollbackClear \/ RollbackRun => TypeInv'
  OBVIOUS
<1>1. CASE RollbackInspect
  <2>1. agent.cmd.kind = "rollback_deployment" /\ agent.step = "inspect" /\ Target \in Name
    <3>1. agent.cmd.kind = "rollback_deployment" /\ agent.step = "inspect"
      BY <1>1, Zenon DEF RollbackInspect, Doing
    <3> QED
      BY <3>1, TargetIs DEF Untargeted
  <2>2. Call(Inspect(Target), [At("clear") EXCEPT !.old = docker[Target]], At("failed"))
    BY <1>1 DEF RollbackInspect
  <2>3. CASE Exists(Target)
    <3>1. docker[Target] \in Container
      BY <2>1, <2>3, ServerIs DEF Exists, Server
    <3>2. [At("clear") EXCEPT !.old = docker[Target]] \in Handler
      BY <3>1, AtIs DEF TypeInv, HandlerInv, Handler, Steps, Chain
    <3>3. Knows([At("clear") EXCEPT !.old = docker[Target]])
      <4> DEFINE x == [At("clear") EXCEPT !.old = docker[Target]]
      <4>1. x.cmd = agent.cmd /\ x.step = "clear" /\ x.old = docker[Target]
        BY AtIs DEF TypeInv, HandlerInv, Handler, Steps, Chain
      <4>2. /\ agent.cmd \in Offered /\ agent.cmd.kind \in DOMAIN FirstStep
            /\ agent.cmd.kind \notin Untargeted => agent.cmd.on = App
        BY <2>1 DEF TypeInv, HandlerInv, Ended, Target
      <4> HIDE DEF x
      <4>3. Knows(x)
        BY <2>1, <3>1, <4>1, <4>2, Types DEF Knows
      <4> QED
        BY <4>3 DEF x
    <3> QED
      BY <2>2, <3>2, <3>3, EndIs, UnchangedType, CallType DEF Inspect
  <2>4. CASE ~Exists(Target)
    <3>1. agent' = At("failed")
      BY <2>2, <2>4 DEF Call, Inspect, Broken, Unchanged, Outcome
    <3>2. docker' = docker
      BY <2>2, CallEffect DEF Inspect, Unchanged, Outcome
    <3>3. Call(Inspect(Target), At("failed"), At("failed"))
      BY <2>2, <3>1, <3>2 DEF Call
    <3> QED
      BY <3>3, EndIs, UnchangedType, CallType DEF Inspect
  <2> QED
    BY <2>3, <2>4
<1>2. CASE RollbackClear
  <2>1. agent.cmd.kind = "rollback_deployment" /\ agent.step = "clear"
    BY <1>2, Zenon DEF RollbackClear, Doing
  <2>2. Target \in Name /\ At("run") \in Handler /\ Knows(At("run"))
    BY <2>1, ChainIs, ChainGoes DEF Chain
  <2> QED
    BY <1>2, <2>2, ServerIs, RemoveIs, SetType, CallType DEF RollbackClear, Ignore
<1>3. CASE RollbackRun
  <2>1. agent.cmd.kind = "rollback_deployment" /\ agent.step = "run"
    BY <1>3, Zenon DEF RollbackRun, Doing
  <2>2. Target \in Name /\ agent.old \in Container /\ Arg \in Image
    BY <2>1, ChainIs, ContainerAssumption DEF Arg
  <2>3. [agent.old EXCEPT !.image = Arg, !.limit = NoLimit] \in Container
    BY <2>2 DEF Container
  <2> QED
    BY <1>3, <2>2, <2>3, RunType, EndIs, CallType DEF RollbackRun, Finish
<1> QED
  BY <1>1, <1>2, <1>3

LEMMA AgentType == TypeInv /\ AgentStep => TypeInv'
<1> SUFFICES ASSUME TypeInv, AgentStep PROVE TypeInv'
  OBVIOUS
<1>1. CASE Report
  <2>1. agent' = Idle /\ UNCHANGED <<docker, envFile, deploy, bounds>>
    BY <1>1 DEF Report
  <2>2. agent' \in Handler /\ Knows(agent')
    BY <2>1, IdleIs DEF Knows
  <2> QED
    BY <2>1, <2>2, TypeNext DEF TypeInv, TypeOK, HandlerInv, Server, bounds
<1>2. CASE SetEnvWrite
  <2>1. agent.cmd.kind = "set_env_var" /\ agent.step = "write"
    BY <1>2, Zenon DEF SetEnvWrite, Doing
  <2>2. agent.cmd \in Offered
    BY <2>1 DEF TypeInv, HandlerInv, Ended
  <2>3. Arg \in Value /\ Target \in {App, Platform}
    BY <2>1, <2>2, ContainerAssumption DEF Arg, Target
  <2>4. Target = App => At("restart") \in Handler /\ Knows(At("restart"))
    BY <2>1, AtKnows DEF Ended, Steps, Chain
  <2>5. /\ envFile' = Arg /\ UNCHANGED <<docker, deploy, bounds>>
        /\ agent' = IF Target = Platform THEN At("failed") ELSE At("restart")
    BY <1>2 DEF SetEnvWrite
  <2>6. agent' \in Handler /\ Knows(agent')
    BY <2>3, <2>4, <2>5, EndIs
  <2> QED
    BY <2>3, <2>5, <2>6, TypeNext DEF TypeInv, TypeOK, HandlerInv, Server, bounds
<1> QED
  BY <1>1, <1>2, RestartActionsType, SingleActionsType, RecreateType, RollbackType DEF AgentStep

LEMMA FirstSteps == \A k \in DOMAIN FirstStep :
    /\ FirstStep[k] \in Steps
    /\ k = "recreate_container" => FirstStep[k] = "inspect"
    /\ k = "rollback_deployment" => FirstStep[k] = "inspect"
    /\ k = "set_env_var" => FirstStep[k] = "write"
BY DEF FirstStep, Steps, Chain

LEMMA ReceiveType == ASSUME TypeInv, NEW c \in Offered, Receive(c) PROVE TypeInv'
<1> DEFINE first == IF DryRun /\ c.kind \in DOMAIN FirstStep THEN "succeeded"
                    ELSE IF Refused(c) THEN "failed" ELSE FirstStep[c.kind]
<1>1. agent' = [Idle EXCEPT !.cmd = c, !.step = first] /\ UNCHANGED <<docker, envFile, deploy, bounds>>
  BY DEF Receive
<1>2. first \in Steps
  BY FirstSteps DEF Refused, Steps
<1>3. first \notin {"succeeded", "failed"} =>
         /\ first = FirstStep[c.kind] /\ c.kind \in DOMAIN FirstStep /\ ~Refused(c)
  BY DEF Refused
<1>4. ~Refused(c) => /\ c.kind \notin Untargeted => c.on = App
                     /\ c.kind = "set_memory_limit" => c.arg \in SaneLimit
  BY ContainerAssumption DEF Refused
<1> HIDE DEF first
<1>5. agent' = [cmd |-> c, step |-> first, old |-> Gone, bak |-> App]
  BY <1>1 DEF Idle
<1>6. agent' \in Handler
  BY <1>2, <1>5 DEF Handler, Own
<1>7. Knows(agent')
  <2>1. agent'.cmd = c /\ agent'.step = first
    BY <1>5
  <2>2. c.kind = "recreate_container" => first \notin Chain
    BY <1>3, FirstSteps DEF Chain
  <2>3. c.kind = "rollback_deployment" => first \notin {"clear", "run"}
    BY <1>3, FirstSteps
  <2>4. c.kind = "set_env_var" => first \notin {"restart", "look"}
    BY <1>3, FirstSteps
  <2>5. first \notin {"succeeded", "failed"} =>
           /\ c.kind \in DOMAIN FirstStep
           /\ c.kind \notin Untargeted => c.on = App
           /\ c.kind = "set_memory_limit" => c.arg \in SaneLimit
    BY <1>3, <1>4
  <2> QED
    BY <2>1, <2>2, <2>3, <2>4, <2>5 DEF Knows
<1> QED
  BY <1>1, <1>6, <1>7, TypeNext DEF TypeInv, TypeOK, HandlerInv, Server, bounds

LEMMA ShippedIs ==
    ASSUME NEW c \in Shipped, NEW e \in Value
    PROVE  c \in Container /\ c.env \in Value /\ [c EXCEPT !.env = e] \in Container
BY ContainerAssumption DEF Container

LEMMA EnvironmentType == TypeInv /\ Environment => TypeInv'
<1> SUFFICES ASSUME TypeInv, Environment PROVE TypeInv'
  OBVIOUS
<1> USE ServerIs
<1>1. ASSUME NEW n \in Name, Dies(n) PROVE TypeInv'
  <2>1. docker[n] \in Container
    BY <1>1 DEF Dies, Running, Server, Gone
  <2>2. docker' = Set(n, [docker[n] EXCEPT !.state = "exited"])
    BY <1>1 DEF Dies
  <2>3. docker' \in Server
    BY <2>1, <2>2, StateIs, SetType
  <2> QED
    BY <1>1, <2>3, TypeNext, HandlerIs DEF Dies, TypeInv, TypeOK, bounds
<1>2. CASE Crash
  <2>1. agent' \in Handler /\ Knows(agent')
    BY <1>2, IdleIs DEF Crash, Knows
  <2> QED
    BY <1>2, <2>1, TypeNext, ContainerAssumption
    DEF Crash, Mishap, TypeInv, TypeOK, HandlerInv, Server
<1>3. CASE DeployRemoves
  <2>1. docker' \in Server
    BY <1>3, SetType, Types DEF DeployRemoves
  <2> QED
    BY <1>3, <2>1, TypeNext, HandlerIs, ContainerAssumption
    DEF DeployRemoves, Mishap, TypeInv, TypeOK
<1>4. ASSUME NEW c \in Shipped, DeployRuns(c) PROVE TypeInv'
  <2>1. envFile \in Value /\ [c EXCEPT !.env = envFile] \in Container
    BY ShippedIs DEF TypeInv, TypeOK
  <2>2. PICK o \in Run(App, [c EXCEPT !.env = envFile]) : docker' = o.docker
    BY <1>4 DEF DeployRuns
  <2>3. docker' \in Server
    BY <2>1, <2>2, RunType, Types
  <2> QED
    BY <1>4, <2>3, TypeNext, HandlerIs DEF DeployRuns, TypeInv, TypeOK, bounds
<1> QED
  BY <1>1, <1>2, <1>3, <1>4 DEF Environment

LEMMA TypeInit == Init => TypeInv
<1> SUFFICES ASSUME Init PROVE TypeInv
  OBVIOUS
<1>1. PICK c \in Shipped :
         /\ docker = [n \in Name |->
               CASE n = App      -> [c EXCEPT !.state = "running"]
                 [] n = Platform -> [c EXCEPT !.state = "running", !.port = NoPort]
                 [] OTHER        -> Gone]
         /\ envFile = c.env
  BY DEF Init
<1>2. /\ [c EXCEPT !.state = "running"] \in Container
      /\ [c EXCEPT !.state = "running", !.port = NoPort] \in Container
  BY ContainerAssumption DEF Container
<1>3. docker \in Server
  BY <1>1, <1>2, Zenon DEF Server
<1>4. envFile \in Value
  BY <1>1, ContainerAssumption
<1>5. agent = Idle /\ deploy = FALSE /\ faults = 0 /\ crashes = 0 /\ deploys = 0
  BY DEF Init
<1>6. agent \in Handler /\ Knows(agent)
  BY <1>5, IdleIs DEF Knows
<1>7. HandlerInv
  BY <1>5, <1>6, HandlerIs
<1>8. TypeOK
  <2>1. deploy \in BOOLEAN
    BY <1>5
  <2>2. /\ faults \in Nat /\ crashes \in Nat /\ deploys \in Nat
        /\ faults + crashes + deploys <= MaxMishaps
    BY <1>5, ContainerAssumption
  <2>3. (agent.cmd = NoCommand \/ agent.cmd \in Offered) /\ agent.old \in Container \cup {Gone}
        /\ agent.bak \in Own
    BY <1>6 DEF Handler
  <2> QED
    BY <1>3, <1>4, <2>1, <2>2, <2>3 DEF TypeOK, Server
<1> QED
  BY <1>7, <1>8 DEF TypeInv

LEMMA TypeStep == TypeInv /\ [Next]_vars => TypeInv'
<1> SUFFICES ASSUME TypeInv, [Next]_vars PROVE TypeInv'
  OBVIOUS
<1>1. CASE UNCHANGED vars
  BY <1>1 DEF vars, bounds, TypeInv, TypeOK, HandlerInv, Target, Arg, Doing, Ended
<1> QED
  BY <1>1, ReceiveType, AgentType, EnvironmentType DEF Next

LEMMA TypesHold == Spec => []TypeInv
BY TypeInit, TypeStep, PTL DEF Spec

\* The containers, the env file and the handler have their types, whichever
\* docker calls fail, whenever containers die and the agent is killed.
THEOREM TypeCorrect == Spec => []TypeOK
<1>1. TypeInv => TypeOK
  BY DEF TypeInv
<1> QED
  BY <1>1, TypesHold, PTL

(***************************************************************************)
(* The old container is kept                                               *)
(***************************************************************************)
\* The same containers exist with the same specs.
SameSpecs == \A m \in Name :
    /\ Exists(m)' <=> Exists(m)
    /\ Exists(m) => Recorded(docker'[m]) = Recorded(docker[m])

LEMMA SetSame ==
    ASSUME docker \in Server, NEW n \in Name, Exists(n), NEW d \in Container,
           Recorded(d) = Recorded(docker[n]), docker' = Set(n, d)
    PROVE  SameSpecs
BY Types DEF SameSpecs, Set, Server, Exists

LEMMA NoChangeSame == docker' = docker => SameSpecs
BY DEF SameSpecs, Exists

\* Calls that start or stop a container, or change nothing.
LEMMA RestartSame ==
    ASSUME TypeInv, NEW n \in Name, NEW os, NEW good, NEW bad,
           os = Restart(n) \/ os = Start(n) \/ os = Stop(n), Call(os, good, bad)
    PROVE  SameSpecs
<1>1. docker' = docker \/ \E o \in os : docker' = o.docker
  BY CallEffect
<1>2. CASE docker' = docker
  BY <1>2, NoChangeSame
<1>3. ASSUME NEW o \in os, docker' = o.docker PROVE SameSpecs
  <2>1. o \in Restart(n) \cup Start(n) \cup Stop(n)
    OBVIOUS
  <2> QED
    BY <1>2, <1>3, <2>1, ServerIs, RestartIs, SetSame
<1> QED
  BY <1>1, <1>2, <1>3

LEMMA UnchangedSame ==
    ASSUME NEW ok, NEW good, NEW bad, Call(Unchanged(ok), good, bad)
    PROVE  docker' = docker
BY CallEffect DEF Unchanged, Outcome

\* What is left by a call of docker rename or docker run.
LEMMA RenameCall ==
    ASSUME docker \in Server, NEW n \in Name, NEW m \in Name, n # m, NEW good, NEW bad,
           Call(Rename(n, m), good, bad)
    PROVE  \/ docker' = docker
           \/ /\ docker[n] # Gone /\ docker[m] = Gone
              /\ docker'[m] = docker[n] /\ docker'[n] = Gone
              /\ \A x \in Name \ {n, m} : docker'[x] = docker[x]
<1>1. docker' = docker \/ \E o \in Rename(n, m) : docker' = o.docker
  BY CallEffect
<1>2. ASSUME NEW o \in Rename(n, m), docker' = o.docker
      PROVE  \/ docker' = docker
             \/ /\ Exists(n) /\ ~Exists(m)
                /\ docker' = [docker EXCEPT ![m] = docker[n], ![n] = Gone]
  BY <1>2, RenameIs
<1>3. \/ docker' = docker
      \/ /\ Exists(n) /\ ~Exists(m)
         /\ docker' = [docker EXCEPT ![m] = docker[n], ![n] = Gone]
  BY <1>1, <1>2
<1> QED
  BY <1>3 DEF Exists, Server

LEMMA RunCall ==
    ASSUME docker \in Server, NEW n \in Name, NEW c \in Container, NEW good, NEW bad,
           Call(Run(n, c), good, bad)
    PROVE  /\ \/ docker' = docker /\ agent' = bad
              \/ /\ docker[n] = Gone
                 /\ docker'[n] = Gone => docker' = docker
                 /\ docker'[n] # Gone => Recorded(docker'[n]) = Recorded(c)
                 /\ \A x \in Name \ {n} : docker'[x] = docker[x]
           /\ agent' # bad => agent' = good /\ docker[n] = Gone /\ docker'[n] # Gone
<1>1. ASSUME NEW o \in Run(n, c), docker' = o.docker
      PROVE  \/ docker' = docker /\ ~o.ok
             \/ /\ docker[n] = Gone /\ docker'[n] # Gone
                /\ Recorded(docker'[n]) = Recorded(c)
                /\ \A x \in Name \ {n} : docker'[x] = docker[x]
  <2>1. CASE Exists(n)
    BY <1>1, <2>1, RunIs
  <2>2. CASE ~Exists(n)
    <3>1. CASE docker' = docker /\ ~o.ok /\ Exists(n)
      BY <3>1
    <3>2. CASE \E d \in Container : o.docker = Set(n, d) /\ Recorded(d) = Recorded(c)
      <4>1. PICK d \in Container : o.docker = Set(n, d) /\ Recorded(d) = Recorded(c)
        BY <3>2
      <4> QED
        BY <1>1, <2>2, <4>1, Types DEF Set, Server, Exists
    <3> QED
      BY <1>1, <3>1, <3>2, RunIs
  <2> QED
    BY <2>1, <2>2
<1>2. agent' = good \/ agent' = bad
  BY CallEffect
<1>3. docker' = docker \/ \E o \in Run(n, c) : docker' = o.docker
  BY CallEffect
<1>4. agent' # bad => agent' = good /\ \E o \in Run(n, c) : o.ok /\ docker' = o.docker
  BY CallGood
<1>5. agent' # bad => agent' = good /\ docker[n] = Gone /\ docker'[n] # Gone
                      /\ Recorded(docker'[n]) = Recorded(c)
                      /\ \A x \in Name \ {n} : docker'[x] = docker[x]
  BY <1>1, <1>4
<1> QED
  BY <1>1, <1>3, <1>5

\* The steps of a recreate, each as far as the invariants need it.
LEMMA RecreateContext ==
    ASSUME TypeInv, agent.cmd.kind = "recreate_container", agent.step \in Chain
    PROVE  /\ Target = App /\ App \in Name /\ agent.bak \in Backup /\ agent.bak \in Name
           /\ agent.bak # App /\ agent.bak # Platform
           /\ agent.old \in Container /\ agent.old # Gone /\ Recreated \in Container
           /\ docker \in Server
           /\ \A s \in Steps : /\ At(s).step = s /\ At(s).cmd = agent.cmd
                               /\ At(s).old = agent.old /\ At(s).bak = agent.bak
BY ChainIs, RecreatedIs, ServerIs, Types, AtIs DEF TypeInv, HandlerInv

\* KeepInv for another handler and other containers.
Keeps(a, d) ==
    LET holds(n) == d[n] # Gone /\ Recorded(d[n]) = Recorded(a.old)
        renewed  == d[App] # Gone /\ Recorded(d[App]) = Recorded([a.old EXCEPT !.port = a.cmd.arg])
    IN  /\ a.step \in Chain \cup {"succeeded", "failed"}
        /\ a.step = "rename" => holds(App)
        /\ a.step \in {"stop", "run", "back", "again", "failed"} => holds(App) \/ holds(a.bak)
        /\ a.step \in {"look", "clear", "drop"} => holds(a.bak)
        /\ a.step \in {"look", "drop", "succeeded"} => renewed

LEMMA KeepIs == KeepInv <=> (Recreating /\ deploys = 0 => Keeps(agent, docker))
BY DEF KeepInv, Keeps, Holds, Renewed, Recreated, Exists, Succeeded, Failed, Arg

LEMMA KeepIsNext == KeepInv' <=> (Recreating' /\ deploys' = 0 => Keeps(agent', docker'))
BY DEF KeepInv, Keeps, Holds, Renewed, Recreated, Exists, Succeeded, Failed, Arg

\* The handler goes on to step s.
Goes(s) == /\ agent'.step = s /\ agent'.cmd = agent.cmd
           /\ agent'.old = agent.old /\ agent'.bak = agent.bak

LEMMA RecreateKeeps ==
    ASSUME TypeInv, agent.cmd.kind = "recreate_container", agent.step \in Chain,
           Keeps(agent, docker),
           RecreateRename \/ RecreateStop \/ RecreateRun \/ RecreateLook
           \/ RecreateClear \/ RecreateBack \/ RecreateAgain \/ RecreateDrop
    PROVE  Keeps(agent', docker')
<1>0. /\ Target = App /\ App \in Name /\ agent.bak \in Name /\ agent.bak # App
      /\ agent.old \in Container /\ Recreated \in Container /\ docker \in Server
      /\ Gone \notin Container
  BY RecreateContext, Types
<1>s. \A s \in Steps : agent' = At(s) => Goes(s)
  BY RecreateContext DEF Goes
<1>r. Recreated = [agent.old EXCEPT !.port = agent.cmd.arg]
  BY DEF Recreated, Arg
<1>1. CASE RecreateRename
  <2>1. Call(Rename(App, agent.bak), At("stop"), At("stop")) /\ agent.step = "rename"
    BY <1>0, <1>1 DEF RecreateRename, Ignore, Doing
  <2>2. Goes("stop")
    BY <1>s, <2>1, CallEffect DEF Steps, Chain
  <2>3. docker[App] # Gone /\ Recorded(docker[App]) = Recorded(agent.old)
    BY <2>1 DEF Keeps
  <2>4. docker'[App] = docker[App] \/ docker'[agent.bak] = docker[App]
    BY <1>0, <2>1, RenameCall
  <2> QED
    BY <2>2, <2>3, <2>4 DEF Keeps, Goes, Chain
<1>2. CASE RecreateStop
  <2>1. Call(Stop(agent.bak), At("run"), At("run")) /\ agent.step = "stop"
    BY <1>2 DEF RecreateStop, Ignore, Doing
  <2>2. Goes("run")
    BY <1>s, <2>1, CallEffect DEF Steps, Chain
  <2>3. SameSpecs
    BY <1>0, <2>1, RestartSame
  <2> QED
    BY <1>0, <2>1, <2>2, <2>3 DEF Keeps, Goes, Chain, SameSpecs, Exists
<1>3. CASE RecreateRun
  <2>1. Call(Run(App, Recreated), At("look"), At("back")) /\ agent.step = "run"
    BY <1>0, <1>3 DEF RecreateRun, Doing
  <2>2. CASE agent' = At("back")
    <3>1. Goes("back")
      BY <1>s, <2>2 DEF Steps, Chain
    <3>2. docker' = docker \/ (docker[App] = Gone /\ docker'[agent.bak] = docker[agent.bak])
      BY <1>0, <2>1, RunCall
    <3> QED
      BY <2>1, <3>1, <3>2 DEF Keeps, Goes, Chain
  <2>3. CASE agent' # At("back")
    <3>1. /\ agent' = At("look")
          /\ docker[App] = Gone /\ docker'[agent.bak] = docker[agent.bak]
          /\ docker'[App] # Gone /\ Recorded(docker'[App]) = Recorded(Recreated)
      BY <1>0, <2>1, <2>3, RunCall
    <3>2. Goes("look")
      BY <1>s, <3>1 DEF Steps, Chain
    <3> QED
      BY <1>r, <2>1, <3>1, <3>2 DEF Keeps, Goes, Chain
  <2> QED
    BY <2>2, <2>3
<1>4. CASE RecreateLook
  <2>1. Call(Unchanged(Running(App)), At("drop"), At("clear")) /\ agent.step = "look"
    BY <1>0, <1>4 DEF RecreateLook, Doing
  <2>2. docker' = docker /\ (Goes("drop") \/ Goes("clear"))
    BY <1>s, <2>1, UnchangedSame, CallEffect DEF Steps, Chain
  <2> QED
    BY <2>1, <2>2 DEF Keeps, Goes, Chain
<1>5. CASE RecreateClear
  <2>1. Call(Remove(App), At("back"), At("back")) /\ agent.step = "clear"
    BY <1>0, <1>5 DEF RecreateClear, Ignore, Doing
  <2>2. Goes("back") /\ (docker' = docker \/ docker' = Set(App, Gone))
    BY <1>s, <2>1, CallEffect, RemoveIs DEF Steps, Chain
  <2>3. docker'[agent.bak] = docker[agent.bak]
    BY <1>0, <2>2 DEF Set, Server
  <2> QED
    BY <2>1, <2>2, <2>3 DEF Keeps, Goes, Chain
<1>6. CASE RecreateBack
  <2>1. Call(Rename(agent.bak, App), At("again"), At("again")) /\ agent.step = "back"
    BY <1>0, <1>6 DEF RecreateBack, Ignore, Doing
  <2>2. Goes("again")
    BY <1>s, <2>1, CallEffect DEF Steps, Chain
  <2>3. docker' = docker \/ (docker[App] = Gone /\ docker'[App] = docker[agent.bak])
    BY <1>0, <2>1, RenameCall
  <2> QED
    BY <2>1, <2>2, <2>3 DEF Keeps, Goes, Chain
<1>7. CASE RecreateAgain
  <2>1. Call(Start(App), At("failed"), At("failed")) /\ agent.step = "again"
    BY <1>0, <1>7 DEF RecreateAgain, Doing
  <2>2. Goes("failed")
    BY <1>s, <2>1, CallEffect DEF Steps
  <2>3. SameSpecs
    BY <1>0, <2>1, RestartSame
  <2> QED
    BY <1>0, <2>1, <2>2, <2>3 DEF Keeps, Goes, Chain, SameSpecs, Exists
<1>8. CASE RecreateDrop
  <2>1. Call(Remove(agent.bak), At("succeeded"), At("succeeded")) /\ agent.step = "drop"
    BY <1>8 DEF RecreateDrop, Doing
  <2>2. Goes("succeeded") /\ (docker' = docker \/ docker' = Set(agent.bak, Gone))
    BY <1>s, <2>1, CallEffect, RemoveIs DEF Steps
  <2>3. docker'[App] = docker[App]
    BY <1>0, <2>2 DEF Set, Server
  <2> QED
    BY <2>1, <2>2, <2>3 DEF Keeps, Goes, Chain
<1> QED
  BY <1>1, <1>2, <1>3, <1>4, <1>5, <1>6, <1>7, <1>8

\* A recreate begins: it has noted down the container that it found.
LEMMA InspectKeeps ==
    ASSUME TypeInv, RecreateInspect, agent.old = Gone
    PROVE  /\ docker' = docker
           /\ agent'.cmd = agent.cmd
           /\ \/ agent' = At("failed") /\ agent'.old = Gone
              \/ /\ agent'.step = "rename" /\ docker[App] # Gone /\ agent'.old = docker[App]
                 /\ agent'.bak \in Backup /\ docker[agent'.bak] = Gone
<1>1. agent.cmd.kind = "recreate_container" /\ agent.step = "inspect"
  BY Zenon DEF RecreateInspect, Doing
<1>2. Target = App
  BY <1>1, TargetIs DEF Untargeted
<1>3. PICK b \in Backup : /\ ~Exists(b)
        /\ Call(Inspect(App), [At("rename") EXCEPT !.old = docker[App], !.bak = b], At("failed"))
  BY <1>2 DEF RecreateInspect, FreshBackup
<1> DEFINE y == [At("rename") EXCEPT !.old = docker[App], !.bak = b]
<1>4. docker' = docker
  BY <1>3, UnchangedSame DEF Inspect
<1>5. /\ At("failed").cmd = agent.cmd /\ At("failed").old = Gone
      /\ At("rename") \in Handler /\ At("rename").cmd = agent.cmd /\ At("rename").step = "rename"
  BY AtIs DEF TypeInv, HandlerInv, Steps, Chain
<1>6. y.cmd = agent.cmd /\ y.step = "rename" /\ y.old = docker[App] /\ y.bak = b
  BY <1>5 DEF Handler
<1>7. Call(Inspect(App), y, At("failed"))
  BY <1>3
<1> HIDE DEF y
<1>8. CASE agent' = At("failed")
  BY <1>4, <1>5, <1>8
<1>9. CASE agent' # At("failed")
  <2>1. agent' = y
    BY <1>7, <1>9, CallEffect
  <2>2. ~Exists(App) => agent' = At("failed")
    BY <1>7 DEF Call, Inspect, Broken, Unchanged, Outcome
  <2> QED
    BY <1>3, <1>4, <1>6, <1>9, <2>1, <2>2 DEF Exists
<1> QED
  BY <1>8, <1>9

\* Every other step of the agent leaves no recreate in progress behind.
OtherSteps ==
    \/ RestartCall \/ RestartLook
    \/ RollbackInspect \/ RollbackClear \/ RollbackRun
    \/ UpdateLimit \/ StopConflicting \/ Migrate \/ Rebuild \/ TruncateLog \/ PruneAll
    \/ HealthCheck
    \/ SetEnvWrite \/ SetEnvRestart \/ SetEnvLook

LEMMA CallKind ==
    ASSUME TypeInv, NEW os, NEW s \in Steps, NEW t \in Steps, Call(os, At(s), At(t))
    PROVE  agent'.cmd = agent.cmd /\ agent'.step \in {s, t}
BY CallEffect, AtIs DEF TypeInv, HandlerInv

LEMMA OtherKind ==
    TypeInv /\ OtherSteps =>
        agent'.cmd.kind = agent.cmd.kind /\ agent.cmd.kind # "recreate_container"
        /\ UNCHANGED deploys
<1> SUFFICES ASSUME TypeInv, OtherSteps
             PROVE  /\ agent'.cmd.kind = agent.cmd.kind /\ agent.cmd.kind # "recreate_container"
                    /\ UNCHANGED deploys
  OBVIOUS
<1> USE DEF Doing, Require, Finish, Ignore, Steps, Chain
<1>1. CASE RestartCall
  BY <1>1, CallKind, CallEffect DEF RestartCall
<1>2. CASE RestartLook
  BY <1>2, CallKind, CallEffect DEF RestartLook
<1>3. CASE RollbackInspect
  <2>1. Call(Inspect(Target), [At("clear") EXCEPT !.old = docker[Target]], At("failed"))
    BY <1>3 DEF RollbackInspect
  <2>2. /\ At("clear") \in Handler /\ At("clear").cmd = agent.cmd /\ At("failed").cmd = agent.cmd
    BY AtIs DEF TypeInv, HandlerInv
  <2> DEFINE y == [At("clear") EXCEPT !.old = docker[Target]]
  <2>3. y.cmd = agent.cmd /\ Call(Inspect(Target), y, At("failed"))
    BY <2>1, <2>2 DEF Handler
  <2> HIDE DEF y
  <2>4. agent'.cmd = agent.cmd /\ UNCHANGED deploys
    BY <2>2, <2>3, CallEffect
  <2>5. agent.cmd.kind = "rollback_deployment"
    BY <1>3, Zenon DEF RollbackInspect
  <2> QED
    BY <2>4, <2>5
<1>4. CASE RollbackClear
  BY <1>4, CallKind, CallEffect DEF RollbackClear
<1>5. CASE RollbackRun
  BY <1>5, CallKind, CallEffect DEF RollbackRun
<1>6. CASE UpdateLimit
  BY <1>6, CallKind, CallEffect DEF UpdateLimit
<1>7. CASE StopConflicting
  BY <1>7, CallKind, CallEffect DEF StopConflicting
<1>8. CASE Migrate
  BY <1>8, CallKind, CallEffect DEF Migrate
<1>9. CASE Rebuild
  BY <1>9, CallKind, CallEffect DEF Rebuild
<1>10. CASE TruncateLog
  BY <1>10, CallKind, CallEffect DEF TruncateLog
<1>11. CASE PruneAll
  BY <1>11, CallKind, CallEffect DEF PruneAll
<1>12. CASE HealthCheck
  BY <1>12, CallKind, CallEffect DEF HealthCheck
<1>13. CASE SetEnvWrite
  BY <1>13, AtIs DEF SetEnvWrite, TypeInv, HandlerInv, bounds
<1>14. CASE SetEnvRestart
  BY <1>14, CallKind, CallEffect DEF SetEnvRestart
<1>15. CASE SetEnvLook
  BY <1>15, CallKind, CallEffect DEF SetEnvLook
<1> QED
  BY <1>1, <1>2, <1>3, <1>4, <1>5, <1>6, <1>7, <1>8, <1>9, <1>10, <1>11, <1>12, <1>13, <1>14,
     <1>15 DEF OtherSteps

RecreateSteps ==
    \/ RecreateRename \/ RecreateStop \/ RecreateRun \/ RecreateLook
    \/ RecreateClear \/ RecreateBack \/ RecreateAgain \/ RecreateDrop

LEMMA RecreateIs ==
    RecreateSteps => /\ agent.cmd.kind = "recreate_container" /\ agent.step \in Chain
                     /\ UNCHANGED deploys
BY CallEffect DEF RecreateSteps, RecreateRename, RecreateStop, RecreateRun, RecreateLook,
   RecreateClear, RecreateBack, RecreateAgain, RecreateDrop, Doing, Ignore, Chain

LEMMA KeepStep == TypeInv /\ KeepInv /\ [Next]_vars => KeepInv'
<1> SUFFICES ASSUME TypeInv, KeepInv, [Next]_vars PROVE KeepInv'
  OBVIOUS
<1>0. docker \in Server /\ deploys \in Nat /\ (deploy => deploys > 0) /\ App \in Name
      /\ agent \in Handler
  BY ServerIs, Types DEF TypeInv, TypeOK, HandlerInv
<1>1. CASE UNCHANGED vars
  BY <1>1 DEF vars, bounds, KeepInv, Recreating, Holds, Renewed, Recreated, Exists, Succeeded,
     Failed, Arg
<1>2. ASSUME NEW c \in Offered, Receive(c) PROVE KeepInv'
  <2>1. agent'.old = Gone
    BY <1>2 DEF Receive, Idle
  <2> QED
    BY <2>1, KeepIsNext DEF Recreating
<1>3. CASE Report \/ Crash
  <2>1. agent'.old = Gone
    BY <1>3, IdleIs DEF Report, Crash
  <2> QED
    BY <2>1, KeepIsNext DEF Recreating
<1>4. CASE OtherSteps
  BY <1>4, OtherKind, KeepIsNext DEF Recreating
<1>5. CASE RecreateInspect
  <2>1. agent.cmd.kind = "recreate_container" /\ agent.step = "inspect" /\ UNCHANGED deploys
    BY <1>5, CallEffect DEF RecreateInspect, Doing
  <2>2. CASE deploys = 0
    <3>1. agent.old = Gone
      BY <2>1, <2>2, KeepIs DEF Keeps, Chain, Recreating
    <3>2. CASE agent'.old = Gone
      BY <3>2, KeepIsNext DEF Recreating
    <3>3. CASE agent'.old # Gone
      <4>1. /\ docker' = docker /\ agent'.step = "rename"
            /\ docker[App] # Gone /\ agent'.old = docker[App]
        BY <1>5, <3>1, <3>3, InspectKeeps
      <4>2. Keeps(agent', docker')
        BY <4>1 DEF Keeps, Chain
      <4> QED
        BY <4>2, KeepIsNext
    <3> QED
      BY <3>2, <3>3
  <2> QED
    BY <2>1, <2>2, KeepIsNext
<1>6. CASE RecreateSteps
  <2>1. agent.cmd.kind = "recreate_container" /\ agent.step \in Chain /\ UNCHANGED deploys
    BY <1>6, RecreateIs
  <2>2. CASE deploys = 0
    <3>1. Keeps(agent, docker)
      BY <2>1, <2>2, RecreateContext, KeepIs DEF Recreating
    <3>2. Keeps(agent', docker')
      BY <1>6, <2>1, <3>1, RecreateKeeps DEF RecreateSteps
    <3> QED
      BY <3>2, KeepIsNext
  <2> QED
    BY <2>1, <2>2, KeepIsNext
<1>7. ASSUME NEW n \in Name, Dies(n) PROVE KeepInv'
  <2>1. docker[n] \in Container /\ Exists(n)
    BY <1>0, <1>7, Types DEF Dies, Running, Server, Exists, Gone
  <2>2. SameSpecs
    BY <1>0, <1>7, <2>1, StateIs, SetSame DEF Dies
  <2>3. UNCHANGED <<agent, deploys>>
    BY <1>7 DEF Dies, bounds
  <2>4. Recreating /\ agent.step \in Chain \cup {"succeeded", "failed"} => agent.bak \in Name
    BY <1>0 DEF Handler, Name, Own
  <2>5. Recreating /\ Keeps(agent, docker) => Keeps(agent', docker')
    BY <1>0, <2>2, <2>3, <2>4 DEF Keeps, SameSpecs, Exists, Chain
  <2> QED
    BY <2>3, <2>5, KeepIs, KeepIsNext DEF Recreating
<1>8. CASE DeployRemoves
  <2>1. deploys' = deploys + 1
    BY <1>8, Zenon DEF DeployRemoves
  <2>2. deploys' # 0
    BY <1>0, <2>1
  <2> QED
    BY <2>2, KeepIsNext
<1>9. ASSUME NEW c \in Shipped, DeployRuns(c) PROVE KeepInv'
  <2>1. deploy /\ deploys' = deploys
    BY <1>9, Zenon DEF DeployRuns, bounds
  <2>2. deploys > 0
    BY <1>0, <2>1, Zenon
  <2>3. deploys' # 0
    BY <1>0, <2>1, <2>2
  <2> QED
    BY <2>3, KeepIsNext
<1> QED
  BY <1>1, <1>2, <1>3, <1>4, <1>5, <1>6, <1>7, <1>8, <1>9
  DEF Next, AgentStep, OtherSteps, RecreateSteps, Environment

\* Whichever docker calls fail on the way, until recreate_container has seen the
\* new container running the old one exists with its image, port, limit and
\* environment, under its own name or the backup's; and what it reports as
\* recreated has the recorded spec on the port that was asked for.
THEOREM OldContainerIsKept == Spec => []RecreateKeepsOne
<1>1. Init => KeepInv
  BY IdleIs, KeepIs DEF Init, Recreating
<1>2. Spec => []KeepInv
  BY <1>1, TypesHold, KeepStep, PTL DEF Spec
<1>3. TypeInv /\ KeepInv => RecreateKeepsOne
  <2> SUFFICES ASSUME TypeInv, KeepInv, Recreating, deploys = 0
               PROVE  IF Succeeded
                      THEN Exists(App) /\ Recorded(docker[App]) = Recorded(Recreated)
                      ELSE agent.step # "drop" =>
                           \E n \in {App, agent.bak} :
                              Exists(n) /\ Recorded(docker[n]) = Recorded(agent.old)
    BY DEF RecreateKeepsOne
  <2> QED
    BY DEF KeepInv, Holds, Renewed, Chain, Succeeded, Failed
<1> QED
  BY <1>2, <1>3, TypesHold, PTL

(***************************************************************************)
(* One copy runs                                                           *)
(***************************************************************************)
Runs(d, n) == d[n].state = "running"
Silent(d) == \A b \in Backup : ~Runs(d, b)

\* CalmInv for another handler and other containers.
Ordered(d) ==
    /\ d[App] # Gone => Silent(d)
    /\ Silent(d) \/ \E b \in Backup : \A c \in Backup \ {b} : ~Runs(d, c)

Fits(a, d) ==
    /\ a.cmd.kind = "recreate_container" =>
          /\ a.step = "rename" => d[App] # Gone /\ d[a.bak] = Gone
          /\ a.step = "stop" => \A c \in Backup \ {a.bak} : ~Runs(d, c)
          /\ a.step \in {"stop", "run"} => d[App] = Gone
          /\ a.step \in Chain \ {"stop"} => Silent(d)
    /\ a.cmd.kind = "rollback_deployment" /\ a.step \in {"clear", "run"} => Silent(d)

LEMMA CalmIs ==
    CalmInv <=> (faults = 0 /\ deploys = 0 => Ordered(docker) /\ Fits(agent, docker))
BY DEF CalmInv, Ordered, Fits, Quiet, Silent, Running, Runs, Exists

LEMMA CalmIsNext ==
    CalmInv' <=> (faults' = 0 /\ deploys' = 0 => Ordered(docker') /\ Fits(agent', docker'))
BY DEF CalmInv, Ordered, Fits, Quiet, Silent, Running, Runs, Exists

\* No container starts but the project's own, and that one where it was or
\* where no backup runs.
Calmer(d, e) ==
    /\ \A b \in Backup : Runs(e, b) => Runs(d, b)
    /\ e[App] # Gone => d[App] # Gone \/ Silent(d)

LEMMA CalmerIs ==
    ASSUME NEW d, NEW e, Ordered(d), Calmer(d, e)
    PROVE  Ordered(e) /\ (Silent(d) => Silent(e))
BY DEF Ordered, Calmer, Silent

LEMMA GoneIs == Gone.state = "gone"
BY DEF Gone

\* A call that works on one container and creates none.
Only(n) == /\ \A m \in Name \ {n} : docker'[m] = docker[m]
           /\ docker'[n] # Gone => docker[n] # Gone

LEMMA SetOnly ==
    ASSUME docker \in Server, NEW n \in Name, NEW d, docker[n] # Gone \/ d = Gone,
           docker' = docker \/ docker' = Set(n, d)
    PROVE  Only(n)
BY DEF Only, Set, Server

LEMMA BackupIs == Backup \subseteq Name \ {App, Platform}
BY ContainerAssumption DEF Name

LEMMA OnlyApp == Only(App) => Calmer(docker, docker')
BY BackupIs DEF Only, Calmer, Runs

LEMMA RestartOnly ==
    ASSUME TypeInv, NEW n \in Name, NEW os, NEW good, NEW bad,
           os = Restart(n) \/ os = Start(n) \/ os = Stop(n), Call(os, good, bad)
    PROVE  Only(n)
<1>1. docker' = docker \/ \E o \in os : docker' = o.docker
  BY CallEffect
<1>2. ASSUME NEW o \in os, docker' = o.docker PROVE Only(n)
  <2>1. o \in Restart(n) \cup Start(n) \cup Stop(n)
    OBVIOUS
  <2>2. CASE o.docker = docker
    BY <1>2, <2>2, ServerIs, SetOnly
  <2>3. CASE Exists(n) /\ \E d \in Container : o.docker = Set(n, d)
    BY <1>2, <2>3, ServerIs, SetOnly DEF Exists
  <2> QED
    BY <2>1, <2>2, <2>3, ServerIs, RestartIs
<1>3. CASE docker' = docker
  BY <1>3 DEF Only
<1> QED
  BY <1>1, <1>2, <1>3

LEMMA SilentIsOrdered == ASSUME NEW d, Silent(d) PROVE Ordered(d)
BY DEF Ordered, Silent

\* The backups are as they were, or gone.
LEMMA StaysSilent ==
    ASSUME NEW d, NEW e, Silent(d), \A b \in Backup : e[b] = d[b] \/ e[b] = Gone
    PROVE  Silent(e)
BY GoneIs DEF Silent, Runs

LEMMA StopCall ==
    ASSUME docker \in Server, NEW n \in Name, NEW good, NEW bad, Call(Stop(n), good, bad),
           faults \in Nat, faults' = 0
    PROVE  /\ ~Runs(docker', n)
           /\ \A x \in Name \ {n} : docker'[x] = docker[x]
<1>1. PICK o \in Stop(n) : docker' = o.docker
  BY CallWorks
<1>2. CASE Exists(n)
  <2> DEFINE c == [docker[n] EXCEPT !.state = "exited"]
  <2>1. docker[n] \in Container
    BY <1>2 DEF Server, Exists
  <2>2. c.state = "exited"
    BY <2>1, StateIs
  <2>3. o = Outcome(Set(n, c), TRUE)
    BY <1>1, <1>2, Zenon DEF Stop
  <2> HIDE DEF c
  <2> QED
    BY <1>1, <2>2, <2>3 DEF Outcome, Set, Server, Runs
<1>3. CASE ~Exists(n)
  BY <1>1, <1>3, GoneIs DEF Stop, Unchanged, Outcome, Exists, Runs
<1> QED
  BY <1>2, <1>3

\* The steps of a recreate in which docker does what it is told.
LEMMA RecreateCalms ==
    ASSUME TypeInv, agent.cmd.kind = "recreate_container", agent.step \in Chain,
           Ordered(docker), Fits(agent, docker), faults' = 0,
           RecreateRename \/ RecreateStop \/ RecreateRun \/ RecreateLook
           \/ RecreateClear \/ RecreateBack \/ RecreateAgain \/ RecreateDrop
    PROVE  Ordered(docker') /\ Fits(agent', docker')
<1>0. /\ Target = App /\ App \in Name /\ agent.bak \in Name /\ agent.bak # App
      /\ agent.bak \in Backup
      /\ agent.old \in Container /\ Recreated \in Container /\ docker \in Server
      /\ faults \in Nat
  BY RecreateContext DEF TypeInv, TypeOK
<1>b. \A b \in Backup : b \in Name /\ b # App
  BY BackupIs
<1>s. \A s \in Steps : agent' = At(s) => Goes(s)
  BY RecreateContext DEF Goes
\* Once no backup runs, only the steps that start one need more.
<1>q. ASSUME Silent(docker'), NEW s \in Steps, Goes(s), s \notin {"rename", "stop"},
             s = "run" => docker'[App] = Gone
      PROVE  Ordered(docker') /\ Fits(agent', docker')
  BY <1>q, SilentIsOrdered DEF Goes, Fits
<1>1. CASE RecreateRename
  <2>1. Call(Rename(App, agent.bak), At("stop"), At("stop")) /\ agent.step = "rename"
    BY <1>0, <1>1 DEF RecreateRename, Ignore, Doing
  <2>2. Goes("stop")
    BY <1>s, <2>1, CallEffect DEF Steps, Chain
  <2>3. docker[App] # Gone /\ docker[agent.bak] = Gone /\ Silent(docker)
    BY <2>1 DEF Fits, Chain
  <2>4. PICK o \in Rename(App, agent.bak) : docker' = o.docker
    BY <1>0, <2>1, CallWorks
  <2>5. docker' = [docker EXCEPT ![agent.bak] = docker[App], ![App] = Gone]
    BY <1>0, <2>3, <2>4, RenameIs DEF Exists
  <2>6. /\ docker'[App] = Gone
        /\ \A c \in Backup \ {agent.bak} : ~Runs(docker', c)
    BY <1>0, <1>b, <2>3, <2>5 DEF Silent, Runs, Server
  <2> QED
    BY <1>0, <2>2, <2>6 DEF Ordered, Fits, Goes
<1>2. CASE RecreateStop
  <2>1. Call(Stop(agent.bak), At("run"), At("run")) /\ agent.step = "stop"
    BY <1>2 DEF RecreateStop, Ignore, Doing
  <2>2. Goes("run") /\ "run" \in Steps
    BY <1>s, <2>1, CallEffect DEF Steps, Chain
  <2>3. docker[App] = Gone /\ \A c \in Backup \ {agent.bak} : ~Runs(docker, c)
    BY <2>1 DEF Fits
  <2>4. ~Runs(docker', agent.bak) /\ \A x \in Name \ {agent.bak} : docker'[x] = docker[x]
    BY <1>0, <2>1, StopCall
  <2>5. Silent(docker') /\ docker'[App] = Gone
    BY <1>0, <1>b, <2>3, <2>4 DEF Silent, Runs
  <2> QED
    BY <1>q, <2>2, <2>5
<1>3. CASE RecreateRun
  <2>1. Call(Run(App, Recreated), At("look"), At("back")) /\ agent.step = "run"
    BY <1>0, <1>3 DEF RecreateRun, Doing
  <2>2. (Goes("look") \/ Goes("back")) /\ {"look", "back"} \subseteq Steps
    BY <1>s, <2>1, CallEffect DEF Steps, Chain
  <2>3. \A x \in Name \ {App} : docker'[x] = docker[x]
    BY <1>0, <2>1, RunCall
  <2>4. Silent(docker')
    BY <1>b, <2>1, <2>3, StaysSilent DEF Fits, Chain
  <2> QED
    BY <1>q, <2>2, <2>4
<1>4. CASE RecreateLook
  <2>1. Call(Unchanged(Running(App)), At("drop"), At("clear")) /\ agent.step = "look"
    BY <1>0, <1>4 DEF RecreateLook, Doing
  <2>2. docker' = docker /\ (Goes("drop") \/ Goes("clear")) /\ {"drop", "clear"} \subseteq Steps
    BY <1>s, <2>1, UnchangedSame, CallEffect DEF Steps, Chain
  <2>3. Silent(docker')
    BY <2>1, <2>2 DEF Fits, Chain
  <2> QED
    BY <1>q, <2>2, <2>3
<1>5. CASE RecreateClear
  <2>1. Call(Remove(App), At("back"), At("back")) /\ agent.step = "clear"
    BY <1>0, <1>5 DEF RecreateClear, Ignore, Doing
  <2>2. /\ Goes("back") /\ (docker' = docker \/ docker' = Set(App, Gone))
        /\ "back" \in Steps
    BY <1>s, <2>1, CallEffect, RemoveIs DEF Steps, Chain
  <2>3. Silent(docker')
    <3>1. Silent(docker)
      BY <2>1 DEF Fits, Chain
    <3>2. \A b \in Backup : docker'[b] = docker[b]
      BY <1>0, <1>b, <2>2 DEF Set, Server
    <3> QED
      BY <3>1, <3>2, StaysSilent
  <2> QED
    BY <1>q, <2>2, <2>3
<1>6. CASE RecreateBack
  <2>1. Call(Rename(agent.bak, App), At("again"), At("again")) /\ agent.step = "back"
    BY <1>0, <1>6 DEF RecreateBack, Ignore, Doing
  <2>2. Goes("again") /\ "again" \in Steps
    BY <1>s, <2>1, CallEffect DEF Steps, Chain
  <2>3. Silent(docker')
    <3>1. Silent(docker)
      BY <2>1 DEF Fits, Chain
    <3>2. \A b \in Backup : docker'[b] = docker[b] \/ docker'[b] = Gone
      BY <1>0, <1>b, <2>1, RenameCall
    <3> QED
      BY <3>1, <3>2, StaysSilent
  <2> QED
    BY <1>q, <2>2, <2>3
<1>7. CASE RecreateAgain
  <2>1. Call(Start(App), At("failed"), At("failed")) /\ agent.step = "again"
    BY <1>0, <1>7 DEF RecreateAgain, Doing
  <2>2. Goes("failed") /\ "failed" \in Steps
    BY <1>s, <2>1, CallEffect DEF Steps
  <2>3. Silent(docker')
    <3>1. Silent(docker)
      BY <2>1 DEF Fits, Chain
    <3>2. \A b \in Backup : docker'[b] = docker[b]
      BY <1>0, <1>b, <2>1, RestartOnly DEF Only
    <3> QED
      BY <3>1, <3>2, StaysSilent
  <2> QED
    BY <1>q, <2>2, <2>3
<1>8. CASE RecreateDrop
  <2>1. Call(Remove(agent.bak), At("succeeded"), At("succeeded")) /\ agent.step = "drop"
    BY <1>8 DEF RecreateDrop, Doing
  <2>2. /\ Goes("succeeded") /\ (docker' = docker \/ docker' = Set(agent.bak, Gone))
        /\ "succeeded" \in Steps
    BY <1>s, <2>1, CallEffect, RemoveIs DEF Steps
  <2>3. Silent(docker')
    <3>1. Silent(docker)
      BY <2>1 DEF Fits, Chain
    <3>2. \A b \in Backup : docker'[b] = docker[b] \/ docker'[b] = Gone
      BY <1>0, <1>b, <2>2 DEF Set, Server
    <3> QED
      BY <3>1, <3>2, StaysSilent
  <2> QED
    BY <1>q, <2>2, <2>3
<1> QED
  BY <1>1, <1>2, <1>3, <1>4, <1>5, <1>6, <1>7, <1>8

LEMMA UpdateOnly ==
    ASSUME TypeInv, NEW n \in Name, NEW l, NEW good, NEW bad, Call(Update(n, l), good, bad)
    PROVE  Only(n)
<1>1. docker' = docker \/ \E o \in Update(n, l) : docker' = o.docker
  BY CallEffect
<1>2. CASE Exists(n)
  <2> DEFINE c == [docker[n] EXCEPT !.limit = l]
  <2>1. Update(n, l) = {Outcome(Set(n, c), TRUE)}
    BY <1>2, Zenon DEF Update
  <2> HIDE DEF c
  <2>2. docker' = docker \/ docker' = Set(n, c)
    BY <1>1, <2>1 DEF Outcome
  <2> QED
    BY <1>2, <2>2, ServerIs, SetOnly DEF Exists
<1>3. CASE ~Exists(n)
  BY <1>1, <1>3 DEF Update, Unchanged, Outcome, Only
<1> QED
  BY <1>2, <1>3

\* Every container is as it was, or gone.
Trimmed == \A n \in Name : docker'[n] = docker[n] \/ docker'[n] = Gone

LEMMA TrimmedIsCalmer == Trimmed => Calmer(docker, docker')
BY BackupIs, GoneIs, Types DEF Trimmed, Calmer, Runs

LEMMA PruneTrims == ASSUME NEW good, NEW bad, Call(Prune, good, bad) PROVE Trimmed
<1>1. docker' = docker \/ docker' = [n \in Name |-> IF Running(n) THEN docker[n] ELSE Gone]
  BY CallEffect DEF Prune, Outcome
<1> QED
  BY <1>1 DEF Trimmed

\* A handler that is not replacing a container.
LEMMA OtherFits ==
    ASSUME NEW a, NEW d, a.cmd.kind # "recreate_container",
           a.cmd.kind = "rollback_deployment" => a.step \notin {"clear", "run"}
    PROVE  Fits(a, d)
BY DEF Fits

\* Of the other steps, those of a rollback start a container.
PlainSteps ==
    \/ RestartCall \/ RestartLook
    \/ UpdateLimit \/ StopConflicting \/ Migrate \/ Rebuild \/ TruncateLog \/ PruneAll
    \/ HealthCheck
    \/ SetEnvWrite \/ SetEnvRestart \/ SetEnvLook

LEMMA PlainKind == PlainSteps => agent.cmd.kind # "rollback_deployment"
BY Zenon DEF PlainSteps, RestartCall, RestartLook, UpdateLimit, StopConflicting, Migrate, Rebuild,
   TruncateLog, PruneAll, HealthCheck, SetEnvWrite, SetEnvRestart, SetEnvLook, Doing

LEMMA PlainEffect == TypeInv /\ PlainSteps => Only(App) \/ Trimmed
<1> SUFFICES ASSUME TypeInv, PlainSteps PROVE Only(App) \/ Trimmed
  OBVIOUS
<1>0. docker' = docker => Trimmed
  BY DEF Trimmed
<1>1. CASE RestartCall
  <2>1. agent.cmd.kind = "restart_container" /\ agent.step = "restart"
    BY <1>1, Zenon DEF RestartCall, Doing
  <2>2. Target = App /\ App \in Name
    BY <2>1, TargetIs DEF Untargeted
  <2> QED
    BY <1>1, <2>2, RestartOnly DEF RestartCall, Require
<1>2. CASE RestartLook
  BY <1>0, <1>2, UnchangedSame DEF RestartLook, Finish
<1>3. CASE UpdateLimit
  <2>1. agent.cmd.kind = "set_memory_limit" /\ agent.step = "update"
    BY <1>3, Zenon DEF UpdateLimit, Doing
  <2>2. Target = App /\ App \in Name
    BY <2>1, TargetIs DEF Untargeted
  <2> QED
    BY <1>3, <2>2, UpdateOnly DEF UpdateLimit, Finish
<1>4. CASE StopConflicting
  <2>1. agent.cmd.kind = "stop_conflicting_container" /\ agent.step = "stop"
    BY <1>4, Zenon DEF StopConflicting, Doing
  <2>2. Target = App /\ App \in Name
    BY <2>1, TargetIs DEF Untargeted
  <2> QED
    BY <1>4, <2>2, RestartOnly DEF StopConflicting, Finish
<1>5. CASE Migrate
  BY <1>0, <1>5, UnchangedSame DEF Migrate, Finish
<1>6. CASE Rebuild
  BY <1>0, <1>6, UnchangedSame DEF Rebuild, Finish
<1>7. CASE TruncateLog
  BY <1>0, <1>7, UnchangedSame DEF TruncateLog, Finish, Inspect
<1>8. CASE PruneAll
  BY <1>8, PruneTrims DEF PruneAll
<1>9. CASE HealthCheck
  BY <1>0, <1>9, UnchangedSame DEF HealthCheck, Finish
<1>10. CASE SetEnvWrite
  BY <1>0, <1>10 DEF SetEnvWrite
<1>11. CASE SetEnvRestart
  <2>1. Target = App /\ App \in Name
    BY <1>11, TargetIsToo, Types DEF SetEnvRestart
  <2> QED
    BY <1>11, <2>1, RestartOnly DEF SetEnvRestart, Require
<1>12. CASE SetEnvLook
  BY <1>0, <1>12, UnchangedSame DEF SetEnvLook
<1> QED
  BY <1>1, <1>2, <1>3, <1>4, <1>5, <1>6, <1>7, <1>8, <1>9, <1>10, <1>11, <1>12 DEF PlainSteps

LEMMA PlainCalmer == TypeInv /\ PlainSteps => Calmer(docker, docker')
BY PlainEffect, OnlyApp, TrimmedIsCalmer

LEMMA RollbackIs ==
    ASSUME TypeInv, RollbackClear \/ RollbackRun
    PROVE  /\ agent.cmd.kind = "rollback_deployment" /\ agent.step \in {"clear", "run"}
           /\ Target = App /\ App \in Name
<1>1. agent.cmd.kind = "rollback_deployment" /\ agent.step \in {"clear", "run"}
  BY Zenon DEF RollbackClear, RollbackRun, Doing
<1> QED
  BY <1>1, ChainIs

\* What a rollback starts has the previous image and no memory limit.
LEMMA RolledBackIs ==
    ASSUME TypeInv, agent.cmd.kind = "rollback_deployment", agent.step = "run"
    PROVE  [agent.old EXCEPT !.image = Arg, !.limit = NoLimit] \in Container
<1>1. agent.old \in Container /\ Arg \in Image
  BY ChainIs, ContainerAssumption DEF Arg
<1> QED
  BY <1>1 DEF Container

LEMMA InspectCall ==
    ASSUME NEW n, NEW good, NEW bad, Call(Inspect(n), good, bad), docker[n] = Gone
    PROVE  agent' = bad
<1>1. Exists(n) = FALSE
  BY DEF Exists
<1>2. Inspect(n) = Unchanged(FALSE)
  BY <1>1, Zenon DEF Inspect
<1>3. \A o \in Inspect(n) : ~o.ok
  BY <1>2 DEF Unchanged, Outcome
<1> QED
  BY <1>3, CallGood

LEMMA RollbackCalms ==
    ASSUME TypeInv, Ordered(docker), Fits(agent, docker),
           RollbackInspect \/ RollbackClear \/ RollbackRun
    PROVE  Ordered(docker') /\ Fits(agent', docker')
<1>b. /\ \A b \in Backup : b \in Name /\ b # App
      /\ docker \in Server /\ agent \in Handler
  BY BackupIs, ServerIs DEF TypeInv, HandlerInv
<1>q. ASSUME Silent(docker'), agent'.cmd.kind = "rollback_deployment"
      PROVE  Ordered(docker') /\ Fits(agent', docker')
  BY <1>q, SilentIsOrdered DEF Fits
<1>k. agent.cmd.kind = "rollback_deployment" /\ agent'.cmd.kind = "rollback_deployment"
  <2>1. agent.cmd.kind = "rollback_deployment"
    BY Zenon DEF RollbackInspect, RollbackClear, RollbackRun, Doing
  <2>2. agent'.cmd.kind = agent.cmd.kind
    BY OtherKind DEF OtherSteps
  <2> QED
    BY <2>1, <2>2
<1>1. CASE RollbackInspect
  <2> DEFINE y == [At("clear") EXCEPT !.old = docker[Target]]
  <2>1. Call(Inspect(Target), y, At("failed"))
    BY <1>1 DEF RollbackInspect
  <2> HIDE DEF y
  <2>2. agent.step = "inspect"
    BY <1>1, Zenon DEF RollbackInspect, Doing
  <2>3. Target = App
    BY <1>k, <2>2, TargetIs DEF Untargeted
  <2>4. docker' = docker
    BY <2>1, UnchangedSame DEF Inspect
  <2>5. docker[App] = Gone => agent' = At("failed")
    BY <2>1, <2>3, InspectCall
  <2>6. CASE docker[App] = Gone
    <3>1. agent'.step = "failed"
      BY <1>b, <2>5, <2>6, AtIs DEF Steps
    <3> QED
      BY <1>k, <2>4, <3>1, OtherFits
  <2>7. CASE docker[App] # Gone
    BY <1>k, <1>q, <2>4, <2>7 DEF Ordered
  <2> QED
    BY <2>6, <2>7
<1>2. CASE RollbackClear
  <2>1. Call(Remove(App), At("run"), At("run")) /\ Silent(docker)
    BY <1>2, RollbackIs DEF RollbackClear, Ignore, Fits
  <2>2. docker' = docker \/ docker' = Set(App, Gone)
    BY <2>1, CallEffect, RemoveIs
  <2>3. \A b \in Backup : docker'[b] = docker[b]
    BY <1>b, <2>2 DEF Set, Server
  <2> QED
    BY <1>k, <1>q, <2>1, <2>3, StaysSilent
<1>3. CASE RollbackRun
  <2> DEFINE new == [agent.old EXCEPT !.image = Arg, !.limit = NoLimit]
  <2>1. Call(Run(App, new), At("succeeded"), At("failed")) /\ Silent(docker) /\ App \in Name
    BY <1>3, RollbackIs DEF RollbackRun, Finish, Fits
  <2>2. new \in Container
    BY <1>3, RolledBackIs DEF RollbackRun, Doing
  <2> HIDE DEF new
  <2>3. \A b \in Backup : docker'[b] = docker[b]
    BY <1>b, <2>1, <2>2, RunCall
  <2> QED
    BY <1>k, <1>q, <2>1, <2>3, StaysSilent
<1> QED
  BY <1>1, <1>2, <1>3

LEMMA ReceiveFits == ASSUME NEW c \in Offered, Receive(c), NEW d PROVE Fits(agent', d)
<1> DEFINE first == IF DryRun /\ c.kind \in DOMAIN FirstStep THEN "succeeded"
                    ELSE IF Refused(c) THEN "failed" ELSE FirstStep[c.kind]
<1>1. agent' = [Idle EXCEPT !.cmd = c, !.step = first]
  BY DEF Receive
<1>2. c.kind \in {"recreate_container", "rollback_deployment"} =>
         first \in {"succeeded", "failed", "inspect"}
  BY FirstSteps DEF Refused
<1> HIDE DEF first
<1>3. agent'.cmd = c /\ agent'.step = first
  BY <1>1 DEF Idle
<1> QED
  BY <1>2, <1>3 DEF Fits, Chain

LEMMA CalmStep == TypeInv /\ KeepInv /\ CalmInv /\ [Next]_vars => CalmInv'
<1> SUFFICES ASSUME TypeInv, KeepInv, CalmInv, [Next]_vars, faults' = 0, deploys' = 0
             PROVE  Ordered(docker') /\ Fits(agent', docker')
  BY CalmIsNext
<1>0. /\ docker \in Server /\ faults \in Nat /\ deploys \in Nat /\ App \in Name
      /\ deploy => deploys > 0
  BY ServerIs, Types DEF TypeInv, TypeOK, HandlerInv
\* Faults and deploys are never taken back.
<1>f. ASSUME faults' = faults \/ faults' = faults + 1, deploys' = deploys
      PROVE  Ordered(docker) /\ Fits(agent, docker)
  <2>1. faults = 0 /\ deploys = 0
    BY <1>0, <1>f
  <2> QED
    BY <2>1, CalmIs
<1>1. CASE UNCHANGED vars
  BY <1>1, <1>f DEF vars, bounds
<1>2. ASSUME NEW c \in Offered, Receive(c) PROVE Ordered(docker') /\ Fits(agent', docker')
  BY <1>2, <1>f, ReceiveFits DEF Receive, bounds
<1>3. CASE Report \/ Crash
  <2>1. agent' = Idle /\ UNCHANGED <<docker, faults, deploys>>
    BY <1>3 DEF Report, Crash, bounds
  <2> QED
    BY <1>f, <2>1, IdleIs, OtherFits
<1>4. CASE PlainSteps
  <2>1. faults' = faults \/ faults' = faults + 1
    BY <1>4, CallEffect DEF PlainSteps, RestartCall, RestartLook, UpdateLimit, StopConflicting,
       Migrate, Rebuild, TruncateLog, PruneAll, HealthCheck, SetEnvWrite, SetEnvRestart,
       SetEnvLook, Require, Finish, bounds
  <2>2. agent'.cmd.kind \notin {"recreate_container", "rollback_deployment"}
        /\ UNCHANGED deploys
    BY <1>4, OtherKind, PlainKind DEF PlainSteps, OtherSteps
  <2> QED
    BY <1>4, <1>f, <2>1, <2>2, PlainCalmer, CalmerIs, OtherFits
<1>5. CASE RollbackInspect \/ RollbackClear \/ RollbackRun
  <2>1. /\ faults' = faults \/ faults' = faults + 1
        /\ deploys' = deploys
    BY <1>5, CallEffect DEF RollbackInspect, RollbackClear, RollbackRun, Ignore, Finish
  <2> QED
    BY <1>5, <1>f, <2>1, RollbackCalms
<1>6. CASE RecreateInspect
  <2>1. /\ agent.cmd.kind = "recreate_container" /\ agent.step = "inspect"
        /\ faults' = faults \/ faults' = faults + 1
        /\ deploys' = deploys
    BY <1>6, CallEffect DEF RecreateInspect, Doing
  <2>2. agent.old = Gone
    BY <2>1, KeepIs DEF Keeps, Chain, Recreating
  <2>3. /\ docker' = docker /\ agent'.cmd = agent.cmd
        /\ \/ agent' = At("failed")
           \/ agent'.step = "rename" /\ docker[App] # Gone /\ docker[agent'.bak] = Gone
    BY <1>6, <2>2, InspectKeeps
  <2>4. At("failed").step = "failed"
    BY AtIs DEF TypeInv, HandlerInv, Steps
  <2>5. Ordered(docker)
    BY <1>f, <2>1
  <2> QED
    BY <2>1, <2>3, <2>4, <2>5 DEF Ordered, Fits, Chain
<1>7. CASE RecreateSteps
  <2>1. agent.cmd.kind = "recreate_container" /\ agent.step \in Chain /\ UNCHANGED deploys
    BY <1>7, RecreateIs
  <2>2. faults' = faults \/ faults' = faults + 1
    BY <1>7, CallEffect DEF RecreateSteps, RecreateRename, RecreateStop, RecreateRun,
       RecreateLook, RecreateClear, RecreateBack, RecreateAgain, RecreateDrop, Ignore
  <2> QED
    BY <1>7, <1>f, <2>1, <2>2, RecreateCalms DEF RecreateSteps
<1>8. ASSUME NEW n \in Name, Dies(n) PROVE Ordered(docker') /\ Fits(agent', docker')
  <2>1. UNCHANGED <<agent, faults, deploys>>
    BY <1>8 DEF Dies, bounds
  <2>2. Ordered(docker) /\ Fits(agent, docker)
    BY <1>f, <2>1
  <2>3. /\ docker'[n] # Gone /\ docker[n] # Gone
        /\ \A m \in Name \ {n} : docker'[m] = docker[m]
        /\ ~Runs(docker', n)
    <3>1. docker[n] \in Container /\ docker[n] # Gone
      BY <1>0, <1>8, Types DEF Dies, Running, Server, Gone
    <3> DEFINE c == [docker[n] EXCEPT !.state = "exited"]
    <3>2. docker' = Set(n, c) /\ c \in Container /\ c.state = "exited"
      BY <1>8, <3>1, StateIs DEF Dies
    <3> HIDE DEF c
    <3> QED
      BY <1>0, <3>1, <3>2, Types DEF Set, Server, Runs
  <2>4. \A b \in Backup : b \in Name
    BY BackupIs
  <2>5. /\ \A m \in Name : docker'[m] # Gone <=> docker[m] # Gone
        /\ \A b \in Backup : Runs(docker', b) => Runs(docker, b)
    BY <2>3, <2>4 DEF Runs
  <2>6. agent.cmd.kind = "recreate_container" /\ agent.step \in Chain => agent.bak \in Name
    BY RecreateContext
  <2>7. "rename" \in Chain
    BY DEF Chain
  <2> QED
    BY <1>0, <2>1, <2>2, <2>5, <2>6, <2>7 DEF Ordered, Fits, Silent
<1>9. CASE DeployRemoves
  <2>1. deploys' = deploys + 1
    BY <1>9, Zenon DEF DeployRemoves
  <2> QED
    BY <1>0, <2>1
<1>10. ASSUME NEW c \in Shipped, DeployRuns(c) PROVE Ordered(docker') /\ Fits(agent', docker')
  <2>1. deploy /\ deploys' = deploys
    BY <1>10, Zenon DEF DeployRuns, bounds
  <2>2. deploys > 0
    BY <1>0, <2>1, Zenon
  <2> QED
    BY <1>0, <2>1, <2>2
<1> QED
  BY <1>1, <1>2, <1>3, <1>4, <1>5, <1>6, <1>7, <1>8, <1>9, <1>10
  DEF Next, AgentStep, PlainSteps, RecreateSteps, Environment

LEMMA CalmStart == Init => CalmInv
<1> SUFFICES ASSUME Init PROVE CalmInv
  OBVIOUS
<1>1. agent.step = "idle" /\ agent.cmd.kind = "none"
  BY IdleIs DEF Init
<1>2. \A b \in Backup : docker[b] = Gone
  BY BackupIs DEF Init
<1>3. Silent(docker)
  BY <1>2, GoneIs DEF Silent, Runs
<1> QED
  BY <1>1, <1>3, SilentIsOrdered, OtherFits, CalmIs

\* While docker's calls work and no deploy cuts in, no two containers of the
\* project run on its volumes at once, wherever the agent is killed and however
\* many backups earlier kills have left.
THEOREM OneContainerRuns == Spec => []OneCopyRuns
<1>1. Spec => [](TypeInv /\ KeepInv)
  <2>1. Init => KeepInv
    BY IdleIs, KeepIs DEF Init, Recreating
  <2> QED
    BY <2>1, TypesHold, KeepStep, PTL DEF Spec
<1>2. Spec => []CalmInv
  BY <1>1, CalmStart, CalmStep, PTL DEF Spec
<1>3. TypeInv /\ CalmInv => OneCopyRuns
  <2> SUFFICES ASSUME TypeInv, CalmInv, faults = 0, deploys = 0
               PROVE  Cardinality({n \in Own : Running(n)}) <= 1
    BY DEF OneCopyRuns
  <2> DEFINE R == {n \in Own : Running(n)}
  <2>1. Ordered(docker)
    BY CalmIs
  <2>2. \E m : R \subseteq {m}
    <3>1. CASE docker[App] # Gone
      BY <2>1, <3>1 DEF Ordered, Silent, Runs, Running, Own
    <3>2. CASE docker[App] = Gone
      BY <2>1, <3>2, GoneIs DEF Ordered, Silent, Runs, Running, Own
    <3> QED
      BY <3>1, <3>2
  <2>3. R = {} \/ \E m : R = {m}
    BY <2>2
  <2> HIDE DEF R
  <2>4. Cardinality(R) \in {0, 1}
    BY <2>3, FS_EmptySet, FS_Singleton
  <2> QED
    BY <2>4 DEF R
<1> QED
  BY <1>1, <1>2, <1>3, PTL

(***************************************************************************)
(* A failed recreate is undone                                             *)
(***************************************************************************)
KeepsPlatform == docker'[Platform] = docker[Platform] \/ docker'[Platform] = Gone

LEMMA KeepsPlatformIs == PlatformInv /\ (KeepsPlatform \/ SameSpecs) => PlatformInv'
<1>1. PlatformInv /\ KeepsPlatform => PlatformInv'
  BY DEF PlatformInv, KeepsPlatform, Exists
<1>2. PlatformInv /\ SameSpecs => PlatformInv'
  BY Types DEF PlatformInv, SameSpecs, Exists, Recorded
<1> QED
  BY <1>1, <1>2

LEMMA DiesSame == ASSUME TypeInv, NEW n \in Name, Dies(n) PROVE SameSpecs
<1>1. docker \in Server /\ docker[n] \in Container /\ Exists(n)
  BY ServerIs, Types DEF Dies, Running, Server, Exists, Gone
<1> QED
  BY <1>1, StateIs, SetSame DEF Dies

LEMMA RecreatePlatform == TypeInv /\ RecreateSteps => KeepsPlatform
<1> SUFFICES ASSUME TypeInv, RecreateSteps PROVE KeepsPlatform
  OBVIOUS
<1>0. /\ Target = App /\ App \in Name /\ Platform \in Name \ {App, agent.bak}
      /\ agent.bak \in Name \ {App} /\ Recreated \in Container /\ docker \in Server
  BY RecreateIs, RecreateContext, Types
<1>1. CASE RecreateRename
  <2>1. Call(Rename(App, agent.bak), At("stop"), At("stop"))
    BY <1>0, <1>1 DEF RecreateRename, Ignore
  <2> QED
    BY <1>0, <2>1, RenameCall DEF KeepsPlatform
<1>2. CASE RecreateStop
  BY <1>0, <1>2, RestartOnly DEF RecreateStop, Ignore, Only, KeepsPlatform
<1>3. CASE RecreateRun
  <2>1. Call(Run(App, Recreated), At("look"), At("back"))
    BY <1>0, <1>3 DEF RecreateRun
  <2> QED
    BY <1>0, <2>1, RunCall DEF KeepsPlatform
<1>4. CASE RecreateLook
  BY <1>4, UnchangedSame DEF RecreateLook, KeepsPlatform
<1>5. CASE RecreateClear
  <2>1. docker' = docker \/ docker' = Set(App, Gone)
    BY <1>0, <1>5, CallEffect, RemoveIs DEF RecreateClear, Ignore
  <2> QED
    BY <1>0, <2>1 DEF Set, Server, KeepsPlatform
<1>6. CASE RecreateBack
  <2>1. Call(Rename(agent.bak, App), At("again"), At("again"))
    BY <1>0, <1>6 DEF RecreateBack, Ignore
  <2> QED
    BY <1>0, <2>1, RenameCall DEF KeepsPlatform
<1>7. CASE RecreateAgain
  BY <1>0, <1>7, RestartOnly DEF RecreateAgain, Only, KeepsPlatform
<1>8. CASE RecreateDrop
  <2>1. docker' = docker \/ docker' = Set(agent.bak, Gone)
    BY <1>8, CallEffect, RemoveIs DEF RecreateDrop
  <2> QED
    BY <1>0, <2>1 DEF Set, Server, KeepsPlatform
<1> QED
  BY <1>1, <1>2, <1>3, <1>4, <1>5, <1>6, <1>7, <1>8 DEF RecreateSteps

LEMMA RollbackPlatform ==
    TypeInv /\ (RollbackInspect \/ RollbackClear \/ RollbackRun) => KeepsPlatform
<1> SUFFICES ASSUME TypeInv, RollbackInspect \/ RollbackClear \/ RollbackRun
             PROVE  KeepsPlatform
  OBVIOUS
<1>0. Platform \in Name \ {App} /\ docker \in Server
  BY Types, ServerIs
<1>1. CASE RollbackInspect
  BY <1>1, UnchangedSame DEF RollbackInspect, Inspect, KeepsPlatform
<1>2. CASE RollbackClear
  <2>1. docker' = docker \/ docker' = Set(App, Gone)
    BY <1>2, RollbackIs, CallEffect, RemoveIs DEF RollbackClear, Ignore
  <2> QED
    BY <1>0, <2>1 DEF Set, Server, KeepsPlatform
<1>3. CASE RollbackRun
  <2> DEFINE new == [agent.old EXCEPT !.image = Arg, !.limit = NoLimit]
  <2>1. Call(Run(App, new), At("succeeded"), At("failed")) /\ App \in Name
    BY <1>3, RollbackIs DEF RollbackRun, Finish
  <2>2. new \in Container
    <3>1. agent.cmd.kind = "rollback_deployment" /\ agent.step = "run"
      BY <1>3, Zenon DEF RollbackRun, Doing
    <3> QED
      BY <3>1, RolledBackIs
  <2> HIDE DEF new
  <2> QED
    BY <1>0, <2>1, <2>2, RunCall DEF KeepsPlatform
<1> QED
  BY <1>1, <1>2, <1>3

LEMMA DeployPlatform ==
    TypeInv /\ (DeployRemoves \/ \E c \in Shipped : DeployRuns(c)) => KeepsPlatform
<1> SUFFICES ASSUME TypeInv, DeployRemoves \/ \E c \in Shipped : DeployRuns(c)
             PROVE  KeepsPlatform
  OBVIOUS
<1>0. Platform \in Name \ {App} /\ App \in Name /\ docker \in Server
  BY Types, ServerIs
<1>1. CASE DeployRemoves
  <2>1. docker' = Set(App, Gone)
    BY <1>1 DEF DeployRemoves
  <2> QED
    BY <1>0, <2>1 DEF Set, Server, KeepsPlatform
<1>2. ASSUME NEW c \in Shipped, DeployRuns(c) PROVE KeepsPlatform
  <2> DEFINE new == [c EXCEPT !.env = envFile]
  <2>1. new \in Container
    BY ShippedIs DEF TypeInv, TypeOK
  <2>2. PICK o \in Run(App, new) : docker' = o.docker
    BY <1>2 DEF DeployRuns
  <2> HIDE DEF new
  <2>3. docker' = docker \/ \E d \in Container : docker' = Set(App, d)
    BY <1>0, <2>1, <2>2, RunIs
  <2> QED
    BY <1>0, <2>3 DEF Set, Server, KeepsPlatform
<1> QED
  BY <1>1, <1>2

LEMMA PlatformStep == TypeInv /\ PlatformInv /\ [Next]_vars => PlatformInv'
<1> SUFFICES ASSUME TypeInv, [Next]_vars PROVE KeepsPlatform \/ SameSpecs
  BY KeepsPlatformIs
<1>1. CASE UNCHANGED vars
  BY <1>1 DEF vars, KeepsPlatform
<1>2. ASSUME NEW c \in Offered, Receive(c) PROVE KeepsPlatform
  BY <1>2 DEF Receive, KeepsPlatform
<1>3. CASE Report \/ Crash
  BY <1>3 DEF Report, Crash, KeepsPlatform
<1>4. CASE PlainSteps
  BY <1>4, PlainEffect, Types DEF Only, Trimmed, KeepsPlatform
<1>5. CASE RecreateInspect
  BY <1>5, UnchangedSame DEF RecreateInspect, Inspect, KeepsPlatform
<1> QED
  BY <1>1, <1>2, <1>3, <1>4, <1>5, RollbackPlatform, RecreatePlatform, DeployPlatform, DiesSame
  DEF Next, AgentStep, PlainSteps, RecreateSteps, Environment

\* UndoneInv for another handler and other containers.
Undone(a, d) ==
    LET holds(n) == d[n] # Gone /\ Recorded(d[n]) = Recorded(a.old)
    IN  /\ a.step \in {"stop", "run", "look", "clear"} => holds(a.bak)
        /\ a.cmd.arg \notin Foreign =>
              /\ a.step = "back" => holds(a.bak) /\ d[App] = Gone
              /\ a.step \in {"again", "failed"} => holds(App) /\ d[a.bak] = Gone

LEMMA UndoneIs ==
    UndoneInv <=> (Recreating /\ faults = 0 /\ deploys = 0 => Undone(agent, docker))
BY DEF UndoneInv, Undone, Holds, Exists, Failed, Arg

LEMMA UndoneIsNext ==
    UndoneInv' <=> (Recreating' /\ faults' = 0 /\ deploys' = 0 => Undone(agent', docker'))
BY DEF UndoneInv, Undone, Holds, Exists, Failed, Arg

\* With no backup running, docker run fails on a port of another process only.
LEMMA RunStarts ==
    ASSUME TypeInv, PlatformInv, NEW c \in Container, NEW good, NEW bad,
           Call(Run(App, c), good, bad), docker[App] = Gone, Silent(docker),
           c.port \notin Foreign, faults' = 0
    PROVE  agent' = good
<1> DEFINE new == [c EXCEPT !.state = "created"]
<1>1. PortFree(App, c.port)
  <2> SUFFICES ASSUME c.port # NoPort, NEW m \in Name \ {App}, Running(m)
               PROVE  docker[m].port # c.port
    BY DEF PortFree
  <2>1. m = Platform
    BY DEF Name, Silent, Runs, Running
  <2>2. Exists(Platform)
    BY <2>1, GoneIs DEF Running, Exists
  <2> QED
    BY <2>1, <2>2 DEF PlatformInv
<1>2. new.port = c.port
  BY DEF Container
<1>3. ~Exists(App)
  BY DEF Exists
<1>4. Run(App, c) = Started(App, new)
  BY <1>3, Zenon DEF Run
<1> HIDE DEF new
<1>5. \A o \in Run(App, c) : o.ok
  BY <1>1, <1>2, <1>4 DEF Started, Outcome
<1>6. faults \in Nat
  BY DEF TypeInv, TypeOK
<1>7. PICK o \in Run(App, c) : docker' = o.docker /\ agent' = IF o.ok THEN good ELSE bad
  BY <1>6, CallWorks
<1> QED
  BY <1>5, <1>7

LEMMA RecreateUndoes ==
    ASSUME TypeInv, PlatformInv, agent.cmd.kind = "recreate_container", agent.step \in Chain,
           Keeps(agent, docker), Fits(agent, docker), Undone(agent, docker), faults' = 0,
           RecreateSteps
    PROVE  Undone(agent', docker')
<1>0. /\ Target = App /\ App \in Name /\ agent.bak \in Name /\ agent.bak # App
      /\ agent.old \in Container /\ Recreated \in Container /\ docker \in Server
      /\ faults \in Nat /\ Gone \notin Container
  BY RecreateContext, Types DEF TypeInv, TypeOK
<1>s. \A s \in Steps : agent' = At(s) => Goes(s)
  BY RecreateContext DEF Goes
<1>1. CASE RecreateRename
  <2>1. Call(Rename(App, agent.bak), At("stop"), At("stop")) /\ agent.step = "rename"
    BY <1>0, <1>1 DEF RecreateRename, Ignore, Doing
  <2>2. Goes("stop")
    BY <1>s, <2>1, CallEffect DEF Steps, Chain
  <2>3. /\ docker[App] # Gone /\ Recorded(docker[App]) = Recorded(agent.old)
        /\ docker[agent.bak] = Gone
    BY <2>1 DEF Keeps, Fits
  <2>4. PICK o \in Rename(App, agent.bak) : docker' = o.docker
    BY <1>0, <2>1, CallWorks
  <2>5. docker' = [docker EXCEPT ![agent.bak] = docker[App], ![App] = Gone]
    BY <1>0, <2>3, <2>4, RenameIs DEF Exists
  <2>6. docker'[agent.bak] = docker[App]
    BY <1>0, <2>5 DEF Server
  <2> QED
    BY <2>2, <2>3, <2>6 DEF Undone, Goes
<1>2. CASE RecreateStop
  <2>1. Call(Stop(agent.bak), At("run"), At("run")) /\ agent.step = "stop"
    BY <1>2 DEF RecreateStop, Ignore, Doing
  <2>2. Goes("run")
    BY <1>s, <2>1, CallEffect DEF Steps, Chain
  <2>3. SameSpecs
    BY <1>0, <2>1, RestartSame
  <2> QED
    BY <1>0, <2>1, <2>2, <2>3 DEF Undone, Goes, SameSpecs, Exists
<1>3. CASE RecreateRun
  <2>1. Call(Run(App, Recreated), At("look"), At("back")) /\ agent.step = "run"
    BY <1>0, <1>3 DEF RecreateRun, Doing
  <2>2. docker'[agent.bak] = docker[agent.bak]
    BY <1>0, <2>1, RunCall
  <2>3. Recreated.port = agent.cmd.arg
    BY <1>0 DEF Recreated, Arg, Container
  <2>4. docker[App] = Gone /\ Silent(docker)
    BY <2>1 DEF Fits, Chain
  <2>5. agent.cmd.arg \notin Foreign => agent' = At("look")
    BY <1>0, <2>1, <2>3, <2>4, RunStarts
  <2>6. Goes("look") \/ (Goes("back") /\ agent.cmd.arg \in Foreign)
    BY <1>s, <2>1, <2>5, CallEffect DEF Steps, Chain
  <2> QED
    BY <2>1, <2>2, <2>6 DEF Undone, Goes
<1>4. CASE RecreateLook
  <2>1. Call(Unchanged(Running(App)), At("drop"), At("clear")) /\ agent.step = "look"
    BY <1>0, <1>4 DEF RecreateLook, Doing
  <2>2. docker' = docker /\ (Goes("drop") \/ Goes("clear"))
    BY <1>s, <2>1, UnchangedSame, CallEffect DEF Steps, Chain
  <2> QED
    BY <2>1, <2>2 DEF Undone, Goes
<1>5. CASE RecreateClear
  <2>1. Call(Remove(App), At("back"), At("back")) /\ agent.step = "clear"
    BY <1>0, <1>5 DEF RecreateClear, Ignore, Doing
  <2>2. Goes("back")
    BY <1>s, <2>1, CallEffect DEF Steps, Chain
  <2>3. docker' = Set(App, Gone)
    BY <1>0, <2>1, CallWorks, RemoveIs
  <2>4. docker'[App] = Gone /\ docker'[agent.bak] = docker[agent.bak]
    BY <1>0, <2>3 DEF Set, Server
  <2> QED
    BY <2>1, <2>2, <2>4 DEF Undone, Goes
<1>6. CASE RecreateBack
  <2>1. Call(Rename(agent.bak, App), At("again"), At("again")) /\ agent.step = "back"
    BY <1>0, <1>6 DEF RecreateBack, Ignore, Doing
  <2>2. Goes("again")
    BY <1>s, <2>1, CallEffect DEF Steps, Chain
  <2>3. CASE agent.cmd.arg \notin Foreign
    <3>1. /\ docker[agent.bak] # Gone /\ docker[App] = Gone
          /\ Recorded(docker[agent.bak]) = Recorded(agent.old)
      BY <2>1, <2>3 DEF Undone
    <3>2. PICK o \in Rename(agent.bak, App) : docker' = o.docker
      BY <1>0, <2>1, CallWorks
    <3>3. docker' = [docker EXCEPT ![App] = docker[agent.bak], ![agent.bak] = Gone]
      BY <1>0, <3>1, <3>2, RenameIs DEF Exists
    <3>4. docker'[App] = docker[agent.bak] /\ docker'[agent.bak] = Gone
      BY <1>0, <3>3 DEF Server
    <3> QED
      BY <2>2, <3>1, <3>4 DEF Undone, Goes
  <2>4. CASE agent.cmd.arg \in Foreign
    BY <2>2, <2>4 DEF Undone, Goes
  <2> QED
    BY <2>3, <2>4
<1>7. CASE RecreateAgain
  <2>1. Call(Start(App), At("failed"), At("failed")) /\ agent.step = "again"
    BY <1>0, <1>7 DEF RecreateAgain, Doing
  <2>2. Goes("failed")
    BY <1>s, <2>1, CallEffect DEF Steps
  <2>3. SameSpecs
    BY <1>0, <2>1, RestartSame
  <2> QED
    BY <1>0, <2>1, <2>2, <2>3 DEF Undone, Goes, SameSpecs, Exists
<1>8. CASE RecreateDrop
  <2>1. Goes("succeeded")
    BY <1>s, <1>8, CallEffect DEF RecreateDrop, Steps
  <2> QED
    BY <2>1 DEF Undone, Goes
<1> QED
  BY <1>1, <1>2, <1>3, <1>4, <1>5, <1>6, <1>7, <1>8 DEF RecreateSteps

LEMMA UndoneStep ==
    TypeInv /\ PlatformInv /\ KeepInv /\ CalmInv /\ UndoneInv /\ [Next]_vars => UndoneInv'
<1> SUFFICES ASSUME TypeInv, PlatformInv, KeepInv, CalmInv, UndoneInv, [Next]_vars,
                    Recreating', faults' = 0, deploys' = 0
             PROVE  Undone(agent', docker')
  BY UndoneIsNext
<1>0. /\ docker \in Server /\ faults \in Nat /\ deploys \in Nat /\ App \in Name
      /\ agent \in Handler
      /\ deploy => deploys > 0
  BY ServerIs, Types DEF TypeInv, TypeOK, HandlerInv
<1>r. agent'.cmd.kind = "recreate_container" /\ agent'.old # Gone
  BY DEF Recreating
<1>1. CASE UNCHANGED vars
  BY <1>1, UndoneIs DEF vars, bounds, Recreating
<1>2. ASSUME NEW c \in Offered, Receive(c) PROVE FALSE
  BY <1>2, <1>r DEF Receive, Idle
<1>3. CASE Report \/ Crash
  BY <1>3, <1>r, IdleIs DEF Report, Crash
<1>4. CASE OtherSteps
  BY <1>4, <1>r, OtherKind
<1>5. CASE RecreateInspect
  <2>1. /\ agent.cmd.kind = "recreate_container" /\ agent.step = "inspect"
        /\ UNCHANGED deploys
    BY <1>5, CallEffect DEF RecreateInspect, Doing
  <2>2. agent.old = Gone
    BY <2>1, KeepIs DEF Keeps, Chain, Recreating
  <2>3. agent'.step = "rename"
    BY <1>5, <1>r, <2>2, InspectKeeps
  <2> QED
    BY <2>3 DEF Undone
<1>6. CASE RecreateSteps
  <2>1. /\ agent.cmd.kind = "recreate_container" /\ agent.step \in Chain /\ deploys = 0
        /\ agent.old # Gone
    BY <1>6, RecreateIs, RecreateContext
  <2>2. faults = 0
    BY <1>0, <1>6, CallEffect DEF RecreateSteps, RecreateRename, RecreateStop, RecreateRun,
       RecreateLook, RecreateClear, RecreateBack, RecreateAgain, RecreateDrop, Ignore
  <2>3. Keeps(agent, docker) /\ Fits(agent, docker) /\ Undone(agent, docker)
    BY <2>1, <2>2, KeepIs, CalmIs, UndoneIs DEF Recreating
  <2> QED
    BY <1>6, <2>1, <2>3, RecreateUndoes
<1>7. ASSUME NEW n \in Name, Dies(n) PROVE Undone(agent', docker')
  <2>1. UNCHANGED <<agent, faults, deploys>>
    BY <1>7 DEF Dies, bounds
  <2>2. SameSpecs
    BY <1>7, DiesSame
  <2>3. agent.bak \in Name
    BY <1>0 DEF Handler, Name, Own
  <2>4. Undone(agent, docker)
    BY <1>r, <2>1, UndoneIs DEF Recreating
  <2> QED
    BY <1>0, <2>1, <2>2, <2>3, <2>4 DEF Undone, SameSpecs, Exists
<1>8. CASE DeployRemoves
  <2>1. deploys' = deploys + 1
    BY <1>8, Zenon DEF DeployRemoves
  <2> QED
    BY <1>0, <2>1
<1>9. ASSUME NEW c \in Shipped, DeployRuns(c) PROVE FALSE
  <2>1. deploy /\ deploys' = deploys
    BY <1>9, Zenon DEF DeployRuns, bounds
  <2>2. deploys > 0
    BY <1>0, <2>1, Zenon
  <2> QED
    BY <1>0, <2>1, <2>2
<1> QED
  BY <1>1, <1>2, <1>3, <1>4, <1>5, <1>6, <1>7, <1>8, <1>9
  DEF Next, AgentStep, OtherSteps, RecreateSteps, Environment

LEMMA UndoneStart == Init => PlatformInv /\ UndoneInv
<1> SUFFICES ASSUME Init PROVE PlatformInv /\ UndoneInv
  OBVIOUS
<1>1. ~Recreating
  BY IdleIs DEF Init, Recreating
<1>2. PICK c \in Shipped : docker[Platform] = [c EXCEPT !.state = "running", !.port = NoPort]
  BY Types DEF Init
<1>3. docker[Platform].port = NoPort
  BY <1>2, ContainerAssumption
<1> QED
  BY <1>1, <1>3, UndoneIs DEF PlatformInv

\* When docker does all it is told and no other process holds the port that was
\* asked for, a recreate that fails has put the old container back under its
\* name, with its spec, and left no backup, whatever earlier kills left behind.
THEOREM FailureIsUndone == Spec => []FailedRecreateIsUndone
<1>1. Spec => [](TypeInv /\ KeepInv)
  <2>1. Init => KeepInv
    BY IdleIs, KeepIs DEF Init, Recreating
  <2> QED
    BY <2>1, TypesHold, KeepStep, PTL DEF Spec
<1>2. Spec => []CalmInv
  BY <1>1, CalmStart, CalmStep, PTL DEF Spec
<1>3. Spec => [](PlatformInv /\ UndoneInv)
  BY <1>1, <1>2, UndoneStart, PlatformStep, UndoneStep, PTL DEF Spec
<1>4. UndoneInv => FailedRecreateIsUndone
  BY DEF UndoneInv, FailedRecreateIsUndone, Holds
<1> QED
  BY <1>3, <1>4, PTL

=============================================================================
