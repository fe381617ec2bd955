------------------------------ MODULE NginxSites ------------------------------
(***************************************************************************)
(* Nginx configurations from request to reload: the control plane's rows   *)
(* (infra/nginx.py, routers/infra.py), the commands that carry them, and   *)
(* the agent's apply_nginx_config (executor.py:307-377) on the one server  *)
(* whose Nginx all projects share.                                         *)
(*                                                                         *)
(* A configuration is a model value and stands for its rendered text.      *)
(***************************************************************************)
EXTENDS Integers, Sequences

CONSTANTS
    Project, Domain,
    Config,         \* bound: each is created at most once
    Owner, Host,    \* the project and the domain of a configuration
    Unlinted,       \* configurations the static lint rejects
    Bad,            \* configurations `nginx -t` rejects
    None,
    MaxDispatches,  \* bound: apply commands enqueued
    MaxEdits,       \* bound: edits of the server's other files by hand
    MaxMishaps      \* bound: kills of the agent, lost messages, failed calls

ASSUME SitesAssumption ==
    /\ Owner \in [Config -> Project] /\ Host \in [Config -> Domain]
    /\ Unlinted \subseteq Config /\ Bad \subseteq Config /\ None \notin Config
    /\ MaxDispatches \in Nat /\ MaxEdits \in Nat /\ MaxMishaps \in Nat

VARIABLES
    request,    \* how far create_config has come for each configuration
    status,     \* NginxConfig.status
    queue,      \* the apply commands that wait for the agent
    agent,      \* the apply in progress
    file,       \* the project's file in sites-available
    enabled,    \* whether sites-enabled links to it
    serving,    \* what the running Nginx has loaded for the project
    broken,     \* whether some other file of the server is invalid
    lost,       \* the ways in which a command has got lost so far
    dispatches, edits, mishaps

plane == <<request, status>>
disk == <<file, enabled>>
bounds == <<dispatches, edits, mishaps>>
vars == <<plane, queue, agent, disk, serving, broken, lost, bounds>>

Status == {"none", "validated", "failed", "applied", "superseded"}

Idle == [step |-> "idle", cfg |-> None, found |-> None, ok |-> FALSE]
At(s) == [agent EXCEPT !.step = s]
Done(ok) == [agent EXCEPT !.step = "done", !.ok = ok]

Mishap == mishaps < MaxMishaps /\ mishaps' = mishaps + 1
Loss(how) == Mishap /\ lost' = lost \cup {how}
Smooth == UNCHANGED <<mishaps, lost>>
Fails == Mishap /\ lost' = lost

Init ==
    /\ request = [c \in Config |-> "new"]
    /\ status = [c \in Config |-> "none"]
    /\ queue = <<>>
    /\ agent = Idle
    /\ file = [p \in Project |-> None]
    /\ enabled = [p \in Project |-> FALSE]
    /\ serving = [p \in Project |-> None]
    /\ broken = FALSE
    /\ lost = {}
    /\ dispatches = 0 /\ edits = 0 /\ mishaps = 0

(***************************************************************************)
(* The control plane                                                       *)
(***************************************************************************)
Clash(c) ==
    \E d \in Config : /\ Host[d] = Host[c] /\ Owner[d] # Owner[c]
                      /\ status[d] \in {"applied", "validated"}

\* validate_domain: a query, with nothing held until the insert commits.
Validate(c) ==
    /\ request[c] = "new"
    /\ request' = [request EXCEPT ![c] = IF Clash(c) THEN "refused" ELSE "checked"]
    /\ UNCHANGED <<status, queue, agent, disk, serving, broken, lost, bounds>>

\* Mutant: the row stays the draft it was flushed as.
InsertDraft(c) ==
    /\ request[c] = "checked"
    /\ request' = [request EXCEPT ![c] = "created"]
    /\ status' = [status EXCEPT ![c] = "draft"]
    /\ UNCHANGED <<queue, agent, disk, serving, broken, lost, bounds>>

\* The row is committed even if the lint refuses it.
Insert(c) ==
    /\ request[c] = "checked"
    /\ request' = [request EXCEPT ![c] = "created"]
    /\ status' = [status EXCEPT ![c] = IF c \in Unlinted THEN "failed" ELSE "validated"]
    /\ UNCHANGED <<queue, agent, disk, serving, broken, lost, bounds>>

Enqueue(c) ==
    /\ dispatches < MaxDispatches
    /\ dispatches' = dispatches + 1
    /\ queue' = Append(queue, c)
    /\ UNCHANGED <<plane, agent, disk, serving, broken, lost, edits, mishaps>>

\* The endpoint refuses a failed configuration only.
Dispatch(c) ==
    /\ status[c] \notin {"none", "failed"}
    /\ Enqueue(c)

\* A fix that names a configuration applies it whatever its status.
DispatchByFix(c) ==
    /\ status[c] = "failed"
    /\ Enqueue(c)

\* Mutant: the project's previous configuration stays applied.
MarkOnlyThis(c, ok) ==
    status' = [status EXCEPT ![c] = IF ok THEN "applied" ELSE "failed"]

MarkApplied(c, ok) ==
    status' = [d \in Config |->
        IF d = c THEN IF ok THEN "applied" ELSE "failed"
        ELSE IF ok /\ Owner[d] = Owner[c] /\ status[d] = "applied" THEN "superseded"
        ELSE status[d]]

(***************************************************************************)
(* The agent.  nginx -t looks at every enabled site of the server, and     *)
(* nginx -s reload succeeds exactly when they are valid.                   *)
(***************************************************************************)
Site == Owner[agent.cfg]

Valid ==
    /\ ~broken
    /\ \A p \in Project : enabled[p] => file[p] # None /\ file[p] \notin Bad

Reloaded == [p \in Project |-> IF enabled[p] THEN file[p] ELSE None]

\* A poll claims the command before it answers: a lost answer loses it.
Poll ==
    /\ agent.step = "idle" /\ queue # <<>>
    /\ queue' = Tail(queue)
    /\ \/ agent' = [Idle EXCEPT !.step = "before", !.cfg = Head(queue)] /\ Smooth
       \/ agent' = Idle /\ Loss("poll")
    /\ UNCHANGED <<plane, disk, serving, broken, dispatches, edits>>

\* A call of nginx that times out counts as a failure.
Asked(ok) == (ok = Valid /\ Smooth) \/ (~ok /\ Fails)

TestBefore ==
    /\ agent.step = "before"
    /\ \E ok \in BOOLEAN :
          Asked(ok) /\ agent' = IF ok THEN At("swap") ELSE Done(FALSE)
    /\ UNCHANGED <<plane, queue, disk, serving, broken, dispatches, edits>>

\* Copy the previous file aside, write the staging file, move it into place;
\* if writing fails the handler ends before it has changed anything.
Swap ==
    /\ agent.step = "swap"
    /\ \/ /\ agent' = [At("enable") EXCEPT !.found = file[Site]]
          /\ file' = [file EXCEPT ![Site] = agent.cfg]
          /\ Smooth
       \/ agent' = Done(FALSE) /\ UNCHANGED file /\ Fails
    /\ UNCHANGED <<plane, queue, enabled, serving, broken, dispatches, edits>>

Enable ==
    /\ agent.step = "enable"
    /\ agent' = At("test")
    /\ enabled' = [enabled EXCEPT ![Site] = TRUE]
    /\ UNCHANGED <<plane, queue, file, serving, broken, lost, bounds>>

\* Mutant: a rejected file is left in place.
TestAfterLeaves ==
    /\ agent.step = "test"
    /\ \E ok \in BOOLEAN :
          Asked(ok) /\ agent' = IF ok THEN At("reload") ELSE Done(FALSE)
    /\ UNCHANGED <<plane, queue, disk, serving, broken, dispatches, edits>>

TestAfter ==
    /\ agent.step = "test"
    /\ \E ok \in BOOLEAN :
          Asked(ok) /\ agent' = At(IF ok THEN "reload" ELSE "restore")
    /\ UNCHANGED <<plane, queue, disk, serving, broken, dispatches, edits>>

Reload ==
    /\ agent.step = "reload"
    /\ \E ok \in BOOLEAN :
          /\ Asked(ok)
          /\ agent' = IF ok THEN Done(TRUE) ELSE At("restore")
          /\ serving' = IF ok THEN Reloaded ELSE serving
    /\ UNCHANGED <<plane, queue, disk, broken, dispatches, edits>>

\* Mutant: the new file is unlinked whatever was there before.
RestoreByRemoving ==
    /\ agent.step = "restore"
    /\ file' = [file EXCEPT ![Site] = None]
    /\ enabled' = [enabled EXCEPT ![Site] = FALSE]
    /\ agent' = At("again")
    /\ UNCHANGED <<plane, queue, serving, broken, lost, bounds>>

Restore ==
    /\ agent.step = "restore"
    /\ file' = [file EXCEPT ![Site] = agent.found]
    /\ enabled' = [enabled EXCEPT ![Site] = agent.found # None]
    /\ agent' = At("again")
    /\ UNCHANGED <<plane, queue, serving, broken, lost, bounds>>

TestAgain ==
    /\ agent.step = "again"
    /\ \E ok \in BOOLEAN :
          /\ Asked(ok)
          /\ agent' = Done(FALSE)
          /\ serving' = IF ok THEN Reloaded ELSE serving
    /\ UNCHANGED <<plane, queue, disk, broken, dispatches, edits>>

\* submit_result marks the configuration, unless the result is lost.
Result ==
    /\ agent.step = "done"
    /\ agent' = Idle
    /\ \/ MarkApplied(agent.cfg, agent.ok) /\ Smooth
       \/ UNCHANGED status /\ Loss("result")
    /\ UNCHANGED <<request, queue, disk, serving, broken, dispatches, edits>>

Crash ==
    /\ agent.step # "idle"
    /\ agent' = Idle
    /\ Loss("crash")
    /\ UNCHANGED <<plane, queue, disk, serving, broken, dispatches, edits>>

(***************************************************************************)
(* Whoever else works on the server: edits other files, reloads Nginx.     *)
(***************************************************************************)
Edit ==
    /\ edits < MaxEdits
    /\ edits' = edits + 1
    /\ broken' = ~broken
    /\ UNCHANGED <<plane, queue, agent, disk, serving, lost, dispatches, mishaps>>

OtherReload ==
    /\ Valid
    /\ serving' = Reloaded
    /\ UNCHANGED <<plane, queue, agent, disk, broken, lost, bounds>>

AgentStep ==
    \/ TestBefore \/ Swap \/ Enable \/ TestAfter \/ Reload \/ Restore \/ TestAgain
    \/ Result

Next ==
    \/ \E c \in Config : Validate(c) \/ Insert(c) \/ Dispatch(c) \/ DispatchByFix(c)
    \/ Poll \/ AgentStep
    \/ Crash \/ Edit \/ OtherReload

Spec == Init /\ [][Next]_vars

-----------------------------------------------------------------------------
\* Every variable stays in its domain, the bounds included.
TypeOK ==
    /\ request \in [Config -> {"new", "checked", "refused", "created"}]
    /\ status \in [Config -> Status]
    /\ queue \in Seq(Config) /\ Len(queue) <= MaxDispatches
    /\ agent \in [step : {"idle", "before", "swap", "enable", "test", "reload",
                          "restore", "again", "done"},
                  cfg : Config \cup {None}, found : Config \cup {None},
                  ok : BOOLEAN]
    /\ file \in [Project -> Config \cup {None}]
    /\ enabled \in [Project -> BOOLEAN]
    /\ serving \in [Project -> Config \cup {None}]
    /\ broken \in BOOLEAN
    /\ lost \subseteq {"poll", "result", "crash"}
    /\ dispatches \in 0..MaxDispatches /\ edits \in 0..MaxEdits
    /\ mishaps \in 0..MaxMishaps
AtRest == agent.step \in {"idle", "before", "swap"}

(***************************************************************************)
(* What the records say is applied is what the project's file holds, as    *)
(* long as no result was lost and the agent was not killed: a failed apply *)
(* puts the previous file back, and a later success supersedes the earlier *)
(* record (nginx.py:202-215, executor.py:327-377).                         *)
(***************************************************************************)
RecordMatchesDisk ==
    lost \subseteq {"poll"} /\ AtRest =>
        \A c \in Config : status[c] = "applied" =>
            file[Owner[c]] = c /\ enabled[Owner[c]]

\* However an apply fails, the sites it leaves are ones that nginx -t accepts
\* on their own, unless the agent was killed on the way: no project's apply
\* takes the others down (executor.py:336-377).
SitesStayValid ==
    "crash" \notin lost /\ AtRest =>
        \A p \in Project : enabled[p] => file[p] # None /\ file[p] \notin Bad

\* Whatever results arrive and get lost, a project has one applied
\* configuration on record (nginx.py:208-213).
OneAppliedConfig ==
    \A c, d \in Config :
        Owner[c] = Owner[d] /\ status[c] = "applied" /\ status[d] = "applied" => c = d

\* No two projects have an applied configuration for one domain: the rules
\* "prevent two teams claiming one address" (nginx.py:11).
DomainHasOneOwner ==
    \A c, d \in Config :
        Host[c] = Host[d] /\ status[c] = "applied" /\ status[d] = "applied"
            => Owner[c] = Owner[d]

-----------------------------------------------------------------------------
(* Inductive strengthenings, used by NginxProofs *)

\* An agent at work has a configuration, and the queue is no longer than what
\* was ever put into it.
AtWork ==
    /\ agent.step # "idle" => agent.cfg \in Config
    /\ Len(queue) <= dispatches

Swapped == agent.step \in {"enable", "test", "reload", "restore"}

\* A project's file is there exactly when it is linked, and nginx accepts it.
Clean(p) == (enabled[p] <=> file[p] # None) /\ file[p] \notin Bad

\* Only the site an apply has swapped is not clean, and what it keeps aside is.
SiteInv ==
    "crash" \notin lost =>
        /\ \A p \in Project : Clean(p) \/ (Swapped /\ p = Site)
        /\ Swapped => /\ agent.found \notin Bad
                      /\ file[Site] = agent.cfg
                      /\ agent.step # "enable" => enabled[Site]

Served(c) == file[Owner[c]] = c /\ enabled[Owner[c]]

\* What is on record as applied is in its file, or kept aside, or about to be
\* superseded by the result of what is in the file.
RecordInv ==
    lost \subseteq {"poll"} =>
        /\ \A c \in Config : status[c] = "applied" =>
              \/ Served(c) /\ (Swapped => Owner[c] # Site)
              \/ Swapped /\ Owner[c] = Site /\ agent.found = c
              \/ agent.step = "done" /\ agent.ok /\ Owner[c] = Site
        /\ agent.step = "done" /\ agent.ok => Served(agent.cfg)
=============================================================================
