---------------------------- MODULE ActionCatalog ----------------------------
(***************************************************************************)
(* ACTION_CATALOG (rca/fixes.py): the whole of what the platform may ever  *)
(* do to a server, and what an approval and a verification need to know of *)
(* each entry.                                                             *)
(***************************************************************************)
EXTENDS Integers

Immediate == {}     \* the anomalies that an immediately verified fix watches for

\* An entry the agent executes: its risk, whether it may run unattended, the
\* anomalies that refute it and the minutes it is watched for.
Executed(risk, attended, watch, grace) ==
    [risk |-> risk, executable |-> TRUE, never_auto |-> attended,
     watch |-> watch, grace |-> grace]

\* An entry that only tells people what to do.
Advice(risk, attended) ==
    [risk |-> risk, executable |-> FALSE, never_auto |-> attended,
     watch |-> {}, grace |-> 0]

Lifecycle == [
    restart_container   |-> Executed("moderate", FALSE, {"restart_loop"}, 3),
    recreate_container  |-> Executed("moderate", FALSE, {"restart_loop"}, 3),
    rebuild_image       |-> Executed("moderate", FALSE, Immediate, 0),
    rollback_deployment |-> Executed("moderate", FALSE, {"restart_loop"}, 3),
    set_memory_limit    |-> Executed("moderate", FALSE,
                                {"memory_ceiling", "memory_leak_trend", "restart_loop"}, 15)]

PortsAndProxy == [
    reassign_port      |-> Executed("moderate", FALSE, {"error_rate_spike"}, 3),
    apply_nginx_config |-> Executed("moderate", FALSE, Immediate, 0),
    reload_nginx       |-> Executed("safe", FALSE, Immediate, 0),
    stop_conflicting_container |-> Executed("dangerous", TRUE, {"error_rate_spike"}, 3)]

Housekeeping == [
    set_env_var  |-> Executed("moderate", TRUE, {"restart_loop"}, 3),
    prune_docker |-> Executed("safe", FALSE, {"disk_pressure"}, 3),
    prune_logs   |-> Executed("safe", FALSE, {"disk_pressure"}, 3)]

Advisory == [
    code_change        |-> Advice("safe", FALSE),
    add_dependency     |-> Advice("safe", FALSE),
    add_healthcheck    |-> Advice("safe", FALSE),
    rotate_secret      |-> Advice("dangerous", TRUE),
    run_migration      |-> Executed("dangerous", TRUE, Immediate, 0),
    notify_team        |-> Advice("safe", FALSE),
    escalate_to_devops |-> Advice("safe", FALSE)]

Action == DOMAIN Lifecycle \cup DOMAIN PortsAndProxy \cup DOMAIN Housekeeping
          \cup DOMAIN Advisory

ACTION_CATALOG == [a \in Action |->
    IF a \in DOMAIN Lifecycle THEN Lifecycle[a]
    ELSE IF a \in DOMAIN PortsAndProxy THEN PortsAndProxy[a]
    ELSE IF a \in DOMAIN Housekeeping THEN Housekeeping[a] ELSE Advisory[a]]

SpecFor(a) == ACTION_CATALOG[IF a \in Action THEN a ELSE "escalate_to_devops"]
=============================================================================
