------------------------ MODULE MCContainerCommands ------------------------
(***************************************************************************)
(* Instances of ContainerCommands for TLC.                                 *)
(***************************************************************************)
EXTENDS ContainerCommands

CONSTANTS i1, i2, p1, p2, p3, m1, m2, m3, v1, v2

OneImage ==
    {[image |-> i1, port |-> p1, limit |-> m1, env |-> v1, state |-> "created"]}

Cmd(k, n, a) == [kind |-> k, on |-> n, arg |-> a]

\* A recreate on a free port, on one that is in use, and without a port.
Recreates == {Cmd("recreate_container", App, a) : a \in {p2, p3, NoPort}}

\* Every handler, each with a command it refuses where it can refuse one.
Everything ==
    Recreates \cup
    {Cmd("restart_container", App, v1), Cmd("restart_container", Platform, v1),
     Cmd("rollback_deployment", App, i2),
     Cmd("set_memory_limit", App, m2), Cmd("set_memory_limit", App, m3),
     Cmd("set_env_var", App, v2), Cmd("set_env_var", Platform, v2),
     Cmd("run_migration", App, v1), Cmd("rebuild_image", App, v1),
     Cmd("prune_docker", App, v1), Cmd("prune_logs", App, v1),
     Cmd("stop_conflicting_container", App, v1),
     Cmd("stop_conflicting_container", Platform, v1),
     Cmd("health_check", App, p1), Cmd("shell", App, v1)}
=============================================================================
