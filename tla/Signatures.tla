------------------------------ MODULE Signatures ------------------------------
(***************************************************************************)
(* The failure signatures (rca/signatures.py): what each says of a failure *)
(* that it recognises, and how match_signatures scores and ranks them.     *)
(*                                                                         *)
(* The patterns and the wording are abstracted: an event carries the set   *)
(* of keys whose patterns its text matches.  Confidences are in permille.  *)
(***************************************************************************)
EXTENDS Integers, FiniteSets, Sequences

Severity == [low |-> 0, medium |-> 1, high |-> 2, critical |-> 3]

ANY == {"actions", "docker", "nginx", "system", "app"}
CI == {"actions", "docker"}

\* A signature from the sources in from; an empty tuple of sources is ANY.
Sig(key, stage, severity, from, confidence, fixes) ==
    [key |-> key, stage |-> stage, severity |-> severity, from |-> from,
     confidence |-> confidence, fixes |-> fixes]

Ports == <<
    Sig("port_already_allocated", "deploy", "high", CI, 970, <<"reassign_port", "code_change">>),
    Sig("app_port_in_use_inside_container", "runtime", "high", ANY, 850,
        <<"code_change", "restart_container">>)>>

Dependencies == <<
    Sig("python_module_not_found", "runtime", "high", ANY, 950, <<"add_dependency", "rebuild_image">>),
    Sig("node_module_not_found", "runtime", "high", ANY, 950, <<"add_dependency", "code_change">>),
    Sig("pip_resolution_failed", "build", "high", CI, 850, <<"code_change">>)>>

Environment == <<
    Sig("missing_env_var", "runtime", "high", ANY, 880, <<"set_env_var", "code_change">>),
    Sig("env_file_not_found", "runtime", "high", ANY, 850, <<"code_change">>)>>

Database == <<
    Sig("db_connection_refused_localhost", "runtime", "critical", ANY, 930,
        <<"code_change", "set_env_var">>),
    Sig("db_auth_failed", "runtime", "high", ANY, 850, <<"set_env_var">>),
    Sig("db_relation_missing", "runtime", "high", ANY, 920, <<"run_migration", "code_change">>),
    Sig("db_too_many_connections", "runtime", "high", ANY, 850,
        <<"code_change", "restart_container">>)>>

Resources == <<
    Sig("oom_killed", "runtime", "critical", ANY, 940, <<"set_memory_limit", "code_change">>),
    Sig("disk_full", "infra", "critical", ANY, 960, <<"prune_docker", "prune_logs">>),
    Sig("cannot_allocate_memory", "infra", "critical", ANY, 850, <<"escalate_to_devops">>)>>

Images == <<
    Sig("dockerfile_copy_missing", "build", "high", ANY, 930, <<"code_change">>),
    Sig("docker_base_image_pull_failed", "build", "high", ANY, 850,
        <<"code_change", "escalate_to_devops">>),
    Sig("docker_exec_format_error", "runtime", "high", ANY, 950, <<"code_change">>),
    Sig("permission_denied_entrypoint", "runtime", "high", ANY, 850, <<"code_change">>),
    Sig("crlf_line_endings", "runtime", "medium", ANY, 850, <<"code_change">>)>>

Proxy == <<
    Sig("nginx_502_upstream_refused", "proxy", "critical", {"nginx"}, 900,
        <<"restart_container", "reassign_port">>),
    Sig("nginx_bind_conflict", "proxy", "critical", {"nginx", "system"}, 850,
        <<"escalate_to_devops">>),
    Sig("nginx_duplicate_server_name", "proxy", "high", {"nginx"}, 850, <<"apply_nginx_config">>),
    Sig("nginx_413_body_too_large", "proxy", "medium", {"nginx"}, 850, <<"apply_nginx_config">>),
    Sig("nginx_upstream_timeout", "proxy", "high", {"nginx"}, 850,
        <<"code_change", "apply_nginx_config">>),
    Sig("ssl_cert_expired", "proxy", "critical", {"nginx", "system"}, 850,
        <<"escalate_to_devops", "reload_nginx">>)>>

Pipeline == <<
    Sig("actions_secret_missing", "build", "high", {"actions"}, 850, <<"escalate_to_devops">>),
    Sig("actions_no_runner", "build", "high", {"actions"}, 930,
        <<"code_change", "escalate_to_devops">>),
    Sig("actions_permission_denied_docker", "build", "high", {"actions"}, 960,
        <<"escalate_to_devops">>),
    Sig("test_failure", "build", "medium", {"actions"}, 750, <<"code_change">>),
    Sig("build_timeout", "build", "medium", {"actions"}, 850, <<"code_change">>)>>

Behaviour == <<
    Sig("container_exit_immediately", "runtime", "high", ANY, 700,
        <<"code_change", "restart_container">>),
    Sig("restart_loop", "runtime", "critical", ANY, 900, <<"escalate_to_devops">>),
    Sig("unhandled_promise_rejection", "runtime", "high", ANY, 850, <<"code_change">>),
    Sig("cors_blocked", "runtime", "medium", ANY, 850, <<"code_change", "set_env_var">>),
    Sig("frontend_calls_localhost", "runtime", "high", ANY, 880, <<"code_change">>),
    Sig("secret_committed", "build", "critical", ANY, 980, <<"rotate_secret", "code_change">>)>>

SIGNATURES == Ports \o Dependencies \o Environment \o Database \o Resources
              \o Images \o Proxy \o Pipeline \o Behaviour

Key == {SIGNATURES[n].key : n \in DOMAIN SIGNATURES}

-----------------------------------------------------------------------------
Smallest(S) == CHOOSE x \in S : \A y \in S : x <= y
AtMost(n, most) == IF n < most THEN n ELSE most

\* Mutant: where a line comes from does not matter.
MatchesAnywhere(sig, event) == sig.key \in event.says

Matches(sig, event) == sig.key \in event.says /\ event.source \in sig.from

HitsOf(sig, events) == {i \in DOMAIN events : Matches(sig, events[i])}

\* Every further hit and every further source adds a little.
Score(sig, events) ==
    LET hits == HitsOf(sig, events)
    IN  AtMost(990, sig.confidence
                    + 10 * AtMost(Cardinality(hits) - 1, 4)
                    + 20 * (Cardinality({events[i].source : i \in hits}) - 1))

\* The order of the candidates: confidence, severity and hits, and between
\* equals the order in which they were first seen, then the library's order.
Before(m, n, events) ==
    LET a == SIGNATURES[m]
        b == SIGNATURES[n]
        hits == <<Cardinality(HitsOf(a, events)), Cardinality(HitsOf(b, events))>>
        rank == <<Severity[a.severity], Severity[b.severity]>>
        first == <<Smallest(HitsOf(a, events)), Smallest(HitsOf(b, events))>>
    IN  \/ Score(a, events) > Score(b, events)
        \/ /\ Score(a, events) = Score(b, events)
           /\ \/ rank[1] > rank[2]
              \/ rank[1] = rank[2] /\ hits[1] > hits[2]
              \/ /\ rank[1] = rank[2] /\ hits[1] = hits[2]
                 /\ first[1] < first[2] \/ (first[1] = first[2] /\ m < n)

MaxResults == 6

\* match_signatures: the best candidates, best first, each with the (at most
\* five) first events that it matched.
MatchSignatures(events) ==
    LET hit   == {n \in DOMAIN SIGNATURES : HitsOf(SIGNATURES[n], events) # {}}
        place == [n \in hit |-> 1 + Cardinality({m \in hit : Before(m, n, events)})]
        at(p) == SIGNATURES[CHOOSE n \in hit : place[n] = p]
        shown(sig) == {i \in HitsOf(sig, events) :
                          Cardinality({j \in HitsOf(sig, events) : j < i}) < 5}
    IN  [p \in 1..AtMost(Cardinality(hit), MaxResults) |->
            [key |-> at(p).key, severity |-> at(p).severity, fixes |-> at(p).fixes,
             confidence |-> Score(at(p), events), evidence |-> shown(at(p))]]
=============================================================================
