----------------------------- MODULE MCDiagnosis -----------------------------
(***************************************************************************)
(* Instances of Diagnosis for TLC.                                         *)
(***************************************************************************)
EXTENDS Diagnosis

\* killed: the kernel's kill in a container's log, stored as information;
\* tests: a failed test of the build, which quotes an error of nginx; nobody
\* knows what chatter is about.
Lines == {"killed", "tests", "chatter"}
From  == [killed |-> "docker", tests |-> "actions", chatter |-> "app"]
SaysMap == [killed |-> {"oom_killed"},
          tests |-> {"test_failure", "nginx_502_upstream_refused"}, chatter |-> {}]
Stored == [killed |-> 1, tests |-> 3, chatter |-> 1]
Fatal  == {"killed", "tests"}

TwoLogs == {<<"tests">>, <<"chatter", "tests">>}

Proud  == [confidence |-> 900, severity |-> "sky-high", fixes |-> <<"format_disk">>]
TwoAnswers == {Proud}
=============================================================================
