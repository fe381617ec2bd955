----------------------------- MODULE NginxProofs -----------------------------
(***************************************************************************)
(* Proofs about NginxSites for any projects, domains and configurations.   *)
(***************************************************************************)
EXTENDS NginxSites, TLAPS

(***************************************************************************)
(* Types                                                                   *)
(***************************************************************************)
TypeInv == TypeOK /\ AtWork

AgentState ==
    [step : {"idle", "before", "swap", "enable", "test", "reload", "restore",
             "again", "done"},
     cfg : Config \cup {None}, found : Config \cup {None}, ok : BOOLEAN]

\* The files before and after a test, a reload or a restore stay in their domain.
LEMMA ReloadedType == TypeOK => Reloaded \in [Project -> Config \cup {None}]
BY DEF TypeOK, Reloaded

\* Where a mishap happens its count stays within the bound.
LEMMA MishapType ==
    ASSUME TypeOK, NEW how \in {"poll", "result", "crash"}, Smooth \/ Fails \/ Loss(how)
    PROVE  lost' \subseteq {"poll", "result", "crash"} /\ mishaps' \in 0..MaxMishaps
<1>1. /\ lost \subseteq {"poll", "result", "crash"}
      /\ mishaps \in 0..MaxMishaps /\ MaxMishaps \in Nat
  BY SitesAssumption DEF TypeOK
<1>2. CASE Smooth
  BY <1>1, <1>2 DEF Smooth
<1>3. CASE Fails
  BY <1>1, <1>3 DEF Fails, Mishap
<1>4. CASE Loss(how)
  <2>1. lost' = lost \cup {how} /\ mishaps < MaxMishaps /\ mishaps' = mishaps + 1
    BY <1>4 DEF Loss, Mishap
  <2> QED
    BY <1>1, <2>1
<1> QED
  BY <1>2, <1>3, <1>4

LEMMA AskedType ==
    ASSUME TypeOK, NEW ok \in BOOLEAN, Asked(ok)
    PROVE  lost' = lost /\ mishaps' \in 0..MaxMishaps
BY SitesAssumption DEF TypeOK, Asked, Smooth, Fails, Mishap

\* A step of the agent that goes on with its configuration keeps its type.
LEMMA AgentType ==
    ASSUME TypeInv, agent.step # "idle",
           NEW s \in {"before", "swap", "enable", "test", "reload", "restore", "again", "done"},
           agent' = At(s) \/ agent' = Done(TRUE) \/ agent' = Done(FALSE)
    PROVE  agent' \in AgentState /\ agent'.cfg \in Config
BY DEF TypeInv, TypeOK, AtWork, At, Done, AgentState

LEMMA TypeInit == Init => TypeInv
<1> SUFFICES ASSUME Init PROVE TypeInv
  OBVIOUS
<1>1. agent \in AgentState /\ agent.step = "idle"
  BY DEF Init, Idle, AgentState
<1>2. queue \in Seq(Config) /\ Len(queue) = 0
  BY DEF Init
<1>3. /\ request \in [Config -> {"new", "checked", "refused", "created"}]
      /\ status \in [Config -> Status]
      /\ file \in [Project -> Config \cup {None}]
      /\ enabled \in [Project -> BOOLEAN]
      /\ serving \in [Project -> Config \cup {None}]
  BY DEF Init, Status
<1>4. /\ broken \in BOOLEAN /\ lost \subseteq {"poll", "result", "crash"}
      /\ dispatches = 0 /\ edits = 0 /\ mishaps = 0
  BY DEF Init
<1>5. dispatches \in 0..MaxDispatches /\ edits \in 0..MaxEdits /\ mishaps \in 0..MaxMishaps
  BY <1>4, SitesAssumption
<1>6. Len(queue) <= MaxDispatches /\ Len(queue) <= dispatches
  BY <1>2, <1>4, SitesAssumption
<1> QED
  BY <1>1, <1>2, <1>3, <1>4, <1>5, <1>6 DEF TypeInv, TypeOK, AtWork, AgentState

LEMMA EnqueueType ==
    ASSUME TypeInv, NEW c \in Config, Enqueue(c) PROVE TypeInv'
<1>1. queue' \in Seq(Config) /\ Len(queue') = Len(queue) + 1
  BY DEF Enqueue, TypeInv, TypeOK
<1> QED
  BY <1>1, SitesAssumption DEF Enqueue, TypeInv, TypeOK, AtWork, plane, disk

LEMMA ResultType == ASSUME TypeInv, Result PROVE TypeInv'
<1>1. status' \in [Config -> Status]
  BY DEF Result, MarkApplied, TypeInv, TypeOK, Status
<1>2. lost' \subseteq {"poll", "result", "crash"} /\ mishaps' \in 0..MaxMishaps
  BY MishapType DEF Result, TypeInv
<1> QED
  BY <1>1, <1>2 DEF Result, TypeInv, TypeOK, AtWork, Idle, disk

\* What the agent knows after a poll.
LEMMA PollAgent ==
    ASSUME Poll
    PROVE  \/ agent' = [step |-> "before", cfg |-> Head(queue), found |-> None, ok |-> FALSE]
           \/ agent' = [step |-> "idle", cfg |-> None, found |-> None, ok |-> FALSE]
<1>1. CASE agent' = [Idle EXCEPT !.step = "before", !.cfg = Head(queue)]
  BY <1>1 DEF Idle
<1>2. CASE agent' = Idle
  BY <1>2 DEF Idle
<1> QED
  BY <1>1, <1>2 DEF Poll

LEMMA PollType == ASSUME TypeInv, Poll PROVE TypeInv'
<1>1. Head(queue) \in Config /\ queue' \in Seq(Config) /\ Len(queue') <= Len(queue)
  BY DEF Poll, TypeInv, TypeOK
<1>2. lost' \subseteq {"poll", "result", "crash"} /\ mishaps' \in 0..MaxMishaps
  BY MishapType DEF Poll, TypeInv
<1>3. Len(queue') <= MaxDispatches /\ Len(queue') <= dispatches
  BY <1>1, SitesAssumption DEF TypeInv, TypeOK, AtWork
<1>4. agent' \in AgentState /\ (agent'.step # "idle" => agent'.cfg \in Config)
  <2>1. CASE agent' = [step |-> "before", cfg |-> Head(queue), found |-> None, ok |-> FALSE]
    BY <1>1, <2>1 DEF AgentState
  <2>2. CASE agent' = [step |-> "idle", cfg |-> None, found |-> None, ok |-> FALSE]
    BY <2>2 DEF AgentState
  <2> QED
    BY <2>1, <2>2, PollAgent
<1> QED
  BY <1>1, <1>2, <1>3, <1>4 DEF Poll, TypeInv, TypeOK, AtWork, AgentState, plane, disk

LEMMA AgentStepType == ASSUME TypeInv, AgentStep PROVE TypeInv'
<1> USE DEF TypeInv, TypeOK, AtWork, AgentState, plane, disk, bounds
<1>1. CASE TestBefore
  <2>1. PICK ok \in BOOLEAN : Asked(ok) /\ agent' = IF ok THEN At("swap") ELSE Done(FALSE)
    BY <1>1 DEF TestBefore
  <2> QED
    BY <1>1, <2>1, AskedType, AgentType DEF TestBefore
<1>2. CASE Swap
  <2>1. Site \in Project
    BY <1>2, SitesAssumption DEF Swap, Site
  <2>2. file' \in [Project -> Config \cup {None}]
    BY <1>2, <2>1 DEF Swap
  <2>3. agent' \in AgentState /\ agent'.cfg \in Config
    <3>1. CASE agent' = Done(FALSE)
      BY <1>2, <3>1, AgentType DEF Swap
    <3>2. CASE agent' = [At("enable") EXCEPT !.found = file[Site]]
      <4>1. agent' = [step |-> "enable", cfg |-> agent.cfg, found |-> file[Site],
                      ok |-> agent.ok]
        BY <3>2 DEF At
      <4> QED
        BY <1>2, <2>1, <4>1 DEF Swap, AgentState
    <3> QED
      BY <1>2, <3>1, <3>2 DEF Swap
  <2>4. lost' \subseteq {"poll", "result", "crash"} /\ mishaps' \in 0..MaxMishaps
    BY <1>2, MishapType DEF Swap
  <2> QED
    BY <1>2, <2>2, <2>3, <2>4 DEF Swap
<1>3. CASE Enable
  BY <1>3, AgentType DEF Enable
<1>4. CASE TestAfter
  <2>1. PICK ok \in BOOLEAN : Asked(ok) /\ agent' = At(IF ok THEN "reload" ELSE "restore")
    BY <1>4 DEF TestAfter
  <2> QED
    BY <1>4, <2>1, AskedType, AgentType DEF TestAfter
<1>5. CASE Reload
  <2>1. PICK ok \in BOOLEAN : /\ Asked(ok)
                              /\ agent' = IF ok THEN Done(TRUE) ELSE At("restore")
                              /\ serving' = IF ok THEN Reloaded ELSE serving
    BY <1>5 DEF Reload
  <2> QED
    BY <1>5, <2>1, AskedType, AgentType, ReloadedType DEF Reload
<1>6. CASE Restore
  BY <1>6, AgentType DEF Restore
<1>7. CASE TestAgain
  <2>1. PICK ok \in BOOLEAN : /\ Asked(ok)
                              /\ agent' = Done(FALSE)
                              /\ serving' = IF ok THEN Reloaded ELSE serving
    BY <1>7 DEF TestAgain
  <2> QED
    BY <1>7, <2>1, AskedType, AgentType, ReloadedType DEF TestAgain
<1>8. CASE Result
  BY <1>8, ResultType
<1> QED
  BY <1>1, <1>2, <1>3, <1>4, <1>5, <1>6, <1>7, <1>8 DEF AgentStep

LEMMA TypeStep == TypeInv /\ [Next]_vars => TypeInv'
<1> SUFFICES ASSUME TypeInv, [Next]_vars PROVE TypeInv'
  OBVIOUS
<1> USE DEF TypeInv, TypeOK, AtWork, plane, disk, bounds
<1>1. ASSUME NEW c \in Config, Validate(c) PROVE TypeInv'
  BY <1>1 DEF Validate
<1>2. ASSUME NEW c \in Config, Insert(c) PROVE TypeInv'
  BY <1>2 DEF Insert, Status
<1>3. ASSUME NEW c \in Config, Dispatch(c) \/ DispatchByFix(c) PROVE TypeInv'
  BY <1>3, EnqueueType DEF Dispatch, DispatchByFix
<1>4. CASE Poll
  BY <1>4, PollType
<1>5. CASE AgentStep
  BY <1>5, AgentStepType
<1>6. CASE Crash
  BY <1>6, MishapType DEF Crash, Idle
<1>7. CASE Edit
  BY <1>7, SitesAssumption DEF Edit
<1>8. CASE OtherReload
  BY <1>8, ReloadedType DEF OtherReload
<1>9. CASE UNCHANGED vars
  BY <1>9 DEF vars
<1> QED
  BY <1>1, <1>2, <1>3, <1>4, <1>5, <1>6, <1>7, <1>8, <1>9 DEF Next

LEMMA TypesHold == Spec => []TypeInv
BY TypeInit, TypeStep, PTL DEF Spec

\* Every variable of the control plane, the agent and the disk stays in its
\* domain, whatever is enqueued, edited or lost.
THEOREM TypeCorrect == Spec => []TypeOK
<1>1. TypeInv => TypeOK
  BY DEF TypeInv
<1> QED
  BY <1>1, TypesHold, PTL

(***************************************************************************)
(* One applied configuration                                               *)
(***************************************************************************)

\* A step that leaves or lowers what is on record as applied.
LEMMA NoneApplied ==
    ASSUME OneAppliedConfig, \A c \in Config : status'[c] = "applied" => status[c] = "applied"
    PROVE  OneAppliedConfig'
BY DEF OneAppliedConfig

LEMMA MarkedOne ==
    ASSUME TypeInv, OneAppliedConfig, NEW c \in Config, NEW ok \in BOOLEAN,
           MarkApplied(c, ok)
    PROVE  OneAppliedConfig'
<1>1. CASE ~ok
  <2>1. \A d \in Config : status'[d] = "applied" => status[d] = "applied"
    BY <1>1 DEF MarkApplied
  <2> QED
    BY <2>1, NoneApplied
<1>2. CASE ok
  <2>1. \A d \in Config : status'[d] = "applied" =>
           d = c \/ (status[d] = "applied" /\ Owner[d] # Owner[c])
    BY <1>2 DEF MarkApplied
  <2> QED
    BY <2>1 DEF OneAppliedConfig
<1> QED
  BY <1>1, <1>2

LEMMA OneAppliedStep == TypeInv /\ OneAppliedConfig /\ [Next]_vars => OneAppliedConfig'
<1> SUFFICES ASSUME TypeInv, OneAppliedConfig, [Next]_vars PROVE OneAppliedConfig'
  OBVIOUS
<1>1. ASSUME NEW c \in Config, Insert(c) PROVE OneAppliedConfig'
  <2>1. \A d \in Config : status'[d] = "applied" => status[d] = "applied"
    BY <1>1 DEF Insert, TypeInv, TypeOK
  <2> QED
    BY <2>1, NoneApplied
<1>2. CASE Result
  <2>1. agent.cfg \in Config /\ agent.ok \in BOOLEAN
    BY <1>2 DEF Result, TypeInv, TypeOK, AtWork
  <2>2. CASE MarkApplied(agent.cfg, agent.ok)
    BY <2>1, <2>2, MarkedOne
  <2>3. CASE UNCHANGED status
    BY <2>3, NoneApplied
  <2> QED
    BY <1>2, <2>2, <2>3 DEF Result
<1>3. CASE UNCHANGED status
  BY <1>3, NoneApplied
<1>4. ASSUME NEW c \in Config, Validate(c) \/ Dispatch(c) \/ DispatchByFix(c)
      PROVE  UNCHANGED status
  BY <1>4 DEF Validate, Dispatch, DispatchByFix, Enqueue, plane
<1>5. CASE AgentStep \/ Poll \/ Crash \/ Edit \/ OtherReload \/ UNCHANGED vars
  BY <1>2, <1>3, <1>5 DEF AgentStep, TestBefore, Swap, Enable, TestAfter, Reload, Restore,
     TestAgain, Poll, Crash, Edit, OtherReload, vars, plane
<1> QED
  BY <1>1, <1>3, <1>4, <1>5 DEF Next

\* A project has one applied configuration on record, in whatever order results
\* come in and whichever get lost: each success supersedes the one before.
THEOREM OneConfigIsApplied == Spec => []OneAppliedConfig
<1>1. Init => OneAppliedConfig
  BY DEF Init, OneAppliedConfig
<1> QED
  BY <1>1, OneAppliedStep, TypesHold, PTL DEF Spec

(***************************************************************************)
(* The sites                                                               *)
(***************************************************************************)

\* Nobody but the agent's apply touches the files, and a kill is remembered.
LEMMA SiteUntouched ==
    ASSUME SiteInv, UNCHANGED <<disk, agent>>, lost \subseteq lost'
    PROVE  SiteInv'
BY DEF SiteInv, Clean, Swapped, Site, disk

\* An agent that is not in the middle of an apply leaves every site clean.
LEMMA SiteRests ==
    ASSUME SiteInv, ~Swapped, ~Swapped', UNCHANGED disk, lost \subseteq lost'
    PROVE  SiteInv'
BY DEF SiteInv, Clean, disk

\* The steps of an apply between the swap and its end.
LEMMA SiteGoesOn ==
    ASSUME SiteInv, Swapped, Swapped', UNCHANGED <<disk, lost>>,
           agent'.cfg = agent.cfg, agent'.found = agent.found, agent.step # "enable"
    PROVE  SiteInv'
BY DEF SiteInv, Clean, Site, disk

\* The outcomes of a call of nginx leave everything else alone.
LEMMA AskedKeeps == ASSUME NEW ok \in BOOLEAN, Asked(ok) PROVE lost' = lost
BY DEF Asked, Smooth, Fails

LEMMA SiteSwap == ASSUME TypeInv, SiteInv, Swap PROVE SiteInv'
<1>1. CASE agent' = Done(FALSE) /\ UNCHANGED file /\ Fails
  <2>1. ~Swapped /\ ~Swapped' /\ lost' = lost /\ UNCHANGED disk
    BY <1>1 DEF Swap, Swapped, Done, Fails, TypeInv, TypeOK, disk
  <2> QED
    BY <2>1, SiteRests
<1>2. CASE /\ agent' = [At("enable") EXCEPT !.found = file[Site]]
           /\ file' = [file EXCEPT ![Site] = agent.cfg]
           /\ Smooth
  <2>1. agent.cfg \in Config /\ Site \in Project
    BY SitesAssumption DEF Swap, TypeInv, TypeOK, AtWork, Site
  <2>2. /\ agent'.step = "enable" /\ agent'.cfg = agent.cfg /\ agent'.found = file[Site]
        /\ lost' = lost /\ enabled' = enabled
    BY <1>2 DEF Swap, At, Smooth, TypeInv, TypeOK
  <2>3. Site' = Site
    BY <2>2 DEF Site
  <2>4. file'[Site] = agent.cfg /\ \A p \in Project \ {Site} : file'[p] = file[p]
    BY <1>2, <2>1 DEF TypeInv, TypeOK
  <2>5. ~Swapped /\ Swapped'
    BY <2>2 DEF Swap, Swapped
  <2> QED
    BY <2>1, <2>2, <2>3, <2>4, <2>5 DEF SiteInv, Clean
<1> QED
  BY <1>1, <1>2 DEF Swap

LEMMA SiteEnable == ASSUME TypeInv, SiteInv, Enable PROVE SiteInv'
<1>1. Site \in Project
  BY SitesAssumption DEF Enable, TypeInv, TypeOK, AtWork, Site
<1>2. /\ agent'.step = "test" /\ agent'.cfg = agent.cfg /\ agent'.found = agent.found
      /\ lost' = lost /\ file' = file
  BY DEF Enable, At, TypeInv, TypeOK
<1>3. Site' = Site
  BY <1>2 DEF Site
<1>4. enabled'[Site] /\ \A p \in Project \ {Site} : enabled'[p] = enabled[p]
  BY <1>1 DEF Enable, TypeInv, TypeOK
<1>5. Swapped /\ Swapped'
  BY <1>2 DEF Enable, Swapped
<1> QED
  BY <1>1, <1>2, <1>3, <1>4, <1>5 DEF SiteInv, Clean

LEMMA SiteReload == ASSUME TypeInv, SiteInv, Reload PROVE SiteInv'
<1>1. PICK ok \in BOOLEAN : Asked(ok) /\ agent' = IF ok THEN Done(TRUE) ELSE At("restore")
  BY DEF Reload
<1>2. lost' = lost
  BY <1>1, AskedKeeps
<1>3. CASE ~ok
  <2>1. /\ Swapped /\ Swapped' /\ agent'.cfg = agent.cfg /\ agent'.found = agent.found
        /\ agent.step # "enable" /\ UNCHANGED disk
    BY <1>1, <1>3 DEF Reload, Swapped, At, TypeInv, TypeOK
  <2> QED
    BY <1>2, <2>1, SiteGoesOn
<1>4. CASE ok
  <2>1. Valid /\ UNCHANGED disk /\ Swapped /\ ~Swapped' /\ agent.step = "reload"
    BY <1>1, <1>4 DEF Reload, Asked, Swapped, Done, TypeInv, TypeOK
  <2>2. ASSUME "crash" \notin lost PROVE Clean(Site)
    <3>1. enabled[Site] /\ Site \in Project
      BY <2>1, <2>2, SitesAssumption DEF SiteInv, TypeInv, TypeOK, AtWork, Site
    <3> QED
      BY <2>1, <3>1 DEF Valid, Clean
  <2> QED
    BY <1>2, <2>1, <2>2 DEF SiteInv, Clean, disk
<1> QED
  BY <1>3, <1>4

LEMMA SiteRestore == ASSUME TypeInv, SiteInv, Restore PROVE SiteInv'
<1>1. Site \in Project
  BY SitesAssumption DEF Restore, TypeInv, TypeOK, AtWork, Site
<1>2. lost' = lost /\ Swapped /\ ~Swapped'
  BY DEF Restore, bounds, At, Swapped, TypeInv, TypeOK
<1>3. file'[Site] = agent.found /\ \A p \in Project \ {Site} : file'[p] = file[p]
  BY <1>1 DEF Restore, TypeInv, TypeOK
<1>4. /\ enabled'[Site] <=> agent.found # None
      /\ \A p \in Project \ {Site} : enabled'[p] = enabled[p]
  BY <1>1 DEF Restore, TypeInv, TypeOK
<1>5. ASSUME "crash" \notin lost, NEW p \in Project PROVE Clean(p)'
  <2>1. CASE p = Site
    BY <1>2, <1>3, <1>4, <1>5, <2>1 DEF SiteInv, Clean
  <2>2. CASE p # Site
    BY <1>3, <1>4, <1>5, <2>2 DEF SiteInv, Clean
  <2> QED
    BY <2>1, <2>2
<1> QED
  BY <1>2, <1>5 DEF SiteInv

LEMMA SiteStep == TypeInv /\ SiteInv /\ [Next]_vars => SiteInv'
<1> SUFFICES ASSUME TypeInv, SiteInv, [Next]_vars PROVE SiteInv'
  OBVIOUS
<1>1. ASSUME NEW c \in Config, Validate(c) \/ Insert(c) \/ Dispatch(c) \/ DispatchByFix(c)
      PROVE  SiteInv'
  BY <1>1, SiteUntouched DEF Validate, Insert, Dispatch, DispatchByFix, Enqueue, bounds
<1>2. CASE Edit \/ OtherReload \/ UNCHANGED vars
  BY <1>2, SiteUntouched DEF Edit, OtherReload, vars
<1>3. CASE Poll
  <2>1. agent'.step \in {"before", "idle"}
    BY <1>3, PollAgent
  <2>2. ~Swapped /\ ~Swapped'
    BY <1>3, <2>1 DEF Poll, Swapped
  <2>3. UNCHANGED disk /\ lost \subseteq lost'
    BY <1>3 DEF Poll, Smooth, Loss
  <2> QED
    BY <2>2, <2>3, SiteRests
<1>4. CASE Crash
  BY <1>4 DEF Crash, Loss, SiteInv
<1>5. CASE TestBefore
  <2>1. ~Swapped /\ ~Swapped' /\ UNCHANGED disk /\ lost' = lost
    BY <1>5, AskedKeeps DEF TestBefore, Swapped, At, Done, TypeInv, TypeOK
  <2> QED
    BY <2>1, SiteRests
<1>6. CASE Swap
  BY <1>6, SiteSwap
<1>7. CASE Enable
  BY <1>7, SiteEnable
<1>8. CASE TestAfter
  <2>1. /\ Swapped /\ Swapped' /\ agent'.cfg = agent.cfg /\ agent'.found = agent.found
        /\ agent.step # "enable" /\ UNCHANGED <<disk, lost>>
    BY <1>8, AskedKeeps DEF TestAfter, Swapped, At, TypeInv, TypeOK
  <2> QED
    BY <2>1, SiteGoesOn
<1>9. CASE Reload
  BY <1>9, SiteReload
<1>10. CASE Restore
  BY <1>10, SiteRestore
<1>11. CASE TestAgain
  <2>1. ~Swapped /\ ~Swapped' /\ UNCHANGED disk /\ lost' = lost
    BY <1>11, AskedKeeps DEF TestAgain, Swapped, Done, TypeInv, TypeOK
  <2> QED
    BY <2>1, SiteRests
<1>12. CASE Result
  <2>1. ~Swapped /\ ~Swapped' /\ UNCHANGED disk /\ lost \subseteq lost'
    BY <1>12 DEF Result, Swapped, Idle, Smooth, Loss
  <2> QED
    BY <2>1, SiteRests
<1> QED
  BY <1>1, <1>2, <1>3, <1>4, <1>5, <1>6, <1>7, <1>8, <1>9, <1>10, <1>11, <1>12
     DEF Next, AgentStep

LEMMA SitesHold == Spec => []SiteInv
<1>1. Init => SiteInv
  BY SitesAssumption DEF Init, SiteInv, Clean, Swapped, Idle
<1> QED
  BY <1>1, SiteStep, TypesHold, PTL DEF Spec

\* However an apply fails, the sites it leaves are ones that nginx accepts,
\* unless the agent was killed on the way: an apply of one project cannot take
\* the others down.
THEOREM SitesAreValid == Spec => []SitesStayValid
<1>1. TypeInv /\ SiteInv => SitesStayValid
  BY DEF SitesStayValid, SiteInv, Clean, Swapped, AtRest
<1> QED
  BY <1>1, SitesHold, TypesHold, PTL

(***************************************************************************)
(* The records and the disk                                                *)
(***************************************************************************)

\* A step that neither applies nor withdraws anything, outside of an apply.
LEMMA RecordRests ==
    ASSUME RecordInv, ~Swapped, ~Swapped', UNCHANGED disk, lost \subseteq lost',
           \A c \in Config : status'[c] = "applied" => status[c] = "applied",
           agent.step # "done", agent'.step = "done" => ~agent'.ok
    PROVE  RecordInv'
BY DEF RecordInv, Served, disk

LEMMA RecordUntouched ==
    ASSUME RecordInv, UNCHANGED <<disk, agent>>, lost \subseteq lost',
           \A c \in Config : status'[c] = "applied" => status[c] = "applied"
    PROVE  RecordInv'
BY DEF RecordInv, Served, Swapped, Site, disk

LEMMA RecordGoesOn ==
    ASSUME RecordInv, Swapped, Swapped', UNCHANGED <<disk, lost, status>>,
           agent'.cfg = agent.cfg, agent'.found = agent.found
    PROVE  RecordInv'
BY DEF RecordInv, Served, Swapped, Site, disk

LEMMA RecordSwap == ASSUME TypeInv, RecordInv, Swap PROVE RecordInv'
<1>1. CASE agent' = Done(FALSE) /\ UNCHANGED file /\ Fails
  <2>1. /\ ~Swapped /\ ~Swapped' /\ lost' = lost /\ UNCHANGED <<disk, status>>
        /\ agent.step # "done" /\ ~agent'.ok
    BY <1>1 DEF Swap, Swapped, Done, Fails, TypeInv, TypeOK, disk, plane
  <2> QED
    BY <2>1, RecordRests
<1>2. CASE /\ agent' = [At("enable") EXCEPT !.found = file[Site]]
           /\ file' = [file EXCEPT ![Site] = agent.cfg]
           /\ Smooth
  <2>1. agent.cfg \in Config /\ Site \in Project
    BY SitesAssumption DEF Swap, TypeInv, TypeOK, AtWork, Site
  <2>2. /\ agent'.step = "enable" /\ agent'.cfg = agent.cfg /\ agent'.found = file[Site]
        /\ lost' = lost /\ enabled' = enabled /\ status' = status
    BY <1>2 DEF Swap, At, Smooth, TypeInv, TypeOK, plane
  <2>3. Site' = Site
    BY <2>2 DEF Site
  <2>4. \A p \in Project \ {Site} : file'[p] = file[p]
    BY <1>2, <2>1 DEF TypeInv, TypeOK
  <2>5. ~Swapped /\ Swapped' /\ agent.step # "done"
    BY <2>2 DEF Swap, Swapped
  <2>6. \A c \in Config : Owner[c] \in Project
    BY SitesAssumption
  <2> QED
    BY <2>2, <2>3, <2>4, <2>5, <2>6 DEF RecordInv, Served
<1> QED
  BY <1>1, <1>2 DEF Swap

LEMMA RecordEnable == ASSUME TypeInv, RecordInv, Enable PROVE RecordInv'
<1>1. Site \in Project
  BY SitesAssumption DEF Enable, TypeInv, TypeOK, AtWork, Site
<1>2. /\ agent'.step = "test" /\ agent'.cfg = agent.cfg /\ agent'.found = agent.found
      /\ lost' = lost /\ file' = file /\ status' = status
  BY DEF Enable, At, TypeInv, TypeOK, plane
<1>3. Site' = Site
  BY <1>2 DEF Site
<1>4. \A p \in Project \ {Site} : enabled'[p] = enabled[p]
  BY <1>1 DEF Enable, TypeInv, TypeOK
<1>5. Swapped /\ Swapped' /\ agent.step # "done"
  BY <1>2 DEF Enable, Swapped
<1>6. \A c \in Config : Owner[c] \in Project
  BY SitesAssumption
<1> QED
  BY <1>2, <1>3, <1>4, <1>5, <1>6 DEF RecordInv, Served

LEMMA RecordReload == ASSUME TypeInv, SiteInv, RecordInv, Reload PROVE RecordInv'
<1>1. PICK ok \in BOOLEAN : Asked(ok) /\ agent' = IF ok THEN Done(TRUE) ELSE At("restore")
  BY DEF Reload
<1>2. lost' = lost /\ UNCHANGED <<disk, status>> /\ Swapped /\ agent.step = "reload"
  BY <1>1, AskedKeeps DEF Reload, Swapped, plane
<1>3. CASE ~ok
  <2>1. Swapped' /\ agent'.cfg = agent.cfg /\ agent'.found = agent.found
    BY <1>1, <1>2, <1>3 DEF Swapped, At, TypeInv, TypeOK
  <2> QED
    BY <1>2, <2>1, RecordGoesOn
<1>4. CASE ok
  <2>1. agent'.step = "done" /\ agent'.ok /\ agent'.cfg = agent.cfg
    BY <1>1, <1>4 DEF Done, TypeInv, TypeOK
  <2>2. ~Swapped' /\ Site' = Site
    BY <2>1 DEF Swapped, Site
  <2>3. "crash" \notin lost => Served(agent.cfg)
    BY <1>2 DEF SiteInv, Served, Site
  <2> QED
    BY <1>2, <2>1, <2>2, <2>3 DEF RecordInv, Served, disk
<1> QED
  BY <1>3, <1>4

LEMMA RecordRestore == ASSUME TypeInv, RecordInv, Restore PROVE RecordInv'
<1>1. Site \in Project
  BY SitesAssumption DEF Restore, TypeInv, TypeOK, AtWork, Site
<1>2. /\ lost' = lost /\ status' = status /\ Swapped /\ ~Swapped'
      /\ agent.step # "done" /\ agent'.step # "done"
  BY DEF Restore, bounds, At, Swapped, TypeInv, TypeOK, plane
<1>3. file'[Site] = agent.found /\ \A p \in Project \ {Site} : file'[p] = file[p]
  BY <1>1 DEF Restore, TypeInv, TypeOK
<1>4. /\ enabled'[Site] <=> agent.found # None
      /\ \A p \in Project \ {Site} : enabled'[p] = enabled[p]
  BY <1>1 DEF Restore, TypeInv, TypeOK
<1>5. ASSUME lost \subseteq {"poll"}, NEW c \in Config, status[c] = "applied"
      PROVE  Served(c)'
  <2>1. c # None /\ Owner[c] \in Project
    BY SitesAssumption
  <2>2. CASE Owner[c] = Site
    BY <1>2, <1>3, <1>4, <1>5, <2>1, <2>2 DEF RecordInv, Served
  <2>3. CASE Owner[c] # Site
    BY <1>2, <1>3, <1>4, <1>5, <2>1, <2>3 DEF RecordInv, Served
  <2> QED
    BY <2>2, <2>3
<1> QED
  BY <1>2, <1>5 DEF RecordInv

LEMMA RecordResult == ASSUME TypeInv, RecordInv, Result PROVE RecordInv'
<1>1. /\ agent.cfg \in Config /\ agent.ok \in BOOLEAN /\ agent.step = "done"
      /\ agent'.step = "idle" /\ UNCHANGED disk
  BY DEF Result, Idle, TypeInv, TypeOK, AtWork
<1>2. ~Swapped /\ ~Swapped'
  BY <1>1 DEF Swapped
<1>3. CASE Loss("result")
  BY <1>3 DEF Loss, RecordInv
<1>4. CASE MarkApplied(agent.cfg, agent.ok) /\ Smooth
  <2>1. ASSUME lost \subseteq {"poll"}, NEW c \in Config, status'[c] = "applied"
        PROVE  Served(c)
    <3>1. CASE c = agent.cfg
      <4>1. agent.ok
        BY <1>4, <2>1, <3>1 DEF MarkApplied
      <4> QED
        BY <1>1, <2>1, <3>1, <4>1 DEF RecordInv
    <3>2. CASE c # agent.cfg
      <4>1. status[c] = "applied" /\ (agent.ok => Owner[c] # Site)
        BY <1>4, <2>1, <3>2 DEF MarkApplied, Site
      <4> QED
        BY <1>2, <2>1, <4>1 DEF RecordInv
    <3> QED
      BY <3>1, <3>2
  <2>2. lost' = lost
    BY <1>4 DEF Smooth
  <2> QED
    BY <1>1, <1>2, <2>1, <2>2 DEF RecordInv, Served, disk
<1> QED
  BY <1>3, <1>4 DEF Result

LEMMA RecordStep == TypeInv /\ SiteInv /\ RecordInv /\ [Next]_vars => RecordInv'
<1> SUFFICES ASSUME TypeInv, SiteInv, RecordInv, [Next]_vars PROVE RecordInv'
  OBVIOUS
<1>1. ASSUME NEW c \in Config, Insert(c) PROVE RecordInv'
  <2>1. \A d \in Config : status'[d] = "applied" => status[d] = "applied"
    BY <1>1 DEF Insert, TypeInv, TypeOK
  <2> QED
    BY <1>1, <2>1, RecordUntouched DEF Insert
<1>2. ASSUME NEW c \in Config, Validate(c) \/ Dispatch(c) \/ DispatchByFix(c)
      PROVE  RecordInv'
  BY <1>2, RecordUntouched DEF Validate, Dispatch, DispatchByFix, Enqueue, plane
<1>3. CASE Edit \/ OtherReload \/ UNCHANGED vars
  BY <1>3, RecordUntouched DEF Edit, OtherReload, vars, plane
<1>4. CASE Poll
  <2>1. agent'.step \in {"before", "idle"}
    BY <1>4, PollAgent
  <2>2. ~Swapped /\ ~Swapped' /\ agent.step # "done" /\ agent'.step # "done"
    BY <1>4, <2>1 DEF Poll, Swapped
  <2>3. UNCHANGED <<disk, status>> /\ lost \subseteq lost'
    BY <1>4 DEF Poll, Smooth, Loss, plane
  <2> QED
    BY <2>2, <2>3, RecordRests
<1>5. CASE Crash
  BY <1>5 DEF Crash, Loss, RecordInv
<1>6. CASE TestBefore
  <2>1. /\ ~Swapped /\ ~Swapped' /\ UNCHANGED <<disk, status>> /\ lost' = lost
        /\ agent.step # "done" /\ (agent'.step = "done" => ~agent'.ok)
    BY <1>6, AskedKeeps DEF TestBefore, Swapped, At, Done, TypeInv, TypeOK, plane
  <2> QED
    BY <2>1, RecordRests
<1>7. CASE Swap
  BY <1>7, RecordSwap
<1>8. CASE Enable
  BY <1>8, RecordEnable
<1>9. CASE TestAfter
  <2>1. /\ Swapped /\ Swapped' /\ agent'.cfg = agent.cfg /\ agent'.found = agent.found
        /\ UNCHANGED <<disk, lost, status>>
    BY <1>9, AskedKeeps DEF TestAfter, Swapped, At, TypeInv, TypeOK, plane
  <2> QED
    BY <2>1, RecordGoesOn
<1>10. CASE Reload
  BY <1>10, RecordReload
<1>11. CASE Restore
  BY <1>11, RecordRestore
<1>12. CASE TestAgain
  <2>1. /\ ~Swapped /\ ~Swapped' /\ UNCHANGED <<disk, status>> /\ lost' = lost
        /\ agent.step # "done" /\ ~agent'.ok
    BY <1>12, AskedKeeps DEF TestAgain, Swapped, Done, TypeInv, TypeOK, plane
  <2> QED
    BY <2>1, RecordRests
<1>13. CASE Result
  BY <1>13, RecordResult
<1> QED
  BY <1>1, <1>2, <1>3, <1>4, <1>5, <1>6, <1>7, <1>8, <1>9, <1>10, <1>11, <1>12, <1>13
     DEF Next, AgentStep

\* What the records say is applied is what the project's file holds, as long as
\* no result was lost and the agent was not killed.
THEOREM RecordsMatchDisk == Spec => []RecordMatchesDisk
<1>1. Init => RecordInv
  BY DEF Init, RecordInv, Idle
<1>2. TypeInv /\ RecordInv => RecordMatchesDisk
  BY DEF RecordMatchesDisk, RecordInv, Served, AtRest, Swapped
<1> QED
  BY <1>1, <1>2, RecordStep, SitesHold, TypesHold, PTL DEF Spec
=============================================================================
