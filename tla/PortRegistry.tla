---------------------------- MODULE PortRegistry ----------------------------
(***************************************************************************)
(* The port registry of one server: allocate, release, reserve and         *)
(* reconcile of ports.py as concurrent requests, each in a READ COMMITTED  *)
(* session of its own.  A row is never deleted: a released port keeps it,  *)
(* and only the insert of a first row meets the unique constraint.  A      *)
(* step is one query or one commit, so every request may act on rows that  *)
(* others have changed since it read them.                                 *)
(***************************************************************************)
EXTENDS Naturals, FiniteSets

CONSTANTS
    Port,       \* the server's range without the RESERVED ports
    Request,    \* calls of allocate
    Project, NoProject,
    Owner,      \* [Request -> Project \union {NoProject}], the project_id given
    Deploys,    \* requests of start_deployment: their Deployment row is flushed, not committed
    Attempts,   \* how many candidates allocate tries (50 in the code)
    MayRelease, \* whether operators release ports
    Foreign     \* the ports the agent may find in use on the host

ASSUME RegistryAssumption ==
    /\ Port \subseteq Nat /\ IsFiniteSet(Port) /\ 0 \notin Port
    /\ NoProject \notin Project
    /\ Owner \in [Request -> Project \union {NoProject}]
    /\ Deploys \subseteq Request
    /\ Attempts \in Nat \ {0}
    /\ MayRelease \in BOOLEAN /\ Foreign \subseteq Port

NoPort == 0
Status == {"none", "allocated", "released", "reserved"}
Row == [status : Status, project : Project \union {NoProject}]
NoRow == [status |-> "none", project |-> NoProject]
Phase == {"new", "reuse", "scan", "try", "revive", "insert", "granted", "refused", "error"}

VARIABLES
    row,        \* [Port -> Row], the port_allocations of the server
    phase,      \* how far a request has come
    at, todo,   \* the candidate it tries, and those after it
    loaded,     \* the row it has loaded and is about to revive
    tries,      \* candidates it has tried in vain
    stray,      \* deployments whose flushed row a rollback has undone
    releasing,  \* ports whose release has loaded an allocated row
    adopting,   \* untracked ports reconcile is about to reserve
    adoptee,    \* the port it has looked up, and whether it found a row
    freed,      \* history: ports a release has ever given back
    holds,      \* history: <<q, p>>, q was answered p, and p was not released since
    seenBusy    \* history: [Request -> ports found taken while it ran]

requestVars == <<phase, at, todo, loaded, tries, stray>>
scanVars == <<adopting, adoptee>>
releaseVars == <<releasing, freed>>
vars == <<row, requestVars, releaseVars, scanVars, holds, seenBusy>>

Active(r) == {p \in Port : r[p].status \in {"allocated", "reserved"}}
Running == {q \in Request : phase[q] \in {"scan", "try", "revive", "insert"}}
Lowest(S) == CHOOSE p \in S : \A x \in S : p <= x
NoAdoptee == [port |-> NoPort, row |-> NoRow]

Init ==
    /\ row = [p \in Port |-> NoRow]
    /\ phase = [q \in Request |-> "new"]
    /\ at = [q \in Request |-> NoPort]
    /\ todo = [q \in Request |-> {}]
    /\ loaded = [q \in Request |-> NoRow]
    /\ tries = [q \in Request |-> 0]
    /\ stray = {}
    /\ releasing = {} /\ freed = {}
    /\ adopting = {} /\ adoptee = NoAdoptee
    /\ holds = {}
    /\ seenBusy = [q \in Request |-> {}]

\* The history every step keeps: what was taken while a request ran.
Observe == seenBusy' = [q \in Request |->
                          IF q \in Running THEN seenBusy[q] \union Active(row) ELSE seenBusy[q]]

-----------------------------------------------------------------------------
(* allocate *)

Own(q) == {p \in Port : /\ row[p].status = "allocated"
                        /\ row[p].project = Owner[q] /\ Owner[q] # NoProject}

Answer(q, p) ==
    /\ phase' = [phase EXCEPT ![q] = "granted"]
    /\ at' = [at EXCEPT ![q] = p]
    /\ todo' = [todo EXCEPT ![q] = {}]
    /\ loaded' = [loaded EXCEPT ![q] = NoRow]
    /\ holds' = holds \union {<<q, p>>}

\* A project that has an allocated port gets it again ...
Find(q) ==
    /\ phase[q] = "new"
    /\ phase' = [phase EXCEPT ![q] = "reuse"]
    /\ \E p \in Own(q) : at' = [at EXCEPT ![q] = p]
    /\ UNCHANGED <<row, todo, loaded, tries, stray, releaseVars, scanVars, holds>>
    /\ Observe

\* ... by a commit that writes the deployment into the row, and no status.
Reuse(q) ==
    /\ phase[q] = "reuse"
    /\ Answer(q, at[q])
    /\ UNCHANGED <<row, tries, stray, releaseVars, scanVars>>
    /\ Observe

Miss(q) ==
    /\ phase[q] = "new"
    /\ Own(q) = {}
    /\ phase' = [phase EXCEPT ![q] = "scan"]
    /\ UNCHANGED <<row, at, todo, loaded, tries, stray, releaseVars, scanVars, holds>>
    /\ Observe

\* The candidate list: the free ports in ascending order, and before them, once
\* more, the port an operator's request prefers.
Scan(q) ==
    /\ phase[q] = "scan"
    /\ LET free == Port \ Active(row) IN
         \/ /\ free = {}
            /\ phase' = [phase EXCEPT ![q] = "refused"]
            /\ UNCHANGED <<at, todo>>
         \/ /\ free # {}
            /\ phase' = [phase EXCEPT ![q] = "try"]
            /\ \/ /\ at' = [at EXCEPT ![q] = Lowest(free)]
                  /\ todo' = [todo EXCEPT ![q] = free \ {Lowest(free)}]
               \/ /\ q \notin Deploys
                  /\ \E p \in free : at' = [at EXCEPT ![q] = p]
                  /\ todo' = [todo EXCEPT ![q] = free]
    /\ UNCHANGED <<row, loaded, tries, stray, releaseVars, scanVars, holds>>
    /\ Observe

\* Mutants: one attempt too many; one too few.
ExhaustedLate(q) == todo[q] = {} \/ tries[q] + 1 > Attempts
ExhaustedEarly(q) == todo[q] = {} \/ tries[q] + 2 >= Attempts

Exhausted(q) == todo[q] = {} \/ tries[q] + 1 >= Attempts

\* On to the next candidate, as far as there are any and allocate looks.
TryNext(q) ==
    /\ tries' = [tries EXCEPT ![q] = @ + 1]
    /\ loaded' = [loaded EXCEPT ![q] = NoRow]
    /\ IF Exhausted(q)
       THEN /\ phase' = [phase EXCEPT ![q] = "refused"]
            /\ at' = [at EXCEPT ![q] = NoPort]
            /\ todo' = [todo EXCEPT ![q] = {}]
       ELSE /\ phase' = [phase EXCEPT ![q] = "try"]
            /\ at' = [at EXCEPT ![q] = Lowest(todo[q])]
            /\ todo' = [todo EXCEPT ![q] = @ \ {Lowest(@)}]

\* The query for the candidate's row decides between revival and insertion.
Look(q) ==
    /\ phase[q] = "try"
    /\ LET r == row[at[q]] IN
         \/ /\ r.status = "released"
            /\ phase' = [phase EXCEPT ![q] = "revive"]
            /\ loaded' = [loaded EXCEPT ![q] = r]
            /\ UNCHANGED <<at, todo, tries>>
         \/ /\ r.status = "none"
            /\ phase' = [phase EXCEPT ![q] = "insert"]
            /\ UNCHANGED <<at, todo, tries, loaded>>
         \/ /\ r.status \in {"allocated", "reserved"}
            /\ TryNext(q)
    /\ UNCHANGED <<row, stray, releaseVars, scanVars, holds>>
    /\ Observe

\* The revival updates the row by its key, whatever it says by now; a project
\* equal to the loaded one is not written.
Revive(q) ==
    /\ phase[q] = "revive" /\ q \notin stray
    /\ row' = [row EXCEPT ![at[q]] =
                 [status |-> "allocated",
                  project |-> IF loaded[q].project = Owner[q] THEN @.project ELSE Owner[q]]]
    /\ Answer(q, at[q])
    /\ UNCHANGED <<tries, stray, releaseVars, scanVars>>
    /\ Observe

\* Mutant: the unique constraint includes the project.
KeyFreeForProject(q) == row[at[q]].status = "none" \/ row[at[q]].project # Owner[q]

\* The unique constraint is on the server and the port.
KeyFree(q) == row[at[q]].status = "none"

Insert(q) ==
    /\ phase[q] = "insert" /\ q \notin stray
    /\ KeyFree(q)
    /\ row' = [row EXCEPT ![at[q]] = [status |-> "allocated", project |-> Owner[q]]]
    /\ Answer(q, at[q])
    /\ UNCHANGED <<tries, stray, releaseVars, scanVars>>
    /\ Observe

\* The insert breaks a constraint: the port has got a row meanwhile, or the
\* deployment it names is not in the database any more.  The rollback undoes
\* all the session has flushed, the new deployment included.
InsertFails(q) ==
    /\ phase[q] = "insert"
    /\ ~KeyFree(q) \/ q \in stray
    /\ stray' = IF q \in Deploys THEN stray \union {q} ELSE stray
    /\ TryNext(q)
    /\ UNCHANGED <<row, releaseVars, scanVars, holds>>
    /\ Observe

\* A revival that names a deployment no longer there breaks the foreign key,
\* and nothing catches that.
ReviveFails(q) ==
    /\ phase[q] = "revive" /\ q \in stray
    /\ phase' = [phase EXCEPT ![q] = "error"]
    /\ UNCHANGED <<row, at, todo, loaded, tries, stray, releaseVars, scanVars, holds>>
    /\ Observe

-----------------------------------------------------------------------------
(* release, reserve and reconcile *)

\* release loads an allocated row ...
Release(p) ==
    /\ MayRelease
    /\ row[p].status = "allocated"
    /\ releasing' = releasing \union {p}
    /\ UNCHANGED <<row, requestVars, freed, scanVars, holds>>
    /\ Observe

\* ... and updates it by its key.
ReleaseCommit(p) ==
    /\ p \in releasing
    /\ releasing' = releasing \ {p}
    /\ freed' = freed \union {p}
    /\ row' = [row EXCEPT ![p].status = "released"]
    /\ holds' = {h \in holds : h[2] # p}
    /\ UNCHANGED <<requestVars, scanVars>>
    /\ Observe

\* reconcile compares the ports in use on the host with the active rows.
Reconcile ==
    /\ adopting = {} /\ adoptee = NoAdoptee
    /\ \E observed \in SUBSET Foreign : adopting' = observed \ Active(row)
    /\ UNCHANGED <<row, requestVars, releaseVars, adoptee, holds>>
    /\ Observe

\* reserve looks for a row of the port, in any status ...
Adopt(p) ==
    /\ p \in adopting /\ adoptee = NoAdoptee
    /\ adopting' = adopting \ {p}
    /\ adoptee' = [port |-> p, row |-> row[p]]
    /\ UNCHANGED <<row, requestVars, releaseVars, holds>>
    /\ Observe

\* Mutant: the adopted row forgets its project.
AdoptedAfresh(r) == [status |-> "reserved", project |-> NoProject]

Adopted(r) == [r EXCEPT !.status = "reserved"]

\* ... and updates or inserts it; an insert that comes too late ends the
\* heartbeat with an error.
AdoptCommit ==
    /\ adoptee # NoAdoptee
    /\ LET p == adoptee.port IN
         \/ /\ adoptee.row.status # "none"
            /\ row' = IF adoptee.row.status = "reserved" THEN row
                      ELSE [row EXCEPT ![p] = Adopted(@)]
            /\ UNCHANGED adopting
         \/ /\ adoptee.row.status = "none" /\ row[p].status = "none"
            /\ row' = [row EXCEPT ![p] = Adopted(@)]
            /\ UNCHANGED adopting
         \/ /\ adoptee.row.status = "none" /\ row[p].status # "none"
            /\ adopting' = {}
            /\ UNCHANGED row
    /\ adoptee' = NoAdoptee
    /\ UNCHANGED <<requestVars, releaseVars, holds>>
    /\ Observe

-----------------------------------------------------------------------------
Allocate(q) ==
    \/ Find(q) \/ Reuse(q) \/ Miss(q) \/ Scan(q) \/ Look(q)
    \/ Revive(q) \/ Insert(q) \/ InsertFails(q) \/ ReviveFails(q)

Next ==
    \/ \E q \in Request : Allocate(q)
    \/ \E p \in Port : Release(p) \/ ReleaseCommit(p) \/ Adopt(p)
    \/ Reconcile \/ AdoptCommit

Spec == Init /\ [][Next]_vars

-----------------------------------------------------------------------------
(* Properties *)

\* Every variable stays in its domain.
TypeOK ==
    /\ row \in [Port -> Row]
    /\ phase \in [Request -> Phase]
    /\ at \in [Request -> Port \union {NoPort}]
    /\ todo \in [Request -> SUBSET Port]
    /\ loaded \in [Request -> Row]
    /\ tries \in [Request -> 0..Attempts]
    /\ stray \subseteq Deploys
    /\ releasing \subseteq Port /\ freed \subseteq Port
    /\ adopting \subseteq Port
    /\ adoptee \in [port : Port \union {NoPort}, row : Row]
    /\ holds \subseteq Request \X Port
    /\ seenBusy \in [Request -> SUBSET Port]

Conflict(g, h) == /\ g[2] = h[2] /\ g[1] # h[1]
                  /\ Owner[g[1]] # Owner[h[1]] \/ Owner[g[1]] = NoProject

\* "Two deployments racing on the same server cannot be handed the same port":
\* requests that hold one port are requests of one project.
GrantsAreExclusive == \A g, h \in holds : ~Conflict(g, h)

\* The same as long as nobody has ever released the port.
FreshGrantsAreExclusive == \A g, h \in holds : g[2] \notin freed => ~Conflict(g, h)

\* Who was answered a port that nobody has released since finds it on record in
\* its own name and out of the pool, whatever was adopted, rolled back or
\* released elsewhere in the meantime.
GrantsAreOnRecord ==
    \A h \in holds : h[2] \notin freed => /\ h[2] \in Active(row)
                                         /\ row[h[2]].project = Owner[h[1]]

\* A request is refused only when each port was taken at some time while it
\* ran, or as many as it tries, of which it may try the preferred one twice:
\* losing races is no reason.  A deployment whose own row a rollback has undone
\* is refused for that reason alone, and is left out.
RefusalIsJustified ==
    \A q \in Request \ stray : phase[q] = "refused" =>
        Port \subseteq seenBusy[q] \/ Cardinality(seenBusy[q]) + 1 >= Attempts

-----------------------------------------------------------------------------
(* Inductive strengthenings, used by PortProofs *)

\* A request that looks at a candidate has one, and may still try one.
Progress ==
    \A q \in Request :
        /\ phase[q] \in {"reuse", "try", "revive", "insert"} => at[q] \in Port
        /\ phase[q] \in {"new", "scan", "try", "revive", "insert"} => tries[q] < Attempts

\* Only a released port is up for revival, and a row that is about to be used
\* again stays with its project until its port is released.
FreshRows ==
    /\ \A p \in Port : row[p].status = "released" => p \in freed
    /\ \A q \in Request : phase[q] = "revive" => at[q] \in freed
    /\ \A q \in Request : (phase[q] = "reuse" /\ at[q] \notin freed) =>
         /\ at[q] \in Active(row)
         /\ row[at[q]].project = Owner[q]
         /\ Owner[q] # NoProject

GrantInv == FreshRows /\ GrantsAreOnRecord /\ FreshGrantsAreExclusive

\* Nobody releases a port without a row.
ReleasingRows == \A p \in releasing : row[p].status # "none"

Candidates(q) == {at[q]} \union todo[q]

\* What a request has given up on was taken while it ran: the ports it does not
\* try any more are, but for the preferred one, as many as it has tried in vain.
Search(q) ==
    /\ phase[q] \in {"new", "scan"} => tries[q] = 0
    /\ phase[q] \in {"try", "revive", "insert"} =>
         /\ Port \ Candidates(q) \subseteq seenBusy[q]
         /\ at[q] \in todo[q] => tries[q] = 0
         /\ tries[q] <= Cardinality(seenBusy[q] \ Candidates(q)) + 1
    /\ (phase[q] = "insert" /\ row[at[q]].status = "released") => at[q] \in seenBusy[q]
    /\ phase[q] = "refused" =>
         Port \subseteq seenBusy[q] \/ Cardinality(seenBusy[q]) + 1 >= Attempts

SearchInv == ReleasingRows /\ \A q \in Request \ stray : Search(q)
=============================================================================
