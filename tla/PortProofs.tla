----------------------------- MODULE PortProofs -----------------------------
(***************************************************************************)
(* Proofs about PortRegistry for any range of ports and any requests.      *)
(***************************************************************************)
EXTENDS PortRegistry, FiniteSetTheorems, WellFoundedInduction, TLAPS

(***************************************************************************)
(* Types                                                                   *)
(***************************************************************************)

\* The next candidate of a request is one of those left.
LEMMA LowestIsMember == ASSUME NEW S \in SUBSET Port, S # {} PROVE Lowest(S) \in S
<1> DEFINE R == OpToRel(<, Nat)
<1>1. S \subseteq Nat
  BY RegistryAssumption
<1>2. \A x, y \in Nat : y < x => <<y, x>> \in R
  BY DEF OpToRel
<1>3. IsWellFoundedOn(R, Nat)
  BY NatLessThanWellFounded DEF OpToRel
<1> HIDE DEF R
<1>4. PICK x \in S : \A y \in S : <<y, x>> \notin R
  BY <1>1, <1>3, WFMin
<1>5. ASSUME NEW y \in S PROVE x <= y
  <2>1. x \in Nat /\ y \in Nat
    BY <1>1
  <2>2. ~(y < x)
    BY <2>1, <1>2, <1>4
  <2> QED
    BY <2>1, <2>2
<1> QED
  BY <1>5 DEF Lowest

TypeInv == TypeOK /\ Progress

\* What every step keeps of the history and of the helpers.
LEMMA ObserveType == ASSUME TypeOK, Observe PROVE seenBusy' \in [Request -> SUBSET Port]
<1>1. Active(row) \subseteq Port
  BY DEF Active
<1> QED
  BY <1>1 DEF TypeOK, Observe

LEMMA AnswerType ==
    ASSUME TypeInv, NEW q \in Request, NEW p \in Port, Answer(q, p)
    PROVE  /\ phase' \in [Request -> Phase]
           /\ at' \in [Request -> Port \union {NoPort}]
           /\ todo' \in [Request -> SUBSET Port]
           /\ loaded' \in [Request -> Row]
           /\ holds' \subseteq Request \X Port
           /\ tries' = tries => Progress'
<1>1. NoRow \in Row
  BY DEF NoRow, Row, Status
<1> QED
  BY <1>1 DEF TypeInv, TypeOK, Progress, Answer, Phase

LEMMA TryNextType ==
    ASSUME TypeInv, NEW q \in Request, TryNext(q), tries[q] < Attempts
    PROVE  /\ phase' \in [Request -> Phase]
           /\ at' \in [Request -> Port \union {NoPort}]
           /\ todo' \in [Request -> SUBSET Port]
           /\ loaded' \in [Request -> Row]
           /\ tries' \in [Request -> 0..Attempts]
           /\ Progress'
<1>1. NoRow \in Row
  BY DEF NoRow, Row, Status
<1>2. Attempts \in Nat /\ tries[q] + 1 \in 0..Attempts
  BY RegistryAssumption DEF TypeInv, TypeOK
<1>3. tries' = [tries EXCEPT ![q] = @ + 1] /\ loaded' = [loaded EXCEPT ![q] = NoRow]
  BY DEF TryNext
<1>4. tries' \in [Request -> 0..Attempts] /\ loaded' \in [Request -> Row]
  BY <1>1, <1>2, <1>3 DEF TypeInv, TypeOK
<1>5. CASE Exhausted(q)
  BY <1>2, <1>3, <1>4, <1>5 DEF TryNext, TypeInv, TypeOK, Progress, Phase
<1>6. CASE ~Exhausted(q)
  <2>1. todo[q] \in SUBSET Port /\ todo[q] # {} /\ tries[q] + 1 < Attempts
    BY <1>2, <1>6 DEF Exhausted, TypeInv, TypeOK
  <2>2. Lowest(todo[q]) \in Port
    BY <2>1, LowestIsMember
  <2>3. /\ phase' = [phase EXCEPT ![q] = "try"]
        /\ at' = [at EXCEPT ![q] = Lowest(todo[q])]
        /\ todo' = [todo EXCEPT ![q] = @ \ {Lowest(@)}]
    BY <1>6 DEF TryNext
  <2> QED
    BY <1>2, <1>3, <1>4, <2>1, <2>2, <2>3 DEF TypeInv, TypeOK, Progress, Phase
<1> QED
  BY <1>5, <1>6

LEMMA AllocateTypes ==
    ASSUME TypeInv, NEW q \in Request, Allocate(q)
    PROVE  TypeInv'
<1> USE ObserveType DEF TypeInv
<1>1. CASE Find(q)
  BY <1>1 DEF Find, Own, TypeOK, Progress, Phase, scanVars, releaseVars
<1>2. CASE Reuse(q)
  <2>1. at[q] \in Port
    BY <1>2 DEF Reuse, Progress
  <2> QED
    BY <1>2, <2>1, AnswerType DEF Reuse, TypeOK, scanVars, releaseVars
<1>3. CASE Miss(q)
  BY <1>3 DEF Miss, TypeOK, Progress, Phase, scanVars, releaseVars
<1>4. CASE Scan(q)
  <2> DEFINE free == Port \ Active(row)
  <2>1. CASE free = {} /\ phase' = [phase EXCEPT ![q] = "refused"] /\ UNCHANGED <<at, todo>>
    BY <1>4, <2>1 DEF Scan, TypeOK, Progress, Phase, scanVars, releaseVars
  <2>2. CASE /\ free # {}
             /\ phase' = [phase EXCEPT ![q] = "try"]
             /\ \E p \in free, rest \in SUBSET Port :
                  at' = [at EXCEPT ![q] = p] /\ todo' = [todo EXCEPT ![q] = rest]
    BY <1>4, <2>2 DEF Scan, TypeOK, Progress, Phase, scanVars, releaseVars
  <2>3. free # {} => Lowest(free) \in free
    BY LowestIsMember
  <2> HIDE DEF free
  <2>4. free \subseteq Port
    BY DEF free
  <2> QED
    BY <1>4, <2>1, <2>2, <2>3, <2>4 DEF Scan, free
<1>5. CASE Look(q)
  <2>1. tries[q] < Attempts /\ at[q] \in Port
    BY <1>5 DEF Look, Progress
  <2>2. row[at[q]] \in Row
    BY <2>1 DEF TypeOK, releaseVars
  <2>3. CASE TryNext(q)
    BY <1>5, <2>1, <2>3, TryNextType DEF Look, TypeOK, scanVars, releaseVars
  <2>4. CASE /\ phase' \in {[phase EXCEPT ![q] = "revive"], [phase EXCEPT ![q] = "insert"]}
             /\ loaded' \in {loaded, [loaded EXCEPT ![q] = row[at[q]]]}
             /\ UNCHANGED <<at, todo, tries>>
    BY <1>5, <2>1, <2>2, <2>4 DEF Look, TypeOK, Progress, Phase, scanVars, releaseVars
  <2> QED
    BY <1>5, <2>3, <2>4 DEF Look
<1>6. CASE Revive(q) \/ Insert(q)
  <2>1. at[q] \in Port /\ Answer(q, at[q]) /\ tries' = tries
    BY <1>6 DEF Revive, Insert, Progress
  <2>2. Owner[q] \in Project \union {NoProject}
    BY RegistryAssumption
  <2>3. \A j \in Project \union {NoProject} : [status |-> "allocated", project |-> j] \in Row
    BY DEF Row, Status
  <2>4. row[at[q]].project \in Project \union {NoProject}
    BY <2>1 DEF TypeOK, Row, releaseVars
  <2>5. \E j \in Project \union {NoProject} :
          row' = [row EXCEPT ![at[q]] = [status |-> "allocated", project |-> j]]
    BY <1>6, <2>2, <2>4 DEF Revive, Insert
  <2>6. row' \in [Port -> Row]
    BY <2>1, <2>3, <2>5 DEF TypeOK, releaseVars
  <2> QED
    BY <1>6, <2>1, <2>6, AnswerType DEF Revive, Insert, TypeOK, scanVars, releaseVars
<1>7. CASE InsertFails(q)
  <2>1. tries[q] < Attempts /\ TryNext(q)
    BY <1>7 DEF InsertFails, Progress
  <2> QED
    BY <1>7, <2>1, TryNextType DEF InsertFails, TypeOK, scanVars, releaseVars
<1>8. CASE ReviveFails(q)
  BY <1>8 DEF ReviveFails, TypeOK, Progress, Phase, scanVars, releaseVars
<1> QED
  BY <1>1, <1>2, <1>3, <1>4, <1>5, <1>6, <1>7, <1>8 DEF Allocate

LEMMA TypeStep == TypeInv /\ [Next]_vars => TypeInv'
<1> SUFFICES ASSUME TypeInv, [Next]_vars PROVE TypeInv'
  OBVIOUS
<1> USE ObserveType DEF TypeInv
<1>1. ASSUME NEW q \in Request, Allocate(q) PROVE TypeInv'
  BY <1>1, AllocateTypes
<1>2. ASSUME NEW p \in Port, Release(p) PROVE TypeInv'
  BY <1>2 DEF Release, TypeOK, Progress, requestVars, scanVars, releaseVars
<1>3. ASSUME NEW p \in Port, ReleaseCommit(p) PROVE TypeInv'
  <2>1. row' \in [Port -> Row]
    BY <1>3 DEF ReleaseCommit, TypeOK, Row, Status, releaseVars
  <2> QED
    BY <1>3, <2>1 DEF ReleaseCommit, TypeOK, Progress, requestVars, scanVars, releaseVars
<1>4. ASSUME NEW p \in Port, Adopt(p) PROVE TypeInv'
  BY <1>4 DEF Adopt, TypeOK, Progress, requestVars, releaseVars
<1>5. CASE Reconcile
  BY <1>5, RegistryAssumption DEF Reconcile, TypeOK, Progress, requestVars, releaseVars
<1>6. CASE AdoptCommit
  <2>1. NoAdoptee \in [port : Port \union {NoPort}, row : Row]
    BY DEF NoAdoptee, NoRow, Row, Status
  <2>2. \A r \in Row : Adopted(r) \in Row
    BY DEF Adopted, Row, Status
  <2>3. row' \in [Port -> Row]
    BY <1>6, <2>2 DEF AdoptCommit, TypeOK, releaseVars
  <2>4. adopting' \subseteq Port
    BY <1>6 DEF AdoptCommit, TypeOK, releaseVars
  <2> QED
    BY <1>6, <2>1, <2>3, <2>4 DEF AdoptCommit, TypeOK, Progress, requestVars, releaseVars
<1>7. CASE UNCHANGED vars
  BY <1>7 DEF vars, requestVars, scanVars, TypeOK, Progress, releaseVars
<1> QED
  BY <1>1, <1>2, <1>3, <1>4, <1>5, <1>6, <1>7 DEF Next

LEMMA TypeInit == Init => TypeInv
<1>1. NoRow \in Row
  BY DEF NoRow, Row, Status
<1>2. Attempts \in Nat /\ 0 < Attempts
  BY RegistryAssumption
<1> QED
  BY <1>1, <1>2 DEF Init, TypeInv, TypeOK, Progress, Phase, NoAdoptee

\* Every variable stays in its domain: allocate tries at most Attempts
\* candidates, and only ports of the server.
THEOREM TypeCorrect == Spec => []TypeOK
<1>1. TypeInv => TypeOK
  BY DEF TypeInv
<1> QED
  BY <1>1, TypeInit, TypeStep, PTL DEF Spec

(***************************************************************************)
(* Grants, as long as the port has not been released                       *)
(***************************************************************************)

grantState == <<row, phase, at, freed, holds>>

LEMMA GrantUntouched == GrantInv /\ UNCHANGED grantState => GrantInv'
BY DEF GrantInv, FreshRows, GrantsAreOnRecord, FreshGrantsAreExclusive, Conflict, Active, grantState

\* A step that leaves rows and grants alone and moves a request elsewhere.
LEMMA GrantMove ==
    ASSUME GrantInv, TypeInv, NEW q \in Request, NEW ph \in Phase \ {"reuse", "revive"},
           phase' = [phase EXCEPT ![q] = ph],
           \A r \in Request \ {q} : at'[r] = at[r],
           UNCHANGED <<row, freed, holds>>
    PROVE  GrantInv'
<1>1. FreshRows'
  BY DEF GrantInv, FreshRows, Active, TypeInv, TypeOK
<1>2. GrantsAreOnRecord' /\ FreshGrantsAreExclusive'
  BY DEF GrantInv, GrantsAreOnRecord, FreshGrantsAreExclusive, Conflict, Active
<1> QED
  BY <1>1, <1>2 DEF GrantInv

\* A request of its project is answered a port that the project holds on record,
\* or one that has been released meanwhile.
LEMMA GrantReuse ==
    ASSUME GrantInv, TypeInv, NEW q \in Request, Reuse(q)
    PROVE  GrantInv'
<1>1. /\ at[q] \in Port
      /\ at[q] \notin freed => /\ at[q] \in Active(row)
                               /\ row[at[q]].project = Owner[q] /\ Owner[q] # NoProject
  BY DEF Reuse, GrantInv, FreshRows, TypeInv, Progress
<1>2. holds' = holds \union {<<q, at[q]>>} /\ row' = row /\ freed' = freed
  BY DEF Reuse, Answer, releaseVars
<1>3. FreshRows'
  BY DEF GrantInv, FreshRows, Active, TypeInv, TypeOK, Reuse, Answer, releaseVars
<1>4. GrantsAreOnRecord'
  BY <1>1, <1>2 DEF GrantInv, GrantsAreOnRecord, Active
<1>5. FreshGrantsAreExclusive'
  BY <1>1, <1>2 DEF GrantInv, GrantsAreOnRecord, FreshGrantsAreExclusive, Conflict, Active
<1> QED
  BY <1>3, <1>4, <1>5 DEF GrantInv

\* The row of one port is written as allocated to a request that is answered it,
\* and nobody holds the port unless it has been released before.
LEMMA GrantWrite ==
    ASSUME GrantInv, TypeInv, NEW q \in Request, NEW p \in Port, NEW o,
           row' = [row EXCEPT ![p] = [status |-> "allocated", project |-> o]],
           p \notin freed => o = Owner[q] /\ \A h \in holds : h[2] # p,
           p \notin freed => row[p].status = "none",
           Answer(q, p), freed' = freed
    PROVE  GrantInv'
<1>1. holds' = holds \union {<<q, p>>}
  BY DEF Answer
<1>2. row'[p].status = "allocated" /\ row'[p].project = o
  BY DEF TypeInv, TypeOK
<1>3. \A x \in Port \ {p} : row'[x] = row[x]
  BY DEF TypeInv, TypeOK
<1>4. Active(row) \subseteq Active(row') /\ p \in Active(row')
  BY <1>2, <1>3 DEF Active
<1>5. FreshRows'
  <2>1. phase' = [phase EXCEPT ![q] = "granted"] /\ at' = [at EXCEPT ![q] = p]
    BY DEF Answer
  <2>2. \A r \in Request : phase'[r] \in {"reuse", "revive"} =>
          r # q /\ phase[r] = phase'[r] /\ at'[r] = at[r]
    BY <2>1 DEF TypeInv, TypeOK
  <2>3. \A r \in Request : (phase'[r] = "reuse" /\ at'[r] \notin freed) =>
          /\ at'[r] \in Active(row) /\ at'[r] # p
          /\ row[at'[r]].project = Owner[r] /\ Owner[r] # NoProject
    BY <2>2 DEF GrantInv, FreshRows, Active
  <2>4. \A r \in Request : (phase'[r] = "reuse" /\ at'[r] \notin freed) =>
          at'[r] \in Active(row') /\ row'[at'[r]].project = Owner[r] /\ Owner[r] # NoProject
    BY <1>3, <1>4, <2>3 DEF Active
  <2>5. \A x \in Port : row'[x].status = "released" => x \in freed
    BY <1>2, <1>3 DEF GrantInv, FreshRows
  <2>6. \A r \in Request : phase'[r] = "revive" => at'[r] \in freed
    BY <2>2 DEF GrantInv, FreshRows
  <2> QED
    BY <2>4, <2>5, <2>6 DEF FreshRows
<1>6. GrantsAreOnRecord'
  BY <1>1, <1>2, <1>3, <1>4 DEF GrantInv, GrantsAreOnRecord, Active
<1>7. FreshGrantsAreExclusive'
  BY <1>1 DEF GrantInv, FreshGrantsAreExclusive, Conflict
<1> QED
  BY <1>5, <1>6, <1>7 DEF GrantInv

\* The first row of a port has no grant before it.
LEMMA GrantInsert ==
    ASSUME GrantInv, TypeInv, NEW q \in Request, Insert(q)
    PROVE  GrantInv'
<1>1. at[q] \in Port /\ row[at[q]].status = "none"
  BY DEF Insert, KeyFree, TypeInv, Progress
<1>2. at[q] \notin freed => \A h \in holds : h[2] # at[q]
  BY <1>1 DEF GrantInv, GrantsAreOnRecord, Active
<1> QED
  BY <1>1, <1>2, GrantWrite DEF Insert, releaseVars

\* A revival concerns a released port.
LEMMA GrantRevive ==
    ASSUME GrantInv, TypeInv, NEW q \in Request, Revive(q)
    PROVE  GrantInv'
<1>1. at[q] \in Port /\ at[q] \in freed
  BY DEF Revive, TypeInv, Progress, GrantInv, FreshRows
<1> DEFINE o == IF loaded[q].project = Owner[q] THEN row[at[q]].project ELSE Owner[q]
<1>2. row' = [row EXCEPT ![at[q]] = [status |-> "allocated", project |-> o]]
  BY DEF Revive
<1> HIDE DEF o
<1> QED
  BY <1>1, <1>2, GrantWrite DEF Revive, releaseVars

\* A release makes the port's grants history.
LEMMA GrantRelease ==
    ASSUME GrantInv, TypeInv, NEW p \in Port, ReleaseCommit(p)
    PROVE  GrantInv'
<1>1. /\ freed' = freed \union {p} /\ holds' \subseteq holds
      /\ UNCHANGED <<phase, at>>
  BY DEF ReleaseCommit, requestVars
<1>2. \A x \in Port \ {p} : row'[x] = row[x]
  BY DEF ReleaseCommit, TypeInv, TypeOK
<1>3. Active(row) \ {p} \subseteq Active(row')
  BY <1>2 DEF Active
<1>4. FreshRows'
  BY <1>1, <1>2, <1>3 DEF GrantInv, FreshRows, Active
<1>5. GrantsAreOnRecord' /\ FreshGrantsAreExclusive'
  BY <1>1, <1>2, <1>3 DEF GrantInv, GrantsAreOnRecord, FreshGrantsAreExclusive, Conflict, Active
<1> QED
  BY <1>4, <1>5 DEF GrantInv

\* Adoption keeps the project of a row and takes no port out of use.
LEMMA GrantAdopt ==
    ASSUME GrantInv, TypeInv, AdoptCommit
    PROVE  GrantInv'
<1> DEFINE p == adoptee.port
<1>1. row' \in {row, [row EXCEPT ![p] = Adopted(@)]}
  BY DEF AdoptCommit
<1>2. \A x \in Port : /\ row'[x].project = row[x].project
                      /\ row'[x].status \in {row[x].status, "reserved"}
  BY <1>1 DEF Adopted, TypeInv, TypeOK, Row
<1>3. UNCHANGED <<phase, at, freed, holds>>
  BY DEF AdoptCommit, requestVars, releaseVars
<1>4. Active(row) \subseteq Active(row')
  BY <1>2 DEF Active
<1>5. FreshRows'
  BY <1>2, <1>3, <1>4 DEF GrantInv, FreshRows, Active
<1>6. GrantsAreOnRecord' /\ FreshGrantsAreExclusive'
  BY <1>2, <1>3, <1>4 DEF GrantInv, GrantsAreOnRecord, FreshGrantsAreExclusive, Conflict, Active
<1> QED
  BY <1>5, <1>6 DEF GrantInv

LEMMA GrantStep == GrantInv /\ TypeInv /\ [Next]_vars => GrantInv'
<1> SUFFICES ASSUME GrantInv, TypeInv, [Next]_vars PROVE GrantInv'
  OBVIOUS
<1>1. ASSUME NEW q \in Request, Find(q) PROVE GrantInv'
  <2>1. PICK p \in Own(q) : at' = [at EXCEPT ![q] = p]
    BY <1>1 DEF Find
  <2>2. /\ p \in Active(row) /\ row[p].project = Owner[q] /\ Owner[q] # NoProject
    BY DEF Own, Active
  <2>3. FreshRows'
    BY <1>1, <2>1, <2>2 DEF Find, GrantInv, FreshRows, Active, TypeInv, TypeOK, releaseVars
  <2> QED
    BY <1>1, <2>3 DEF Find, GrantInv, GrantsAreOnRecord, FreshGrantsAreExclusive, Conflict, Active, releaseVars
<1>2. ASSUME NEW q \in Request, Miss(q) PROVE GrantInv'
  BY <1>2, GrantMove DEF Miss, Phase, releaseVars
<1>3. ASSUME NEW q \in Request, Scan(q) PROVE GrantInv'
  <2>1. \E ph \in {"refused", "try"} : phase' = [phase EXCEPT ![q] = ph]
    BY <1>3 DEF Scan
  <2>2. \A r \in Request \ {q} : at'[r] = at[r]
    BY <1>3 DEF Scan, TypeInv, TypeOK
  <2> QED
    BY <1>3, <2>1, <2>2, GrantMove DEF Scan, Phase, releaseVars
<1>4. ASSUME NEW q \in Request, TryNext(q), UNCHANGED <<row, freed, holds>> PROVE GrantInv'
  <2>1. \E ph \in {"refused", "try"} : phase' = [phase EXCEPT ![q] = ph]
    BY <1>4 DEF TryNext
  <2>2. \A r \in Request \ {q} : at'[r] = at[r]
    BY <1>4 DEF TryNext, TypeInv, TypeOK
  <2> QED
    BY <1>4, <2>1, <2>2, GrantMove DEF Phase
<1>5. ASSUME NEW q \in Request, Look(q) PROVE GrantInv'
  <2>1. UNCHANGED <<row, freed, holds>>
    BY <1>5 DEF Look, releaseVars
  <2>2. CASE TryNext(q)
    BY <1>4, <2>1, <2>2
  <2>3. CASE phase' = [phase EXCEPT ![q] = "insert"] /\ UNCHANGED at
    BY <2>1, <2>3, GrantMove DEF Phase
  <2>4. CASE row[at[q]].status = "released" /\ phase' = [phase EXCEPT ![q] = "revive"] /\ UNCHANGED at
    <3>1. at[q] \in Port /\ at[q] \in freed
      BY <1>5, <2>4 DEF Look, TypeInv, Progress, GrantInv, FreshRows
    <3>2. FreshRows'
      BY <2>1, <2>4, <3>1 DEF GrantInv, FreshRows, Active, TypeInv, TypeOK
    <3> QED
      BY <2>1, <3>2 DEF GrantInv, GrantsAreOnRecord, FreshGrantsAreExclusive, Conflict, Active
  <2> QED
    BY <1>5, <2>2, <2>3, <2>4 DEF Look
<1>6. ASSUME NEW q \in Request, InsertFails(q) PROVE GrantInv'
  BY <1>4, <1>6 DEF InsertFails, releaseVars
<1>7. ASSUME NEW q \in Request, ReviveFails(q) PROVE GrantInv'
  BY <1>7, GrantMove DEF ReviveFails, Phase, releaseVars
<1>8. ASSUME NEW q \in Request, Allocate(q) PROVE GrantInv'
  BY <1>1, <1>2, <1>3, <1>5, <1>6, <1>7, <1>8, GrantReuse, GrantInsert, GrantRevive DEF Allocate
<1>9. ASSUME NEW p \in Port, Release(p) PROVE GrantInv'
  BY <1>9, GrantUntouched DEF Release, requestVars, grantState
<1>10. ASSUME NEW p \in Port, Adopt(p) PROVE GrantInv'
  BY <1>10, GrantUntouched DEF Adopt, requestVars, releaseVars, grantState
<1>11. CASE Reconcile
  BY <1>11, GrantUntouched DEF Reconcile, requestVars, releaseVars, grantState
<1>12. CASE AdoptCommit
  BY <1>12, GrantAdopt
<1>13. CASE UNCHANGED vars
  BY <1>13, GrantUntouched DEF vars, requestVars, releaseVars, grantState
<1>14. ASSUME NEW p \in Port, ReleaseCommit(p) PROVE GrantInv'
  BY <1>14, GrantRelease
<1> QED
  BY <1>8, <1>9, <1>10, <1>11, <1>12, <1>13, <1>14 DEF Next

LEMMA GrantsHold == Spec => []GrantInv
<1>1. Init => GrantInv
  BY DEF Init, GrantInv, FreshRows, GrantsAreOnRecord, FreshGrantsAreExclusive, NoRow
<1> QED
  BY <1>1, GrantStep, TypeInit, TypeStep, PTL DEF Spec

\* Two deployments racing on a server are not handed the same port, however
\* many retry and whatever heartbeats adopt or operators release elsewhere, as
\* long as that port has never been released.
THEOREM FreshPortsHaveOneHolder == Spec => []FreshGrantsAreExclusive
<1>1. GrantInv => FreshGrantsAreExclusive
  BY DEF GrantInv
<1> QED
  BY <1>1, GrantsHold, PTL

\* Likewise, who was answered a port that has never been released finds it on
\* record in its own name and out of the pool.
THEOREM FreshGrantsStayOnRecord == Spec => []GrantsAreOnRecord
<1>1. GrantInv => GrantsAreOnRecord
  BY DEF GrantInv
<1> QED
  BY <1>1, GrantsHold, PTL

(***************************************************************************)
(* Refusals                                                                *)
(***************************************************************************)
LEMMA SearchInit == Init => SearchInv
BY DEF Init, SearchInv, ReleasingRows, Search

LEMMA PortsAreFinite ==
    ASSUME NEW S \in SUBSET Port PROVE IsFiniteSet(S) /\ Cardinality(S) \in Nat
BY RegistryAssumption, FS_Subset, FS_CardinalityType

LEMMA MorePorts ==
    ASSUME NEW T \in SUBSET Port, NEW S \in SUBSET T PROVE Cardinality(S) <= Cardinality(T)
BY PortsAreFinite, FS_Subset

LEMMA OnePortMore ==
    ASSUME NEW T \in SUBSET Port, NEW S \in SUBSET T, NEW p \in T \ S
    PROVE  Cardinality(S) + 1 <= Cardinality(T)
<1>1. /\ IsFiniteSet(S) /\ Cardinality(S) \in Nat
      /\ S \union {p} \in SUBSET T
  BY PortsAreFinite
<1>2. Cardinality(S \union {p}) = Cardinality(S) + 1
  BY <1>1, FS_AddElement
<1> QED
  BY <1>1, <1>2, MorePorts

\* What every step adds to the history.
LEMMA Observed ==
    ASSUME TypeInv, Observe, NEW q \in Request
    PROVE  /\ seenBusy[q] \subseteq seenBusy'[q] /\ seenBusy'[q] \subseteq Port
           /\ q \in Running => Active(row) \subseteq seenBusy'[q]
           /\ q \notin Running => seenBusy'[q] = seenBusy[q]
BY DEF TypeInv, TypeOK, Observe, Active

\* A row keeps its key, and is not inserted as released.
RowsKept ==
    \A p \in Port : /\ row[p].status # "none" => row'[p].status # "none"
                    /\ row'[p].status = "released" => row[p].status # "none"

LEMMA SearchUnmoved ==
    ASSUME TypeInv, RowsKept, Observe, NEW q \in Request, Search(q),
           phase'[q] = phase[q], at'[q] = at[q], todo'[q] = todo[q], tries'[q] = tries[q]
    PROVE  Search(q)'
<1>1. /\ seenBusy[q] \subseteq seenBusy'[q] /\ seenBusy'[q] \subseteq Port
      /\ q \in Running => Active(row) \subseteq seenBusy'[q]
  BY Observed
<1>2. seenBusy[q] \subseteq Port /\ tries[q] \in Nat /\ Attempts \in Nat
  BY RegistryAssumption DEF TypeInv, TypeOK
<1>3. ASSUME NEW C PROVE Cardinality(seenBusy[q] \ C) <= Cardinality(seenBusy'[q] \ C)
  <2>1. seenBusy'[q] \ C \in SUBSET Port /\ seenBusy[q] \ C \in SUBSET (seenBusy'[q] \ C)
    BY <1>1
  <2> QED
    BY <2>1, MorePorts
<1>4. Cardinality(seenBusy[q]) <= Cardinality(seenBusy'[q])
  BY <1>1, MorePorts
<1>5. Cardinality(seenBusy[q]) \in Nat /\ Cardinality(seenBusy'[q]) \in Nat
  BY <1>1, <1>2, PortsAreFinite
<1>6. Candidates(q)' = Candidates(q)
  BY DEF Candidates
<1>7. /\ Cardinality(seenBusy[q] \ Candidates(q)) \in Nat
      /\ Cardinality(seenBusy'[q] \ Candidates(q)) \in Nat
      /\ Cardinality(seenBusy[q] \ Candidates(q)) <= Cardinality(seenBusy'[q] \ Candidates(q))
  BY <1>1, <1>2, <1>3, PortsAreFinite
<1>8. (phase[q] = "insert" /\ row'[at[q]].status = "released") => at[q] \in seenBusy'[q]
  <2> SUFFICES ASSUME phase[q] = "insert", row'[at[q]].status = "released"
               PROVE  at[q] \in seenBusy'[q]
    OBVIOUS
  <2>1. at[q] \in Port /\ q \in Running
    BY DEF TypeInv, Progress, Running
  <2>2. row[at[q]].status \in {"allocated", "released", "reserved"}
    BY <2>1 DEF RowsKept, TypeInv, TypeOK, Row, Status
  <2>3. row[at[q]].status = "released" => at[q] \in seenBusy[q]
    BY DEF Search
  <2>4. row[at[q]].status # "released" => at[q] \in Active(row)
    BY <2>1, <2>2 DEF Active
  <2> QED
    BY <1>1, <2>1, <2>3, <2>4
<1>9. (phase[q] = "refused" => Port \subseteq seenBusy'[q] \/ Cardinality(seenBusy'[q]) + 1 >= Attempts)
  BY <1>1, <1>2, <1>4, <1>5 DEF Search
<1>10. phase[q] \in {"try", "revive", "insert"} =>
         /\ Port \ Candidates(q) \subseteq seenBusy'[q]
         /\ at[q] \in todo[q] => tries[q] = 0
         /\ tries[q] <= Cardinality(seenBusy'[q] \ Candidates(q)) + 1
  BY <1>1, <1>2, <1>7 DEF Search
<1> QED
  BY <1>6, <1>8, <1>9, <1>10 DEF Search

\* On to the next candidate, once the one at hand has been taken while the
\* request ran.
LEMMA SearchTryNext ==
    ASSUME TypeInv, Observe, NEW q \in Request, phase[q] \in {"try", "insert"}, Search(q),
           TryNext(q), at[q] \in seenBusy'[q]
    PROVE  Search(q)'
<1> DEFINE C == Candidates(q)
           busy == seenBusy'[q]
<1>1. /\ seenBusy[q] \subseteq busy /\ busy \subseteq Port /\ seenBusy[q] \subseteq Port
      /\ at[q] \in Port /\ todo[q] \subseteq Port
  BY Observed DEF TypeInv, TypeOK, Progress
<1>2. tries[q] \in Nat /\ Attempts \in Nat /\ 1 <= Attempts
  BY RegistryAssumption DEF TypeInv, TypeOK
<1>3. /\ Port \ C \subseteq seenBusy[q]
      /\ at[q] \in todo[q] => tries[q] = 0
      /\ tries[q] <= Cardinality(seenBusy[q] \ C) + 1
  BY DEF Search
<1>4. /\ at[q] \in C /\ todo[q] \subseteq C /\ C \ todo[q] \subseteq {at[q]}
  BY DEF Candidates
<1>5. tries'[q] = tries[q] + 1
  BY DEF TryNext, TypeInv, TypeOK
<1> HIDE DEF C, busy
<1>6. Cardinality(seenBusy[q] \ C) \in Nat
  BY <1>1, PortsAreFinite
<1>7. \A D \in SUBSET todo[q] : at[q] \notin D => tries[q] + 1 <= Cardinality(busy \ D) + 1
  <2> SUFFICES ASSUME NEW D \in SUBSET todo[q], at[q] \notin D
               PROVE  tries[q] + 1 <= Cardinality(busy \ D) + 1
    OBVIOUS
  <2>1. /\ busy \ D \in SUBSET Port /\ seenBusy[q] \ C \in SUBSET (busy \ D)
        /\ at[q] \in (busy \ D) \ (seenBusy[q] \ C)
    BY <1>1, <1>4 DEF busy
  <2>2. Cardinality(seenBusy[q] \ C) + 1 <= Cardinality(busy \ D)
    BY <2>1, OnePortMore
  <2>3. Cardinality(busy \ D) \in Nat
    BY <2>1, PortsAreFinite
  <2> QED
    BY <1>2, <1>3, <1>6, <2>2, <2>3
<1>8. CASE Exhausted(q)
  <2>1. phase'[q] = "refused"
    BY <1>8 DEF TryNext, TypeInv, TypeOK
  <2>2. CASE todo[q] = {}
    <3>1. Port \subseteq busy
      BY <1>1, <1>3, <1>4, <2>2 DEF busy
    <3> QED
      BY <2>1, <3>1 DEF Search, busy
  <2>3. CASE tries[q] + 1 >= Attempts
    <3>1. tries[q] + 1 <= Cardinality(busy) + 1
      <4>1. {} \in SUBSET todo[q] /\ busy \ {} = busy
        OBVIOUS
      <4> QED
        BY <1>7, <4>1
    <3>2. Cardinality(busy) \in Nat
      BY <1>1, PortsAreFinite
    <3>3. Cardinality(busy) + 1 >= Attempts
      BY <1>2, <2>3, <3>1, <3>2
    <3> QED
      BY <2>1, <3>3 DEF Search, busy
  <2> QED
    BY <1>8, <2>2, <2>3 DEF Exhausted
<1>9. CASE ~Exhausted(q)
  <2> DEFINE p == Lowest(todo[q])
             D == todo[q]
  <2>1. /\ phase'[q] = "try" /\ at'[q] = p /\ todo'[q] = todo[q] \ {p}
    BY <1>9 DEF TryNext, TypeInv, TypeOK
  <2>2. p \in todo[q]
    BY <1>1, <1>9, LowestIsMember DEF Exhausted
  <2>3. Candidates(q)' = todo[q]
    BY <2>1, <2>2 DEF Candidates
  <2> HIDE DEF p
  <2>4. CASE at[q] \notin todo[q]
    <3>1. tries'[q] <= Cardinality(busy \ todo[q]) + 1
      BY <1>5, <1>7, <2>4
    <3>2. Port \ todo[q] \subseteq busy
      BY <1>1, <1>3, <1>4 DEF busy
    <3> QED
      BY <2>1, <2>3, <3>1, <3>2 DEF Search, busy
  <2>5. CASE at[q] \in todo[q]
    <3>1. tries'[q] = 1 /\ Cardinality(busy \ todo[q]) \in Nat
      BY <1>1, <1>3, <1>5, <2>5, PortsAreFinite
    <3>2. Port \ todo[q] \subseteq busy
      BY <1>1, <1>3, <1>4 DEF busy
    <3> QED
      BY <2>1, <2>3, <3>1, <3>2 DEF Search, busy
  <2> QED
    BY <2>4, <2>5
<1> QED
  BY <1>8, <1>9

LEMMA RowsAreKept == ASSUME TypeInv, ReleasingRows, Next PROVE RowsKept
<1>1. row \in [Port -> Row]
  BY DEF TypeInv, TypeOK
<1>2. CASE row' = row
  BY <1>2 DEF RowsKept
<1>3. ASSUME NEW q \in Request, Revive(q) \/ Insert(q) PROVE RowsKept
  <2>1. PICK j : row' = [row EXCEPT ![at[q]] = [status |-> "allocated", project |-> j]]
    BY <1>3 DEF Revive, Insert
  <2> QED
    BY <1>1, <2>1 DEF RowsKept
<1>4. ASSUME NEW p \in Port, ReleaseCommit(p) PROVE RowsKept
  <2>1. row[p].status # "none" /\ row' = [row EXCEPT ![p].status = "released"]
    BY <1>4 DEF ReleaseCommit, ReleasingRows
  <2> QED
    BY <1>1, <2>1 DEF RowsKept, Row
<1>5. CASE AdoptCommit
  <2>1. \/ row' = row
        \/ row' = [row EXCEPT ![adoptee.port] = Adopted(row[adoptee.port])]
    BY <1>5 DEF AdoptCommit
  <2>2. \A r \in Row : Adopted(r).status = "reserved"
    BY DEF Adopted, Row
  <2> QED
    BY <1>1, <1>2, <2>1, <2>2 DEF RowsKept
<1>6. ASSUME NEW q \in Request, Allocate(q), ~Revive(q), ~Insert(q) PROVE row' = row
  BY <1>6 DEF Allocate, Find, Reuse, Miss, Scan, Look, InsertFails, ReviveFails
<1> QED
  BY <1>2, <1>3, <1>4, <1>5, <1>6 DEF Next, Release, Adopt, Reconcile

LEMMA ReleasingStep == TypeInv /\ ReleasingRows /\ [Next]_vars => ReleasingRows'
<1> SUFFICES ASSUME TypeInv, ReleasingRows, [Next]_vars PROVE ReleasingRows'
  OBVIOUS
<1>1. CASE UNCHANGED vars
  BY <1>1 DEF vars, releaseVars, ReleasingRows
<1>2. CASE Next
  <2>1. RowsKept
    BY <1>2, RowsAreKept
  <2>2. releasing \subseteq Port
    BY DEF TypeInv, TypeOK
  <2>3. \A p \in releasing' : p \in releasing \/ (p \in Port /\ row[p].status = "allocated")
    <3>1. ASSUME NEW q \in Request, Allocate(q) PROVE releasing' = releasing
      BY <3>1 DEF Allocate, Find, Reuse, Miss, Scan, Look, Revive, Insert, InsertFails,
                  ReviveFails, releaseVars
    <3>2. ASSUME NEW p \in Port, Release(p) \/ ReleaseCommit(p) \/ Adopt(p)
          PROVE  \/ releasing' \in {releasing, releasing \ {p}}
                 \/ releasing' = releasing \union {p} /\ row[p].status = "allocated"
      BY <3>2 DEF Release, ReleaseCommit, Adopt, releaseVars
    <3>3. CASE Reconcile \/ AdoptCommit
      BY <3>3 DEF Reconcile, AdoptCommit, releaseVars
    <3> QED
      BY <1>2, <3>1, <3>2, <3>3 DEF Next
  <2> QED
    BY <2>1, <2>2, <2>3 DEF RowsKept, ReleasingRows
<1> QED
  BY <1>1, <1>2

\* A request that has no candidate and is not refused has nothing to justify.
LEMMA SearchIdle ==
    ASSUME NEW q \in Request, phase'[q] \in {"reuse", "granted", "error"}
    PROVE  Search(q)'
BY DEF Search

LEMMA SearchScan ==
    ASSUME TypeInv, Observe, NEW q \in Request, Search(q), Scan(q) PROVE Search(q)'
<1> DEFINE free == Port \ Active(row)
<1>1. /\ phase[q] = "scan" /\ tries[q] = 0 /\ tries'[q] = 0
      /\ phase \in [Request -> Phase] /\ at \in [Request -> Port \union {NoPort}]
      /\ todo \in [Request -> SUBSET Port]
  BY DEF Scan, Search, TypeInv, TypeOK
<1>2. Active(row) \subseteq seenBusy'[q] /\ seenBusy'[q] \subseteq Port
  BY <1>1, Observed DEF Running
<1>3. CASE free = {} /\ phase' = [phase EXCEPT ![q] = "refused"]
  BY <1>1, <1>2, <1>3 DEF Search
<1>4. CASE free # {} /\ phase' = [phase EXCEPT ![q] = "try"]
  <2>1. Lowest(free) \in free
    BY <1>4, LowestIsMember
  <2>2. Candidates(q)' = free
    BY <1>1, <1>4, <2>1 DEF Scan, Candidates
  <2>3. Port \ free \subseteq seenBusy'[q]
    BY <1>2
  <2>4. Cardinality(seenBusy'[q] \ free) \in Nat
    BY <1>2, PortsAreFinite
  <2>5. tries'[q] <= Cardinality(seenBusy'[q] \ free) + 1
    BY <1>1, <2>4
  <2>6. phase'[q] = "try"
    BY <1>1, <1>4
  <2> HIDE DEF free
  <2> QED
    BY <1>1, <2>2, <2>3, <2>5, <2>6 DEF Search
<1> QED
  BY <1>3, <1>4 DEF Scan

LEMMA SearchLook ==
    ASSUME TypeInv, Observe, NEW q \in Request, Search(q), Look(q) PROVE Search(q)'
<1>1. /\ phase[q] = "try" /\ at[q] \in Port /\ phase \in [Request -> Phase]
      /\ q \in Running /\ row' = row
  BY DEF Look, TypeInv, TypeOK, Progress, Running
<1>2. /\ seenBusy[q] \subseteq seenBusy'[q] /\ Active(row) \subseteq seenBusy'[q]
      /\ seenBusy'[q] \subseteq Port
  BY <1>1, Observed
<1>3. CASE row[at[q]].status \in {"allocated", "reserved"}
  <2>1. at[q] \in seenBusy'[q]
    BY <1>1, <1>2, <1>3 DEF Active
  <2>2. TryNext(q)
    BY <1>3 DEF Look
  <2> QED
    BY <1>1, <2>1, <2>2, SearchTryNext
<1>4. CASE row[at[q]].status \in {"released", "none"}
  <2>1. /\ UNCHANGED <<at, todo, tries>>
        /\ phase'[q] \in {"revive", "insert"}
        /\ phase'[q] = "insert" => row[at[q]].status = "none"
    BY <1>1, <1>4 DEF Look
  <2>2. Candidates(q)' = Candidates(q)
    BY <2>1 DEF Candidates
  <2>3. /\ Port \ Candidates(q) \subseteq seenBusy[q]
        /\ at[q] \in todo[q] => tries[q] = 0
        /\ tries[q] <= Cardinality(seenBusy[q] \ Candidates(q)) + 1
    BY <1>1 DEF Search
  <2>4. /\ Cardinality(seenBusy[q] \ Candidates(q)) <= Cardinality(seenBusy'[q] \ Candidates(q))
        /\ Cardinality(seenBusy[q] \ Candidates(q)) \in Nat
        /\ Cardinality(seenBusy'[q] \ Candidates(q)) \in Nat
    <3>1. /\ seenBusy'[q] \ Candidates(q) \in SUBSET Port
          /\ seenBusy[q] \ Candidates(q) \in SUBSET (seenBusy'[q] \ Candidates(q))
      BY <1>2
    <3> QED
      BY <3>1, MorePorts, PortsAreFinite
  <2>5. tries[q] \in Nat
    BY DEF TypeInv, TypeOK
  <2>6. tries[q] <= Cardinality(seenBusy'[q] \ Candidates(q)) + 1
    BY <2>3, <2>4, <2>5
  <2> QED
    BY <1>1, <1>2, <2>1, <2>2, <2>3, <2>6 DEF Search
<1> QED
  BY <1>3, <1>4 DEF Look

\* The insert has failed although the deployment is there: the port has a row,
\* which has been active while the request ran.
LEMMA SearchInsertFails ==
    ASSUME TypeInv, Observe, NEW q \in Request, q \notin stray, Search(q), InsertFails(q)
    PROVE  Search(q)'
<1>1. phase[q] = "insert" /\ at[q] \in Port /\ q \in Running /\ TryNext(q)
  BY DEF InsertFails, TypeInv, Progress, Running
<1>2. row[at[q]].status \in {"allocated", "released", "reserved"}
  BY <1>1 DEF InsertFails, KeyFree, TypeInv, TypeOK, Row, Status
<1>3. at[q] \in seenBusy'[q]
  <2>1. seenBusy[q] \subseteq seenBusy'[q] /\ Active(row) \subseteq seenBusy'[q]
    BY <1>1, Observed
  <2>2. row[at[q]].status = "released" => at[q] \in seenBusy[q]
    BY <1>1 DEF Search
  <2>3. row[at[q]].status # "released" => at[q] \in Active(row)
    BY <1>1, <1>2 DEF Active
  <2> QED
    BY <2>1, <2>2, <2>3
<1> QED
  BY <1>1, <1>3, SearchTryNext

LEMMA SearchStep == TypeInv /\ SearchInv /\ [Next]_vars => SearchInv'
<1> SUFFICES ASSUME TypeInv, SearchInv, [Next]_vars PROVE SearchInv'
  OBVIOUS
<1>1. ReleasingRows'
  BY ReleasingStep DEF SearchInv
<1>2. CASE UNCHANGED vars
  BY <1>1, <1>2 DEF vars, requestVars, SearchInv, Search, Candidates
<1>3. CASE Next
  <2>1. RowsKept
    BY <1>3, RowsAreKept DEF SearchInv
  <2>2. Observe
    BY <1>3 DEF Next, Allocate, Find, Reuse, Miss, Scan, Look, Revive, Insert, InsertFails,
                ReviveFails, Release, ReleaseCommit, Reconcile, Adopt, AdoptCommit
  <2>3. stray \subseteq stray'
    <3>1. ASSUME NEW q \in Request, Allocate(q) PROVE stray \subseteq stray'
      BY <3>1 DEF Allocate, Find, Reuse, Miss, Scan, Look, Revive, Insert, InsertFails,
                  ReviveFails
    <3> QED
      BY <1>3, <3>1 DEF Next, Release, ReleaseCommit, Adopt, Reconcile, AdoptCommit, requestVars
  <2> SUFFICES ASSUME NEW q \in Request, q \notin stray, Search(q) PROVE Search(q)'
    BY <1>1, <2>3 DEF SearchInv
  <2>4. CASE Allocate(q)
    <3>1. phase \in [Request -> Phase] /\ tries \in [Request -> 0..Attempts]
      BY DEF TypeInv, TypeOK
    <3>2. CASE Find(q)
      BY <3>1, <3>2, SearchIdle DEF Find
    <3>3. CASE Reuse(q) \/ Revive(q) \/ Insert(q)
      BY <3>1, <3>3, SearchIdle DEF Reuse, Revive, Insert, Answer
    <3>4. CASE Miss(q)
      BY <3>1, <3>4 DEF Miss, Search
    <3>5. CASE ReviveFails(q)
      BY <3>1, <3>5, SearchIdle DEF ReviveFails
    <3> QED
      BY <2>2, <2>4, <3>2, <3>3, <3>4, <3>5, SearchScan, SearchLook, SearchInsertFails
         DEF Allocate
  <2>5. CASE /\ phase'[q] = phase[q] /\ at'[q] = at[q] /\ todo'[q] = todo[q]
             /\ tries'[q] = tries[q]
    BY <2>1, <2>2, <2>5, SearchUnmoved
  <2>6. ASSUME NEW x \in Request, x # q, Allocate(x)
        PROVE  /\ phase'[q] = phase[q] /\ at'[q] = at[q] /\ todo'[q] = todo[q]
               /\ tries'[q] = tries[q]
    <3>1. /\ phase \in [Request -> Phase] /\ at \in [Request -> Port \union {NoPort}]
          /\ todo \in [Request -> SUBSET Port] /\ tries \in [Request -> 0..Attempts]
      BY DEF TypeInv, TypeOK
    <3>2. CASE Find(x) \/ Miss(x) \/ ReviveFails(x)
      BY <2>6, <3>1, <3>2 DEF Find, Miss, ReviveFails
    <3>3. CASE Reuse(x) \/ Revive(x) \/ Insert(x)
      BY <2>6, <3>1, <3>3 DEF Reuse, Revive, Insert, Answer
    <3>4. CASE Scan(x)
      BY <2>6, <3>1, <3>4 DEF Scan
    <3>5. CASE TryNext(x)
      BY <2>6, <3>1, <3>5 DEF TryNext
    <3>6. CASE Look(x) \/ InsertFails(x)
      BY <2>6, <3>1, <3>5, <3>6 DEF Look, InsertFails
    <3> QED
      BY <2>6, <3>2, <3>3, <3>4, <3>6 DEF Allocate
  <2> QED
    BY <1>3, <2>4, <2>5, <2>6
       DEF Next, Release, ReleaseCommit, Adopt, Reconcile, AdoptCommit, requestVars
<1> QED
  BY <1>2, <1>3

\* Nobody is told that there is no port because of races it has lost: whatever
\* the others allocate, adopt and release, a request is refused only when each
\* port, or as many as it may try, were taken at some time while it ran.
THEOREM RefusalsAreJustified == Spec => []RefusalIsJustified
<1>1. SearchInv => RefusalIsJustified
  BY DEF SearchInv, Search, RefusalIsJustified
<1> QED
  BY <1>1, SearchInit, SearchStep, TypeInit, TypeStep, PTL DEF Spec
=============================================================================
