--------------------------- MODULE DiagnosisProofs ---------------------------
(***************************************************************************)
(* Proofs about Diagnosis for any lines, logs, answers of the model and    *)
(* limits of a timeline.  The signatures are those of the library: what is *)
(* used of them is that each has a severity of the four, a confidence      *)
(* below the cap of a score, and a name.                                   *)
(***************************************************************************)
EXTENDS Diagnosis, FiniteSetTheorems, SequenceTheorems, WellFoundedInduction, TLAPS

(***************************************************************************)
(* Places in an order                                                      *)
(***************************************************************************)
\* The elements of S that the order R puts before x.
Below(S, R, x) == {y \in S : <<y, x>> \in R}

StrictOrder(S, R) ==
    /\ \A x \in S : <<x, x>> \notin R
    /\ \A x, y, z \in S : <<x, y>> \in R /\ <<y, z>> \in R => <<x, z>> \in R
    /\ \A x, y \in S : x = y \/ <<x, y>> \in R \/ <<y, x>> \in R

LEMMA BelowIsFinite ==
    ASSUME NEW S, IsFiniteSet(S), NEW R, NEW x \in S, StrictOrder(S, R)
    PROVE  /\ IsFiniteSet(Below(S, R, x)) /\ Cardinality(Below(S, R, x)) \in Nat
           /\ Cardinality(S) \in Nat /\ Cardinality(Below(S, R, x)) < Cardinality(S)
<1> DEFINE B == Below(S, R, x)
<1>1. B \in SUBSET (S \ {x})
  BY DEF Below, StrictOrder
<1>2. IsFiniteSet(S \ {x}) /\ Cardinality(S \ {x}) = Cardinality(S) - 1
  BY FS_RemoveElement
<1>3. Cardinality(S) \in Nat
  BY FS_CardinalityType
<1> HIDE DEF B
<1>4. IsFiniteSet(B) /\ Cardinality(B) <= Cardinality(S \ {x})
  BY <1>1, <1>2, FS_Subset
<1>5. Cardinality(B) \in Nat
  BY <1>4, FS_CardinalityType
<1> QED
  BY <1>2, <1>3, <1>4, <1>5 DEF B

\* Nobody shares a place.
LEMMA PlacesDiffer ==
    ASSUME NEW S, IsFiniteSet(S), NEW R, StrictOrder(S, R), NEW x \in S, NEW y \in S,
           Cardinality(Below(S, R, x)) = Cardinality(Below(S, R, y))
    PROVE  x = y
<1>1. ASSUME NEW a \in S, NEW b \in S, <<a, b>> \in R
      PROVE  Cardinality(Below(S, R, a)) # Cardinality(Below(S, R, b))
  <2>1. Below(S, R, a) \in SUBSET Below(S, R, b)
    BY <1>1 DEF Below, StrictOrder
  <2>2. a \in Below(S, R, b) /\ a \notin Below(S, R, a)
    BY <1>1 DEF Below, StrictOrder
  <2>3. IsFiniteSet(Below(S, R, b))
    BY BelowIsFinite
  <2> QED
    BY <2>1, <2>2, <2>3, FS_Subset
<1>2. x = y \/ <<x, y>> \in R \/ <<y, x>> \in R
  BY DEF StrictOrder
<1> QED
  BY <1>1, <1>2

\* Every place is taken.
LEMMA PlacesAreTaken ==
    ASSUME NEW S, IsFiniteSet(S), NEW R, StrictOrder(S, R), NEW p \in 1..Cardinality(S)
    PROVE  \E x \in S : 1 + Cardinality(Below(S, R, x)) = p
<1> DEFINE N == Cardinality(S)
           f == [x \in S |-> 1 + Cardinality(Below(S, R, x))]
<1>1. N \in Nat
  BY FS_CardinalityType
<1>2. \A x \in S : /\ Cardinality(Below(S, R, x)) \in Nat
                   /\ Cardinality(Below(S, R, x)) < N
  BY BelowIsFinite
<1>3. f \in [S -> 1..N]
  BY <1>1, <1>2
<1>4. \A x, y \in S : f[x] = f[y] => x = y
  <2> SUFFICES ASSUME NEW x \in S, NEW y \in S, f[x] = f[y] PROVE x = y
    OBVIOUS
  <2>1. Cardinality(Below(S, R, x)) = Cardinality(Below(S, R, y))
    BY <1>2
  <2> QED
    BY <2>1, PlacesDiffer
<1>5. f \in Injection(S, 1..N)
  BY <1>3, <1>4 DEF Injection, IsInjective
<1>6. IsFiniteSet(1..N) /\ Cardinality(1..N) = N
  BY <1>1, FS_Interval
<1> HIDE DEF f
<1>7. f \in Surjection(S, 1..N)
  BY <1>5, <1>6, FS_Injection
<1>8. PICK x \in S : f[x] = p
  BY <1>7 DEF Surjection
<1> QED
  BY <1>8 DEF f

LEMMA PlacesOfNumbers ==
    ASSUME NEW I \in SUBSET Nat, IsFiniteSet(I)
    PROVE  /\ Cardinality(I) \in Nat
           /\ \A n \in 1..Cardinality(I) : \E i \in I : Cardinality({j \in I : j < i}) = n - 1
           /\ \A i \in I : 1 + Cardinality({j \in I : j < i}) \in 1..Cardinality(I)
           /\ \A i, k \in I :
                  Cardinality({j \in I : j < i}) = Cardinality({j \in I : j < k}) => i = k
<1> DEFINE R == {p \in I \X I : p[1] < p[2]}
           C(i) == Cardinality({j \in I : j < i})
<1>1. \A i, j \in I : <<j, i>> \in R <=> j < i
  OBVIOUS
<1> HIDE DEF R
<1>2. StrictOrder(I, R)
  <2>1. \A x \in I : <<x, x>> \notin R
    BY <1>1
  <2>2. \A x, y, z \in I : <<x, y>> \in R /\ <<y, z>> \in R => <<x, z>> \in R
    BY <1>1
  <2>3. ASSUME NEW x \in I, NEW y \in I PROVE x = y \/ <<x, y>> \in R \/ <<y, x>> \in R
    <3>1. x = y \/ x < y \/ y < x
      OBVIOUS
    <3> QED
      BY <1>1, <3>1
  <2> QED
    BY <2>1, <2>2, <2>3 DEF StrictOrder
<1>3. \A i \in I : Below(I, R, i) = {j \in I : j < i}
  BY <1>1 DEF Below
<1>4. \A i \in I : Cardinality(Below(I, R, i)) = C(i)
  BY <1>3
<1>5. Cardinality(I) \in Nat
  BY FS_CardinalityType
<1>6. \A i \in I : C(i) \in Nat /\ C(i) < Cardinality(I)
  BY <1>2, <1>4, BelowIsFinite
<1>7. \A i, k \in I : C(i) = C(k) => i = k
  BY <1>2, <1>4, PlacesDiffer
<1>8. ASSUME NEW n \in 1..Cardinality(I) PROVE \E i \in I : C(i) = n - 1
  <2>1. PICK i \in I : 1 + Cardinality(Below(I, R, i)) = n
    BY <1>2, PlacesAreTaken
  <2>2. 1 + C(i) = n /\ C(i) \in Nat
    BY <1>4, <1>6, <2>1
  <2> HIDE DEF C
  <2>3. C(i) = n - 1
    BY <2>2
  <2> QED
    BY <2>3
<1>9. \A i \in I : 1 + C(i) \in 1..Cardinality(I)
  BY <1>5, <1>6
<1> HIDE DEF C
<1> QED
  BY <1>5, <1>7, <1>8, <1>9 DEF C

\* Picked takes the elements at the indices, all of them and no others.
LEMMA PickedElements ==
    ASSUME NEW s, NEW I \in SUBSET Nat, IsFiniteSet(I)
    PROVE  /\ Cardinality(I) \in Nat /\ DOMAIN Picked(s, I) = 1..Cardinality(I)
           /\ \A n \in 1..Cardinality(I) : \E i \in I : Picked(s, I)[n] = s[i]
           /\ \A i \in I : \E n \in 1..Cardinality(I) : Picked(s, I)[n] = s[i]
<1> DEFINE N == Cardinality(I)
           C(i) == Cardinality({j \in I : j < i})
           at(n) == CHOOSE i \in I : C(i) = n - 1
<1>1. /\ N \in Nat
      /\ \A n \in 1..N : \E i \in I : C(i) = n - 1
      /\ \A i \in I : 1 + C(i) \in 1..N
      /\ \A i, k \in I : C(i) = C(k) => i = k
  BY PlacesOfNumbers
<1>2. Picked(s, I) = [n \in 1..N |-> s[at(n)]]
  BY DEF Picked
<1> HIDE DEF C
<1>3. \A n \in 1..N : at(n) \in I /\ C(at(n)) = n - 1
  BY <1>1
<1>4. \A i \in I : C(i) \in Nat
  BY FS_Subset, FS_CardinalityType DEF C
<1> HIDE DEF at, N
<1>5. ASSUME NEW i \in I PROVE \E n \in 1..N : Picked(s, I)[n] = s[i]
  <2>1. 1 + C(i) \in 1..N
    BY <1>1
  <2>2. at(1 + C(i)) \in I /\ C(at(1 + C(i))) = (1 + C(i)) - 1
    BY <1>3, <2>1
  <2>3. C(at(1 + C(i))) = C(i)
    BY <1>4, <2>2
  <2>4. at(1 + C(i)) = i
    BY <1>1, <2>2, <2>3
  <2>5. Picked(s, I)[1 + C(i)] = s[i]
    BY <1>2, <2>1, <2>4
  <2> QED
    BY <2>1, <2>5
<1>6. DOMAIN Picked(s, I) = 1..N
  BY <1>2
<1>7. \A n \in 1..N : Picked(s, I)[n] = s[at(n)]
  BY <1>2
<1>8. \A n \in 1..N : \E i \in I : Picked(s, I)[n] = s[i]
  BY <1>3, <1>7
<1> QED
  BY <1>1, <1>5, <1>6, <1>8 DEF N

LEMMA PickedIsSequence ==
    ASSUME NEW T, NEW s \in Seq(T), NEW I \in SUBSET DOMAIN s
    PROVE  /\ Picked(s, I) \in Seq(T) /\ IsFiniteSet(I)
           /\ Len(Picked(s, I)) = Cardinality(I) /\ Cardinality(I) \in Nat
           /\ DOMAIN Picked(s, I) = 1..Cardinality(I)
           /\ \A n \in 1..Cardinality(I) : \E i \in I : Picked(s, I)[n] = s[i]
           /\ \A i \in I : \E n \in 1..Cardinality(I) : Picked(s, I)[n] = s[i]
<1>1. Len(s) \in Nat /\ DOMAIN s = 1..Len(s) /\ \A i \in DOMAIN s : s[i] \in T
  BY LenProperties
<1>2. IsFiniteSet(I) /\ I \in SUBSET Nat
  <2>1. IsFiniteSet(DOMAIN s)
    BY <1>1, FS_Interval
  <2> QED
    BY <1>1, <2>1, FS_Subset
<1>3. /\ Cardinality(I) \in Nat /\ DOMAIN Picked(s, I) = 1..Cardinality(I)
      /\ \A n \in 1..Cardinality(I) : \E i \in I : Picked(s, I)[n] = s[i]
      /\ \A i \in I : \E n \in 1..Cardinality(I) : Picked(s, I)[n] = s[i]
  BY <1>2, PickedElements
<1>4. Picked(s, I) = [n \in 1..Cardinality(I) |-> Picked(s, I)[n]]
  BY DEF Picked
<1>5. \A n \in 1..Cardinality(I) : Picked(s, I)[n] \in T
  BY <1>1, <1>3
<1>6. Picked(s, I) \in [1..Cardinality(I) -> T]
  BY <1>4, <1>5
<1>7. Picked(s, I) \in Seq(T)
  BY <1>3, <1>6, SeqDef
<1>8. Len(Picked(s, I)) = Cardinality(I)
  <2>1. DOMAIN Picked(s, I) = 1..Len(Picked(s, I)) /\ Len(Picked(s, I)) \in Nat
    BY <1>7, LenProperties
  <2> QED
    BY <1>3, <2>1
<1> QED
  BY <1>2, <1>3, <1>7, <1>8

\* A set of natural numbers has a smallest element.
LEMMA SmallestIsMember ==
    ASSUME NEW S \in SUBSET Nat, S # {}
    PROVE  Smallest(S) \in S /\ \A y \in S : Smallest(S) <= y
<1> DEFINE R == OpToRel(<, Nat)
<1>1. \A x, y \in Nat : y < x => <<y, x>> \in R
  BY DEF OpToRel
<1>2. IsWellFoundedOn(R, Nat)
  BY NatLessThanWellFounded DEF OpToRel
<1> HIDE DEF R
<1>3. PICK x \in S : \A y \in S : <<y, x>> \notin R
  BY <1>2, WFMin
<1>4. ASSUME NEW y \in S PROVE x <= y
  <2>1. x \in Nat /\ y \in Nat
    OBVIOUS
  <2>2. ~(y < x)
    BY <1>1, <1>3, <2>1
  <2> QED
    BY <2>1, <2>2
<1> QED
  BY <1>4 DEF Smallest

(***************************************************************************)
(* Timelines                                                               *)
(***************************************************************************)
\* What is read are rows of the log.
LEMMA VisibleRows ==
    ASSUME NEW rows \in Seq(Row)
    PROVE  Visible(rows) \in Seq(Row) /\ LinesOf(Visible(rows)) \subseteq LinesOf(rows)
<1> DEFINE I == {i \in DOMAIN rows : rows[i].near}
           near == Picked(rows, I)
           read == IF near = <<>> THEN rows ELSE near
           m == AtMost(Len(read), Limit)
<1>0. I \in SUBSET DOMAIN rows
  OBVIOUS
<1> HIDE DEF I
<1>1. /\ near \in Seq(Row) /\ Cardinality(I) \in Nat /\ Len(near) = Cardinality(I)
      /\ \A n \in 1..Cardinality(I) : \E i \in I : near[n] = rows[i]
  BY <1>0, PickedIsSequence
<1>2. Len(rows) \in Nat /\ DOMAIN rows = 1..Len(rows)
  BY LenProperties
<1>3. Visible(rows) = SubSeq(read, 1, m)
  BY DEF Visible, I
<1> HIDE DEF near
<1>4. read \in Seq(Row)
  BY <1>1
<1>5. \A n \in 1..Len(read) : \E i \in DOMAIN rows : read[n] = rows[i]
  BY <1>0, <1>1, <1>2
<1> HIDE DEF read
<1>6. Len(read) \in Nat /\ DOMAIN read = 1..Len(read) /\ \A n \in 1..Len(read) : read[n] \in Row
  BY <1>4, LenProperties
<1>7. m \in 0..Len(read)
  BY <1>6, DiagnosisAssumption DEF AtMost
<1> HIDE DEF m
<1>8. \A n \in 1..m : read[n] \in Row
  BY <1>6, <1>7
<1>9. /\ SubSeq(read, 1, m) \in Seq(Row)
      /\ Len(SubSeq(read, 1, m)) = IF 1 <= m THEN m - 1 + 1 ELSE 0
      /\ \A i \in 1..(m - 1 + 1) : SubSeq(read, 1, m)[i] = read[1 + i - 1]
  BY <1>7, <1>8, SubSeqProperties
<1>10. Len(SubSeq(read, 1, m)) = m
  BY <1>7, <1>9
<1>11. DOMAIN SubSeq(read, 1, m) = 1..m
  BY <1>9, <1>10, LenProperties
<1>12. ASSUME NEW i \in DOMAIN SubSeq(read, 1, m)
       PROVE  SubSeq(read, 1, m)[i].line \in LinesOf(rows)
  <2>1. i \in 1..m /\ i \in 1..(m - 1 + 1) /\ 1 + i - 1 = i /\ i \in 1..Len(read)
    BY <1>7, <1>11
  <2>2. SubSeq(read, 1, m)[i] = read[i]
    BY <1>9, <2>1
  <2>3. PICK k \in DOMAIN rows : read[i] = rows[k]
    BY <1>5, <2>1
  <2> QED
    BY <2>2, <2>3 DEF LinesOf
<1> QED
  BY <1>3, <1>9, <1>12 DEF LinesOf

\* Every class of messages has its event, and only one.
LEMMA CollapsedLines ==
    ASSUME NEW rows \in Seq(Row)
    PROVE  LET all == Collapsed(rows)
           IN  /\ all \in Seq(Line) /\ Len(all) \in Nat /\ DOMAIN all = 1..Len(all)
               /\ {all[n] : n \in DOMAIN all} = LinesOf(rows)
               /\ Len(all) <= Cardinality(LinesOf(rows))
<1> DEFINE all == Collapsed(rows)
           I == {i \in DOMAIN rows : \A j \in 1..(i - 1) : rows[j].line # rows[i].line}
           first == Picked(rows, I)
<1>1. Len(rows) \in Nat /\ DOMAIN rows = 1..Len(rows) /\ \A i \in DOMAIN rows : rows[i] \in Row
  BY LenProperties
<1>0. I \in SUBSET DOMAIN rows
  OBVIOUS
<1> HIDE DEF I
<1>2. /\ first \in Seq(Row) /\ IsFiniteSet(I) /\ Len(first) = Cardinality(I)
      /\ Cardinality(I) \in Nat /\ DOMAIN first = 1..Cardinality(I)
      /\ \A n \in 1..Cardinality(I) : \E i \in I : first[n] = rows[i]
      /\ \A i \in I : \E n \in 1..Cardinality(I) : first[n] = rows[i]
  BY <1>0, PickedIsSequence
<1>3. all = [n \in DOMAIN first |-> first[n].line]
  BY DEF Collapsed, I
<1> HIDE DEF first, all
<1>4. \A n \in 1..Cardinality(I) : all[n] = first[n].line
  BY <1>2, <1>3
<1>5. \A n \in 1..Cardinality(I) : \E i \in I : all[n] = rows[i].line
  BY <1>2, <1>4
<1>6. \A n \in 1..Cardinality(I) : all[n] \in Line
  BY <1>0, <1>1, <1>5 DEF Row
<1>7. all \in Seq(Line) /\ Len(all) = Cardinality(I) /\ DOMAIN all = 1..Cardinality(I)
  <2>1. all \in [1..Cardinality(I) -> Line]
    BY <1>2, <1>3, <1>6
  <2>2. Cardinality(I) \in Nat
    BY <1>2
  <2>3. all \in Seq(Line)
    BY <2>1, <2>2, SeqDef
  <2>4. DOMAIN all = 1..Len(all) /\ Len(all) \in Nat
    BY <2>3, LenProperties
  <2>5. DOMAIN all = 1..Cardinality(I)
    BY <2>1
  <2> QED
    BY <2>2, <2>3, <2>4, <2>5
<1>8. ASSUME NEW n \in DOMAIN all PROVE all[n] \in LinesOf(rows)
  BY <1>0, <1>5, <1>7 DEF LinesOf
<1>9. ASSUME NEW i \in DOMAIN rows PROVE \E n \in DOMAIN all : all[n] = rows[i].line
  <2> DEFINE S == {j \in DOMAIN rows : rows[j].line = rows[i].line}
             j == Smallest(S)
  <2>1. S \in SUBSET Nat /\ S # {}
    BY <1>1
  <2>2. j \in S /\ \A y \in S : j <= y
    BY <2>1, SmallestIsMember
  <2>3. j \in 1..Len(rows) /\ rows[j].line = rows[i].line
    BY <1>1, <2>2
  <2> HIDE DEF j
  <2>4. ASSUME NEW k \in 1..(j - 1) PROVE rows[k].line # rows[j].line
    <3>1. k \in DOMAIN rows /\ k < j
      BY <1>1, <2>3
    <3> QED
      BY <2>2, <2>3, <3>1
  <2>5. j \in I
    BY <1>1, <2>3, <2>4 DEF I
  <2>6. PICK n \in 1..Cardinality(I) : first[n] = rows[j]
    BY <1>2, <2>5
  <2>7. all[n] = rows[i].line /\ n \in DOMAIN all
    BY <1>4, <1>7, <2>3, <2>6
  <2> QED
    BY <2>7
<1>10. {all[n] : n \in DOMAIN all} = LinesOf(rows)
  BY <1>8, <1>9 DEF LinesOf
<1>11. Cardinality(I) <= Cardinality(LinesOf(rows))
  <2> DEFINE f == [i \in I |-> rows[i].line]
             g == [i \in DOMAIN rows |-> rows[i].line]
  <2>1. f \in [I -> LinesOf(rows)]
    BY <1>0 DEF LinesOf
  <2>2. ASSUME NEW a \in I, NEW b \in I, f[a] = f[b] PROVE a = b
    <3>1. a \in 1..Len(rows) /\ b \in 1..Len(rows) /\ rows[a].line = rows[b].line
      BY <1>0, <1>1, <2>2
    <3>2. ~(a < b)
      <4>1. a < b => a \in 1..(b - 1)
        BY <3>1
      <4> QED
        BY <3>1, <4>1 DEF I
    <3>3. ~(b < a)
      <4>1. b < a => b \in 1..(a - 1)
        BY <3>1
      <4> QED
        BY <3>1, <4>1 DEF I
    <3> QED
      BY <3>1, <3>2, <3>3
  <2>3. f \in Injection(I, LinesOf(rows))
    BY <2>1, <2>2 DEF Injection, IsInjective
  <2>4. g \in Surjection(DOMAIN rows, LinesOf(rows))
    BY DEF Surjection, LinesOf
  <2>5. IsFiniteSet(DOMAIN rows)
    BY <1>1, FS_Interval
  <2>6. IsFiniteSet(LinesOf(rows))
    BY <2>4, <2>5, FS_Surjection
  <2> QED
    BY <2>3, <2>6, FS_Injection
<1> QED
  BY <1>2, <1>7, <1>10, <1>11 DEF all

\* The events of a timeline are among those it is made from, and are all of them
\* if they are no more than it keeps.
LEMMA TimelineEvents ==
    ASSUME NEW all \in Seq(Line), NEW events \in Timelines(all)
    PROVE  /\ events \in Seq(Line) /\ Len(events) \in Nat /\ DOMAIN events = 1..Len(events)
           /\ \A n \in DOMAIN events : \E i \in DOMAIN all : events[n] = all[i]
           /\ Len(all) <= Kept => \A i \in DOMAIN all : \E n \in DOMAIN events : events[n] = all[i]
<1>1. Len(all) \in Nat /\ DOMAIN all = 1..Len(all)
  BY LenProperties
<1>2. PICK K \in SUBSET DOMAIN all : /\ Cardinality(K) = AtMost(Len(all), Kept)
                                     /\ events = Picked(all, K)
  BY DEF Timelines
<1>3. /\ events \in Seq(Line) /\ Len(events) = Cardinality(K) /\ Cardinality(K) \in Nat
      /\ DOMAIN events = 1..Cardinality(K)
      /\ \A n \in 1..Cardinality(K) : \E i \in K : events[n] = all[i]
      /\ \A i \in K : \E n \in 1..Cardinality(K) : events[n] = all[i]
  BY <1>2, PickedIsSequence
<1>4. ASSUME Len(all) <= Kept PROVE K = DOMAIN all
  <2>1. Cardinality(K) = Len(all)
    BY <1>1, <1>2, <1>4, DiagnosisAssumption DEF AtMost
  <2>2. IsFiniteSet(1..Len(all)) /\ Cardinality(1..Len(all)) = Len(all)
    <3>1. Cardinality(1..Len(all)) = IF 1 > Len(all) THEN 0 ELSE Len(all) - 1 + 1
      BY <1>1, FS_Interval
    <3> QED
      BY <1>1, <3>1, FS_Interval
  <2> QED
    BY <1>1, <2>1, <2>2, FS_Subset
<1> QED
  BY <1>3, <1>4

(***************************************************************************)
(* The library of signatures                                               *)
(***************************************************************************)
\* What a signature, and a candidate, claims at most.
Trust == 0..990

LEMMA TrustBounds == \A x : x \in Trust <=> x \in Int /\ 0 <= x /\ x <= 990
<1> DEFINE n == 990
<1>1. Trust = 0..n /\ n \in Nat
  BY DEF Trust
<1> HIDE DEF n
<1>2. \A x : x \in Trust <=> x \in Int /\ 0 <= x /\ x <= n
  BY <1>1
<1> QED
  BY <1>2 DEF n

LEMMA PermilleBounds == \A x : x \in Permille <=> x \in Int /\ 0 <= x /\ x <= 1000
<1> DEFINE n == 1000
<1>1. Permille = 0..n /\ n \in Nat
  BY DEF Permille
<1> HIDE DEF n
<1>2. \A x : x \in Permille <=> x \in Int /\ 0 <= x /\ x <= n
  BY <1>1
<1> QED
  BY <1>2 DEF n

IsSignature(sig) ==
    sig.key # "" /\ sig.severity \in DOMAIN Severity /\ sig.confidence \in Trust

IsLibrary(sigs) == sigs \in Seq(Range(sigs)) /\ \A n \in DOMAIN sigs : IsSignature(sigs[n])

LEMMA LibrariesConcatenate ==
    ASSUME NEW s, NEW t, IsLibrary(s), IsLibrary(t) PROVE IsLibrary(s \o t)
<1> DEFINE T == Range(s) \cup Range(t)
<1>1. s \in Seq(Range(s)) /\ t \in Seq(Range(t))
  BY DEF IsLibrary
<1>2. s \in Seq(T) /\ t \in Seq(T)
  BY <1>1, SeqMonotonic
<1>3. \A x \in T : IsSignature(x)
  BY DEF IsLibrary, Range
<1> HIDE DEF T
<1>4. s \o t \in Seq(T)
  BY <1>2, ConcatProperties
<1>5. \A n \in DOMAIN (s \o t) : (s \o t)[n] \in T
  BY <1>4, LenProperties
<1>6. s \o t \in Seq(Range(s \o t))
  BY <1>4, SeqOfRange
<1> QED
  BY <1>3, <1>5, <1>6 DEF IsLibrary

LEMMA SeverityLevels ==
    /\ DOMAIN Severity = {"low", "medium", "high", "critical"}
    /\ \A s \in DOMAIN Severity : Severity[s] \in 0..3
BY DEF Severity

LEMMA PortsAreSignatures == IsLibrary(Ports)
<1>1. /\ Ports[1].key # "" /\ Ports[2].key # ""
  BY DEF Ports, Sig
<1>2. /\ Ports[1].severity \in {"low", "medium", "high", "critical"}
      /\ Ports[2].severity \in {"low", "medium", "high", "critical"}
  BY DEF Ports, Sig
<1>3. \A n \in DOMAIN Ports : Ports[n].confidence \in Trust
  BY TrustBounds DEF Ports, Sig
<1>4. DOMAIN Ports = 1..2 /\ Ports \in Seq(Range(Ports))
  BY DEF Ports, Range
<1>5. \A n \in 1..2 : n = 1 \/ n = 2
  OBVIOUS
<1>6. \A n \in DOMAIN Ports : Ports[n].key # ""
  BY <1>1, <1>4, <1>5
<1>7. \A n \in DOMAIN Ports : Ports[n].severity \in DOMAIN Severity
  BY <1>2, <1>4, <1>5, SeverityLevels
<1>8. \A n \in DOMAIN Ports : IsSignature(Ports[n])
  BY <1>3, <1>6, <1>7 DEF IsSignature
<1> QED
  BY <1>4, <1>8 DEF IsLibrary

LEMMA DependenciesAreSignatures == IsLibrary(Dependencies)
<1>1. /\ Dependencies[1].key # "" /\ Dependencies[2].key # "" /\ Dependencies[3].key # ""
  BY DEF Dependencies, Sig
<1>2. /\ Dependencies[1].severity \in {"low", "medium", "high", "critical"}
      /\ Dependencies[2].severity \in {"low", "medium", "high", "critical"}
      /\ Dependencies[3].severity \in {"low", "medium", "high", "critical"}
  BY DEF Dependencies, Sig
<1>3. \A n \in DOMAIN Dependencies : Dependencies[n].confidence \in Trust
  BY TrustBounds DEF Dependencies, Sig
<1>4. DOMAIN Dependencies = 1..3 /\ Dependencies \in Seq(Range(Dependencies))
  BY DEF Dependencies, Range
<1>5. \A n \in 1..3 : n = 1 \/ n = 2 \/ n = 3
  OBVIOUS
<1>6. \A n \in DOMAIN Dependencies : Dependencies[n].key # ""
  BY <1>1, <1>4, <1>5
<1>7. \A n \in DOMAIN Dependencies : Dependencies[n].severity \in DOMAIN Severity
  BY <1>2, <1>4, <1>5, SeverityLevels
<1>8. \A n \in DOMAIN Dependencies : IsSignature(Dependencies[n])
  BY <1>3, <1>6, <1>7 DEF IsSignature
<1> QED
  BY <1>4, <1>8 DEF IsLibrary

LEMMA EnvironmentAreSignatures == IsLibrary(Environment)
<1>1. /\ Environment[1].key # "" /\ Environment[2].key # ""
  BY DEF Environment, Sig
<1>2. /\ Environment[1].severity \in {"low", "medium", "high", "critical"}
      /\ Environment[2].severity \in {"low", "medium", "high", "critical"}
  BY DEF Environment, Sig
<1>3. \A n \in DOMAIN Environment : Environment[n].confidence \in Trust
  BY TrustBounds DEF Environment, Sig
<1>4. DOMAIN Environment = 1..2 /\ Environment \in Seq(Range(Environment))
  BY DEF Environment, Range
<1>5. \A n \in 1..2 : n = 1 \/ n = 2
  OBVIOUS
<1>6. \A n \in DOMAIN Environment : Environment[n].key # ""
  BY <1>1, <1>4, <1>5
<1>7. \A n \in DOMAIN Environment : Environment[n].severity \in DOMAIN Severity
  BY <1>2, <1>4, <1>5, SeverityLevels
<1>8. \A n \in DOMAIN Environment : IsSignature(Environment[n])
  BY <1>3, <1>6, <1>7 DEF IsSignature
<1> QED
  BY <1>4, <1>8 DEF IsLibrary

LEMMA DatabaseAreSignatures == IsLibrary(Database)
<1>1. /\ Database[1].key # "" /\ Database[2].key # "" /\ Database[3].key # ""
      /\ Database[4].key # ""
  BY DEF Database, Sig
<1>2. /\ Database[1].severity \in {"low", "medium", "high", "critical"}
      /\ Database[2].severity \in {"low", "medium", "high", "critical"}
      /\ Database[3].severity \in {"low", "medium", "high", "critical"}
      /\ Database[4].severity \in {"low", "medium", "high", "critical"}
  BY DEF Database, Sig
<1>3. \A n \in DOMAIN Database : Database[n].confidence \in Trust
  BY TrustBounds DEF Database, Sig
<1>4. DOMAIN Database = 1..4 /\ Database \in Seq(Range(Database))
  BY DEF Database, Range
<1>5. \A n \in 1..4 : n = 1 \/ n = 2 \/ n = 3 \/ n = 4
  OBVIOUS
<1>6. \A n \in DOMAIN Database : Database[n].key # ""
  BY <1>1, <1>4, <1>5
<1>7. \A n \in DOMAIN Database : Database[n].severity \in DOMAIN Severity
  BY <1>2, <1>4, <1>5, SeverityLevels
<1>8. \A n \in DOMAIN Database : IsSignature(Database[n])
  BY <1>3, <1>6, <1>7 DEF IsSignature
<1> QED
  BY <1>4, <1>8 DEF IsLibrary

LEMMA ResourcesAreSignatures == IsLibrary(Resources)
<1>1. /\ Resources[1].key # "" /\ Resources[2].key # "" /\ Resources[3].key # ""
  BY DEF Resources, Sig
<1>2. /\ Resources[1].severity \in {"low", "medium", "high", "critical"}
      /\ Resources[2].severity \in {"low", "medium", "high", "critical"}
      /\ Resources[3].severity \in {"low", "medium", "high", "critical"}
  BY DEF Resources, Sig
<1>3. \A n \in DOMAIN Resources : Resources[n].confidence \in Trust
  BY TrustBounds DEF Resources, Sig
<1>4. DOMAIN Resources = 1..3 /\ Resources \in Seq(Range(Resources))
  BY DEF Resources, Range
<1>5. \A n \in 1..3 : n = 1 \/ n = 2 \/ n = 3
  OBVIOUS
<1>6. \A n \in DOMAIN Resources : Resources[n].key # ""
  BY <1>1, <1>4, <1>5
<1>7. \A n \in DOMAIN Resources : Resources[n].severity \in DOMAIN Severity
  BY <1>2, <1>4, <1>5, SeverityLevels
<1>8. \A n \in DOMAIN Resources : IsSignature(Resources[n])
  BY <1>3, <1>6, <1>7 DEF IsSignature
<1> QED
  BY <1>4, <1>8 DEF IsLibrary

LEMMA ImagesAreSignatures == IsLibrary(Images)
<1>1. /\ Images[1].key # "" /\ Images[2].key # "" /\ Images[3].key # ""
      /\ Images[4].key # "" /\ Images[5].key # ""
  BY DEF Images, Sig
<1>2. /\ Images[1].severity \in {"low", "medium", "high", "critical"}
      /\ Images[2].severity \in {"low", "medium", "high", "critical"}
      /\ Images[3].severity \in {"low", "medium", "high", "critical"}
      /\ Images[4].severity \in {"low", "medium", "high", "critical"}
      /\ Images[5].severity \in {"low", "medium", "high", "critical"}
  BY DEF Images, Sig
<1>3. \A n \in DOMAIN Images : Images[n].confidence \in Trust
  BY TrustBounds DEF Images, Sig
<1>4. DOMAIN Images = 1..5 /\ Images \in Seq(Range(Images))
  BY DEF Images, Range
<1>5. \A n \in 1..5 : n = 1 \/ n = 2 \/ n = 3 \/ n = 4 \/ n = 5
  OBVIOUS
<1>6. \A n \in DOMAIN Images : Images[n].key # ""
  BY <1>1, <1>4, <1>5
<1>7. \A n \in DOMAIN Images : Images[n].severity \in DOMAIN Severity
  BY <1>2, <1>4, <1>5, SeverityLevels
<1>8. \A n \in DOMAIN Images : IsSignature(Images[n])
  BY <1>3, <1>6, <1>7 DEF IsSignature
<1> QED
  BY <1>4, <1>8 DEF IsLibrary

LEMMA ProxyAreSignatures == IsLibrary(Proxy)
<1>1. /\ Proxy[1].key # "" /\ Proxy[2].key # "" /\ Proxy[3].key # ""
      /\ Proxy[4].key # "" /\ Proxy[5].key # "" /\ Proxy[6].key # ""
  BY DEF Proxy, Sig
<1>2. /\ Proxy[1].severity \in {"low", "medium", "high", "critical"}
      /\ Proxy[2].severity \in {"low", "medium", "high", "critical"}
      /\ Proxy[3].severity \in {"low", "medium", "high", "critical"}
      /\ Proxy[4].severity \in {"low", "medium", "high", "critical"}
      /\ Proxy[5].severity \in {"low", "medium", "high", "critical"}
      /\ Proxy[6].severity \in {"low", "medium", "high", "critical"}
  BY DEF Proxy, Sig
<1>3. \A n \in DOMAIN Proxy : Proxy[n].confidence \in Trust
  BY TrustBounds DEF Proxy, Sig
<1>4. DOMAIN Proxy = 1..6 /\ Proxy \in Seq(Range(Proxy))
  BY DEF Proxy, Range
<1>5. \A n \in 1..6 : n = 1 \/ n = 2 \/ n = 3 \/ n = 4 \/ n = 5 \/ n = 6
  OBVIOUS
<1>6. \A n \in DOMAIN Proxy : Proxy[n].key # ""
  BY <1>1, <1>4, <1>5
<1>7. \A n \in DOMAIN Proxy : Proxy[n].severity \in DOMAIN Severity
  BY <1>2, <1>4, <1>5, SeverityLevels
<1>8. \A n \in DOMAIN Proxy : IsSignature(Proxy[n])
  BY <1>3, <1>6, <1>7 DEF IsSignature
<1> QED
  BY <1>4, <1>8 DEF IsLibrary

LEMMA PipelineAreSignatures == IsLibrary(Pipeline)
<1>1. /\ Pipeline[1].key # "" /\ Pipeline[2].key # "" /\ Pipeline[3].key # ""
      /\ Pipeline[4].key # "" /\ Pipeline[5].key # ""
  BY DEF Pipeline, Sig
<1>2. /\ Pipeline[1].severity \in {"low", "medium", "high", "critical"}
      /\ Pipeline[2].severity \in {"low", "medium", "high", "critical"}
      /\ Pipeline[3].severity \in {"low", "medium", "high", "critical"}
      /\ Pipeline[4].severity \in {"low", "medium", "high", "critical"}
      /\ Pipeline[5].severity \in {"low", "medium", "high", "critical"}
  BY DEF Pipeline, Sig
<1>3. \A n \in DOMAIN Pipeline : Pipeline[n].confidence \in Trust
  BY TrustBounds DEF Pipeline, Sig
<1>4. DOMAIN Pipeline = 1..5 /\ Pipeline \in Seq(Range(Pipeline))
  BY DEF Pipeline, Range
<1>5. \A n \in 1..5 : n = 1 \/ n = 2 \/ n = 3 \/ n = 4 \/ n = 5
  OBVIOUS
<1>6. \A n \in DOMAIN Pipeline : Pipeline[n].key # ""
  BY <1>1, <1>4, <1>5
<1>7. \A n \in DOMAIN Pipeline : Pipeline[n].severity \in DOMAIN Severity
  BY <1>2, <1>4, <1>5, SeverityLevels
<1>8. \A n \in DOMAIN Pipeline : IsSignature(Pipeline[n])
  BY <1>3, <1>6, <1>7 DEF IsSignature
<1> QED
  BY <1>4, <1>8 DEF IsLibrary

LEMMA BehaviourAreSignatures == IsLibrary(Behaviour)
<1>1. /\ Behaviour[1].key # "" /\ Behaviour[2].key # "" /\ Behaviour[3].key # ""
      /\ Behaviour[4].key # "" /\ Behaviour[5].key # "" /\ Behaviour[6].key # ""
  BY DEF Behaviour, Sig
<1>2. /\ Behaviour[1].severity \in {"low", "medium", "high", "critical"}
      /\ Behaviour[2].severity \in {"low", "medium", "high", "critical"}
      /\ Behaviour[3].severity \in {"low", "medium", "high", "critical"}
      /\ Behaviour[4].severity \in {"low", "medium", "high", "critical"}
      /\ Behaviour[5].severity \in {"low", "medium", "high", "critical"}
      /\ Behaviour[6].severity \in {"low", "medium", "high", "critical"}
  BY DEF Behaviour, Sig
<1>3. \A n \in DOMAIN Behaviour : Behaviour[n].confidence \in Trust
  BY TrustBounds DEF Behaviour, Sig
<1>4. DOMAIN Behaviour = 1..6 /\ Behaviour \in Seq(Range(Behaviour))
  BY DEF Behaviour, Range
<1>5. \A n \in 1..6 : n = 1 \/ n = 2 \/ n = 3 \/ n = 4 \/ n = 5 \/ n = 6
  OBVIOUS
<1>6. \A n \in DOMAIN Behaviour : Behaviour[n].key # ""
  BY <1>1, <1>4, <1>5
<1>7. \A n \in DOMAIN Behaviour : Behaviour[n].severity \in DOMAIN Severity
  BY <1>2, <1>4, <1>5, SeverityLevels
<1>8. \A n \in DOMAIN Behaviour : IsSignature(Behaviour[n])
  BY <1>3, <1>6, <1>7 DEF IsSignature
<1> QED
  BY <1>4, <1>8 DEF IsLibrary

LEMMA LibraryIsSound ==
    /\ DOMAIN SIGNATURES = 1..Len(SIGNATURES) /\ Len(SIGNATURES) \in Nat
    /\ \A m \in DOMAIN SIGNATURES :
           IsSignature(SIGNATURES[m]) /\ SIGNATURES[m].confidence \in Int
<1>1. IsLibrary(SIGNATURES)
  BY LibrariesConcatenate, PortsAreSignatures, DependenciesAreSignatures,
     EnvironmentAreSignatures, DatabaseAreSignatures, ResourcesAreSignatures,
     ImagesAreSignatures, ProxyAreSignatures, PipelineAreSignatures,
     BehaviourAreSignatures DEF SIGNATURES
<1>2. \A m \in DOMAIN SIGNATURES : IsSignature(SIGNATURES[m])
  BY <1>1 DEF IsLibrary
<1>3. \A m \in DOMAIN SIGNATURES : SIGNATURES[m].confidence \in Int
  <2> SUFFICES ASSUME NEW m \in DOMAIN SIGNATURES PROVE SIGNATURES[m].confidence \in Int
    OBVIOUS
  <2> DEFINE c == SIGNATURES[m].confidence
  <2>1. c \in Trust
    BY <1>2 DEF IsSignature
  <2> HIDE DEF c
  <2>2. c \in Int
    BY <2>1, TrustBounds
  <2> QED
    BY <2>2 DEF c
<1> QED
  BY <1>1, <1>2, <1>3, LenProperties DEF IsLibrary

(***************************************************************************)
(* Candidates                                                              *)
(***************************************************************************)
\* The events as the signatures see them.
Seen(events) == [n \in DOMAIN events |-> [source |-> Source[events[n]], says |-> Says[events[n]]]]

\* The event at i matches the signature at m.
Hit(events, m, i) ==
    SIGNATURES[m].key \in Says[events[i]] /\ Source[events[i]] \in SIGNATURES[m].from

LEMMA HitsAreFinite ==
    ASSUME NEW events \in Seq(Line), NEW m \in DOMAIN SIGNATURES
    PROVE  LET hits == HitsOf(SIGNATURES[m], Seen(events))
           IN  /\ hits = {i \in DOMAIN events : Hit(events, m, i)}
               /\ hits \in SUBSET Nat /\ IsFiniteSet(hits) /\ Cardinality(hits) \in Nat
               /\ hits # {} => Cardinality(hits) >= 1
               /\ Smallest(hits) \in Nat \/ hits = {}
<1> DEFINE hits == HitsOf(SIGNATURES[m], Seen(events))
<1>1. Len(events) \in Nat /\ DOMAIN events = 1..Len(events)
  BY LenProperties
<1>2. hits = {i \in DOMAIN events : Hit(events, m, i)}
  BY DEF HitsOf, Matches, Seen, Hit
<1>3. IsFiniteSet(DOMAIN events)
  BY <1>1, FS_Interval
<1> HIDE DEF hits
<1>4. hits \in SUBSET DOMAIN events
  BY <1>2
<1>5. IsFiniteSet(hits)
  BY <1>3, <1>4, FS_Subset
<1>6. Cardinality(hits) \in Nat /\ (Cardinality(hits) = 0 <=> hits = {})
  BY <1>5, FS_CardinalityType, FS_EmptySet
<1>7. hits \in SUBSET Nat
  BY <1>1, <1>4
<1>8. Smallest(hits) \in Nat \/ hits = {}
  BY <1>7, SmallestIsMember
<1> QED
  BY <1>2, <1>5, <1>6, <1>7, <1>8 DEF hits

\* A score is below its cap, and no less than what the signature starts from.
LEMMA ScoreBounds ==
    ASSUME NEW events \in Seq(Line), NEW m \in DOMAIN SIGNATURES,
           HitsOf(SIGNATURES[m], Seen(events)) # {}
    PROVE  /\ Score(SIGNATURES[m], Seen(events)) \in Trust
           /\ Score(SIGNATURES[m], Seen(events)) \in Int
           /\ SIGNATURES[m].confidence <= Score(SIGNATURES[m], Seen(events))
<1> DEFINE hits == HitsOf(SIGNATURES[m], Seen(events))
           from == {Seen(events)[i].source : i \in hits}
           f == [i \in hits |-> Seen(events)[i].source]
           c == SIGNATURES[m].confidence
           h == Cardinality(hits)
           s == Cardinality(from)
<1>1. IsFiniteSet(hits) /\ h \in Nat /\ h >= 1
  BY HitsAreFinite
<1>2. c \in Trust
  BY LibraryIsSound DEF IsSignature
<1>3. s \in Nat /\ s >= 1
  <2>1. f \in Surjection(hits, from)
    BY DEF Surjection
  <2>2. from # {}
    OBVIOUS
  <2> HIDE DEF f, hits, from
  <2>3. IsFiniteSet(from)
    BY <1>1, <2>1, FS_Surjection
  <2>4. Cardinality(from) \in Nat /\ Cardinality(from) # 0
    BY <2>2, <2>3, FS_CardinalityType, FS_EmptySet
  <2> QED
    BY <2>4
<1>4. Score(SIGNATURES[m], Seen(events)) = AtMost(990, c + 10 * AtMost(h - 1, 4) + 20 * (s - 1))
  BY DEF Score
<1> HIDE DEF c, h, s
<1>5. AtMost(h - 1, 4) \in 0..4
  BY <1>1 DEF AtMost
<1>6. c \in Int /\ 0 <= c /\ c <= 990
  BY <1>2, TrustBounds
<1> QED
  <2> DEFINE x == c + 10 * AtMost(h - 1, 4) + 20 * (s - 1)
  <2>1. x \in Int /\ c <= x
    BY <1>3, <1>5, <1>6
  <2> HIDE DEF x
  <2>2. AtMost(990, x) \in Trust /\ AtMost(990, x) \in Int /\ c <= AtMost(990, x)
    BY <1>6, <2>1, TrustBounds DEF AtMost
  <2> QED
    BY <1>4, <2>2 DEF x, c

\* Four measures and a number order the signatures.
LEMMA RankedIsStrict ==
    ASSUME NEW H \in SUBSET Int, NEW R \in SUBSET (H \X H),
           NEW f \in [H -> [score : Int, level : Int, hits : Int, first : Int]],
           \A m, n \in H : <<m, n>> \in R <=>
               \/ f[m].score > f[n].score
               \/ /\ f[m].score = f[n].score
                  /\ \/ f[m].level > f[n].level
                     \/ f[m].level = f[n].level /\ f[m].hits > f[n].hits
                     \/ /\ f[m].level = f[n].level /\ f[m].hits = f[n].hits
                        /\ f[m].first < f[n].first \/ (f[m].first = f[n].first /\ m < n)
    PROVE  StrictOrder(H, R)
<1>1. \A x \in H : /\ x \in Int /\ f[x].score \in Int /\ f[x].level \in Int
                   /\ f[x].hits \in Int /\ f[x].first \in Int
  OBVIOUS
<1>2. ASSUME NEW x \in H PROVE <<x, x>> \notin R
  BY <1>1
<1>3. ASSUME NEW x \in H, NEW y \in H, NEW z \in H, <<x, y>> \in R, <<y, z>> \in R
      PROVE  <<x, z>> \in R
  BY <1>1, <1>3
<1>4. ASSUME NEW x \in H, NEW y \in H PROVE x = y \/ <<x, y>> \in R \/ <<y, x>> \in R
  BY <1>1
<1> QED
  BY <1>2, <1>3, <1>4 DEF StrictOrder

LEMMA RankingIsStrict ==
    ASSUME NEW events \in Seq(Line),
           NEW H, H = {n \in DOMAIN SIGNATURES : HitsOf(SIGNATURES[n], Seen(events)) # {}},
           NEW R, R = {p \in H \X H : Before(p[1], p[2], Seen(events))}
    PROVE  StrictOrder(H, R) /\ \A m, n \in H : <<m, n>> \in R <=> Before(m, n, Seen(events))
<1> DEFINE ev == Seen(events)
           rec(n) == [score |-> Score(SIGNATURES[n], ev),
                      level |-> Severity[SIGNATURES[n].severity],
                      hits  |-> Cardinality(HitsOf(SIGNATURES[n], ev)),
                      first |-> Smallest(HitsOf(SIGNATURES[n], ev))]
           f == [n \in H |-> rec(n)]
           Ranked(m, n) ==
               \/ f[m].score > f[n].score
               \/ /\ f[m].score = f[n].score
                  /\ \/ f[m].level > f[n].level
                     \/ f[m].level = f[n].level /\ f[m].hits > f[n].hits
                     \/ /\ f[m].level = f[n].level /\ f[m].hits = f[n].hits
                        /\ f[m].first < f[n].first \/ (f[m].first = f[n].first /\ m < n)
<1>1. H \in SUBSET Int /\ R \in SUBSET (H \X H)
  BY LibraryIsSound
<1>2. \A m, n \in H : <<m, n>> \in R <=> Before(m, n, ev)
  OBVIOUS
<1>3. ASSUME NEW n \in H PROVE rec(n) \in [score : Int, level : Int, hits : Int, first : Int]
  <2>1. n \in DOMAIN SIGNATURES /\ HitsOf(SIGNATURES[n], Seen(events)) # {}
    OBVIOUS
  <2>2. Score(SIGNATURES[n], Seen(events)) \in Int
    BY <2>1, ScoreBounds
  <2>3. SIGNATURES[n].severity \in DOMAIN Severity
    BY <2>1, LibraryIsSound DEF IsSignature
  <2>4. Severity[SIGNATURES[n].severity] \in Int
    BY <2>3, SeverityLevels
  <2>5. /\ Cardinality(HitsOf(SIGNATURES[n], Seen(events))) \in Int
        /\ Smallest(HitsOf(SIGNATURES[n], Seen(events))) \in Int
    BY <2>1, HitsAreFinite
  <2> QED
    BY <2>2, <2>4, <2>5
<1>4. f \in [H -> [score : Int, level : Int, hits : Int, first : Int]]
  <2> HIDE DEF rec
  <2> QED
    BY <1>3
<1>5. ASSUME NEW m \in H, NEW n \in H PROVE <<m, n>> \in R <=> Ranked(m, n)
  <2>1. f[m] = rec(m) /\ f[n] = rec(n)
    OBVIOUS
  <2> HIDE DEF f
  <2>2. Before(m, n, ev) <=> Ranked(m, n)
    BY <2>1 DEF Before
  <2> QED
    BY <1>2, <2>2
<1>6. StrictOrder(H, R)
  <2> HIDE DEF f
  <2>1. \A m, n \in H : <<m, n>> \in R <=> Ranked(m, n)
    BY <1>5
  <2> QED
    BY ONLY <1>1, <1>4, <2>1, RankedIsStrict
<1> QED
  BY <1>2, <1>6

\* What a signature shows of its hits: not nothing.
LEMMA ShownHits ==
    ASSUME NEW S \in SUBSET Nat, S # {}
    PROVE  {i \in S : Cardinality({j \in S : j < i}) < 5} # {}
<1>1. Smallest(S) \in S /\ \A y \in S : Smallest(S) <= y
  BY SmallestIsMember
<1>2. {j \in S : j < Smallest(S)} = {}
  <2>1. ASSUME NEW j \in S PROVE ~(j < Smallest(S))
    <3>1. j \in Nat /\ Smallest(S) \in Nat /\ Smallest(S) <= j
      BY <1>1
    <3> QED
      BY <3>1
  <2> QED
    BY <2>1
<1>3. Cardinality({j \in S : j < Smallest(S)}) < 5
  BY <1>2, FS_EmptySet
<1> QED
  BY <1>1, <1>3

\* Every candidate is a signature with a hit, and the first one is at least as
\* sure as any signature that has a hit.
LEMMA CandidatesAreHits ==
    ASSUME NEW events \in Seq(Line)
    PROVE  LET c == Candidates(events)
           IN  /\ Len(c) \in Nat /\ c \in Seq(Range(c)) /\ DOMAIN c = 1..Len(c)
               /\ \A p \in 1..Len(c) :
                      /\ c[p].confidence \in Trust
                      /\ c[p].evidence \subseteq DOMAIN events /\ c[p].evidence # {}
                      /\ \E m \in DOMAIN SIGNATURES :
                             /\ c[p].key = SIGNATURES[m].key
                             /\ c[p].severity = SIGNATURES[m].severity
                             /\ \E i \in DOMAIN events : Hit(events, m, i)
               /\ \A m \in DOMAIN SIGNATURES : \A i \in DOMAIN events :
                      Hit(events, m, i) =>
                          1 \in DOMAIN c /\ SIGNATURES[m].confidence <= c[1].confidence
<1> DEFINE ev == Seen(events)
           H == {n \in DOMAIN SIGNATURES : HitsOf(SIGNATURES[n], ev) # {}}
           R == {p \in H \X H : Before(p[1], p[2], ev)}
           B(n) == {m \in H : Before(m, n, ev)}
           place == [n \in H |-> 1 + Cardinality(B(n))]
           chosen(p) == CHOOSE n \in H : place[n] = p
           at(p) == SIGNATURES[chosen(p)]
           shown(sig) == {i \in HitsOf(sig, ev) : Cardinality({j \in HitsOf(sig, ev) : j < i}) < 5}
           N == AtMost(Cardinality(H), MaxResults)
           c == Candidates(events)
<1>1. c = [p \in 1..N |->
              [key |-> at(p).key, severity |-> at(p).severity, fixes |-> at(p).fixes,
               confidence |-> Score(at(p), ev), evidence |-> shown(at(p))]]
  BY DEF Candidates, MatchSignatures, Seen
<1>2. StrictOrder(H, R) /\ \A m, n \in H : <<m, n>> \in R <=> Before(m, n, ev)
  BY RankingIsStrict
<1>3. IsFiniteSet(H) /\ Cardinality(H) \in Nat /\ (Cardinality(H) = 0 <=> H = {})
  <2>1. IsFiniteSet(DOMAIN SIGNATURES)
    BY LibraryIsSound, FS_Interval
  <2>2. H \subseteq DOMAIN SIGNATURES
    OBVIOUS
  <2> HIDE DEF H
  <2>3. IsFiniteSet(H)
    BY <2>1, <2>2, FS_Subset
  <2> QED
    BY <2>3, FS_CardinalityType, FS_EmptySet
<1>4. N \in Nat /\ N <= Cardinality(H) /\ (H # {} => 1 \in 1..N)
  <2> HIDE DEF H
  <2>1. N \in Nat /\ N <= Cardinality(H) /\ (Cardinality(H) # 0 => 1 <= N)
    BY <1>3 DEF AtMost, MaxResults
  <2> QED
    BY <1>3, <2>1
<1>5. ASSUME NEW n \in H
      PROVE  /\ HitsOf(SIGNATURES[n], ev) = {i \in DOMAIN events : Hit(events, n, i)}
             /\ HitsOf(SIGNATURES[n], ev) \in SUBSET Nat
  BY HitsAreFinite
<1>13. ASSUME NEW n \in H
       PROVE  /\ Score(SIGNATURES[n], ev) \in Trust /\ Score(SIGNATURES[n], ev) \in Int
              /\ SIGNATURES[n].confidence <= Score(SIGNATURES[n], ev)
  <2>1. n \in DOMAIN SIGNATURES /\ HitsOf(SIGNATURES[n], Seen(events)) # {}
    OBVIOUS
  <2>2. /\ Score(SIGNATURES[n], Seen(events)) \in Trust
        /\ Score(SIGNATURES[n], Seen(events)) \in Int
        /\ SIGNATURES[n].confidence <= Score(SIGNATURES[n], Seen(events))
    BY <2>1, ScoreBounds
  <2> QED
    BY <2>2
<1> HIDE DEF H, R, ev, N
<1>6. \A n \in H : Below(H, R, n) = B(n)
  BY <1>2 DEF Below
<1>7. ASSUME NEW p \in 1..N PROVE chosen(p) \in H /\ 1 + Cardinality(B(chosen(p))) = p
  <2>1. p \in 1..Cardinality(H)
    BY <1>3, <1>4
  <2>2. PICK n \in H : 1 + Cardinality(Below(H, R, n)) = p
    BY <1>2, <1>3, <2>1, PlacesAreTaken
  <2>3. place[n] = p
    BY <1>6, <2>2
  <2>4. chosen(p) \in H /\ place[chosen(p)] = p
    BY <2>3
  <2> QED
    BY <2>4
<1> HIDE DEF chosen, B
<1>8. ASSUME NEW p \in 1..N
      PROVE  /\ c[p].key = SIGNATURES[chosen(p)].key
             /\ c[p].severity = SIGNATURES[chosen(p)].severity
             /\ c[p].confidence = Score(SIGNATURES[chosen(p)], ev)
             /\ c[p].evidence = shown(SIGNATURES[chosen(p)])
  BY <1>1
<1>9. DOMAIN c = 1..N
  BY <1>1
<1>10. Len(c) = N /\ c \in Seq(Range(c))
  <2>1. c \in [1..N -> Range(c)]
    BY <1>1 DEF Range
  <2> HIDE DEF c
  <2>2. c \in Seq(Range(c))
    BY <1>4, <2>1, SeqDef
  <2>3. DOMAIN c = 1..Len(c) /\ Len(c) \in Nat
    BY <2>2, LenProperties
  <2> QED
    BY <1>4, <1>9, <2>2, <2>3
<1> HIDE DEF c, shown
<1>11. ASSUME NEW p \in 1..N
       PROVE  /\ c[p].confidence \in Trust
              /\ c[p].evidence \subseteq DOMAIN events /\ c[p].evidence # {}
              /\ \E m \in DOMAIN SIGNATURES :
                     /\ c[p].key = SIGNATURES[m].key
                     /\ c[p].severity = SIGNATURES[m].severity
                     /\ \E i \in DOMAIN events : Hit(events, m, i)
  <2> DEFINE m == chosen(p)
             S == HitsOf(SIGNATURES[m], ev)
  <2>1. m \in H /\ m \in DOMAIN SIGNATURES /\ S # {}
    BY <1>7 DEF H
  <2>2. S = {i \in DOMAIN events : Hit(events, m, i)} /\ S \in SUBSET Nat
    BY <1>5, <2>1
  <2>3. c[p].confidence \in Trust
    <3>1. Score(SIGNATURES[m], ev) \in Trust
      BY <1>13, <2>1
    <3> QED
      BY <1>8, <3>1
  <2>4. c[p].evidence = {i \in S : Cardinality({j \in S : j < i}) < 5}
    BY <1>8 DEF shown
  <2> HIDE DEF S
  <2>5. c[p].evidence # {}
    BY <2>1, <2>2, <2>4, ShownHits
  <2>6. c[p].evidence \subseteq DOMAIN events
    BY <2>2, <2>4
  <2>7. \E i \in DOMAIN events : Hit(events, m, i)
    BY <2>1, <2>2
  <2> QED
    BY <1>8, <2>1, <2>3, <2>5, <2>6, <2>7
<1>12. ASSUME NEW m \in DOMAIN SIGNATURES, NEW i \in DOMAIN events, Hit(events, m, i)
       PROVE  1 \in DOMAIN c /\ SIGNATURES[m].confidence <= c[1].confidence
  <2> DEFINE b == chosen(1)
  <2>1. m \in H
    <3>1. HitsOf(SIGNATURES[m], ev) = {k \in DOMAIN events : Hit(events, m, k)}
      BY HitsAreFinite DEF ev
    <3> QED
      BY <1>12, <3>1 DEF H
  <2>2. 1 \in 1..N
    BY <1>4, <2>1
  <2>3. b \in H /\ 1 + Cardinality(B(b)) = 1
    BY <1>7, <2>2
  <2>4. B(b) = {}
    <3>1. Below(H, R, b) = B(b)
      BY <1>6, <2>3
    <3>2. IsFiniteSet(B(b)) /\ Cardinality(B(b)) \in Nat
      BY <1>2, <1>3, <2>3, <3>1, BelowIsFinite
    <3>3. Cardinality(B(b)) = 0
      BY <2>3, <3>2
    <3> QED
      BY <3>2, <3>3, FS_EmptySet
  <2>5. ~Before(m, b, ev)
    BY <2>1, <2>4 DEF B
  <2>6. m = b \/ Before(b, m, ev)
    BY <1>2, <2>1, <2>3, <2>5 DEF StrictOrder
  <2>7. Score(SIGNATURES[m], ev) <= Score(SIGNATURES[b], ev)
    <3>1. Score(SIGNATURES[m], ev) \in Int /\ Score(SIGNATURES[b], ev) \in Int
      BY <1>13, <2>1, <2>3
    <3>2. CASE m = b
      BY <3>1, <3>2
    <3>3. CASE Before(b, m, ev)
      <4>1. \/ Score(SIGNATURES[b], ev) > Score(SIGNATURES[m], ev)
            \/ Score(SIGNATURES[b], ev) = Score(SIGNATURES[m], ev)
        BY <3>3 DEF Before
      <4> QED
        BY <3>1, <4>1
    <3> QED
      BY <2>6, <3>2, <3>3
  <2>8. SIGNATURES[m].confidence \in Int
    BY LibraryIsSound
  <2>9. SIGNATURES[m].confidence <= Score(SIGNATURES[b], ev)
    <3>1. /\ Score(SIGNATURES[m], ev) \in Int /\ Score(SIGNATURES[b], ev) \in Int
          /\ SIGNATURES[m].confidence <= Score(SIGNATURES[m], ev)
      BY <1>13, <2>1, <2>3
    <3> QED
      BY <2>7, <2>8, <3>1
  <2> QED
    BY <1>8, <1>9, <2>2, <2>9
<1> QED
  BY <1>4, <1>9, <1>10, <1>11, <1>12 DEF c

(***************************************************************************)
(* Results                                                                 *)
(***************************************************************************)
Sources == {"none", "signature", "hybrid", "llm"}

\* What a result is that the events of a timeline bear out.
BorneOut(events, result) ==
    /\ result \in [key : Key \cup {""}, severity : DOMAIN Severity, confidence : Permille,
                   evidence : SUBSET {events[i] : i \in DOMAIN events},
                   fixes : {result.fixes}, source : Sources]
    /\ result.key # "" => \E m \in DOMAIN SIGNATURES : \E i \in DOMAIN events :
                              SIGNATURES[m].key = result.key /\ Hit(events, m, i)
    /\ result.confidence >= 400 => result.key # "" \/ result.evidence # {}

\* A result names a failure of which a rule is sure.
Names(events, result) ==
    \A m \in DOMAIN SIGNATURES : \A i \in DOMAIN events :
        Hit(events, m, i) /\ SIGNATURES[m].confidence >= Sure => result.key # ""

Job(events) == [events |-> events, candidates |-> Candidates(events)]

LEMMA KeysAreNames == \A m \in DOMAIN SIGNATURES : SIGNATURES[m].key \in Key /\ SIGNATURES[m].key # ""
<1>1. \A m \in DOMAIN SIGNATURES : SIGNATURES[m].key \in Key
  BY DEF Key
<1>2. \A m \in DOMAIN SIGNATURES : SIGNATURES[m].key # ""
  BY LibraryIsSound DEF IsSignature
<1> QED
  BY <1>1, <1>2

LEMMA RulesAreBorneOut ==
    ASSUME NEW events \in Seq(Line)
    PROVE  BorneOut(events, ByRules(Job(events))) /\ Names(events, ByRules(Job(events)))
<1> DEFINE c == Candidates(events)
           r == ByRules(Job(events))
           lines == {events[i] : i \in DOMAIN events}
<1>1. /\ Len(c) \in Nat /\ c \in Seq(Range(c)) /\ DOMAIN c = 1..Len(c)
      /\ \A p \in 1..Len(c) :
             /\ c[p].confidence \in Trust
             /\ c[p].evidence \subseteq DOMAIN events /\ c[p].evidence # {}
             /\ \E m \in DOMAIN SIGNATURES :
                    /\ c[p].key = SIGNATURES[m].key
                    /\ c[p].severity = SIGNATURES[m].severity
                    /\ \E i \in DOMAIN events : Hit(events, m, i)
      /\ \A m \in DOMAIN SIGNATURES : \A i \in DOMAIN events :
             Hit(events, m, i) => 1 \in DOMAIN c /\ SIGNATURES[m].confidence <= c[1].confidence
  BY CandidatesAreHits
<1> HIDE DEF c
<1>2. CASE c = <<>>
  <2>1. r = Unknown(Job(events))
    BY <1>2 DEF ByRules, Job, c
  <2>2. r = [key |-> "", severity |-> "medium", confidence |-> 200,
             evidence |-> {events[i] : i \in LastErrors(events)},
             fixes |-> <<"escalate_to_devops">>, source |-> "none"]
    BY <2>1 DEF Unknown, Job
  <2> HIDE DEF r
  <2>3. LastErrors(events) \subseteq DOMAIN events
    BY DEF LastErrors
  <2>4. /\ r.key = "" /\ r.severity \in DOMAIN Severity /\ r.confidence = 200
        /\ r.evidence \in SUBSET lines
    BY <2>2, <2>3, SeverityLevels
  <2> DEFINE trust == r.confidence
  <2>41. trust = 200
    BY <2>4
  <2> HIDE DEF trust
  <2>42. trust \in Permille /\ ~(trust >= 400)
    BY <2>41, PermilleBounds
  <2>5. r \in [key : Key \cup {""}, severity : DOMAIN Severity, confidence : Permille,
               evidence : SUBSET lines, fixes : {r.fixes}, source : Sources]
    <3>1. r = [key |-> r.key, severity |-> r.severity, confidence |-> r.confidence,
               evidence |-> r.evidence, fixes |-> r.fixes, source |-> r.source]
      BY <2>2
    <3>2. r.source \in Sources
      BY <2>2 DEF Sources
    <3>3. r.key \in Key \cup {""} /\ r.confidence \in Permille
      BY <2>4, <2>42 DEF trust
    <3> QED
      BY <2>4, <3>1, <3>2, <3>3
  <2>6. BorneOut(events, r)
    <3>1. ~(r.confidence >= 400)
      BY <2>42 DEF trust
    <3> QED
      BY <2>4, <2>5, <3>1 DEF BorneOut
  <2>7. Names(events, r)
    <3>1. DOMAIN c = {}
      BY <1>2
    <3> QED
      BY <1>1, <3>1 DEF Names
  <2> QED
    BY <2>6, <2>7 DEF r
<1>3. CASE c # <<>>
  <2>1. 1 \in 1..Len(c) /\ Head(c) = c[1]
    <3>1. Len(c) # 0
      BY <1>1, <1>3, EmptySeq
    <3> QED
      BY <1>1, <1>3, <3>1
  <2>2. r = [key |-> c[1].key, severity |-> c[1].severity, confidence |-> c[1].confidence,
             evidence |-> {events[i] : i \in c[1].evidence},
             fixes |-> c[1].fixes, source |-> "signature"]
    BY <1>3, <2>1 DEF ByRules, Job, c
  <2> HIDE DEF r
  <2>3. /\ c[1].confidence \in Trust
        /\ c[1].evidence \subseteq DOMAIN events /\ c[1].evidence # {}
    BY <1>1, <2>1
  <2>4. PICK m \in DOMAIN SIGNATURES : /\ c[1].key = SIGNATURES[m].key
                                       /\ c[1].severity = SIGNATURES[m].severity
                                       /\ \E i \in DOMAIN events : Hit(events, m, i)
    BY <1>1, <2>1
  <2>5. r.key = SIGNATURES[m].key /\ r.severity = SIGNATURES[m].severity
    BY <2>2, <2>4
  <2>6. r.key \in Key /\ r.key # "" /\ r.severity \in DOMAIN Severity
    <3>1. SIGNATURES[m].key \in Key /\ SIGNATURES[m].key # ""
      BY KeysAreNames
    <3>2. SIGNATURES[m].severity \in DOMAIN Severity
      BY LibraryIsSound DEF IsSignature
    <3> QED
      BY <2>5, <3>1, <3>2
  <2>7. r.evidence \in SUBSET lines /\ r.confidence \in Permille
    <3>1. r.evidence \in SUBSET lines /\ r.confidence \in Trust
      BY <2>2, <2>3
    <3> DEFINE x == r.confidence
    <3>2. x \in Trust
      BY <3>1
    <3> HIDE DEF x
    <3>3. x \in Permille
      BY <3>2, TrustBounds, PermilleBounds
    <3> QED
      BY <3>1, <3>3 DEF x
  <2>8. r \in [key : Key \cup {""}, severity : DOMAIN Severity, confidence : Permille,
               evidence : SUBSET lines, fixes : {r.fixes}, source : Sources]
    <3>1. r = [key |-> r.key, severity |-> r.severity, confidence |-> r.confidence,
               evidence |-> r.evidence, fixes |-> r.fixes, source |-> r.source]
      BY <2>2
    <3>2. r.source \in Sources
      BY <2>2 DEF Sources
    <3> QED
      BY <2>6, <2>7, <3>1, <3>2
  <2>9. BorneOut(events, r)
    BY <2>4, <2>5, <2>6, <2>8 DEF BorneOut
  <2>10. Names(events, r)
    BY <2>6 DEF Names
  <2> QED
    BY <2>9, <2>10 DEF r
<1> QED
  BY <1>2, <1>3

\* A confidence is what the evidence leaves of it.
LEMMA ConfidenceBounds ==
    ASSUME NEW events \in Seq(Line), NEW v \in Verdict(Job(events))
    PROVE  /\ Grounded(Job(events), v) \in Permille
           /\ Cited(Job(events), v) = {} => Grounded(Job(events), v) < 400
           /\ Cited(Job(events), v) \in SUBSET {events[i] : i \in DOMAIN events}
<1> DEFINE k == Cardinality(Invented(Job(events), v))
           f == Max({400, 1000 - 200 * k})
           a == v.answer.confidence
           h == Honest(Job(events), v)
<1>1. Len(events) \in Nat /\ DOMAIN events = 1..Len(events)
  BY LenProperties
<1>2. v.cited \in SUBSET (1..(Len(events) + MaxInvented)) /\ v.answer \in Answers
  BY DEF Verdict, Job
<1>3. k \in Nat
  <2>1. IsFiniteSet(1..(Len(events) + MaxInvented))
    BY <1>1, FS_Interval, DiagnosisAssumption
  <2>2. IsFiniteSet(v.cited)
    BY <1>2, <2>1, FS_Subset
  <2>3. IsFiniteSet(Invented(Job(events), v))
    BY <2>2, FS_Subset DEF Invented
  <2> QED
    BY <2>3, FS_CardinalityType
<1>4. a \in Int /\ 0 <= a /\ a <= 1000
  <2>1. a \in Permille
    BY <1>2, DiagnosisAssumption
  <2> HIDE DEF a
  <2> QED
    BY <2>1, PermilleBounds
<1>5. f \in Int /\ 400 <= f /\ f <= 1000
  <2> HIDE DEF k
  <2> DEFINE x == 1000 - 200 * k
  <2>1. x \in Int /\ x <= 1000
    BY <1>3
  <2>2. f = Max({400, x})
    OBVIOUS
  <2> HIDE DEF x, f
  <2>3. \E y \in {400, x} : \A z \in {400, x} : y >= z
    BY <2>1
  <2>4. f \in {400, x} /\ \A z \in {400, x} : f >= z
    BY <2>2, <2>3 DEF Max
  <2> QED
    BY <2>1, <2>4
<1>6. h = (a * f) \div 1000
  BY DEF Honest
<1> HIDE DEF a, f, h, k
<1>7. h \in Int /\ 0 <= h /\ h <= 1000
  <2> DEFINE x == a * f
  <2>1. x \in Int /\ 0 <= x /\ x <= a * 1000
    BY <1>4, <1>5, SMT
  <2>2. h = x \div 1000
    BY <1>6
  <2> HIDE DEF x
  <2> QED
    BY <1>4, <2>1, <2>2, SMT
<1> DEFINE g == Grounded(Job(events), v)
           cited == Cited(Job(events), v)
<1>8. g = IF cited = {} THEN AtMost(h, 350) ELSE h
  BY DEF Grounded, h
<1>9. cited \in SUBSET {events[i] : i \in DOMAIN events}
  BY <1>1, <1>2 DEF Cited, Invented, Job
<1>10. g \in Permille /\ (cited = {} => g < 400)
  <2> HIDE DEF g, cited
  <2>1. g \in Int /\ 0 <= g /\ g <= 1000 /\ (cited = {} => g < 400)
    BY <1>7, <1>8 DEF AtMost
  <2> QED
    BY <2>1, PermilleBounds
<1> QED
  BY <1>9, <1>10

LEMMA MergeIsBorneOut ==
    ASSUME NEW events \in Seq(Line), NEW v \in Verdict(Job(events))
    PROVE  BorneOut(events, Merge(Job(events), v)) /\ Names(events, Merge(Job(events), v))
<1> DEFINE c == Candidates(events)
           n == v.agrees
           known == c[n]
           r == Merge(Job(events), v)
           trust == Grounded(Job(events), v)
           cited == Cited(Job(events), v)
           lines == {events[i] : i \in DOMAIN events}
           severity == IF v.answer.severity \in DOMAIN Severity THEN v.answer.severity
                       ELSE IF n # 0 THEN known.severity ELSE "medium"
           fixes == ValidateFixes(v.answer.fixes, IF n # 0 THEN known.fixes ELSE <<>>)
<1>1. /\ Len(c) \in Nat /\ c \in Seq(Range(c)) /\ DOMAIN c = 1..Len(c)
      /\ \A p \in 1..Len(c) :
             /\ c[p].confidence \in Trust
             /\ c[p].evidence \subseteq DOMAIN events /\ c[p].evidence # {}
             /\ \E m \in DOMAIN SIGNATURES :
                    /\ c[p].key = SIGNATURES[m].key
                    /\ c[p].severity = SIGNATURES[m].severity
                    /\ \E i \in DOMAIN events : Hit(events, m, i)
      /\ \A m \in DOMAIN SIGNATURES : \A i \in DOMAIN events :
             Hit(events, m, i) => 1 \in DOMAIN c /\ SIGNATURES[m].confidence <= c[1].confidence
  BY CandidatesAreHits
<1>2. /\ trust \in Permille /\ cited \in SUBSET lines
      /\ cited = {} => trust < 400
  BY ConfidenceBounds
<1>3. n \in 0..Len(c)
  BY DEF Verdict, Job
<1>4. CASE n = 0 /\ c # <<>> /\ Head(c).confidence >= Sure
  <2>1. r = ByRules(Job(events))
    BY <1>4 DEF Merge, Job
  <2> QED
    BY <2>1, RulesAreBorneOut
<1>5. CASE ~(n = 0 /\ c # <<>> /\ Head(c).confidence >= Sure)
  <2>1. r = [key        |-> IF n # 0 THEN known.key ELSE "",
             severity   |-> severity,
             confidence |-> IF n # 0 THEN AtMost(990, (trust + known.confidence) \div 2 + 50)
                            ELSE trust,
             evidence   |-> cited,
             fixes      |-> fixes,
             source     |-> IF n # 0 THEN "hybrid" ELSE "llm"]
    <3> DEFINE result == [key        |-> IF n # 0 THEN known.key ELSE "",
                          severity   |-> severity,
                          confidence |-> IF n # 0
                                         THEN AtMost(990, (trust + known.confidence) \div 2 + 50)
                                         ELSE trust,
                          evidence   |-> cited,
                          fixes      |-> fixes,
                          source     |-> IF n # 0 THEN "hybrid" ELSE "llm"]
    <3>1. r = IF ~(n # 0) /\ c # <<>> /\ Head(c).confidence >= Sure
              THEN ByRules(Job(events)) ELSE result
      BY DEF Merge, Job
    <3> HIDE DEF result
    <3>2. r = result
      BY <1>5, <3>1
    <3> QED
      BY <3>2 DEF result
  <2> HIDE DEF r, c, trust, cited, severity, fixes
  <2>2. /\ r.evidence = cited /\ r.severity = severity
        /\ r.source = IF n # 0 THEN "hybrid" ELSE "llm"
    BY <2>1
  <2>3. r = [key |-> r.key, severity |-> r.severity, confidence |-> r.confidence,
             evidence |-> r.evidence, fixes |-> r.fixes, source |-> r.source]
    BY <2>1
  <2>4. r.source \in Sources
    BY <2>2 DEF Sources
  <2>5. CASE n = 0
    <3>1. r.key = "" /\ r.confidence = trust
      BY <2>1, <2>5
    <3>2. r.severity \in DOMAIN Severity
      BY <2>2, <2>5, SeverityLevels DEF severity
    <3>3. r \in [key : Key \cup {""}, severity : DOMAIN Severity, confidence : Permille,
                 evidence : SUBSET lines, fixes : {r.fixes}, source : Sources]
      <4>1. r.key \in Key \cup {""} /\ r.confidence \in Permille /\ r.evidence \in SUBSET lines
        BY <1>2, <2>2, <3>1
      <4> QED
        BY <2>3, <2>4, <3>2, <4>1
    <3>4. r.confidence >= 400 => r.evidence # {}
      <4> DEFINE x == r.confidence
      <4>1. x \in Permille /\ (r.evidence = {} => x < 400)
        BY <1>2, <2>2, <3>1
      <4> HIDE DEF x
      <4>2. x >= 400 => r.evidence # {}
        BY <4>1, PermilleBounds
      <4> QED
        BY <4>2 DEF x
    <3>5. BorneOut(events, r)
      BY <3>1, <3>3, <3>4 DEF BorneOut
    <3>6. Names(events, r)
      <4> SUFFICES ASSUME NEW m \in DOMAIN SIGNATURES, NEW i \in DOMAIN events,
                          Hit(events, m, i), SIGNATURES[m].confidence >= Sure
                   PROVE  FALSE
        BY DEF Names
      <4>1. 1 \in DOMAIN c /\ SIGNATURES[m].confidence <= c[1].confidence
        BY <1>1
      <4>2. c # <<>> /\ Head(c) = c[1]
        BY <1>1, <4>1
      <4>3. ~(c[1].confidence >= Sure)
        BY <1>5, <2>5, <4>2
      <4>4. SIGNATURES[m].confidence \in Int /\ c[1].confidence \in Trust
        BY <1>1, <4>1, LibraryIsSound
      <4> DEFINE x == SIGNATURES[m].confidence
                 y == c[1].confidence
      <4>5. x \in Int /\ y \in Trust /\ x <= y /\ x >= Sure /\ ~(y >= Sure)
        BY <4>1, <4>3, <4>4
      <4> HIDE DEF x, y
      <4>6. y \in Int
        BY <4>5, TrustBounds
      <4> QED
        BY <4>5, <4>6 DEF Sure
    <3> QED
      BY <3>5, <3>6 DEF r
  <2>6. CASE n # 0
    <3>1. n \in 1..Len(c)
      BY <1>1, <1>3, <2>6
    <3>2. PICK m \in DOMAIN SIGNATURES : /\ known.key = SIGNATURES[m].key
                                         /\ known.severity = SIGNATURES[m].severity
                                         /\ \E i \in DOMAIN events : Hit(events, m, i)
      BY <1>1, <3>1
    <3>3. /\ r.key = SIGNATURES[m].key
          /\ r.confidence = AtMost(990, (trust + known.confidence) \div 2 + 50)
      BY <2>1, <2>6, <3>2
    <3>4. r.key \in Key /\ r.key # ""
      <4>1. SIGNATURES[m].key \in Key /\ SIGNATURES[m].key # ""
        BY KeysAreNames
      <4> QED
        BY <3>3, <4>1
    <3>5. r.severity \in DOMAIN Severity
      <4>1. SIGNATURES[m].severity \in DOMAIN Severity
        BY LibraryIsSound DEF IsSignature
      <4>2. severity = IF v.answer.severity \in DOMAIN Severity THEN v.answer.severity
                       ELSE SIGNATURES[m].severity
        BY <2>6, <3>2 DEF severity
      <4> QED
        BY <2>2, <4>1, <4>2
    <3>6. r.confidence \in Permille
      <4> DEFINE y == known.confidence
                 x == r.confidence
      <4>1. y \in Trust /\ x = AtMost(990, (trust + y) \div 2 + 50)
        BY <1>1, <3>1, <3>3
      <4> HIDE DEF x, y
      <4>2. trust \in Int /\ 0 <= trust /\ y \in Int /\ 0 <= y
        BY <1>2, <4>1, TrustBounds, PermilleBounds
      <4>3. (trust + y) \div 2 + 50 \in Int /\ 0 <= (trust + y) \div 2 + 50
        BY <4>2
      <4>4. x \in Int /\ 0 <= x /\ x <= 1000
        BY <4>1, <4>3 DEF AtMost
      <4>5. x \in Permille
        BY <4>4, PermilleBounds
      <4> QED
        BY <4>5 DEF x
    <3>7. r \in [key : Key \cup {""}, severity : DOMAIN Severity, confidence : Permille,
                 evidence : SUBSET lines, fixes : {r.fixes}, source : Sources]
      <4>1. r.key \in Key \cup {""} /\ r.evidence \in SUBSET lines
        BY <1>2, <2>2, <3>4
      <4> QED
        BY <2>3, <2>4, <3>5, <3>6, <4>1
    <3>8. BorneOut(events, r)
      BY <3>2, <3>3, <3>4, <3>7 DEF BorneOut
    <3>9. Names(events, r)
      BY <3>4 DEF Names
    <3> QED
      BY <3>8, <3>9 DEF r
  <2> QED
    BY <2>5, <2>6
<1> QED
  BY <1>4, <1>5

LEMMA ResultsAreBorneOut ==
    ASSUME NEW events \in Seq(Line), NEW result \in Results(Job(events))
    PROVE  BorneOut(events, result) /\ Names(events, result)
BY RulesAreBorneOut, MergeIsBorneOut DEF Results

(***************************************************************************)
(* Types                                                                   *)
(***************************************************************************)
Asking == [step : {"asking"}, events : Seq(Line), rows : Seq(Row)]

JobState == {Idle, Queued, Fetching, Ended} \cup Asking

\* What a fix or a signal is, is left open.
IsIncident(r) ==
    r \in [deployment : Deployment, key : Key \cup {""}, severity : DOMAIN Severity,
           evidence : SUBSET Line, fixes : {r.fixes}, source : Sources, signals : {r.signals},
           confidence : Permille, status : {"open", "diagnosed", "closed"}]

TypeInv ==
    /\ logs \in [Deployment -> Seq(Row)]
    /\ status \in [Deployment -> {"none", "building", "running", "failed"}]
    /\ jobs \in [Deployment \X Trigger -> JobState]
    /\ incidents \in Seq(Range(incidents)) /\ \A n \in DOMAIN incidents : IsIncident(incidents[n])
    /\ risk.band \in {"unknown", "green", "amber", "red"} /\ risk.needs_mentor \in BOOLEAN

LEMMA JobStates ==
    /\ Idle \in JobState /\ Queued \in JobState /\ Fetching \in JobState /\ Ended \in JobState
    /\ \A job \in JobState : job.step \in JobStep
    /\ \A job \in JobState : job.step = "asking" => job \in Asking
<1>1. Idle \in JobState /\ Queued \in JobState /\ Fetching \in JobState /\ Ended \in JobState
  BY DEF JobState
<1>2. /\ Idle.step = "idle" /\ Queued.step = "queued"
      /\ Fetching.step = "fetching" /\ Ended.step = "ended"
  BY DEF Idle, Queued, Fetching, Ended
<1>3. \A job \in Asking : job.step = "asking"
  BY DEF Asking
<1>4. \A job \in JobState : job \in Asking \/ job = Idle \/ job = Queued \/ job = Fetching \/ job = Ended
  BY DEF JobState
<1>5. \A job \in JobState : job.step \in JobStep
  BY <1>2, <1>3, <1>4 DEF JobStep
<1>6. \A job \in JobState : job.step = "asking" => job \in Asking
  BY <1>2, <1>4
<1> QED
  BY <1>1, <1>5, <1>6

LEMMA TypesImply == TypeInv => TypeOK
<1> SUFFICES ASSUME TypeInv PROVE TypeOK
  OBVIOUS
<1>1. \A d \in Deployment : logs[d] \in Seq(Row)
  BY DEF TypeInv
<1>2. DOMAIN jobs = Deployment \X Trigger /\ \A k \in DOMAIN jobs : jobs[k] \in JobState
  BY DEF TypeInv
<1>3. \A k \in DOMAIN jobs : jobs[k].step \in JobStep
  BY <1>2, JobStates
<1>4. ASSUME NEW n \in DOMAIN incidents
      PROVE  /\ incidents[n].deployment \in Deployment
             /\ incidents[n].key \in Key \cup {""}
             /\ incidents[n].severity \in DOMAIN Severity
             /\ incidents[n].confidence \in Permille
             /\ incidents[n].status \in {"open", "diagnosed", "closed"}
  BY DEF TypeInv, IsIncident
<1>5. /\ status \in [Deployment -> {"none", "building", "running", "failed"}]
      /\ risk.band \in {"unknown", "green", "amber", "red"} /\ risk.needs_mentor \in BOOLEAN
  BY DEF TypeInv
<1> QED
  BY <1>1, <1>2, <1>3, <1>4, <1>5 DEF TypeOK

LEMMA TypeInit == Init => TypeInv
<1> SUFFICES ASSUME Init PROVE TypeInv
  OBVIOUS
<1>1. logs \in [Deployment -> Seq(Row)]
  BY DEF Init
<1>2. status \in [Deployment -> {"none", "building", "running", "failed"}]
  BY DEF Init
<1>3. jobs \in [Deployment \X Trigger -> JobState]
  BY JobStates DEF Init
<1>4. incidents \in Seq(Range(incidents)) /\ \A n \in DOMAIN incidents : IsIncident(incidents[n])
  <2>1. incidents = <<>> /\ DOMAIN incidents = {}
    BY DEF Init
  <2> QED
    BY <2>1, EmptySeq
<1>5. risk.band \in {"unknown", "green", "amber", "red"} /\ risk.needs_mentor \in BOOLEAN
  BY DEF Init, NoRisk
<1> QED
  BY <1>1, <1>2, <1>3, <1>4, <1>5 DEF TypeInv

(***************************************************************************)
(* Logs only grow                                                          *)
(***************************************************************************)
LEMMA InsertedRow ==
    ASSUME NEW s \in Seq(Row), NEW r \in Row, NEW p \in 1..(Len(s) + 1)
    PROVE  InsertAt(s, p, r) \in Seq(Row) /\ LinesOf(s) \subseteq LinesOf(InsertAt(s, p, r))
<1> DEFINE a == SubSeq(s, 1, p - 1)
           b == SubSeq(s, p, Len(s))
           t == InsertAt(s, p, r)
<1>1. Len(s) \in Nat /\ DOMAIN s = 1..Len(s) /\ \A i \in 1..Len(s) : s[i] \in Row
  BY LenProperties
<1>2. p \in Int /\ p - 1 \in Int /\ 1 <= p /\ p <= Len(s) + 1
  BY <1>1
<1>3. /\ a \in Seq(Row) /\ Len(a) = (IF 1 <= p - 1 THEN p - 1 - 1 + 1 ELSE 0)
      /\ \A i \in 1..(p - 1 - 1 + 1) : a[i] = s[1 + i - 1]
  <2>1. \A i \in 1..(p - 1) : s[i] \in Row
    BY <1>1, <1>2
  <2> QED
    BY <1>2, <2>1, SubSeqProperties
<1>4. /\ b \in Seq(Row) /\ Len(b) = (IF p <= Len(s) THEN Len(s) - p + 1 ELSE 0)
      /\ \A i \in 1..(Len(s) - p + 1) : b[i] = s[p + i - 1]
  <2>1. \A i \in p..Len(s) : s[i] \in Row
    BY <1>1, <1>2
  <2> QED
    BY <1>1, <1>2, <2>1, SubSeqProperties
<1>5. t = a \o <<r>> \o b
  BY DEF InsertAt
<1>6. <<r>> \in Seq(Row)
  OBVIOUS
<1> HIDE DEF a, b, t
<1>7. t \in Seq(Row) /\ Range(t) = (Range(a) \cup Range(<<r>>)) \cup Range(b)
  <2>1. a \o <<r>> \in Seq(Row)
    BY <1>3, <1>6, ConcatProperties
  <2>2. Range(a \o <<r>>) = Range(a) \cup Range(<<r>>)
    BY <1>3, <1>6, RangeConcatenation
  <2>3. (a \o <<r>>) \o b \in Seq(Row)
    BY <1>4, <2>1, ConcatProperties
  <2>4. Range((a \o <<r>>) \o b) = Range(a \o <<r>>) \cup Range(b)
    BY <1>4, <2>1, RangeConcatenation
  <2> QED
    BY <1>5, <2>2, <2>3, <2>4
<1>8. DOMAIN a = 1..Len(a) /\ DOMAIN b = 1..Len(b)
  BY <1>3, <1>4, LenProperties
<1>9. ASSUME NEW i \in 1..Len(s) PROVE s[i] \in Range(t)
  <2>1. CASE i < p
    <3>1. i \in 1..(p - 1 - 1 + 1) /\ i \in 1..Len(a) /\ 1 + i - 1 = i
      BY <1>1, <1>2, <1>3, <2>1
    <3>2. a[i] = s[i] /\ i \in DOMAIN a
      BY <1>3, <1>8, <3>1
    <3> QED
      BY <1>7, <3>2 DEF Range
  <2>2. CASE ~(i < p)
    <3> DEFINE k == i - p + 1
    <3>1. k \in 1..(Len(s) - p + 1) /\ k \in 1..Len(b) /\ p + k - 1 = i
      BY <1>1, <1>2, <1>4, <2>2
    <3> HIDE DEF k
    <3>2. b[k] = s[i] /\ k \in DOMAIN b
      BY <1>4, <1>8, <3>1
    <3> QED
      BY <1>7, <3>2 DEF Range
  <2> QED
    BY <2>1, <2>2
<1>10. LinesOf(s) \subseteq LinesOf(t)
  BY <1>1, <1>9 DEF LinesOf, Range
<1> QED
  BY <1>7, <1>10 DEF t

LEMMA AppendedRows ==
    ASSUME NEW s \in Seq(Row), NEW t \in Seq(Row)
    PROVE  s \o t \in Seq(Row) /\ LinesOf(s) \subseteq LinesOf(s \o t)
<1>1. s \o t \in Seq(Row) /\ Range(s \o t) = Range(s) \cup Range(t)
  BY ConcatProperties, RangeConcatenation
<1> QED
  BY <1>1 DEF LinesOf, Range

\* The rows that are stored of a log of Actions.
LEMMA StoredRows ==
    ASSUME NEW text \in Seq(Line), NEW near \in BOOLEAN
    PROVE  [i \in 1..AtMost(Len(FailureWindow(text)), Batch) |->
               [line |-> FailureWindow(text)[i], near |-> near]] \in Seq(Row)
<1> DEFINE slice == FailureWindow(text)
           errors == {i \in DOMAIN text : Level[text[i]] >= Error}
           last == Max(errors)
           I == {i \in DOMAIN text : IF errors = {} THEN i > Len(text) - Rest
                                     ELSE i \in errors \/ i \in (last - Lead)..(last + Trail)}
           n == AtMost(Len(slice), Batch)
           rows == [i \in 1..n |-> [line |-> slice[i], near |-> near]]
<1>1. slice = Picked(text, I)
  BY DEF FailureWindow
<1>2. I \in SUBSET DOMAIN text
  OBVIOUS
<1> HIDE DEF I, slice
<1>3. slice \in Seq(Line)
  BY <1>1, <1>2, PickedIsSequence
<1>4. Len(slice) \in Nat /\ \A i \in 1..Len(slice) : slice[i] \in Line
  BY <1>3, LenProperties
<1>5. n \in Nat /\ n <= Len(slice)
  BY <1>4, DiagnosisAssumption DEF AtMost
<1> HIDE DEF n
<1>6. \A i \in 1..n : slice[i] \in Line
  BY <1>4, <1>5
<1>7. rows \in [1..n -> Row]
  BY <1>6 DEF Row
<1> HIDE DEF rows
<1>8. rows \in Seq(Row)
  BY <1>5, <1>7, SeqDef
<1> QED
  BY <1>8 DEF rows, n, slice

\* One log takes rows, or none does.
LEMMA LogsGrow ==
    ASSUME TypeInv, [Next]_vars
    PROVE  /\ logs' \in [Deployment -> Seq(Row)]
           /\ \A d \in Deployment : LinesOf(logs[d]) \subseteq LinesOf(logs'[d])
<1>0. logs \in [Deployment -> Seq(Row)]
  BY DEF TypeInv
<1>1. SUFFICES ASSUME ~(logs' = logs) PROVE \E d \in Deployment, rows \in Seq(Row) :
                    logs' = [logs EXCEPT ![d] = rows] /\ LinesOf(logs[d]) \subseteq LinesOf(rows)
  BY <1>0
<1>2. ASSUME NEW d \in Deployment, NEW row \in Row, Ingest(d, row)
      PROVE  \E rows \in Seq(Row) :
                 logs' = [logs EXCEPT ![d] = rows] /\ LinesOf(logs[d]) \subseteq LinesOf(rows)
  <2>1. PICK p \in 1..(Len(logs[d]) + 1) : logs' = [logs EXCEPT ![d] = InsertAt(@, p, row)]
    BY <1>2 DEF Ingest
  <2>2. logs[d] \in Seq(Row)
    BY <1>0
  <2>3. /\ InsertAt(logs[d], p, row) \in Seq(Row)
        /\ LinesOf(logs[d]) \subseteq LinesOf(InsertAt(logs[d], p, row))
    BY <2>2, InsertedRow
  <2>4. logs' = [logs EXCEPT ![d] = InsertAt(logs[d], p, row)]
    BY <1>0, <2>1
  <2> QED
    BY <2>3, <2>4
<1>3. ASSUME NEW d \in Deployment, NEW text \in ActionsLogs \cup {<<>>}, NEW near \in BOOLEAN,
             FetchLogs(d, text, near)
      PROVE  \E rows \in Seq(Row) :
                 logs' = [logs EXCEPT ![d] = rows] /\ LinesOf(logs[d]) \subseteq LinesOf(rows)
  <2> DEFINE stored == [i \in 1..AtMost(Len(FailureWindow(text)), Batch) |->
                           [line |-> FailureWindow(text)[i], near |-> near]]
  <2>1. text \in Seq(Line)
    <3>1. ActionsLogs \subseteq Seq(Line)
      BY DiagnosisAssumption
    <3>2. <<>> \in Seq(Line)
      BY EmptySeq
    <3> QED
      BY <3>1, <3>2
  <2>2. stored \in Seq(Row)
    BY <2>1, StoredRows
  <2>3. logs' = [logs EXCEPT ![d] = logs[d] \o stored]
    BY <1>0, <1>3 DEF FetchLogs
  <2> HIDE DEF stored
  <2>4. logs[d] \in Seq(Row)
    BY <1>0
  <2>5. logs[d] \o stored \in Seq(Row) /\ LinesOf(logs[d]) \subseteq LinesOf(logs[d] \o stored)
    BY <2>2, <2>4, AppendedRows
  <2> QED
    BY <2>3, <2>5
<1>4. Next
  BY <1>1 DEF vars
<1>5. CASE Analysis
  <2>1. PICK d \in Deployment :
            \/ \E text \in ActionsLogs \cup {<<>>}, near \in BOOLEAN : FetchLogs(d, text, near)
            \/ \E t \in Trigger : BuildTimeline(d, t) \/ Conclude(d, t)
    BY <1>5 DEF Analysis
  <2>2. ~(\E t \in Trigger : BuildTimeline(d, t) \/ Conclude(d, t))
    BY <1>1 DEF BuildTimeline, Conclude
  <2> QED
    BY <1>3, <2>1, <2>2
<1>6. CASE Reports
  <2>1. PICK d \in Deployment :
            \/ Start(d) \/ AnalyzeNow(d)
            \/ \E row \in Row : Ingest(d, row)
            \/ \E outcome \in {"running", "failed"} : Finish(d, outcome) \/ Webhook(d, outcome)
    BY <1>6 DEF Reports
  <2>2. ~Start(d) /\ ~AnalyzeNow(d)
    BY <1>1 DEF Start, AnalyzeNow
  <2>3. ~(\E outcome \in {"running", "failed"} : Finish(d, outcome) \/ Webhook(d, outcome))
    BY <1>1 DEF Finish, Webhook
  <2> QED
    BY <1>2, <2>1, <2>2, <2>3
<1>7. ~People
  BY <1>1 DEF People, Close, Evaluate
<1> QED
  BY <1>4, <1>5, <1>6, <1>7 DEF Next

(***************************************************************************)
(* A job has a timeline of its log                                         *)
(***************************************************************************)
\* What a job that waits for the model has read of lines.
IsReading(job, lines) ==
    job.step = "asking" =>
        /\ job.events \in Timelines(Collapsed(Visible(job.rows)))
        /\ LinesOf(job.rows) \subseteq lines

Reading == \A d \in Deployment, t \in Trigger : IsReading(jobs[<<d, t>>], LinesOf(logs[d]))

LEMMA ReadingsAreStates ==
    ASSUME NEW rows \in Seq(Row), NEW events \in Timelines(Collapsed(Visible(rows)))
    PROVE  [step |-> "asking", events |-> events, rows |-> rows] \in JobState
<1>1. Visible(rows) \in Seq(Row)
  BY VisibleRows
<1>2. Collapsed(Visible(rows)) \in Seq(Line)
  BY <1>1, CollapsedLines
<1>3. events \in Seq(Line)
  BY <1>2, TimelineEvents
<1> QED
  BY <1>3 DEF JobState, Asking

\* A step leaves a job as it was, puts it in a state without a timeline or lets it read.
LEMMA JobSteps ==
    ASSUME TypeInv, [Next]_vars
    PROVE  /\ jobs' \in [Deployment \X Trigger -> JobState]
           /\ \A d \in Deployment, t \in Trigger :
                  \/ jobs'[<<d, t>>] = jobs[<<d, t>>]
                  \/ jobs'[<<d, t>>] \in {Queued, Fetching, Ended}
                  \/ IsReading(jobs'[<<d, t>>], LinesOf(logs[d]))
<1>0. jobs \in [Deployment \X Trigger -> JobState] /\ logs \in [Deployment -> Seq(Row)]
  BY DEF TypeInv
<1>1. SUFFICES ASSUME ~(jobs' = jobs)
               PROVE  \E d \in Deployment, t \in Trigger, job \in JobState :
                          /\ jobs' = [jobs EXCEPT ![<<d, t>>] = job]
                          /\ job \in {Queued, Fetching, Ended} \/ IsReading(job, LinesOf(logs[d]))
  <2>1. CASE jobs' = jobs
    BY <1>0, <2>1
  <2>2. ASSUME NEW d \in Deployment, NEW t \in Trigger, NEW job \in JobState,
               jobs' = [jobs EXCEPT ![<<d, t>>] = job],
               job \in {Queued, Fetching, Ended} \/ IsReading(job, LinesOf(logs[d]))
        PROVE  /\ jobs' \in [Deployment \X Trigger -> JobState]
               /\ \A e \in Deployment, s \in Trigger :
                      \/ jobs'[<<e, s>>] = jobs[<<e, s>>]
                      \/ jobs'[<<e, s>>] \in {Queued, Fetching, Ended}
                      \/ IsReading(jobs'[<<e, s>>], LinesOf(logs[e]))
    <3>1. jobs' \in [Deployment \X Trigger -> JobState]
      BY <1>0, <2>2
    <3>2. ASSUME NEW e \in Deployment, NEW s \in Trigger
          PROVE  \/ jobs'[<<e, s>>] = jobs[<<e, s>>]
                 \/ jobs'[<<e, s>>] \in {Queued, Fetching, Ended}
                 \/ IsReading(jobs'[<<e, s>>], LinesOf(logs[e]))
      <4>1. <<e, s>> \in Deployment \X Trigger /\ (<<e, s>> = <<d, t>> => e = d)
        OBVIOUS
      <4>2. jobs'[<<e, s>>] = IF <<e, s>> = <<d, t>> THEN job ELSE jobs[<<e, s>>]
        BY <1>0, <2>2, <4>1
      <4> QED
        BY <2>2, <4>1, <4>2
    <3> QED
      BY <3>1, <3>2
  <2> QED
    BY <2>1, <2>2
<1> DEFINE Goal == \E d \in Deployment, t \in Trigger, job \in JobState :
                       /\ jobs' = [jobs EXCEPT ![<<d, t>>] = job]
                       /\ job \in {Queued, Fetching, Ended} \/ IsReading(job, LinesOf(logs[d]))
<1>2. ASSUME NEW d \in Deployment, NEW t \in Trigger, NEW job \in {Queued, Fetching, Ended},
             jobs' = [jobs EXCEPT ![<<d, t>>] = job]
      PROVE  Goal
  BY <1>2, JobStates
<1>3. ASSUME NEW d \in Deployment, NEW t \in Trigger, BuildTimeline(d, t) PROVE Goal
  <2>1. PICK events \in Timelines(Collapsed(Visible(logs[d]))) :
            jobs' = [jobs EXCEPT ![<<d, t>>] =
                        IF events = <<>> THEN Ended
                        ELSE [step |-> "asking", events |-> events, rows |-> logs[d]]]
    BY <1>3 DEF BuildTimeline, Read
  <2>2. CASE events = <<>>
    BY <1>2, <2>1, <2>2
  <2>3. CASE events # <<>>
    <3> DEFINE job == [step |-> "asking", events |-> events, rows |-> logs[d]]
    <3>1. jobs' = [jobs EXCEPT ![<<d, t>>] = job]
      BY <2>1, <2>3
    <3>2. job \in JobState
      BY <1>0, ReadingsAreStates
    <3>3. IsReading(job, LinesOf(logs[d]))
      BY DEF IsReading
    <3> HIDE DEF job
    <3> QED
      BY <3>1, <3>2, <3>3
  <2> QED
    BY <2>2, <2>3
<1> SUFFICES Goal
  OBVIOUS
<1> HIDE DEF Goal
<1>4. {"finish", "webhook", "analyze"} = Trigger
  BY DEF Trigger
<1>5. Next
  BY <1>1 DEF vars
<1>6. CASE Analysis
  <2>1. PICK d \in Deployment :
            \/ \E text \in ActionsLogs \cup {<<>>}, near \in BOOLEAN : FetchLogs(d, text, near)
            \/ \E t \in Trigger : BuildTimeline(d, t) \/ Conclude(d, t)
    BY <1>6 DEF Analysis
  <2>2. CASE \E text \in ActionsLogs \cup {<<>>}, near \in BOOLEAN : FetchLogs(d, text, near)
    <3>1. jobs' = [jobs EXCEPT ![<<d, "webhook">>] = Queued]
      BY <2>2 DEF FetchLogs, Fetched
    <3> QED
      BY <1>2, <1>4, <3>1
  <2>3. CASE \E t \in Trigger : BuildTimeline(d, t) \/ Conclude(d, t)
    <3>1. ASSUME NEW t \in Trigger, Conclude(d, t) PROVE Goal
      <4>1. jobs' = [jobs EXCEPT ![<<d, t>>] = Ended]
        BY <3>1 DEF Conclude, Answered
      <4> QED
        BY <1>2, <4>1
    <3> QED
      BY <1>3, <2>3, <3>1
  <2> QED
    BY <2>1, <2>2, <2>3
<1>7. CASE Reports
  <2>1. PICK d \in Deployment :
            \/ Start(d) \/ AnalyzeNow(d)
            \/ \E row \in Row : Ingest(d, row)
            \/ \E outcome \in {"running", "failed"} : Finish(d, outcome) \/ Webhook(d, outcome)
    BY <1>7 DEF Reports
  <2>2. ~Start(d) /\ ~(\E row \in Row : Ingest(d, row))
    BY <1>1 DEF Start, Ingest
  <2>3. CASE AnalyzeNow(d)
    <3>1. jobs' = [jobs EXCEPT ![<<d, "analyze">>] = Queued]
      BY <2>3 DEF AnalyzeNow
    <3> QED
      BY <1>2, <1>4, <3>1
  <2>4. ASSUME NEW outcome \in {"running", "failed"}, Finish(d, outcome) PROVE Goal
    <3>1. jobs' = [jobs EXCEPT ![<<d, "finish">>] = Queued]
      BY <1>1, <2>4 DEF Finish
    <3> QED
      BY <1>2, <1>4, <3>1
  <2>5. ASSUME NEW outcome \in {"running", "failed"}, Webhook(d, outcome) PROVE Goal
    <3>1. \/ jobs' = [jobs EXCEPT ![<<d, "webhook">>] = Fetching]
          \/ jobs' = [jobs EXCEPT ![<<d, "webhook">>] = Ended]
      BY <2>5 DEF Webhook
    <3> QED
      BY <1>2, <1>4, <3>1
  <2> QED
    BY <2>1, <2>2, <2>3, <2>4, <2>5
<1>8. ~People
  BY <1>1 DEF People, Close, Evaluate
<1> QED
  BY <1>5, <1>6, <1>7, <1>8 DEF Next

LEMMA ReadingInit == Init => Reading
<1> SUFFICES ASSUME Init PROVE Reading
  OBVIOUS
<1>1. Idle.step # "asking"
  BY DEF Idle
<1> QED
  BY <1>1 DEF Init, Reading, IsReading

LEMMA ReadingStep ==
    ASSUME TypeInv, Reading, [Next]_vars PROVE Reading'
<1> SUFFICES ASSUME NEW d \in Deployment, NEW t \in Trigger
             PROVE  IsReading(jobs'[<<d, t>>], LinesOf(logs'[d]))
  BY DEF Reading, IsReading
<1> DEFINE job == jobs'[<<d, t>>]
           before == LinesOf(logs[d])
           after == LinesOf(logs'[d])
<1>1. before \subseteq after
  BY LogsGrow
<1>2. job = jobs[<<d, t>>] \/ job \in {Queued, Fetching, Ended} \/ IsReading(job, before)
  BY JobSteps
<1>3. IsReading(jobs[<<d, t>>], before)
  BY DEF Reading
<1>4. Queued.step # "asking" /\ Fetching.step # "asking" /\ Ended.step # "asking"
  BY DEF Queued, Fetching, Ended
<1> HIDE DEF job, before, after
<1>5. IsReading(job, before) => IsReading(job, after)
  BY <1>1 DEF IsReading
<1>6. job \in {Queued, Fetching, Ended} => IsReading(job, after)
  BY <1>4 DEF IsReading
<1>7. job = jobs[<<d, t>>] => IsReading(job, before)
  BY <1>3
<1>8. IsReading(job, after)
  BY <1>2, <1>5, <1>6, <1>7
<1> QED
  BY <1>8 DEF job, after

(***************************************************************************)
(* What an analysis writes                                                 *)
(***************************************************************************)
\* A signature that the lines show.
Shows(lines, key) ==
    \E l \in lines, m \in DOMAIN SIGNATURES :
        /\ SIGNATURES[m].key = key
        /\ SIGNATURES[m].key \in Says[l] /\ Source[l] \in SIGNATURES[m].from

\* What the lines of a deployment say for an incident.
Sound(r, lines) ==
    /\ r.evidence \subseteq lines
    /\ r.key # "" => Shows(lines, r.key)
    /\ r.status = "diagnosed" => r.key # "" \/ r.evidence # {}

\* The lines that a timeline shows are lines that it read.
LEMMA EventsAreLines ==
    ASSUME NEW rows \in Seq(Row), NEW events \in Timelines(Collapsed(Visible(rows)))
    PROVE  /\ events \in Seq(Line)
           /\ {events[i] : i \in DOMAIN events} \subseteq LinesOf(Visible(rows))
           /\ LinesOf(Visible(rows)) \subseteq LinesOf(rows)
           /\ Uncut(rows) => LinesOf(Visible(rows)) \subseteq {events[i] : i \in DOMAIN events}
<1> DEFINE seen == Visible(rows)
           all == Collapsed(seen)
<1>1. seen \in Seq(Row) /\ LinesOf(seen) \subseteq LinesOf(rows)
  BY VisibleRows
<1> HIDE DEF seen
<1>2. /\ all \in Seq(Line) /\ Len(all) \in Nat /\ DOMAIN all = 1..Len(all)
      /\ {all[n] : n \in DOMAIN all} = LinesOf(seen)
      /\ Len(all) <= Cardinality(LinesOf(seen))
  BY <1>1, CollapsedLines
<1>3. events \in Timelines(all)
  BY DEF seen
<1> HIDE DEF all
<1>4. /\ events \in Seq(Line)
      /\ \A n \in DOMAIN events : \E i \in DOMAIN all : events[n] = all[i]
      /\ Len(all) <= Kept => \A i \in DOMAIN all : \E n \in DOMAIN events : events[n] = all[i]
  BY <1>2, <1>3, TimelineEvents
<1>5. {events[i] : i \in DOMAIN events} \subseteq LinesOf(seen)
  BY <1>2, <1>4
<1>6. ASSUME Uncut(rows) PROVE LinesOf(seen) \subseteq {events[i] : i \in DOMAIN events}
  <2>1. Cardinality(LinesOf(seen)) <= Kept
    BY <1>6 DEF Uncut, seen
  <2>2. IsFiniteSet(LinesOf(seen))
    <3>1. LinesOf(seen) = {seen[i].line : i \in DOMAIN seen}
      BY DEF LinesOf
    <3>2. DOMAIN seen = 1..Len(seen) /\ Len(seen) \in Nat
      BY <1>1, LenProperties
    <3>3. IsFiniteSet(DOMAIN seen)
      BY <3>2, FS_Interval
    <3> DEFINE f == [i \in DOMAIN seen |-> seen[i].line]
    <3>4. f \in Surjection(DOMAIN seen, LinesOf(seen))
      BY <3>1 DEF Surjection
    <3> HIDE DEF f
    <3> QED
      BY <3>3, <3>4, FS_Surjection
  <2>3. Cardinality(LinesOf(seen)) \in Nat /\ Kept \in Nat
    BY <2>2, FS_CardinalityType, DiagnosisAssumption
  <2>4. Len(all) <= Kept
    BY <1>2, <2>1, <2>3
  <2> QED
    BY <1>2, <1>4, <2>4
<1> QED
  BY <1>1, <1>4, <1>5, <1>6 DEF seen

\* An incident of a result that the events bear out.
LEMMA IncidentsAreSound ==
    ASSUME NEW d \in Deployment, NEW rows \in Seq(Row),
           NEW events \in Timelines(Collapsed(Visible(rows))),
           NEW result \in Results(Job(events)), NEW signals
    PROVE  /\ IsIncident(Incident(d, result, signals))
           /\ Sound(Incident(d, result, signals), LinesOf(rows))
<1> DEFINE r == Incident(d, result, signals)
           lines == {events[i] : i \in DOMAIN events}
<1>1. events \in Seq(Line) /\ lines \subseteq LinesOf(rows)
  <2>1. /\ events \in Seq(Line)
        /\ {events[i] : i \in DOMAIN events} \subseteq LinesOf(Visible(rows))
        /\ LinesOf(Visible(rows)) \subseteq LinesOf(rows)
    BY EventsAreLines
  <2> HIDE DEF lines
  <2>2. lines \subseteq LinesOf(Visible(rows))
    BY <2>1 DEF lines
  <2> QED
    BY <2>1, <2>2
<1>2. BorneOut(events, result)
  BY <1>1, ResultsAreBorneOut
<1>21. /\ result \in [key : Key \cup {""}, severity : DOMAIN Severity, confidence : Permille,
                     evidence : SUBSET lines, fixes : {result.fixes}, source : Sources]
       /\ result.key # "" => \E m \in DOMAIN SIGNATURES : \E i \in DOMAIN events :
                                 SIGNATURES[m].key = result.key /\ Hit(events, m, i)
       /\ result.confidence >= 400 => result.key # "" \/ result.evidence # {}
  BY <1>2 DEF BorneOut
<1>3. /\ result.key \in Key \cup {""} /\ result.severity \in DOMAIN Severity
      /\ result.confidence \in Permille /\ result.evidence \in SUBSET lines
      /\ result.source \in Sources
  <2> HIDE DEF lines
  <2> QED
    BY <1>21
<1>4. /\ result.key # "" => \E m \in DOMAIN SIGNATURES : \E i \in DOMAIN events :
                                SIGNATURES[m].key = result.key /\ Hit(events, m, i)
      /\ result.confidence >= 400 => result.key # "" \/ result.evidence # {}
  BY ONLY <1>21
<1>5. lines \subseteq Line
  BY <1>1, LenProperties
<1>6. r = [deployment |-> d, key |-> result.key, severity |-> result.severity,
           evidence |-> result.evidence, fixes |-> result.fixes, source |-> result.source,
           signals |-> signals, confidence |-> result.confidence,
           status |-> IF result.confidence >= 400 THEN "diagnosed" ELSE "open"]
  BY DEF Incident
<1> HIDE DEF r
<1>7. /\ r.deployment = d /\ r.key = result.key /\ r.severity = result.severity
      /\ r.evidence = result.evidence /\ r.source = result.source
      /\ r.confidence = result.confidence
      /\ r.status = IF result.confidence >= 400 THEN "diagnosed" ELSE "open"
  BY <1>6
<1>8. r = [deployment |-> r.deployment, key |-> r.key, severity |-> r.severity,
           evidence |-> r.evidence, fixes |-> r.fixes, source |-> r.source,
           signals |-> r.signals, confidence |-> r.confidence, status |-> r.status]
  BY <1>6
<1>9. IsIncident(r)
  <2>1. r.evidence \in SUBSET Line
    BY <1>3, <1>5, <1>7
  <2>2. r.status \in {"open", "diagnosed", "closed"}
    BY <1>7
  <2>3. /\ r.deployment \in Deployment /\ r.key \in Key \cup {""} /\ r.severity \in DOMAIN Severity
        /\ r.source \in Sources /\ r.confidence \in Permille
    BY <1>3, <1>7
  <2> HIDE DEF lines
  <2> QED
    BY <1>8, <2>1, <2>2, <2>3 DEF IsIncident
<1>10. Sound(r, LinesOf(rows))
  <2>1. r.evidence \subseteq LinesOf(rows)
    BY <1>1, <1>3, <1>7
  <2>2. ASSUME r.key # "" PROVE Shows(LinesOf(rows), r.key)
    <3>1. PICK m \in DOMAIN SIGNATURES : \E i \in DOMAIN events :
                   SIGNATURES[m].key = result.key /\ Hit(events, m, i)
      BY <1>4, <1>7, <2>2
    <3>2. PICK i \in DOMAIN events : SIGNATURES[m].key = result.key /\ Hit(events, m, i)
      BY <3>1
    <3>3. events[i] \in LinesOf(rows)
      BY <1>1
    <3> QED
      BY <1>7, <3>2, <3>3 DEF Shows, Hit
  <2>3. r.status = "diagnosed" => r.key # "" \/ r.evidence # {}
    BY <1>4, <1>7
  <2> QED
    BY <2>1, <2>2, <2>3 DEF Sound
<1> QED
  BY <1>9, <1>10 DEF r

LEMMA AppendedIncident ==
    ASSUME NEW s, s \in Seq(Range(s)), NEW x
    PROVE  /\ Append(s, x) \in Seq(Range(Append(s, x)))
           /\ Len(s) \in Nat /\ DOMAIN Append(s, x) = DOMAIN s \cup {Len(s) + 1}
           /\ \A n \in DOMAIN s : Append(s, x)[n] = s[n]
           /\ Append(s, x)[Len(s) + 1] = x /\ Last(Append(s, x)) = x
<1> DEFINE S == Range(s) \cup {x}
           t == Append(s, x)
<1>1. s \in Seq(S)
  BY SeqMonotonic
<1>2. Len(s) \in Nat /\ DOMAIN s = 1..Len(s)
  BY LenProperties
<1>3. /\ t \in Seq(S) /\ Len(t) = Len(s) + 1
      /\ \A n \in 1..Len(s) : t[n] = s[n]
      /\ t[Len(s) + 1] = x
  BY <1>1, AppendProperties
<1> HIDE DEF S, t
<1>4. DOMAIN t = 1..(Len(s) + 1) /\ t \in Seq(Range(t))
  BY <1>3, LenProperties, SeqOfRange
<1>5. DOMAIN t = DOMAIN s \cup {Len(s) + 1}
  BY <1>2, <1>4
<1>6. Last(t) = x
  BY <1>3 DEF Last
<1> QED
  BY <1>2, <1>3, <1>4, <1>5, <1>6 DEF t

LEMMA ClosedIncident ==
    ASSUME NEW s, s \in Seq(Range(s)), NEW i \in DOMAIN s
    PROVE  LET t == [s EXCEPT ![i].status = "closed"]
           IN  /\ t \in Seq(Range(t)) /\ DOMAIN t = DOMAIN s
               /\ t[i] = [s[i] EXCEPT !.status = "closed"]
               /\ \A n \in DOMAIN s : n # i => t[n] = s[n]
<1> DEFINE new == [s[i] EXCEPT !.status = "closed"]
           S == Range(s) \cup {new}
           t == [s EXCEPT ![i].status = "closed"]
<1>1. s \in Seq(S) /\ new \in S
  BY SeqMonotonic
<1>2. DOMAIN s = 1..Len(s)
  BY LenProperties
<1>3. t = [s EXCEPT ![i] = new]
  OBVIOUS
<1> HIDE DEF S, t, new
<1>4. t \in Seq(S) /\ Len(t) = Len(s) /\ \A n \in 1..Len(s) : t[n] = IF n = i THEN new ELSE s[n]
  BY <1>1, <1>2, <1>3, ExceptSeq
<1>5. DOMAIN t = 1..Len(s) /\ t \in Seq(Range(t))
  BY <1>4, LenProperties, SeqOfRange
<1> QED
  BY <1>2, <1>4, <1>5 DEF t, new

\* A step leaves the incidents, closes one, or writes what an analysis concludes.
LEMMA IncidentSteps ==
    ASSUME [Next]_vars
    PROVE  \/ incidents' = incidents
           \/ /\ \E i \in DOMAIN incidents : incidents' = [incidents EXCEPT ![i].status = "closed"]
              /\ jobs' = jobs
           \/ \E d \in Deployment, t \in Trigger : Conclude(d, t)
<1> SUFFICES ASSUME ~(incidents' = incidents), ~(\E d \in Deployment, t \in Trigger : Conclude(d, t))
             PROVE  /\ \E i \in DOMAIN incidents :
                           incidents' = [incidents EXCEPT ![i].status = "closed"]
                    /\ jobs' = jobs
  OBVIOUS
<1>1. Next
  BY DEF vars
<1>2. ~Analysis
  BY DEF Analysis, FetchLogs, BuildTimeline
<1>3. ~Reports
  BY DEF Reports, Start, Ingest, Finish, Webhook, AnalyzeNow
<1>4. People
  BY <1>1, <1>2, <1>3 DEF Next
<1>5. ~(\E days \in 0..MaxDays, critical \in 0..MaxCritical, blocked \in BOOLEAN :
            Evaluate(days, critical, blocked))
  BY DEF Evaluate
<1>6. PICK i \in DOMAIN incidents : Close(i)
  BY <1>4, <1>5 DEF People
<1> QED
  BY <1>6 DEF Close

\* What an analysis that concludes has read, and what it writes.
LEMMA Conclusions ==
    ASSUME TypeInv, Reading, NEW d \in Deployment, NEW t \in Trigger, Conclude(d, t)
    PROVE  /\ logs' = logs /\ jobs[<<d, t>>] \in Asking
           /\ jobs' = [jobs EXCEPT ![<<d, t>>] = Ended]
           /\ jobs[<<d, t>>].rows \in Seq(Row)
           /\ jobs[<<d, t>>].events \in Timelines(Collapsed(Visible(jobs[<<d, t>>].rows)))
           /\ LinesOf(jobs[<<d, t>>].rows) \subseteq LinesOf(logs[d])
           /\ \E result \in Results(Job(jobs[<<d, t>>].events)) :
                  incidents' = Append(incidents, Incident(d, result, Signals(jobs[<<d, t>>].events)))
<1> DEFINE job == jobs[<<d, t>>]
<1>1. logs' = logs /\ job.step = "asking" /\ jobs' = [jobs EXCEPT ![<<d, t>>] = Ended]
  BY DEF Conclude, Answered
<1>2. job \in JobState
  BY DEF TypeInv
<1>3. job \in Asking
  BY <1>1, <1>2, JobStates
<1>4. IsReading(job, LinesOf(logs[d]))
  BY DEF Reading
<1>5. \E result \in Results(Job(job.events)) :
          incidents' = Append(incidents, Incident(d, result, Signals(job.events)))
  BY DEF Conclude, Job
<1> HIDE DEF job
<1>6. job.rows \in Seq(Row)
  BY <1>3 DEF Asking
<1> QED
  BY <1>1, <1>3, <1>4, <1>5, <1>6 DEF IsReading, job

(***************************************************************************)
(* A step keeps the types and what the incidents say                       *)
(***************************************************************************)
LEMMA StatusStep ==
    ASSUME TypeInv, [Next]_vars
    PROVE  status' \in [Deployment -> {"none", "building", "running", "failed"}]
<1>0. status \in [Deployment -> {"none", "building", "running", "failed"}]
  BY DEF TypeInv
<1> SUFFICES ASSUME ~(status' = status)
             PROVE  status' \in [Deployment -> {"none", "building", "running", "failed"}]
  BY <1>0
<1>1. Next
  BY DEF vars
<1>2. ~Analysis /\ ~People
  BY DEF Analysis, FetchLogs, BuildTimeline, Conclude, People, Close, Evaluate
<1>3. PICK d \in Deployment :
          \/ Start(d) \/ AnalyzeNow(d)
          \/ \E row \in Row : Ingest(d, row)
          \/ \E outcome \in {"running", "failed"} : Finish(d, outcome) \/ Webhook(d, outcome)
  BY <1>1, <1>2 DEF Next, Reports
<1>4. ~AnalyzeNow(d) /\ ~(\E row \in Row : Ingest(d, row))
  BY DEF AnalyzeNow, Ingest
<1>5. CASE Start(d)
  BY <1>0, <1>5 DEF Start
<1>6. CASE \E outcome \in {"running", "failed"} : Finish(d, outcome) \/ Webhook(d, outcome)
  BY <1>0, <1>6 DEF Finish, Webhook
<1> QED
  BY <1>3, <1>4, <1>5, <1>6

LEMMA RiskStep ==
    ASSUME TypeInv, [Next]_vars
    PROVE  risk'.band \in {"unknown", "green", "amber", "red"} /\ risk'.needs_mentor \in BOOLEAN
<1>0. risk.band \in {"unknown", "green", "amber", "red"} /\ risk.needs_mentor \in BOOLEAN
  BY DEF TypeInv
<1> SUFFICES ASSUME ~(risk' = risk)
             PROVE  risk'.band \in {"unknown", "green", "amber", "red"} /\ risk'.needs_mentor \in BOOLEAN
  BY <1>0
<1>1. Next
  BY DEF vars
<1>2. ~Analysis /\ ~Reports
  BY DEF Analysis, FetchLogs, BuildTimeline, Conclude, Reports, Start, Ingest, Finish, Webhook,
         AnalyzeNow
<1>3. ~(\E i \in DOMAIN incidents : Close(i))
  BY DEF Close
<1>4. PICK days \in 0..MaxDays, critical \in 0..MaxCritical, blocked \in BOOLEAN :
          Evaluate(days, critical, blocked)
  BY <1>1, <1>2, <1>3 DEF Next, People
<1> DEFINE total == AtMost(100, DeploymentWeight + IncidentWeight(days) + AnomalyWeight(critical))
           band == IF total < 25 THEN "green" ELSE IF total < 55 THEN "amber" ELSE "red"
           need == band \in {"amber", "red"} \/ (blocked /\ total > 0)
           repeats == IF Repeated = {} THEN 0 ELSE Max({Repeats(k) : k \in Repeated})
<1>5. risk' = [repeats |-> repeats, band |-> band, needs_mentor |-> need]
  BY <1>4 DEF Evaluate
<1>6. band \in {"green", "amber", "red"} /\ need \in BOOLEAN
  OBVIOUS
<1> HIDE DEF band, need, repeats
<1>7. risk'.band = band /\ risk'.needs_mentor = need
  BY <1>5
<1> QED
  BY <1>6, <1>7

\* What each incident says is in the logs.
IncidentsSound ==
    \A n \in DOMAIN incidents : Sound(incidents[n], LinesOf(logs[incidents[n].deployment]))

LEMMA SoundnessGrows ==
    ASSUME NEW r, NEW few, NEW many, few \subseteq many, Sound(r, few) PROVE Sound(r, many)
BY DEF Sound, Shows

LEMMA IncidentStep ==
    ASSUME TypeInv, Reading, IncidentsSound, [Next]_vars
    PROVE  /\ incidents' \in Seq(Range(incidents'))
           /\ \A n \in DOMAIN incidents' :
                  /\ IsIncident(incidents'[n])
                  /\ Sound(incidents'[n], LinesOf(logs'[incidents'[n].deployment]))
<1>1. incidents \in Seq(Range(incidents)) /\ \A n \in DOMAIN incidents : IsIncident(incidents[n])
  BY DEF TypeInv
<1>2. \A d \in Deployment : LinesOf(logs[d]) \subseteq LinesOf(logs'[d])
  BY LogsGrow
<1>3. ASSUME NEW n \in DOMAIN incidents
      PROVE  /\ IsIncident(incidents[n]) /\ incidents[n].deployment \in Deployment
             /\ Sound(incidents[n], LinesOf(logs'[incidents[n].deployment]))
  <2>1. IsIncident(incidents[n]) /\ incidents[n].deployment \in Deployment
    BY <1>1 DEF IsIncident
  <2>2. Sound(incidents[n], LinesOf(logs[incidents[n].deployment]))
    BY DEF IncidentsSound
  <2>3. LinesOf(logs[incidents[n].deployment]) \subseteq LinesOf(logs'[incidents[n].deployment])
    BY <1>2, <2>1
  <2>4. Sound(incidents[n], LinesOf(logs'[incidents[n].deployment]))
    BY <2>2, <2>3, SoundnessGrows
  <2> QED
    BY <2>1, <2>4
<1>4. CASE incidents' = incidents
  BY <1>1, <1>3, <1>4
<1>5. ASSUME NEW i \in DOMAIN incidents, incidents' = [incidents EXCEPT ![i].status = "closed"]
      PROVE  /\ incidents' \in Seq(Range(incidents'))
             /\ \A n \in DOMAIN incidents' :
                    /\ IsIncident(incidents'[n])
                    /\ Sound(incidents'[n], LinesOf(logs'[incidents'[n].deployment]))
  <2> DEFINE new == [incidents[i] EXCEPT !.status = "closed"]
  <2>1. /\ incidents' \in Seq(Range(incidents')) /\ DOMAIN incidents' = DOMAIN incidents
        /\ incidents'[i] = new
        /\ \A n \in DOMAIN incidents : n # i => incidents'[n] = incidents[n]
    BY <1>1, <1>5, ClosedIncident
  <2>2. IsIncident(incidents[i]) /\ Sound(incidents[i], LinesOf(logs'[incidents[i].deployment]))
    BY <1>3
  <2>3. /\ new.deployment = incidents[i].deployment /\ new.key = incidents[i].key
        /\ new.evidence = incidents[i].evidence /\ new.status = "closed"
        /\ new.fixes = incidents[i].fixes /\ new.signals = incidents[i].signals
    BY <2>2 DEF IsIncident
  <2>4. IsIncident(new)
    BY <2>2, <2>3 DEF IsIncident
  <2>5. Sound(new, LinesOf(logs'[new.deployment]))
    BY <2>2, <2>3 DEF Sound
  <2> HIDE DEF new
  <2> QED
    BY <1>3, <2>1, <2>4, <2>5
<1>6. ASSUME NEW d \in Deployment, NEW t \in Trigger, Conclude(d, t)
      PROVE  /\ incidents' \in Seq(Range(incidents'))
             /\ \A n \in DOMAIN incidents' :
                    /\ IsIncident(incidents'[n])
                    /\ Sound(incidents'[n], LinesOf(logs'[incidents'[n].deployment]))
  <2> DEFINE rows == jobs[<<d, t>>].rows
             events == jobs[<<d, t>>].events
  <2>1. /\ logs' = logs /\ rows \in Seq(Row) /\ LinesOf(rows) \subseteq LinesOf(logs[d])
        /\ events \in Timelines(Collapsed(Visible(rows)))
        /\ \E result \in Results(Job(events)) :
               incidents' = Append(incidents, Incident(d, result, Signals(events)))
    BY <1>6, Conclusions
  <2> HIDE DEF rows, events
  <2>2. PICK result \in Results(Job(events)) :
            incidents' = Append(incidents, Incident(d, result, Signals(events)))
    BY <2>1
  <2> DEFINE new == Incident(d, result, Signals(events))
  <2>3. IsIncident(new) /\ Sound(new, LinesOf(rows))
    BY <2>1, IncidentsAreSound
  <2>4. new.deployment = d
    BY DEF Incident
  <2>5. incidents' = Append(incidents, new)
    BY <2>2
  <2> HIDE DEF new
  <2>6. Sound(new, LinesOf(logs'[new.deployment]))
    BY <2>1, <2>3, <2>4, SoundnessGrows
  <2>7. /\ incidents' \in Seq(Range(incidents'))
        /\ DOMAIN incidents' = DOMAIN incidents \cup {Len(incidents) + 1}
        /\ \A n \in DOMAIN incidents : incidents'[n] = incidents[n]
        /\ incidents'[Len(incidents) + 1] = new
    BY <1>1, <2>5, AppendedIncident
  <2> QED
    BY <1>3, <2>3, <2>6, <2>7
<1> QED
  BY <1>4, <1>5, <1>6, IncidentSteps

\* The inductive invariant.
Inv == TypeInv /\ Reading /\ IncidentsSound

LEMMA InvInit == Init => Inv
<1> SUFFICES ASSUME Init PROVE IncidentsSound
  BY TypeInit, ReadingInit DEF Inv
<1>1. DOMAIN incidents = {}
  BY DEF Init
<1> QED
  BY <1>1 DEF IncidentsSound

LEMMA InvStep == Inv /\ [Next]_vars => Inv'
<1> SUFFICES ASSUME Inv, [Next]_vars PROVE Inv'
  OBVIOUS
<1>1. TypeInv /\ Reading /\ IncidentsSound
  BY DEF Inv
<1>2. logs' \in [Deployment -> Seq(Row)]
  BY <1>1, LogsGrow
<1>3. status' \in [Deployment -> {"none", "building", "running", "failed"}]
  BY <1>1, StatusStep
<1>4. jobs' \in [Deployment \X Trigger -> JobState]
  BY <1>1, JobSteps
<1>5. /\ incidents' \in Seq(Range(incidents'))
      /\ \A n \in DOMAIN incidents' :
             /\ IsIncident(incidents'[n])
             /\ Sound(incidents'[n], LinesOf(logs'[incidents'[n].deployment]))
  BY <1>1, IncidentStep
<1>6. risk'.band \in {"unknown", "green", "amber", "red"} /\ risk'.needs_mentor \in BOOLEAN
  BY <1>1, RiskStep
<1>7. TypeInv'
  BY <1>2, <1>3, <1>4, <1>5, <1>6 DEF TypeInv
<1>8. Reading'
  BY <1>1, ReadingStep
<1>9. IncidentsSound'
  BY <1>5 DEF IncidentsSound
<1> QED
  BY <1>7, <1>8, <1>9 DEF Inv

(***************************************************************************)
(* Sums of weights                                                         *)
(***************************************************************************)
LEMMA NumbersAreFinite ==
    /\ IsFiniteSet(Started) /\ Cardinality(Started) \in Nat
    /\ IsFiniteSet(Failed) /\ Cardinality(Failed) \in Nat
    /\ Streak \in Nat
<1>1. Deployments \in Nat
  BY DiagnosisAssumption
<1>2. IsFiniteSet(Deployment)
  BY <1>1, FS_Interval DEF Deployment
<1>3. IsFiniteSet(Started)
  BY <1>2, FS_Subset DEF Started
<1>4. IsFiniteSet(Failed)
  BY <1>3, FS_Subset DEF Failed
<1>5. IsFiniteSet({d \in Failed : \A e \in Started : e > d => e \in Failed})
  BY <1>4, FS_Subset
<1> QED
  BY <1>3, <1>4, <1>5, FS_CardinalityType DEF Streak

LEMMA DeploymentsWeigh == DeploymentWeight \in Int /\ DeploymentWeight >= 0
<1> DEFINE total == Cardinality(Started) + Earlier
           failed == Cardinality(Failed)
           ok == Earlier > 0 \/ \E d \in Started : status[d] = "running"
           a == IF 2 * failed >= total /\ total >= 2 THEN (35 * failed) \div total ELSE 0
           b == IF Streak >= 3 THEN AtMost(8 * Streak, 35) ELSE 0
           c == IF ~ok /\ total >= 2 THEN 25 ELSE 0
<1>1. Cardinality(Started) \in Nat /\ failed \in Nat /\ Streak \in Nat
  BY NumbersAreFinite
<1>2. Earlier \in Nat
  BY DiagnosisAssumption
<1>3. total \in Nat
  BY <1>1, <1>2
<1>4. DeploymentWeight = IF total = 0 THEN 20 ELSE a + b + c
  BY DEF DeploymentWeight
<1> HIDE DEF total, failed, ok
<1>5. a \in Int /\ a >= 0
  <2> DEFINE x == 35 * failed
  <2>1. x \in Nat
    BY <1>1
  <2>2. a = IF 2 * failed >= total /\ total >= 2 THEN x \div total ELSE 0
    OBVIOUS
  <2> HIDE DEF x, a
  <2>3. CASE total >= 2
    <3>1. x \div total \in Int /\ x \div total >= 0
      BY <1>3, <2>1, <2>3
    <3> QED
      BY <2>2, <3>1
  <2>4. CASE ~(total >= 2)
    BY <2>2, <2>4
  <2> QED
    BY <2>3, <2>4
<1>6. b \in Int /\ b >= 0
  BY <1>1 DEF AtMost
<1>7. c \in Int /\ c >= 0
  OBVIOUS
<1> HIDE DEF a, b, c
<1> QED
  BY <1>4, <1>5, <1>6, <1>7

\* Incidents of one signature weigh enough by themselves.
LEMMA RepeatsWeigh ==
    ASSUME TypeInv, Repeated # {}, NEW days \in Nat
    PROVE  IncidentWeight(days) \in Int /\ IncidentWeight(days) >= 25
<1>1. IsFiniteSet(Open)
  <2>1. DOMAIN incidents = 1..Len(incidents) /\ Len(incidents) \in Nat
    BY LenProperties DEF TypeInv
  <2>2. IsFiniteSet(DOMAIN incidents)
    BY <2>1, FS_Interval
  <2> QED
    BY <2>2, FS_Subset DEF Open
<1> DEFINE keys == {incidents[i].key : i \in Open}
           critical == {i \in Open : incidents[i].severity = "critical"}
           o == Cardinality(Open)
           c == Cardinality(critical)
           r == Cardinality(Repeated)
<1>2. IsFiniteSet(keys)
  <2> DEFINE f == [i \in Open |-> incidents[i].key]
  <2>1. f \in Surjection(Open, keys)
    BY DEF Surjection
  <2> HIDE DEF f, keys
  <2> QED
    BY <1>1, <2>1, FS_Surjection
<1>3. IsFiniteSet(Repeated)
  <2>1. Repeated \subseteq keys
    BY DEF Repeated
  <2> HIDE DEF keys
  <2> QED
    BY <1>2, <2>1, FS_Subset
<1>4. r \in Nat /\ r >= 1
  <2>1. Cardinality(Repeated) \in Nat /\ (Cardinality(Repeated) = 0 <=> Repeated = {})
    BY <1>3, FS_CardinalityType, FS_EmptySet
  <2> QED
    BY <2>1
<1>5. o \in Nat /\ o >= 2
  <2>1. PICK k \in Repeated : Repeats(k) >= 2
    BY DEF Repeated
  <2> DEFINE S == {i \in Open : incidents[i].key = k}
  <2>2. Cardinality(S) >= 2 /\ S \subseteq Open
    BY <2>1 DEF Repeats
  <2> HIDE DEF S
  <2>3. /\ Cardinality(S) \in Nat /\ Cardinality(Open) \in Nat
        /\ Cardinality(S) <= Cardinality(Open)
    BY <1>1, <2>2, FS_Subset, FS_CardinalityType
  <2> QED
    BY <2>2, <2>3
<1>6. c \in Nat
  <2>1. IsFiniteSet(critical)
    BY <1>1, FS_Subset
  <2> QED
    BY <2>1, FS_CardinalityType
<1>7. Open # {}
  BY <1>5, FS_EmptySet
<1>8. IncidentWeight(days) = AtMost(30, 6 * o + 8 * c + 3 * days) + 15 * r
  BY <1>7 DEF IncidentWeight
<1> HIDE DEF o, c, r
<1> DEFINE x == 6 * o + 8 * c + 3 * days
<1>9. x \in Int /\ x >= 12
  BY <1>5, <1>6
<1>10. IncidentWeight(days) = AtMost(30, x) + 15 * r
  BY <1>8
<1> HIDE DEF x
<1>11. AtMost(30, x) \in Int /\ AtMost(30, x) >= 12
  BY <1>9 DEF AtMost
<1> QED
  BY <1>4, <1>10, <1>11

LEMMA EvaluationCalls ==
    ASSUME TypeInv, NEW days \in 0..MaxDays, NEW critical \in 0..MaxCritical, NEW blocked \in BOOLEAN,
           Evaluate(days, critical, blocked)
    PROVE  RepeatsCallMentor'
<1> DEFINE w == DeploymentWeight + IncidentWeight(days) + AnomalyWeight(critical)
           total == AtMost(100, w)
           band == IF total < 25 THEN "green" ELSE IF total < 55 THEN "amber" ELSE "red"
           need == band \in {"amber", "red"} \/ (blocked /\ total > 0)
           repeats == IF Repeated = {} THEN 0 ELSE Max({Repeats(k) : k \in Repeated})
<1>1. risk' = [repeats |-> repeats, band |-> band, needs_mentor |-> need]
  BY DEF Evaluate
<1>2. risk'.repeats = repeats
  BY <1>1
<1>3. CASE Repeated = {}
  <2>1. risk'.repeats = 0
    BY <1>2, <1>3
  <2>2. ~(risk'.repeats > 0)
    BY <2>1
  <2> QED
    BY <2>2 DEF RepeatsCallMentor
<1>4. CASE Repeated # {}
  <2>1. days \in Nat /\ critical \in Nat
    <3>1. MaxDays \in Nat /\ MaxCritical \in Nat
      BY DiagnosisAssumption
    <3> QED
      BY <3>1
  <2>2. IncidentWeight(days) \in Int /\ IncidentWeight(days) >= 25
    BY <1>4, <2>1, RepeatsWeigh
  <2>3. AnomalyWeight(critical) \in Int /\ AnomalyWeight(critical) >= 0
    BY <2>1 DEF AnomalyWeight, AtMost
  <2>4. w \in Int /\ w >= 25
    BY <2>2, <2>3, DeploymentsWeigh
  <2> HIDE DEF w
  <2>5. ~(total < 25)
    BY <2>4 DEF AtMost
  <2>6. need = TRUE
    BY <2>5
  <2> HIDE DEF need, band, repeats
  <2>7. risk'.needs_mentor = need
    BY <1>1
  <2> QED
    BY <2>6, <2>7 DEF RepeatsCallMentor
<1> QED
  BY <1>3, <1>4

LEMMA RepeatsStep ==
    ASSUME TypeInv, RepeatsCallMentor, [Next]_vars PROVE RepeatsCallMentor'
<1>1. CASE risk' = risk
  BY <1>1 DEF RepeatsCallMentor
<1>2. CASE ~(risk' = risk)
  <2>1. Next
    BY <1>2 DEF vars
  <2>2. ~Analysis /\ ~Reports
    BY <1>2 DEF Analysis, FetchLogs, BuildTimeline, Conclude, Reports, Start, Ingest, Finish,
                Webhook, AnalyzeNow
  <2>3. ~(\E i \in DOMAIN incidents : Close(i))
    BY <1>2 DEF Close
  <2>4. PICK days \in 0..MaxDays, critical \in 0..MaxCritical, blocked \in BOOLEAN :
            Evaluate(days, critical, blocked)
    BY <2>1, <2>2, <2>3 DEF Next, People
  <2> QED
    BY <2>4, EvaluationCalls
<1> QED
  BY <1>1, <1>2

(***************************************************************************)
(* Conclusions                                                             *)
(***************************************************************************)
LEMMA OnlyItsAnalysisConcludes ==
    ASSUME TypeInv, [Next]_vars, NEW d \in Deployment, NEW t \in Trigger, Concluding(d, t)
    PROVE  Conclude(d, t)
<1>1. jobs[<<d, t>>].step = "asking" /\ incidents' # incidents /\ jobs'[<<d, t>>] = Ended
  BY DEF Concluding
<1>2. jobs'[<<d, t>>] # jobs[<<d, t>>]
  BY <1>1 DEF Ended
<1>3. PICK e \in Deployment, s \in Trigger : Conclude(e, s)
  BY <1>1, <1>2, IncidentSteps
<1>4. jobs' = [jobs EXCEPT ![<<e, s>>] = Ended]
  BY <1>3 DEF Conclude, Answered
<1>5. <<d, t>> = <<e, s>>
  BY <1>2, <1>4 DEF TypeInv
<1>6. d = e /\ t = s
  BY <1>5
<1> QED
  BY <1>3, <1>6

LEMMA ConclusionStep ==
    ASSUME TypeInv, Reading, [Next]_vars, NEW d \in Deployment, NEW t \in Trigger,
           Concluding(d, t), Uncut(jobs[<<d, t>>].rows),
           NEW l \in LinesOf(Visible(jobs[<<d, t>>].rows))
    PROVE  /\ (\E m \in DOMAIN SIGNATURES : /\ SIGNATURES[m].confidence >= Sure
                                            /\ SIGNATURES[m].key \in Says[l]
                                            /\ Source[l] \in SIGNATURES[m].from)
              => Last(incidents').key # ""
           /\ "failed_before_runtime" \in Last(incidents').signals
              => Source[l] # "docker" \/ l \notin Deadly
<1> DEFINE rows == jobs[<<d, t>>].rows
           events == jobs[<<d, t>>].events
<1>1. /\ rows \in Seq(Row) /\ events \in Timelines(Collapsed(Visible(rows)))
      /\ \E result \in Results(Job(events)) :
             incidents' = Append(incidents, Incident(d, result, Signals(events)))
  BY OnlyItsAnalysisConcludes, Conclusions
<1>2. Uncut(rows) /\ l \in LinesOf(Visible(rows))
  OBVIOUS
<1> HIDE DEF rows, events
<1>3. /\ events \in Seq(Line)
      /\ LinesOf(Visible(rows)) \subseteq {events[i] : i \in DOMAIN events}
  BY <1>1, <1>2, EventsAreLines
<1>4. PICK i \in DOMAIN events : l = events[i]
  BY <1>2, <1>3
<1>5. PICK result \in Results(Job(events)) :
          incidents' = Append(incidents, Incident(d, result, Signals(events)))
  BY <1>1
<1> DEFINE new == Incident(d, result, Signals(events))
<1>6. new.key = result.key /\ new.signals = Signals(events)
  BY DEF Incident
<1>7. Last(incidents') = new
  <2>1. incidents' = Append(incidents, new)
    BY <1>5
  <2> HIDE DEF new
  <2>2. incidents \in Seq(Range(incidents))
    BY DEF TypeInv
  <2> QED
    BY <2>1, <2>2, AppendedIncident
<1> HIDE DEF new
<1>8. ASSUME NEW m \in DOMAIN SIGNATURES, SIGNATURES[m].confidence >= Sure,
             SIGNATURES[m].key \in Says[l], Source[l] \in SIGNATURES[m].from
      PROVE  Last(incidents').key # ""
  <2>1. Names(events, result)
    BY <1>3, <1>5, ResultsAreBorneOut
  <2>2. Hit(events, m, i)
    BY <1>4, <1>8 DEF Hit
  <2>3. result.key # ""
    BY <1>8, <2>1, <2>2 DEF Names
  <2> QED
    BY <1>6, <1>7, <2>3
<1>9. ASSUME "failed_before_runtime" \in Signals(events), Source[l] = "docker", l \in Deadly
      PROVE  FALSE
  <2>1. ~(\E j \in DOMAIN events : Source[events[j]] = "docker" /\ IsFailure(events[j]))
    BY <1>9 DEF Signals
  <2>2. IsFailure(events[i])
    BY <1>4, <1>9 DEF IsFailure
  <2> QED
    BY <1>4, <1>9, <2>1, <2>2
<1> QED
  BY <1>6, <1>7, <1>8, <1>9

(***************************************************************************)
(* Theorems                                                                *)
(***************************************************************************)
LEMMA InvIsInvariant == Spec => []Inv
<1>1. Init => Inv
  BY InvInit
<1>2. Inv /\ [Next]_vars => Inv'
  BY InvStep
<1> QED
  BY <1>1, <1>2, PTL DEF Spec

\* Every row, job, incident and snapshot of risk has its type, whatever the logs
\* hold and whatever the language model answers.
THEOREM TypeCorrect == Spec => []TypeOK
<1>1. Inv => TypeOK
  BY TypesImply DEF Inv
<1> QED
  BY <1>1, InvIsInvariant, PTL

\* An incident cites lines of its deployment's log and names a signature that one
\* of them shows: the model's inventions never reach it, nor does a line of the
\* log ever go (engine._merge, engine._persist).
THEOREM DiagnosesAreInTheLogs == Spec => []DiagnosisIsInTheLogs
<1>1. Inv => DiagnosisIsInTheLogs
  <2> SUFFICES ASSUME Inv PROVE DiagnosisIsInTheLogs
    OBVIOUS
  <2>1. \A n \in DOMAIN incidents : Sound(incidents[n], LinesOf(logs[incidents[n].deployment]))
    BY DEF Inv, IncidentsSound
  <2> QED
    BY <2>1 DEF DiagnosisIsInTheLogs, Sound, Shows
<1> QED
  BY <1>1, InvIsInvariant, PTL

\* Two open incidents of one signature outweigh the threshold of the amber band
\* by themselves, however many deployments there are and however they went
\* (risk.score).
THEOREM RepeatsAlwaysCallMentor == Spec => []RepeatsCallMentor
<1>1. Init => RepeatsCallMentor
  <2> SUFFICES ASSUME Init PROVE RepeatsCallMentor
    OBVIOUS
  <2>1. risk.repeats = 0
    BY DEF Init, NoRisk
  <2>2. ~(risk.repeats > 0)
    BY <2>1
  <2> QED
    BY <2>2 DEF RepeatsCallMentor
<1>2. Inv /\ RepeatsCallMentor /\ [Next]_vars => RepeatsCallMentor'
  BY RepeatsStep DEF Inv
<1> QED
  BY <1>1, <1>2, InvIsInvariant, PTL DEF Spec

\* What an analysis writes fits all the lines that it read, if no bound cut them:
\* the language model cannot talk a failure away of which a rule is sure
\* (engine._merge, correlate.cross_source_signals).
THEOREM ConclusionsFitTheLogs == Spec => ConclusionFitsTheLogs
<1> DEFINE Fits ==
        \A d \in Deployment, t \in Trigger :
            Concluding(d, t) /\ Uncut(jobs[<<d, t>>].rows) =>
                \A l \in LinesOf(Visible(jobs[<<d, t>>].rows)) :
                    /\ (\E m \in DOMAIN SIGNATURES :
                           /\ SIGNATURES[m].confidence >= Sure
                           /\ SIGNATURES[m].key \in Says[l]
                           /\ Source[l] \in SIGNATURES[m].from)
                       => Last(incidents').key # ""
                    /\ "failed_before_runtime" \in Last(incidents').signals
                       => Source[l] # "docker" \/ l \notin Deadly
<1>1. Inv /\ [Next]_vars => [Fits]_vars
  <2> SUFFICES ASSUME Inv, [Next]_vars PROVE Fits
    OBVIOUS
  <2>1. TypeInv /\ Reading
    BY DEF Inv
  <2> QED
    BY <2>1, ConclusionStep
<1>2. ConclusionFitsTheLogs <=> [][Fits]_vars
  BY DEF ConclusionFitsTheLogs
<1> HIDE DEF Fits
<1> QED
  BY <1>1, <1>2, InvIsInvariant, PTL DEF Spec

=============================================================================
