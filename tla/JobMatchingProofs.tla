---------------------------- MODULE JobMatchingProofs ----------------------------
(***************************************************************************)
(* Proofs about JobMatching for any number of jobs, users and skills, any  *)
(* requested lists and any number of snapshot changes, database errors and *)
(* restarts.  The worker's three effects on one candidate are tied to the  *)
(* record in its hand, and the record in its hand to the offsets: that is  *)
(* all that keeps rows, announcements and commits consistent when a crash  *)
(* falls between any two of them.                                          *)
(***************************************************************************)
EXTENDS JobMatching, ListLemmas

--------------------------------------------------------------------------------
(* The list of required skills *)

DistinctList(list) == \A m, n \in DOMAIN list : list[m] = list[n] => m = n

\* dedupeNonEmpty keeps each id that is not blank once, and no other.
LEMMA DedupeIsExact ==
  ASSUME NEW ids \in Seq(Skills \cup {Blank})
  PROVE  /\ DedupeNonEmpty(ids) \in Seq(Skills)
         /\ DistinctList(DedupeNonEmpty(ids))
         /\ ToSet(DedupeNonEmpty(ids)) = ToSet(ids) \ {Blank}
<1> DEFINE kept == {i \in DOMAIN ids : ids[i] # Blank /\ \A h \in 1 .. i - 1 : ids[h] # ids[i]}
           list == DedupeNonEmpty(ids)
<1>1. kept \in SUBSET (DOMAIN ids)
  OBVIOUS
<1>2. \A i \in kept : ids[i] \in Skills /\ \A h \in kept : ids[h] = ids[i] => h = i
  OBVIOUS
<1>3. list = AtPlaces(ids, kept)
  BY DEF DedupeNonEmpty
<1>4. ASSUME NEW e \in ToSet(ids), e # Blank PROVE \E i \in kept : ids[i] = e
  <2> DEFINE places == {i \in DOMAIN ids : ids[i] = e}
  <2>1. places # {} /\ places \in SUBSET Nat
    BY DEF ToSet
  <2>2. PICK i \in places : \A k \in places : i <= k
    BY <2>1, LeastMember
  <2>3. ASSUME NEW h \in 1 .. i - 1 PROVE ids[h] # e
    <3>1. h \in DOMAIN ids /\ h < i
      OBVIOUS
    <3> QED
      BY <3>1, <2>2
  <2> QED
    BY <2>3, <1>4
<1> HIDE DEF kept, list
<1>5. /\ list \in Seq(Skills \cup {Blank})
      /\ \A m \in DOMAIN list : Place(kept, m) \in kept /\ list[m] = ids[Place(kept, m)]
      /\ \A m, n \in DOMAIN list : Place(kept, m) = Place(kept, n) => m = n
      /\ ToSet(list) = {ids[i] : i \in kept}
  BY <1>1, <1>3, PlacesTaken
<1>6. list \in Seq(Skills)
  <2>1. \A m \in DOMAIN list : list[m] \in Skills
    BY <1>2, <1>5
  <2> QED
    BY <1>5, <2>1
<1>7. DistinctList(list)
  BY <1>2, <1>5 DEF DistinctList
<1>8. \A i \in kept : ids[i] \in ToSet(ids) \ {Blank}
  BY <1>1, <1>2, NoneIsNoId DEF ToSet
<1>9. {ids[i] : i \in kept} = ToSet(ids) \ {Blank}
  BY <1>4, <1>8
<1> QED
  BY <1>5, <1>6, <1>7, <1>9 DEF list

\* A list without repetitions is as long as the set of its members is large.
LEMMA DistinctListLength ==
  ASSUME NEW list \in Seq(Skills), DistinctList(list)
  PROVE  /\ IsFiniteSet(ToSet(list)) /\ ToSet(list) \subseteq Skills
         /\ Cardinality(ToSet(list)) = Len(list)
<1> DEFINE D == DOMAIN list  E == ToSet(list)
<1>1. IsFiniteSet(D) /\ Cardinality(D) = Len(list) /\ list \in [D -> Skills]
  BY PositionsUpTo
<1>2. list \in [D -> E] /\ E \subseteq Skills /\ \A e \in E : \E i \in D : list[i] = e
  BY <1>1 DEF ToSet
<1>3. \A m, n \in D : list[m] = list[n] => m = n
  BY DEF DistinctList
<1> HIDE DEF D, E
<1>4. list \in Injection(D, E)
  BY <1>2, <1>3 DEF Injection, IsInjective
<1>5. list \in Surjection(D, E)
  BY <1>2 DEF Surjection
<1>6. ExistsBijection(D, E)
  BY <1>4, <1>5 DEF Bijection, ExistsBijection
<1>7. IsFiniteSet(E) /\ Cardinality(E) = Len(list)
  BY <1>1, <1>6, FS_Bijection
<1> QED
  BY <1>2, <1>7 DEF E

\* The score lies in 0 .. Len(list), and is full exactly when the list is covered.
LEMMA ScoreBounds ==
  ASSUME NEW list \in Seq(Skills), DistinctList(list), NEW skills \in SUBSET Skills
  PROVE  /\ Cardinality(skills \cap ToSet(list)) \in 0 .. Len(list)
         /\ Cardinality(skills \cap ToSet(list)) = Len(list) <=> ToSet(list) \subseteq skills
<1> DEFINE E == ToSet(list)  both == skills \cap E
<1>1. IsFiniteSet(E) /\ Cardinality(E) = Len(list) /\ Len(list) \in Nat
  BY DistinctListLength, PositionsUpTo
<1>2. both \in SUBSET E /\ (E \subseteq skills <=> both = E)
  OBVIOUS
<1> HIDE DEF E, both
<1>3. /\ Cardinality(both) \in Nat /\ Cardinality(both) <= Cardinality(E)
      /\ Cardinality(E) = Cardinality(both) => E = both
  BY <1>1, <1>2, FS_Subset, FS_CardinalityType
<1>4. Cardinality(both) \in 0 .. Len(list) /\ (Cardinality(both) = Len(list) <=> E \subseteq skills)
  BY <1>1, <1>2, <1>3
<1> QED
  BY <1>4 DEF both, E

--------------------------------------------------------------------------------
(* The inductive invariant *)

InHand(j) == work.job = j

\* The record in hand is the one its partition waits for.
WorkInHand ==
  /\ \A j \in Jobs : InHand(j) => mode # "down" /\ next[j] < end[j]
  /\ work.user # None => ~Idle /\ work.todo[work.user] = 0
  /\ work.user = None => work.step = "upsert"
  /\ Idle => work = Resting

Earned(j, u, overlap) ==
  /\ Posted(j)
  /\ \E skills \in had[u] : overlap = Cardinality(skills \cap ToSet(required[j]))

\* An overlap is followed from the query to the row.
ScoresEarned ==
  /\ \A u \in Users : snapshot[u] \in had[u]
  /\ \A j \in Jobs, u \in Users :
       /\ InHand(j) /\ work.todo[u] > 0 => Earned(j, u, work.todo[u])
       /\ Matched(j, u) => Earned(j, u, jobMatches[j][u])

\* Whoever is about to be told has a row.
Told ==
  /\ \A j \in Jobs : InHand(j) /\ work.user # None => Matched(j, work.user)
  /\ ToldOnlyIfRecorded

\* A process is given the record of a job once, and one that is stopping has used
\* up a stop already.
OncePerProcess ==
  \A j \in Jobs :
    LET fresh == next[j] = 0 /\ ~InHand(j)
    IN  /\ deliveries[j] <= stops + IF mode = "running" THEN 1 ELSE 0
        /\ mode = "running" /\ fresh => deliveries[j] <= stops
        /\ mode = "stopping" /\ fresh => deliveries[j] + 1 <= stops

\* A delivery tells a user at most once: not before the visit, and not after it.
OncePerDelivery ==
  \A j \in Jobs, u \in Users :
    /\ announced[j][u] <= deliveries[j] /\ pings[j][u] <= deliveries[j]
    /\ InHand(j) /\ (work.todo[u] > 0 \/ (work.user = u /\ work.step = "announce"))
         => announced[j][u] < deliveries[j]
    /\ InHand(j) /\ (work.todo[u] > 0 \/ work.user = u) => pings[j][u] < deliveries[j]

AllMatched(j) == \A u \in owed[j] : Matched(j, u)

\* What is behind the finished polls is matched; so is whatever a living context
\* has handed to the handler, and the rest of the record in hand is yet to visit.
OwedMatched ==
  \A j \in Jobs :
    /\ head[j] > 0 => AllMatched(j)
    /\ mode = "running" /\ next[j] > 0 => AllMatched(j)
    /\ mode = "running" /\ InHand(j) => \A u \in owed[j] : Matched(j, u) \/ work.todo[u] > 0

ListsDistinct == \A j \in Jobs : DistinctList(required[j])

IInv ==
  /\ TypeOK /\ Group!OffsetsOrdered /\ ListsDistinct
  /\ WorkInHand /\ ScoresEarned /\ Told
  /\ OncePerProcess /\ OncePerDelivery /\ OwedMatched

--------------------------------------------------------------------------------
(* Consequences *)

LEMMA OverlapTyped ==
  ASSUME TypeOK, NEW j \in Jobs, NEW u \in Users
  PROVE  Overlap(j, u) \in Nat
<1> DEFINE both == snapshot[u] \cap ToSet(required[j])
<1>1. both \in SUBSET Skills
  BY DEF TypeOK
<1> HIDE DEF both
<1>2. Cardinality(both) \in Nat
  BY <1>1, SkillsAreFinite, FS_Subset, FS_CardinalityType
<1> QED
  BY <1>2 DEF Overlap, both

LEMMA EarnedBounds ==
  ASSUME IInv, NEW j \in Jobs, NEW u \in Users, Matched(j, u)
  PROVE  /\ Posted(j)
         /\ jobMatches[j][u] <= Len(required[j])
         /\ \E skills \in had[u] :
              /\ jobMatches[j][u] = Cardinality(skills \cap ToSet(required[j]))
              /\ jobMatches[j][u] = Len(required[j]) <=> ToSet(required[j]) \subseteq skills
<1>1. required[j] \in Seq(Skills) /\ DistinctList(required[j]) /\ had[u] \in SUBSET SUBSET Skills
  BY DEF IInv, TypeOK, ListsDistinct
<1>2. Posted(j) /\ \E skills \in had[u] : jobMatches[j][u] = Cardinality(skills \cap ToSet(required[j]))
  BY DEF IInv, ScoresEarned, Earned
<1>3. PICK skills \in had[u] : jobMatches[j][u] = Cardinality(skills \cap ToSet(required[j]))
  BY <1>2
<1>4. skills \in SUBSET Skills
  BY <1>1
<1>5. /\ jobMatches[j][u] \in 0 .. Len(required[j])
      /\ jobMatches[j][u] = Len(required[j]) <=> ToSet(required[j]) \subseteq skills
  BY <1>1, <1>3, <1>4, ScoreBounds
<1>6. jobMatches[j][u] <= Len(required[j])
  BY <1>1, <1>5
<1> QED
  BY <1>2, <1>3, <1>5, <1>6

LEMMA InvariantsHold ==
  ASSUME IInv
  PROVE  MatchesAreEarned /\ ToldOnlyIfRecorded /\ RepeatsNeedRestarts /\ CommittedJobsMatched
<1>1. MatchesAreEarned
  BY EarnedBounds DEF MatchesAreEarned
<1>2. ToldOnlyIfRecorded
  BY DEF IInv, Told
<1>3. RepeatsNeedRestarts
  <2> SUFFICES ASSUME NEW j \in Jobs, NEW u \in Users
               PROVE  announced[j][u] <= 1 + stops /\ pings[j][u] <= 1 + stops
    BY DEF RepeatsNeedRestarts
  <2>1. /\ announced[j][u] \in Nat /\ pings[j][u] \in Nat /\ deliveries[j] \in Nat /\ stops \in Nat
        /\ announced[j][u] <= deliveries[j] /\ pings[j][u] <= deliveries[j]
    BY DEF IInv, TypeOK, Counts, OncePerDelivery
  <2>2. deliveries[j] <= stops + 1
    BY <2>1 DEF IInv, OncePerProcess
  <2> QED
    BY <2>1, <2>2
<1>4. CommittedJobsMatched
  <2> SUFFICES ASSUME NEW j \in Jobs, committed[j] = 1
               PROVE  \A u \in owed[j] : Matched(j, u)
    BY DEF CommittedJobsMatched
  <2>1. head[j] > 0
    BY DEF IInv, TypeOK, Group!TypeOK, Group!OffsetsOrdered
  <2> QED
    BY <2>1 DEF IInv, OwedMatched, AllMatched
<1> QED
  BY <1>1, <1>2, <1>3, <1>4

LEMMA InvInit == Init => IInv
<1> SUFFICES ASSUME Init PROVE IInv
  OBVIOUS
<1>1. Resting \in Work
  BY NoneIsNoId DEF Resting, Work
<1>2. TypeOK
  BY <1>1 DEF Init, TypeOK, Group!Init, Group!TypeOK, Counts
<1>3. Group!OffsetsOrdered
  BY DEF Init, Group!Init, Group!OffsetsOrdered, Posted
<1>4. Idle /\ work.user = None /\ work.step = "upsert" /\ work = Resting
  BY DEF Init, Resting, Idle
<1>5. /\ \A j \in Jobs : required[j] = <<>> /\ next[j] = 0 /\ head[j] = 0 /\ deliveries[j] = 0 /\ ~InHand(j)
      /\ \A u \in Users : snapshot[u] \in had[u]
      /\ \A j \in Jobs, u \in Users : jobMatches[j][u] = 0 /\ announced[j][u] = 0 /\ pings[j][u] = 0
      /\ mode = "running" /\ stops = 0
  BY NoneIsNoId DEF Init, Group!Init, Resting, InHand
<1>6. ListsDistinct
  BY <1>5 DEF ListsDistinct, DistinctList
<1>7. WorkInHand /\ ScoresEarned /\ Told /\ OncePerProcess /\ OncePerDelivery /\ OwedMatched
  BY <1>4, <1>5
     DEF WorkInHand, ScoresEarned, Matched, Told, ToldOnlyIfRecorded, OncePerProcess, OncePerDelivery, OwedMatched
<1> QED
  BY <1>2, <1>3, <1>6, <1>7 DEF IInv

--------------------------------------------------------------------------------
(* The snapshot and CreateJob: the worker is not touched *)

\* What the invariant says of the worker, as long as rows and scores stay earned.
WorkerInv == WorkInHand /\ Told /\ OncePerProcess /\ OncePerDelivery /\ OwedMatched

LEMMA WorkerSame ==
  ASSUME WorkerInv,
         UNCHANGED <<mode, head, next, end, work, jobMatches, announced, pings, stops, deliveries, owed>>
  PROVE  WorkerInv'
BY DEF WorkerInv, WorkInHand, Told, OncePerProcess, OncePerDelivery, OwedMatched, InHand, Idle,
       Resting, Matched, ToldOnlyIfRecorded, AllMatched

LEMMA EarnedStays ==
  ASSUME NEW j \in Jobs, NEW u \in Users, NEW overlap, Earned(j, u, overlap),
         Posted(j)', required'[j] = required[j], had[u] \subseteq had'[u]
  PROVE  Earned(j, u, overlap)'
BY DEF Earned

LEMMA SnapshotKeeps ==
  ASSUME IInv, NEW u \in Users, NEW skills \in SUBSET Skills, ReplaceUserSkills(u, skills)
  PROVE  IInv'
<1>1. /\ snapshot' = [snapshot EXCEPT ![u] = skills]
      /\ had' = [had EXCEPT ![u] = had[u] \cup {skills}]
      /\ changes' = changes + 1
      /\ UNCHANGED <<posting, required, due, mode, committed, head, next, end, work,
                     jobMatches, announced, pings, storeErrors, stops, deliveries, owed>>
  BY DEF ReplaceUserSkills, callVars, groupVars, effects
<1>2. TypeOK'
  BY <1>1 DEF IInv, TypeOK, Group!TypeOK
<1>3. Group!OffsetsOrdered' /\ ListsDistinct'
  BY <1>1 DEF IInv, Group!OffsetsOrdered, Posted, ListsDistinct
<1>4. \A v \in Users : had[v] \subseteq had'[v] /\ snapshot'[v] \in had'[v]
  BY <1>1 DEF IInv, TypeOK, ScoresEarned
<1>5. ScoresEarned'
  <2>1. \A overlap : \A j \in Jobs, v \in Users : Earned(j, v, overlap) => Earned(j, v, overlap)'
    <3>1. \A overlap : \A j \in Jobs, v \in Users : Earned(j, v, overlap) => Posted(j)' /\ required'[j] = required[j]
      BY <1>1 DEF Earned, Posted
    <3> QED
      BY <3>1, <1>4, EarnedStays
  <2> QED
    BY <1>1, <1>4, <2>1 DEF IInv, ScoresEarned, Matched, InHand
<1>6. WorkerInv'
  BY <1>1, WorkerSame DEF IInv, WorkerInv
<1> QED
  BY <1>2, <1>3, <1>5, <1>6 DEF IInv, WorkerInv

CreateJobStep(j) ==
  \/ Refuse(j) \/ \E ids \in Requests : InsertJob(j, ids)
  \/ PublishJobPosted(j) \/ DropJobPosted(j)

\* A call changes the required skills of a job only while it is not posted, and a
\* job that is posted stays so.
LEMMA CallMoves ==
  ASSUME IInv, NEW j \in Jobs, CreateJobStep(j)
  PROVE  /\ posting' \in [Jobs -> {"idle", "refused", "inserted", "posted", "unposted"}]
         /\ required' \in [Jobs -> Seq(Skills)] /\ due' \in [Jobs -> SUBSET Users]
         /\ ListsDistinct'
         /\ \A k \in Jobs : Posted(k) => Posted(k)' /\ required'[k] = required[k]
         /\ UNCHANGED <<snapshotVars, groupVars, work, effects, storeErrors, stops, deliveries, owed>>
<1> USE DEF IInv, TypeOK, ListsDistinct, Posted
<1>1. CASE Refuse(j) \/ DropJobPosted(j)
  BY <1>1 DEF Refuse, DropJobPosted, CallStep
<1>2. ASSUME NEW ids \in Requests, InsertJob(j, ids)
      PROVE  /\ posting' = [posting EXCEPT ![j] = "inserted"] /\ posting[j] = "idle"
             /\ required' = [required EXCEPT ![j] = DedupeNonEmpty(ids)]
             /\ DedupeNonEmpty(ids) \in Seq(Skills) /\ DistinctList(DedupeNonEmpty(ids))
             /\ UNCHANGED due
             /\ UNCHANGED <<snapshotVars, groupVars, work, effects, storeErrors, stops, deliveries, owed>>
  <2>1. ids \in Seq(Skills \cup {Blank})
    BY RequestsAreLists
  <2>2. DedupeNonEmpty(ids) \in Seq(Skills) /\ DistinctList(DedupeNonEmpty(ids))
    BY <2>1, DedupeIsExact
  <2> QED
    BY <1>2, <2>2 DEF InsertJob, CallStep
<1>3. CASE PublishJobPosted(j)
  <2>1. Matches(j) \in SUBSET Users
    BY DEF Matches
  <2> QED
    BY <1>3, <2>1 DEF PublishJobPosted, CallStep
<1>4. CASE \E ids \in Requests : InsertJob(j, ids)
  BY <1>2, <1>4
<1> QED
  BY <1>1, <1>3, <1>4 DEF CreateJobStep

LEMMA CallKeeps ==
  ASSUME IInv, NEW j \in Jobs, CreateJobStep(j)
  PROVE  IInv'
<1>1. /\ \A k \in Jobs : Posted(k) => Posted(k)' /\ required'[k] = required[k]
      /\ ListsDistinct'
      /\ UNCHANGED <<snapshot, had, changes, mode, committed, head, next, end, work, jobMatches,
                     announced, pings, storeErrors, stops, deliveries, owed>>
  BY CallMoves DEF snapshotVars, groupVars, effects
<1>2. TypeOK'
  BY <1>1, CallMoves DEF IInv, TypeOK, Group!TypeOK
<1>3. Group!OffsetsOrdered'
  <2>1. \A k \in Jobs : end[k] \in Nat /\ end[k] <= IF Posted(k) THEN 1 ELSE 0
    BY DEF IInv, TypeOK, Group!TypeOK, Group!OffsetsOrdered
  <2>2. \A k \in Jobs : end[k] <= IF Posted(k)' THEN 1 ELSE 0
    BY <2>1, <1>1
  <2> QED
    BY <2>2, <1>1 DEF IInv, Group!OffsetsOrdered, Posted
<1>4. ScoresEarned'
  <2>1. \A overlap : \A k \in Jobs, v \in Users : Earned(k, v, overlap) => Earned(k, v, overlap)'
    BY <1>1, EarnedStays DEF Earned
  <2> QED
    BY <1>1, <2>1 DEF IInv, ScoresEarned, Matched, InHand
<1>5. WorkerInv'
  BY <1>1, WorkerSame DEF IInv, WorkerInv
<1> QED
  BY <1>1, <1>2, <1>3, <1>4, <1>5 DEF IInv, WorkerInv

--------------------------------------------------------------------------------
(* The worker's steps *)

\* A step of the worker touches neither what it scores against nor the stops.
Untouched == UNCHANGED <<posting, required, due, snapshot, had, changes, stops>>

LEMMA EarnedSame ==
  ASSUME UNCHANGED <<posting, required, had>>
  PROVE  \A j, u, overlap : Earned(j, u, overlap)' <=> Earned(j, u, overlap)
BY DEF Earned, Posted

\* A record is delivered while its job is posted, and is the only one of its job.
LEMMA DeliveringFirst ==
  ASSUME IInv, NEW j \in Jobs, Group!Delivering(j)
  PROVE  mode # "down" /\ next[j] = 0 /\ head[j] = 0 /\ committed[j] = 0 /\ end[j] = 1 /\ Posted(j)
<1>1. /\ committed[j] \in Nat /\ head[j] \in Nat /\ next[j] \in Nat /\ end[j] \in Nat
      /\ committed[j] <= head[j] /\ head[j] <= next[j] /\ end[j] <= IF Posted(j) THEN 1 ELSE 0
  BY DEF IInv, TypeOK, Group!TypeOK, Group!OffsetsOrdered
<1> QED
  BY <1>1 DEF Group!Delivering

LEMMA InHandFirst ==
  ASSUME IInv, NEW j \in Jobs, InHand(j)
  PROVE  mode # "down" /\ next[j] = 0 /\ head[j] = 0 /\ end[j] = 1 /\ Posted(j)
<1>1. Group!Delivering(j)
  BY DEF IInv, WorkInHand, Group!Delivering
<1> QED
  BY <1>1, DeliveringFirst

\* Handing the record on moves its partition to the end of its batch.
LEMMA DeliverMoves ==
  ASSUME IInv, NEW j \in Jobs, Group!Deliver(j), UNCHANGED posting
  PROVE  /\ Group!TypeOK' /\ Group!OffsetsOrdered'
         /\ next' = [next EXCEPT ![j] = 1]
         /\ UNCHANGED <<mode, committed, head, end>>
<1>1. /\ next[j] = 0 /\ end[j] = 1 /\ next' = [next EXCEPT ![j] = next[j] + 1]
      /\ UNCHANGED <<mode, committed, head, end>>
  BY DeliveringFirst DEF Group!Deliver
<1>2. next' = [next EXCEPT ![j] = 1]
  BY <1>1
<1>3. Group!TypeOK'
  BY <1>1, <1>2 DEF IInv, TypeOK, Group!TypeOK
<1>4. Group!OffsetsOrdered'
  <2>1. /\ next \in [Jobs -> Nat] /\ committed \in [Jobs -> Nat] /\ head \in [Jobs -> Nat]
        /\ end \in [Jobs -> Nat] /\ Group!OffsetsOrdered
    BY DEF IInv, TypeOK, Group!TypeOK
  <2>2. \A k \in Jobs : next[k] <= next'[k] /\ next'[k] <= end[k]
    BY <1>1, <1>2, <2>1 DEF Group!OffsetsOrdered
  <2>3. next' \in [Jobs -> Nat]
    BY <1>2, <2>1
  <2> QED
    BY <1>1, <2>1, <2>2, <2>3 DEF Group!OffsetsOrdered, Posted
<1> QED
  BY <1>1, <1>2, <1>3, <1>4

LEMMA GiveUpKeeps == ASSUME IInv, NEW j \in Jobs, GiveUp(j) PROVE IInv'
<1>1. /\ Idle /\ Group!Delivering(j) /\ Group!Deliver(j)
      /\ deliveries' = [deliveries EXCEPT ![j] = deliveries[j] + 1]
      /\ owed' = [owed EXCEPT ![j] = IF mode = "running" THEN {} ELSE owed[j]]
      /\ storeErrors' \in Nat
      /\ Untouched /\ UNCHANGED <<work, jobMatches, announced, pings>>
  BY DEF GiveUp, Received, WorkerOnly, DatabaseFails, callVars, snapshotVars, effects, Untouched, IInv, TypeOK
<1>2. /\ Group!TypeOK' /\ Group!OffsetsOrdered'
      /\ next' = [next EXCEPT ![j] = 1]
      /\ UNCHANGED <<mode, committed, head, end>>
  BY <1>1, DeliverMoves DEF Untouched
<1>3. /\ mode # "down" /\ next[j] = 0 /\ head[j] = 0 /\ \A k \in Jobs : ~InHand(k)
  BY <1>1, DeliveringFirst, NoneIsNoId DEF Idle, InHand
<1>4. TypeOK' /\ ListsDistinct'
  BY <1>1, <1>2 DEF IInv, TypeOK, Untouched, ListsDistinct
<1>5. WorkInHand'
  BY <1>1, <1>2, <1>3 DEF IInv, WorkInHand, InHand, Idle, Resting
<1>6. ScoresEarned'
  BY <1>1, EarnedSame DEF IInv, ScoresEarned, Untouched, InHand, Matched
<1>7. Told'
  BY <1>1 DEF IInv, Told, ToldOnlyIfRecorded, InHand, Matched
<1>8. OncePerProcess'
  <2> SUFFICES ASSUME NEW k \in Jobs
               PROVE  LET fresh == next'[k] = 0 /\ ~InHand(k)'
                      IN  /\ deliveries'[k] <= stops' + IF mode' = "running" THEN 1 ELSE 0
                          /\ mode' = "running" /\ fresh => deliveries'[k] <= stops'
                          /\ mode' = "stopping" /\ fresh => deliveries'[k] + 1 <= stops'
    BY DEF OncePerProcess
  <2>1. mode \in {"running", "stopping"} /\ stops \in Nat /\ deliveries \in [Jobs -> Nat]
        /\ next \in [Jobs -> Nat]
    BY <1>3 DEF IInv, TypeOK, Group!TypeOK
  <2>2. UNCHANGED <<stops, mode, work>>
    BY <1>1, <1>2 DEF Untouched
  <2>3. CASE k = j
    BY <1>1, <1>2, <1>3, <2>1, <2>2, <2>3 DEF IInv, OncePerProcess, InHand
  <2>4. CASE k # j
    BY <1>1, <1>2, <2>1, <2>2, <2>4 DEF IInv, OncePerProcess, InHand
  <2> QED
    BY <2>3, <2>4
<1>9. OncePerDelivery'
  BY <1>1, <1>3 DEF IInv, TypeOK, Counts, OncePerDelivery, InHand
<1>10. OwedMatched'
  BY <1>1, <1>2, <1>3 DEF IInv, TypeOK, Group!TypeOK, OwedMatched, AllMatched, InHand, Matched
<1> QED
  BY <1>2, <1>4, <1>5, <1>6, <1>7, <1>8, <1>9, <1>10 DEF IInv

LEMMA ScoreKeeps == ASSUME IInv, NEW j \in Jobs, Score(j) PROVE IInv'
<1>1. /\ Idle /\ Group!Delivering(j) /\ mode = "running"
      /\ deliveries' = [deliveries EXCEPT ![j] = deliveries[j] + 1]
      /\ owed' = [owed EXCEPT ![j] = Matches(j)]
      /\ Untouched
      /\ UNCHANGED <<mode, committed, head, next, end, jobMatches, announced, pings, storeErrors>>
  BY DEF Score, Received, WorkerOnly, callVars, snapshotVars, groupVars, effects, Untouched
<1>2. /\ work' = [job |-> j, todo |-> [u \in Users |-> Overlap(j, u)], user |-> None, step |-> "upsert"]
      /\ work' \in Work
  <2>1. \A u \in Users : Overlap(j, u) \in Nat
    BY OverlapTyped DEF IInv
  <2>2. work' = [job |-> j, todo |-> [u \in Users |-> Overlap(j, u)], user |-> None, step |-> "upsert"]
    BY DEF Score, Resting
  <2> QED
    BY <2>1, <2>2 DEF Work
<1>3. /\ work'.job = j /\ work'.user = None /\ work'.step = "upsert"
      /\ \A u \in Users : work'.todo[u] = Overlap(j, u) /\ Overlap(j, u) \in Nat
      /\ \A k \in Jobs : InHand(k)' <=> k = j
  BY <1>2, OverlapTyped DEF IInv, InHand
<1>4. next[j] = 0 /\ head[j] = 0 /\ end[j] = 1 /\ Posted(j) /\ j # None /\ \A k \in Jobs : ~InHand(k)
  BY <1>1, DeliveringFirst, NoneIsNoId DEF Idle, InHand
<1>5. TypeOK' /\ Group!OffsetsOrdered' /\ ListsDistinct'
  <2>1. Matches(j) \in SUBSET Users
    BY DEF Matches
  <2>2. Group!TypeOK' /\ Group!OffsetsOrdered'
    BY <1>1 DEF IInv, TypeOK, Group!TypeOK, Group!OffsetsOrdered, Posted, Untouched
  <2>3. TypeOK'
    BY <1>1, <1>2, <2>1, <2>2 DEF IInv, TypeOK, Untouched
  <2> QED
    BY <1>1, <2>2, <2>3 DEF IInv, Untouched, ListsDistinct
<1>6. WorkInHand'
  BY <1>1, <1>3, <1>4 DEF IInv, WorkInHand, Idle
<1>7. ScoresEarned'
  <2>1. \A u \in Users : Earned(j, u, Overlap(j, u))
    BY <1>4 DEF IInv, ScoresEarned, Earned, Overlap
  <2> QED
    BY <1>1, <1>3, <2>1, EarnedSame DEF IInv, ScoresEarned, Untouched, Matched
<1>8. Told'
  BY <1>1, <1>3 DEF IInv, Told, ToldOnlyIfRecorded, Matched
<1>9. OncePerProcess'
  BY <1>1, <1>3, <1>4 DEF IInv, TypeOK, Untouched, OncePerProcess
<1>10. OncePerDelivery'
  BY <1>1, <1>3, NoneIsNoId DEF IInv, TypeOK, Counts, OncePerDelivery
<1>11. OwedMatched'
  <2>1. \A u \in Matches(j) : u \in Users /\ work'.todo[u] > 0
    BY <1>3 DEF Matches, matchThresholdOverlap
  <2> QED
    BY <1>1, <1>3, <1>4, <2>1 DEF IInv, TypeOK, OwedMatched, AllMatched, Matched
<1> QED
  BY <1>5, <1>6, <1>7, <1>8, <1>9, <1>10, <1>11 DEF IInv

--------------------------------------------------------------------------------
(* The visits to the candidates of the record in hand *)

\* What a visit leaves alone besides.
SameGroup == UNCHANGED <<mode, committed, head, next, end, deliveries>>

LEMMA InHandNow ==
  ASSUME IInv, ~Idle
  PROVE  /\ work.job \in Jobs /\ InHand(work.job) /\ \A k \in Jobs : InHand(k) => k = work.job
         /\ work.todo \in [Users -> Nat] /\ work \in Work
BY DEF IInv, TypeOK, Work, Idle, InHand

LEMMA VisitFrame ==
  ASSUME IInv, Untouched, SameGroup, ~Idle, work' \in Work, work'.job = work.job
  PROVE  /\ Group!TypeOK' /\ Group!OffsetsOrdered' /\ ListsDistinct' /\ OncePerProcess'
         /\ \A k \in Jobs : InHand(k)' <=> InHand(k)
BY DEF IInv, TypeOK, Group!TypeOK, Group!OffsetsOrdered, Posted, Untouched, SameGroup, ListsDistinct,
       OncePerProcess, InHand

LEMMA UpsertMatchKeeps == ASSUME IInv, NEW u \in Users, UpsertMatch(u) PROVE IInv'
<1>1. ~Idle
  BY DEF UpsertMatch
<1>2. PICK j \in Jobs : j = work.job /\ InHand(j) /\ (\A k \in Jobs : InHand(k) => k = j)
  BY <1>1, InHandNow
<1>3. PICK overlap \in Nat : overlap = work.todo[u]
  BY <1>1, InHandNow
<1>4. /\ work.user = None /\ overlap >= 1 /\ mode = "running"
      /\ jobMatches' = [jobMatches EXCEPT ![j][u] = overlap]
      /\ work' = [work EXCEPT !.todo[u] = 0, !.user = u, !.step = "announce"]
      /\ Untouched /\ SameGroup /\ UNCHANGED <<announced, pings, storeErrors, owed>>
  BY <1>2, <1>3
     DEF UpsertMatch, AfterUpsert, matchThresholdOverlap, WorkerOnly, callVars, snapshotVars, groupVars,
         Untouched, SameGroup
<1>5. /\ work' \in Work /\ work'.job = j /\ work'.user = u /\ work'.step = "announce"
      /\ work'.todo = [work.todo EXCEPT ![u] = 0]
  BY <1>1, <1>2, <1>4, InHandNow DEF Work
<1>6. /\ Group!TypeOK' /\ Group!OffsetsOrdered' /\ ListsDistinct' /\ OncePerProcess'
      /\ \A k \in Jobs : InHand(k)' <=> InHand(k)
  BY <1>1, <1>2, <1>4, <1>5, VisitFrame
<1>7. /\ u # None /\ j # None
      /\ work'.todo[u] = 0 /\ \A v \in Users : v # u => work'.todo[v] = work.todo[v]
  BY <1>1, <1>5, InHandNow, NoneIsNoId
<1>8. /\ jobMatches' \in Counts /\ jobMatches'[j][u] = overlap
      /\ \A k \in Jobs, v \in Users : k # j \/ v # u => jobMatches'[k][v] = jobMatches[k][v]
  BY <1>4 DEF IInv, TypeOK, Counts
<1>9. TypeOK'
  BY <1>4, <1>5, <1>6, <1>8 DEF IInv, TypeOK, Untouched, SameGroup
<1>10. WorkInHand'
  BY <1>2, <1>4, <1>5, <1>6, <1>7 DEF IInv, WorkInHand, SameGroup, Idle
<1>11. ScoresEarned'
  <2>1. Earned(j, u, overlap)
    BY <1>2, <1>3, <1>4 DEF IInv, ScoresEarned
  <2> QED
    BY <1>2, <1>4, <1>6, <1>7, <1>8, <2>1, EarnedSame DEF IInv, ScoresEarned, Untouched, Matched
<1>12. Matched(j, u)' /\ \A k \in Jobs, v \in Users : Matched(k, v) => Matched(k, v)'
  BY <1>4, <1>8 DEF Matched
<1>13. Told'
  BY <1>4, <1>5, <1>6, <1>2, <1>12 DEF IInv, Told, ToldOnlyIfRecorded
<1>14. OncePerDelivery'
  <2>1. announced[j][u] < deliveries[j] /\ pings[j][u] < deliveries[j]
    <3>1. work.todo[u] > 0
      BY <1>3, <1>4
    <3> QED
      BY <1>2, <3>1 DEF IInv, OncePerDelivery
  <2>2. \A v \in Users : v # u => /\ ~(work'.todo[v] > 0 /\ ~(work.todo[v] > 0))
                                 /\ ~(work'.user = v)
    BY <1>5, <1>7
  <2>3. UNCHANGED <<announced, pings, deliveries>>
    BY <1>4 DEF SameGroup
  <2>4. ASSUME NEW k \in Jobs, NEW v \in Users
        PROVE  /\ announced[k][v] <= deliveries[k] /\ pings[k][v] <= deliveries[k]
               /\ InHand(k) /\ (work'.todo[v] > 0 \/ work'.user = v) =>
                    announced[k][v] < deliveries[k] /\ pings[k][v] < deliveries[k]
    BY <1>2, <1>7, <2>1, <2>2 DEF IInv, OncePerDelivery
  <2> QED
    BY <1>6, <2>3, <2>4 DEF OncePerDelivery
<1>15. OwedMatched'
  BY <1>2, <1>4, <1>6, <1>7, <1>12 DEF IInv, TypeOK, OwedMatched, AllMatched, SameGroup
<1> QED
  BY <1>6, <1>9, <1>10, <1>11, <1>13, <1>14, <1>15 DEF IInv

LEMMA UpsertFailsKeeps == ASSUME IInv, NEW u \in Users, UpsertFails(u) PROVE IInv'
<1>1. ~Idle
  BY DEF UpsertFails
<1>2. PICK j \in Jobs : j = work.job /\ InHand(j) /\ (\A k \in Jobs : InHand(k) => k = j)
  BY <1>1, InHandNow
<1>3. /\ work.user = None
      /\ work' = [work EXCEPT !.todo[u] = 0]
      /\ owed' = [owed EXCEPT ![j] = IF mode = "running" THEN owed[j] \ {u} ELSE owed[j]]
      /\ storeErrors' \in Nat
      /\ Untouched /\ SameGroup /\ UNCHANGED <<jobMatches, announced, pings>>
  BY <1>2 DEF UpsertFails, AfterFailedUpsert, DatabaseFails, WorkerOnly, callVars, snapshotVars, groupVars,
         effects, Untouched, SameGroup, IInv, TypeOK
<1>4. /\ work' \in Work /\ work'.job = j /\ work'.user = work.user /\ work'.step = work.step
      /\ work'.todo = [work.todo EXCEPT ![u] = 0]
  BY <1>1, <1>3, <1>2, InHandNow DEF Work
<1>5. /\ Group!TypeOK' /\ Group!OffsetsOrdered' /\ ListsDistinct' /\ OncePerProcess'
      /\ \A k \in Jobs : InHand(k)' <=> InHand(k)
  BY <1>1, <1>3, <1>2, <1>4, VisitFrame
<1>6. /\ j # None /\ owed' \in [Jobs -> SUBSET Users]
      /\ work'.todo[u] = 0 /\ \A v \in Users : v # u => work'.todo[v] = work.todo[v]
  <2>1. j # None /\ owed \in [Jobs -> SUBSET Users] /\ work.todo \in [Users -> Nat]
    BY <1>1, InHandNow, NoneIsNoId DEF IInv, TypeOK
  <2>2. owed' \in [Jobs -> SUBSET Users]
    BY <1>3, <2>1
  <2> QED
    BY <1>4, <2>1, <2>2
<1>7. TypeOK'
  BY <1>3, <1>4, <1>5, <1>6 DEF IInv, TypeOK, Untouched, SameGroup
<1>8. WorkInHand'
  BY <1>3, <1>2, <1>4, <1>5, <1>6 DEF IInv, WorkInHand, SameGroup, Idle
<1>9. ScoresEarned'
  BY <1>3, <1>5, <1>6, EarnedSame DEF IInv, ScoresEarned, Untouched, Matched
<1>10. Told'
  BY <1>3, <1>4, <1>5 DEF IInv, Told, ToldOnlyIfRecorded, Matched
<1>11. OncePerDelivery'
  BY <1>3, <1>4, <1>5, <1>6 DEF IInv, OncePerDelivery, SameGroup
<1>12. OwedMatched'
  <2>1. \A k \in Jobs : owed'[k] \subseteq owed[k]
    BY <1>3 DEF IInv, TypeOK
  <2>2. ASSUME mode = "running"
        PROVE  \A v \in owed'[j] : Matched(j, v) \/ work'.todo[v] > 0
    BY <1>3, <1>2, <1>6, <2>2 DEF IInv, TypeOK, OwedMatched
  <2> QED
    BY <1>3, <1>2, <1>5, <2>1, <2>2 DEF IInv, OwedMatched, AllMatched, Matched, SameGroup
<1> QED
  BY <1>5, <1>7, <1>8, <1>9, <1>10, <1>11, <1>12 DEF IInv

\* What is sent for the candidate in hand is counted once, or not at all.
LEMMA SentCounts ==
  ASSUME NEW counts \in Counts, NEW sent \in BOOLEAN, NEW j \in Jobs, NEW u \in Users,
         j = work.job, u = work.user
  PROVE  /\ Sent(counts, sent) \in Counts
         /\ \A k \in Jobs, v \in Users : k # j \/ v # u => Sent(counts, sent)[k][v] = counts[k][v]
         /\ counts[j][u] \in Nat
         /\ Sent(counts, sent)[j][u] \in {counts[j][u], counts[j][u] + 1}
BY DEF Sent, Counts

\* Nothing about the candidates, the rows or the scores moves with what is sent.
LEMMA TellingFrame ==
  ASSUME IInv, Untouched, SameGroup, ~Idle, work' \in Work,
         work'.job = work.job, work'.todo = work.todo,
         announced' \in Counts, pings' \in Counts,
         UNCHANGED <<jobMatches, storeErrors, owed>>
  PROVE  /\ TypeOK' /\ Group!OffsetsOrdered' /\ ListsDistinct' /\ ScoresEarned' /\ OncePerProcess'
         /\ OwedMatched'
         /\ \A k \in Jobs : InHand(k)' <=> InHand(k)
<1>1. /\ Group!TypeOK' /\ Group!OffsetsOrdered' /\ ListsDistinct' /\ OncePerProcess'
      /\ \A k \in Jobs : InHand(k)' <=> InHand(k)
  BY VisitFrame
<1>2. TypeOK'
  BY <1>1 DEF IInv, TypeOK, Untouched, SameGroup
<1>3. ScoresEarned'
  BY <1>1, EarnedSame DEF IInv, ScoresEarned, Untouched, Matched
<1>4. OwedMatched'
  BY <1>1 DEF IInv, OwedMatched, AllMatched, Matched, SameGroup
<1> QED
  BY <1>1, <1>2, <1>3, <1>4

LEMMA AnnounceKeeps == ASSUME IInv, NEW sent \in BOOLEAN, Announce(sent) PROVE IInv'
<1>1. ~Idle /\ work.user # None
  BY DEF Announce, Visiting
<1>2. PICK j \in Jobs : j = work.job /\ InHand(j) /\ (\A k \in Jobs : InHand(k) => k = j)
  BY <1>1, InHandNow
<1>3. PICK u \in Users : u = work.user
  BY <1>1, InHandNow DEF Work
<1>4. /\ work.step = "announce"
      /\ announced' = Sent(announced, sent)
      /\ work' = [work EXCEPT !.step = "ping"]
      /\ Untouched /\ SameGroup /\ UNCHANGED <<jobMatches, pings, storeErrors, owed>>
  BY DEF Announce, Visiting, WorkerOnly, callVars, snapshotVars, groupVars, Untouched, SameGroup
<1>5. /\ work' \in Work /\ work'.job = work.job /\ work'.todo = work.todo
      /\ work'.user = work.user /\ work'.step = "ping"
  BY <1>1, <1>4, InHandNow DEF Work
<1>6. /\ announced' \in Counts
      /\ \A k \in Jobs, v \in Users : k # j \/ v # u => announced'[k][v] = announced[k][v]
      /\ announced[j][u] \in Nat /\ announced'[j][u] \in {announced[j][u], announced[j][u] + 1}
  <2>1. announced \in Counts
    BY DEF IInv, TypeOK
  <2> QED
    BY <1>2, <1>3, <1>4, <2>1, SentCounts
<1>7. /\ TypeOK' /\ Group!OffsetsOrdered' /\ ListsDistinct' /\ ScoresEarned' /\ OncePerProcess'
      /\ OwedMatched' /\ \A k \in Jobs : InHand(k)' <=> InHand(k)
  BY <1>1, <1>4, <1>5, <1>6, TellingFrame DEF IInv, TypeOK
<1>8. WorkInHand'
  BY <1>1, <1>4, <1>5, <1>7 DEF IInv, WorkInHand, SameGroup, Idle
<1>9. Matched(j, u) /\ work.todo[u] = 0
  BY <1>1, <1>2, <1>3 DEF IInv, Told, WorkInHand
<1>10. Told'
  <2>1. ASSUME NEW k \in Jobs, NEW v \in Users, announced'[k][v] + pings[k][v] > 0
        PROVE  Matched(k, v)
    <3>1. CASE k = j /\ v = u
      BY <3>1, <1>9
    <3>2. CASE k # j \/ v # u
      BY <3>2, <2>1, <1>6 DEF IInv, Told, ToldOnlyIfRecorded
    <3> QED
      BY <3>1, <3>2
  <2>2. UNCHANGED <<jobMatches, pings>> /\ \A k \in Jobs, v \in Users : Matched(k, v)' <=> Matched(k, v)
    BY <1>4 DEF Matched
  <2>3. \A k \in Jobs : InHand(k)' => k = j
    BY <1>2, <1>7
  <2>4. work'.user = u /\ jobMatches'[j][u] > 0
    BY <1>3, <1>4, <1>5, <1>9 DEF Matched
  <2>5. \A k \in Jobs : InHand(k)' /\ work'.user # None => jobMatches'[k][work'.user] > 0
    BY <2>3, <2>4
  <2>6. ToldOnlyIfRecorded'
    BY <2>1, <2>2 DEF ToldOnlyIfRecorded
  <2> QED
    BY <2>5, <2>6 DEF Told, Matched
<1>11. OncePerDelivery'
  <2>1. /\ announced[j][u] < deliveries[j] /\ pings[j][u] < deliveries[j] /\ deliveries[j] \in Nat
    BY <1>2, <1>3, <1>4 DEF IInv, TypeOK, OncePerDelivery
  <2>2. UNCHANGED <<pings, deliveries>>
    BY <1>4 DEF SameGroup
  <2>3. ASSUME NEW k \in Jobs, NEW v \in Users
        PROVE  /\ announced'[k][v] <= deliveries[k] /\ pings[k][v] <= deliveries[k]
               /\ InHand(k) /\ work.todo[v] > 0 => announced'[k][v] < deliveries[k]
               /\ InHand(k) /\ (work.todo[v] > 0 \/ work.user = v) => pings[k][v] < deliveries[k]
    <3>1. CASE k = j /\ v = u
      <4>1. announced'[j][u] <= deliveries[j]
        BY <1>6, <2>1
      <4>2. ~(work.todo[u] > 0)
        BY <1>9
      <4> QED
        BY <3>1, <4>1, <4>2 DEF IInv, OncePerDelivery
    <3>2. CASE k # j \/ v # u
      <4>1. announced'[k][v] = announced[k][v]
        BY <3>2, <1>6
      <4> QED
        BY <4>1 DEF IInv, OncePerDelivery
    <3> QED
      BY <3>1, <3>2
  <2> QED
    BY <1>5, <1>7, <2>2, <2>3 DEF OncePerDelivery
<1> QED
  BY <1>7, <1>8, <1>10, <1>11 DEF IInv

LEMMA PingKeeps == ASSUME IInv, NEW sent \in BOOLEAN, Ping(sent) PROVE IInv'
<1>1. ~Idle /\ work.user # None
  BY DEF Ping, Visiting
<1>2. PICK j \in Jobs : j = work.job /\ InHand(j) /\ (\A k \in Jobs : InHand(k) => k = j)
  BY <1>1, InHandNow
<1>3. PICK u \in Users : u = work.user
  BY <1>1, InHandNow DEF Work
<1>4. /\ pings' = Sent(pings, sent)
      /\ work' = [work EXCEPT !.user = None, !.step = "upsert"]
      /\ Untouched /\ SameGroup /\ UNCHANGED <<jobMatches, announced, storeErrors, owed>>
  BY DEF Ping, Visiting, WorkerOnly, callVars, snapshotVars, groupVars, Untouched, SameGroup
<1>5. /\ work' \in Work /\ work'.job = work.job /\ work'.todo = work.todo
      /\ work'.user = None /\ work'.step = "upsert"
  BY <1>1, <1>4, InHandNow DEF Work
<1>6. /\ pings' \in Counts
      /\ \A k \in Jobs, v \in Users : k # j \/ v # u => pings'[k][v] = pings[k][v]
      /\ pings[j][u] \in Nat /\ pings'[j][u] \in {pings[j][u], pings[j][u] + 1}
  <2>1. pings \in Counts
    BY DEF IInv, TypeOK
  <2> QED
    BY <1>2, <1>3, <1>4, <2>1, SentCounts
<1>7. /\ TypeOK' /\ Group!OffsetsOrdered' /\ ListsDistinct' /\ ScoresEarned' /\ OncePerProcess'
      /\ OwedMatched' /\ \A k \in Jobs : InHand(k)' <=> InHand(k)
  BY <1>1, <1>4, <1>5, <1>6, TellingFrame DEF IInv, TypeOK
<1>8. WorkInHand'
  BY <1>1, <1>4, <1>5, <1>7 DEF IInv, WorkInHand, SameGroup, Idle
<1>9. Matched(j, u) /\ work.todo[u] = 0
  BY <1>1, <1>2, <1>3 DEF IInv, Told, WorkInHand
<1>10. Told'
  <2>1. ASSUME NEW k \in Jobs, NEW v \in Users, announced[k][v] + pings'[k][v] > 0
        PROVE  Matched(k, v)
    <3>1. CASE k = j /\ v = u
      BY <3>1, <1>9
    <3>2. CASE k # j \/ v # u
      BY <3>2, <2>1, <1>6 DEF IInv, Told, ToldOnlyIfRecorded
    <3> QED
      BY <3>1, <3>2
  <2>2. UNCHANGED <<jobMatches, announced>> /\ \A k \in Jobs, v \in Users : Matched(k, v)' <=> Matched(k, v)
    BY <1>4 DEF Matched
  <2> QED
    BY <1>5, <2>1, <2>2 DEF Told, ToldOnlyIfRecorded
<1>11. OncePerDelivery'
  <2>1. pings[j][u] < deliveries[j] /\ deliveries[j] \in Nat
    BY <1>2, <1>3 DEF IInv, TypeOK, OncePerDelivery
  <2>2. UNCHANGED <<announced, deliveries>>
    BY <1>4 DEF SameGroup
  <2>3. ASSUME NEW k \in Jobs, NEW v \in Users
        PROVE  /\ announced[k][v] <= deliveries[k] /\ pings'[k][v] <= deliveries[k]
               /\ InHand(k) /\ work.todo[v] > 0 =>
                    announced[k][v] < deliveries[k] /\ pings'[k][v] < deliveries[k]
    <3>1. CASE k = j /\ v = u
      <4>1. pings'[j][u] <= deliveries[j]
        BY <1>6, <2>1
      <4>2. ~(work.todo[u] > 0)
        BY <1>9
      <4> QED
        BY <3>1, <4>1, <4>2 DEF IInv, OncePerDelivery
    <3>2. CASE k # j \/ v # u
      <4>1. pings'[k][v] = pings[k][v]
        BY <3>2, <1>6
      <4> QED
        BY <4>1 DEF IInv, OncePerDelivery
    <3> QED
      BY <3>1, <3>2
  <2>4. \A v \in Users : work'.user # v
    BY <1>5, NoneIsNoId
  <2> QED
    BY <1>5, <1>7, <2>2, <2>3, <2>4 DEF OncePerDelivery
<1> QED
  BY <1>7, <1>8, <1>10, <1>11 DEF IInv

LEMMA FinishKeeps == ASSUME IInv, Finish PROVE IInv'
<1>1. ~Idle /\ work.user = None /\ Unvisited = {}
  BY DEF Finish
<1>2. PICK j \in Jobs : j = work.job /\ InHand(j) /\ (\A k \in Jobs : InHand(k) => k = j)
  BY <1>1, InHandNow
<1>3. /\ Group!Deliver(j) /\ work' = Resting
      /\ Untouched /\ UNCHANGED <<jobMatches, announced, pings, storeErrors, deliveries, owed>>
  BY <1>2 DEF Finish, WorkerOnly, callVars, snapshotVars, effects, Untouched
<1>4. /\ Group!TypeOK' /\ Group!OffsetsOrdered'
      /\ next' = [next EXCEPT ![j] = 1] /\ UNCHANGED <<mode, committed, head, end>>
  BY <1>3, DeliverMoves DEF Untouched
<1>5. /\ Resting \in Work /\ work'.job = None /\ work'.user = None /\ work'.step = "upsert"
      /\ \A k \in Jobs : ~InHand(k)'
      /\ \A v \in Users : work'.todo[v] = 0
  BY <1>3, NoneIsNoId DEF Resting, Work, InHand
<1>6. TypeOK' /\ ListsDistinct'
  BY <1>3, <1>4, <1>5 DEF IInv, TypeOK, Untouched, ListsDistinct
<1>7. WorkInHand'
  BY <1>3, <1>5 DEF WorkInHand, Idle, Resting
<1>8. ScoresEarned'
  BY <1>3, <1>5, EarnedSame DEF IInv, ScoresEarned, Untouched, Matched
<1>9. Told'
  BY <1>3, <1>5 DEF IInv, Told, ToldOnlyIfRecorded, Matched
<1>10. OncePerProcess'
  <2>1. \A k \in Jobs : next'[k] = 0 => k # j /\ next[k] = 0 /\ ~InHand(k)
    BY <1>2, <1>4 DEF IInv, TypeOK, Group!TypeOK
  <2>2. UNCHANGED <<stops, mode, deliveries>>
    BY <1>3, <1>4 DEF Untouched
  <2> QED
    BY <2>1, <2>2 DEF IInv, OncePerProcess
<1>11. OncePerDelivery'
  BY <1>3, <1>5 DEF IInv, OncePerDelivery
<1>12. OwedMatched'
  <2>1. mode = "running" => AllMatched(j)
    <3>1. \A v \in Users : ~(work.todo[v] > 0)
      BY <1>1 DEF Unvisited
    <3> QED
      BY <1>2, <3>1 DEF IInv, TypeOK, OwedMatched, AllMatched
  <2>2. \A k \in Jobs : AllMatched(k)' <=> AllMatched(k)
    BY <1>3 DEF AllMatched, Matched
  <2>3. \A k \in Jobs : k # j => next'[k] = next[k]
    BY <1>4 DEF IInv, TypeOK, Group!TypeOK
  <2> QED
    BY <1>4, <1>5, <2>1, <2>2, <2>3 DEF IInv, OwedMatched
<1> QED
  BY <1>4, <1>6, <1>7, <1>8, <1>9, <1>10, <1>11, <1>12 DEF IInv

--------------------------------------------------------------------------------
(* The offsets *)

OffsetsStep == Poll \/ Commit \/ Leave \/ Restart

\* What the consumer loop leaves alone.
Offstage == UNCHANGED <<posting, required, due, snapshot, had, changes, jobMatches, announced, pings,
                        storeErrors, deliveries, owed>>

\* A poll hands out at most the one record a job has; a restart goes back to what
\* was committed, and nothing else moves an offset backwards.
LEMMA PollMoves ==
  ASSUME IInv, Poll
  PROVE  /\ Group!TypeOK' /\ Group!OffsetsOrdered' /\ mode = "running"
         /\ Offstage /\ UNCHANGED <<mode, committed, next, work, stops>>
         /\ \A j \in Jobs : end[j] <= end'[j] /\ head'[j] \in {head[j], next[j]}
<1> USE DEF IInv, TypeOK, Group!TypeOK, Group!OffsetsOrdered, Posted
<1>1. Offstage /\ UNCHANGED <<work, stops>>
  BY DEF Poll, OffsetsOnly, Offstage, callVars, snapshotVars, effects
<1>2. CASE Group!Repoll
  <2>1. mode = "running" /\ head' = next /\ UNCHANGED <<mode, committed, next, end>>
    BY <1>2 DEF Group!Repoll
  <2>2. UNCHANGED posting
    BY <1>1 DEF Offstage
  <2>3. Group!TypeOK'
    BY <2>1
  <2>4. Group!OffsetsOrdered'
    BY <2>1, <2>2
  <2>5. \A j \in Jobs : end[j] <= end'[j] /\ head'[j] \in {head[j], next[j]}
    BY <2>1
  <2> QED
    BY <1>1, <2>1, <2>3, <2>4, <2>5
<1>3. ASSUME NEW j \in Jobs, Group!Fetch(j, 1)
      PROVE  /\ end' = [end EXCEPT ![j] = 1] /\ end[j] = 0 /\ Posted(j)
             /\ mode = "running" /\ UNCHANGED <<mode, committed, head, next>>
  BY <1>3 DEF Group!Fetch
<1>4. CASE \E j \in Jobs : Group!Fetch(j, 1)
  <2>1. PICK j \in Jobs : Group!Fetch(j, 1)
    BY <1>4
  <2>2. end' = [end EXCEPT ![j] = 1] /\ end[j] = 0 /\ Posted(j) /\ mode = "running"
        /\ UNCHANGED <<mode, committed, head, next>>
    BY <2>1, <1>3
  <2>3. \A k \in Jobs : end[k] <= end'[k] /\ end'[k] \in Nat /\ end'[k] <= IF Posted(k) THEN 1 ELSE 0
    BY <2>2
  <2> QED
    BY <1>1, <2>2, <2>3 DEF Offstage
<1> QED
  BY <1>2, <1>4 DEF Poll

LEMMA PollKeeps == ASSUME IInv, Poll PROVE IInv'
<1>1. /\ Group!TypeOK' /\ Group!OffsetsOrdered' /\ mode = "running"
      /\ Offstage /\ UNCHANGED <<mode, committed, next, work, stops>>
      /\ \A j \in Jobs : end[j] <= end'[j] /\ head'[j] \in {head[j], next[j]}
  BY PollMoves
<1>2. TypeOK' /\ ListsDistinct'
  BY <1>1 DEF IInv, TypeOK, Offstage, ListsDistinct
<1>3. WorkInHand'
  <2>1. \A j \in Jobs : next[j] < end[j] => next[j] < end'[j]
    BY <1>1 DEF IInv, TypeOK, Group!TypeOK
  <2> QED
    BY <1>1, <2>1 DEF IInv, WorkInHand, InHand, Idle, Resting
<1>4. ScoresEarned'
  BY <1>1, EarnedSame DEF IInv, ScoresEarned, Offstage, InHand, Matched
<1>5. Told' /\ OncePerProcess' /\ OncePerDelivery'
  BY <1>1 DEF IInv, Told, ToldOnlyIfRecorded, OncePerProcess, OncePerDelivery, Offstage, InHand, Matched
<1>6. OwedMatched'
  <2>1. \A j \in Jobs : AllMatched(j)' <=> AllMatched(j)
    BY <1>1 DEF Offstage, AllMatched, Matched
  <2> QED
    BY <1>1, <2>1 DEF IInv, OwedMatched, Offstage, InHand, Matched
<1> QED
  BY <1>1, <1>2, <1>3, <1>4, <1>5, <1>6 DEF IInv

LEMMA CommitKeeps == ASSUME IInv, Commit PROVE IInv'
<1>1. /\ committed' = head /\ Offstage /\ UNCHANGED <<mode, head, next, end, work, stops>>
  BY DEF Commit, Group!AutoCommit, Group!Committable, OffsetsOnly, Offstage, callVars, snapshotVars, effects
<1>2. TypeOK' /\ ListsDistinct' /\ Group!OffsetsOrdered'
  BY <1>1 DEF IInv, TypeOK, Group!TypeOK, Group!OffsetsOrdered, Offstage, ListsDistinct, Posted
<1>3. ScoresEarned'
  BY <1>1, EarnedSame DEF IInv, ScoresEarned, Offstage, InHand, Matched
<1>4. WorkerInv'
  BY <1>1, WorkerSame DEF IInv, WorkerInv, Offstage
<1> QED
  BY <1>2, <1>3, <1>4 DEF IInv, WorkerInv

LEMMA StopKeeps == ASSUME IInv, Stop PROVE IInv'
<1>1. /\ stops' = stops + 1 /\ Offstage /\ UNCHANGED <<committed, head, next, end>>
      /\ \/ mode = "running" /\ mode' = "stopping" /\ UNCHANGED work
         \/ mode # "down" /\ mode' = "down" /\ work' = Resting
  BY DEF Stop, Group!Cancel, Group!Crash, OffsetsOnly, Offstage, callVars, snapshotVars, effects
<1>2. /\ Resting \in Work /\ Resting.job = None /\ Resting.user = None /\ Resting.step = "upsert"
      /\ \A v \in Users : Resting.todo[v] = 0
  BY NoneIsNoId DEF Resting, Work
<1>3. TypeOK' /\ ListsDistinct' /\ Group!OffsetsOrdered'
  BY <1>1, <1>2 DEF IInv, TypeOK, Group!TypeOK, Group!OffsetsOrdered, Offstage, ListsDistinct, Posted
<1>4. \A k \in Jobs : InHand(k)' => InHand(k) /\ UNCHANGED work /\ mode' # "down"
  BY <1>1, <1>2, NoneIsNoId DEF InHand
<1>5. WorkInHand'
  BY <1>1, <1>2, <1>4 DEF IInv, WorkInHand, Idle, Resting
<1>6. ScoresEarned'
  BY <1>1, <1>4, EarnedSame DEF IInv, ScoresEarned, Offstage, Matched
<1>7. Told' /\ OncePerDelivery'
  BY <1>1, <1>4 DEF IInv, Told, ToldOnlyIfRecorded, OncePerDelivery, Offstage, Matched
<1>8. OncePerProcess'
  BY <1>1, <1>4 DEF IInv, TypeOK, Group!TypeOK, OncePerProcess, Offstage, InHand
<1>9. OwedMatched'
  BY <1>1 DEF IInv, OwedMatched, AllMatched, Offstage, Matched
<1> QED
  BY <1>3, <1>5, <1>6, <1>7, <1>8, <1>9 DEF IInv

\* Leaving the group needs the handler to have returned.
LEMMA LeaveKeeps == ASSUME IInv, Leave PROVE IInv'
<1>1. /\ Idle /\ mode = "stopping" /\ mode' = "down" /\ committed' \in {committed, head}
      /\ Offstage /\ UNCHANGED <<head, next, end, work, stops>>
  BY DEF Leave, Group!Close, Group!Committable, OffsetsOnly, Offstage, callVars, snapshotVars, effects
<1>2. TypeOK' /\ ListsDistinct' /\ Group!OffsetsOrdered'
  BY <1>1 DEF IInv, TypeOK, Group!TypeOK, Group!OffsetsOrdered, Offstage, ListsDistinct, Posted
<1>3. \A k \in Jobs : ~InHand(k)
  BY <1>1, NoneIsNoId DEF InHand, Idle
<1>4. WorkInHand'
  BY <1>1, <1>3 DEF IInv, WorkInHand, InHand, Idle, Resting
<1>5. ScoresEarned'
  BY <1>1, EarnedSame DEF IInv, ScoresEarned, Offstage, InHand, Matched
<1>6. Told' /\ OncePerProcess' /\ OncePerDelivery'
  BY <1>1 DEF IInv, Told, ToldOnlyIfRecorded, OncePerProcess, OncePerDelivery, Offstage, InHand, Matched
<1>7. OwedMatched'
  BY <1>1 DEF IInv, OwedMatched, AllMatched, Offstage, Matched
<1> QED
  BY <1>2, <1>4, <1>5, <1>6, <1>7 DEF IInv

LEMMA RestartKeeps == ASSUME IInv, Restart PROVE IInv'
<1>1. /\ mode = "down" /\ mode' = "running" /\ head' = committed /\ next' = committed /\ end' = committed
      /\ Offstage /\ UNCHANGED <<committed, work, stops>>
  BY DEF Restart, Group!Start, OffsetsOnly, Offstage, callVars, snapshotVars, effects
<1>2. TypeOK' /\ ListsDistinct'
  BY <1>1 DEF IInv, TypeOK, Group!TypeOK, Offstage, ListsDistinct
<1>3. Group!OffsetsOrdered'
  <2>1. \A j \in Jobs : /\ committed[j] \in Nat /\ committed[j] <= head[j] /\ head[j] <= next[j] /\ next[j] <= end[j]
                        /\ head[j] \in Nat /\ next[j] \in Nat /\ end[j] \in Nat
                        /\ end[j] <= IF Posted(j) THEN 1 ELSE 0
    BY DEF IInv, TypeOK, Group!TypeOK, Group!OffsetsOrdered
  <2> QED
    BY <1>1, <2>1 DEF Group!OffsetsOrdered, Posted, Offstage
<1>4. \A k \in Jobs : ~InHand(k) /\ ~InHand(k)'
  BY <1>1 DEF IInv, WorkInHand, InHand
<1>5. WorkInHand'
  BY <1>1, <1>4 DEF IInv, WorkInHand, Idle, Resting
<1>6. ScoresEarned'
  BY <1>1, <1>4, EarnedSame DEF IInv, ScoresEarned, Offstage, Matched
<1>7. Told' /\ OncePerDelivery'
  BY <1>1, <1>4 DEF IInv, Told, ToldOnlyIfRecorded, OncePerDelivery, Offstage, Matched
<1>8. OncePerProcess'
  <2>1. \A j \in Jobs : deliveries[j] <= stops /\ deliveries[j] \in Nat /\ stops \in Nat
    BY <1>1 DEF IInv, TypeOK, OncePerProcess
  <2> QED
    BY <1>1, <2>1 DEF OncePerProcess, Offstage
<1>9. OwedMatched'
  <2>1. \A j \in Jobs : committed[j] > 0 => AllMatched(j)
    BY DEF IInv, TypeOK, Group!TypeOK, Group!OffsetsOrdered, OwedMatched
  <2>2. \A j \in Jobs : AllMatched(j)' <=> AllMatched(j)
    BY <1>1 DEF Offstage, AllMatched, Matched
  <2> QED
    BY <1>1, <1>4, <2>1, <2>2 DEF OwedMatched
<1> QED
  BY <1>2, <1>3, <1>5, <1>6, <1>7, <1>8, <1>9 DEF IInv

--------------------------------------------------------------------------------
(* The theorems *)

LEMMA InvNext == IInv /\ [Next]_vars => IInv'
<1> SUFFICES ASSUME IInv, [Next]_vars PROVE IInv'
  OBVIOUS
<1>1. CASE \E u \in Users, skills \in SUBSET Skills : ReplaceUserSkills(u, skills)
  BY <1>1, SnapshotKeeps
<1>2. CASE \E j \in Jobs : CreateJobStep(j)
  BY <1>2, CallKeeps
<1>3. CASE Handle
  BY <1>3, GiveUpKeeps, ScoreKeeps, UpsertMatchKeeps, UpsertFailsKeeps, AnnounceKeeps, PingKeeps, FinishKeeps
     DEF Handle
<1>4. CASE Poll \/ Commit \/ Stop \/ Leave \/ Restart
  BY <1>4, PollKeeps, CommitKeeps, StopKeeps, LeaveKeeps, RestartKeeps
<1>5. CASE UNCHANGED vars
  <2>1. UNCHANGED <<posting, required, snapshot, mode, committed, head, next, end, work, jobMatches,
                    announced, pings, changes, storeErrors, stops, had, deliveries, due, owed>>
    BY <1>5 DEF vars, groupVars
  <2>2. TypeOK' /\ ListsDistinct' /\ Group!OffsetsOrdered'
    BY <2>1 DEF IInv, TypeOK, Group!TypeOK, Group!OffsetsOrdered, ListsDistinct, Posted
  <2>3. ScoresEarned'
    BY <2>1, EarnedSame DEF IInv, ScoresEarned, InHand, Matched
  <2>4. WorkerInv'
    BY <2>1, WorkerSame DEF IInv, WorkerInv
  <2> QED
    BY <2>2, <2>3, <2>4 DEF IInv, WorkerInv
<1> QED
  BY <1>1, <1>2, <1>3, <1>4, <1>5 DEF Next, CreateJobStep

LEMMA InvAlways == Spec => []IInv
BY InvInit, InvNext, PTL DEF Spec

\* Every variable of the worker, its offsets and its rows keeps its type.
THEOREM MatchingTyped == Spec => []TypeOK
<1>1. IInv => TypeOK
  BY DEF IInv
<1> QED
  BY <1>1, InvAlways, PTL

\* A row of job_matches is the score of a skill list the user had, whatever
\* crashes, redeliveries and snapshot changes came between the query and the row.
THEOREM MatchesEarned == Spec => []MatchesAreEarned
<1>1. IInv => MatchesAreEarned
  BY InvariantsHold
<1> QED
  BY <1>1, InvAlways, PTL

\* No ping and no job.matched event goes out without the user's row.
THEOREM ToldIsRecorded == Spec => []ToldOnlyIfRecorded
<1>1. IInv => ToldOnlyIfRecorded
  BY InvariantsHold
<1> QED
  BY <1>1, InvAlways, PTL

\* A user hears of a job at most once more than the process was stopped.
THEOREM RepeatsBounded == Spec => []RepeatsNeedRestarts
<1>1. IInv => RepeatsNeedRestarts
  BY InvariantsHold
<1> QED
  BY <1>1, InvAlways, PTL

\* A committed job has a row for every candidate its last query found, save the
\* upserts the database refused.
THEOREM CommittedIsMatched == Spec => []CommittedJobsMatched
<1>1. IInv => CommittedJobsMatched
  BY InvariantsHold
<1> QED
  BY <1>1, InvAlways, PTL

--------------------------------------------------------------------------------
(* JobMatching implements MatchingContract.  What the contract asks besides   *)
(* IInv is that a job's list is settled once, while its call is still open.   *)

PostedJobs == {j \in Jobs : Posted(j)}

ToldPairs == {p \in Jobs \X Users : announced[p[1]][p[2]] + pings[p[1]][p[2]] > 0}

ListsOnce == \A j \in Jobs : posting[j] = "idle" => required[j] = <<>>

\* Both sides of the mapping count a list's members with the same operator.
LEMMA ContractOperators ==
  /\ \A s : Contract!ToSet(s) = ToSet(s)
  /\ \A f : Contract!IsInjective(f) <=> DistinctList(f)
  /\ \A s : Contract!Cardinality(s) = Cardinality(s)
<1>1. \A s : Contract!IsFiniteSet(s) <=> IsFiniteSet(s)
  BY DEF Contract!IsFiniteSet, IsFiniteSet
<1>2. \A s : Contract!Cardinality(s) = Cardinality(s)
  BY <1>1 DEF Contract!Cardinality, Cardinality
<1> QED
  BY <1>2 DEF Contract!ToSet, ToSet, Contract!IsInjective, DistinctList

\* What the actions of the contract say, with the mapping filled in.
LEMMA ContractRequire ==
  ASSUME NEW j \in Jobs, NEW ids \in Requests, j \notin PostedJobs, required[j] = <<>>,
         DistinctList(DedupeNonEmpty(ids)),
         required' = [required EXCEPT ![j] = DedupeNonEmpty(ids)],
         UNCHANGED <<PostedJobs, had, jobMatches, ToldPairs>>
  PROVE  Contract!Next
<1>1. PICK list \in {DedupeNonEmpty(i) : i \in Requests} : list = DedupeNonEmpty(ids)
  OBVIOUS
<1>2. Contract!Require(j, list)
  BY <1>1, ContractOperators DEF Contract!Require, PostedJobs, ToldPairs
<1> QED
  BY <1>2 DEF Contract!Next

LEMMA ContractPost ==
  ASSUME NEW j \in Jobs, j \notin PostedJobs, PostedJobs' = PostedJobs \cup {j},
         UNCHANGED <<required, had, jobMatches, ToldPairs>>
  PROVE  Contract!Next
<1>1. Contract!Post(j)
  BY DEF Contract!Post, PostedJobs, ToldPairs
<1> QED
  BY <1>1 DEF Contract!Next

LEMMA ContractLearn ==
  ASSUME NEW u \in Users, NEW skills \in SUBSET Skills,
         had' = [had EXCEPT ![u] = had[u] \cup {skills}],
         UNCHANGED <<PostedJobs, required, jobMatches, ToldPairs>>
  PROVE  Contract!Next
<1>1. Contract!Learn(u, skills)
  BY DEF Contract!Learn, PostedJobs, ToldPairs
<1> QED
  BY <1>1 DEF Contract!Next

LEMMA ContractMatch ==
  ASSUME NEW j \in Jobs, NEW u \in Users, NEW skills \in SUBSET Skills,
         j \in PostedJobs, skills \in had[u], skills \cap ToSet(required[j]) # {},
         jobMatches' = [jobMatches EXCEPT ![j][u] = Cardinality(skills \cap ToSet(required[j]))],
         UNCHANGED <<PostedJobs, required, had, ToldPairs>>
  PROVE  Contract!Next
<1>1. Contract!Match(j, u, skills)
  BY ContractOperators DEF Contract!Match, PostedJobs, ToldPairs
<1> QED
  BY <1>1 DEF Contract!Next

LEMMA ContractTell ==
  ASSUME NEW j \in Jobs, NEW u \in Users, jobMatches[j][u] > 0,
         ToldPairs' = ToldPairs \cup {<<j, u>>},
         UNCHANGED <<PostedJobs, required, had, jobMatches>>
  PROVE  Contract!Next
<1>1. Contract!Tell(j, u)
  BY DEF Contract!Tell, PostedJobs, ToldPairs
<1> QED
  BY <1>1 DEF Contract!Next

LEMMA ContractStutter ==
  ASSUME UNCHANGED <<PostedJobs, required, had, jobMatches, ToldPairs>>
  PROVE  UNCHANGED Contract!matchingVars
BY DEF PostedJobs, ToldPairs, Contract!matchingVars

LEMMA SamePosted ==
  ASSUME UNCHANGED posting
  PROVE  PostedJobs' = PostedJobs
BY DEF PostedJobs, Posted

LEMMA SameTold ==
  ASSUME UNCHANGED <<announced, pings>>
  PROVE  ToldPairs' = ToldPairs
BY DEF ToldPairs

\* A count that grew by one, or not at all, tells at most the pair it is for.
LEMMA ToldMoves ==
  ASSUME announced \in Counts, pings \in Counts, announced' \in Counts, pings' \in Counts,
         NEW j \in Jobs, NEW u \in Users,
         \A k \in Jobs, v \in Users :
           k # j \/ v # u => announced'[k][v] = announced[k][v] /\ pings'[k][v] = pings[k][v],
         announced[j][u] <= announced'[j][u], pings[j][u] <= pings'[j][u]
  PROVE  ToldPairs' \in {ToldPairs, ToldPairs \cup {<<j, u>>}}
<1>1. \A k \in Jobs, v \in Users :
        /\ announced[k][v] \in Nat /\ pings[k][v] \in Nat
        /\ announced'[k][v] \in Nat /\ pings'[k][v] \in Nat
  BY DEF Counts
<1>2. ASSUME NEW k \in Jobs, NEW v \in Users
      PROVE  /\ <<k, v>> \in ToldPairs <=> announced[k][v] + pings[k][v] > 0
             /\ <<k, v>> \in ToldPairs' <=> announced'[k][v] + pings'[k][v] > 0
  BY DEF ToldPairs
<1>3. ASSUME NEW k \in Jobs, NEW v \in Users
      PROVE  /\ <<k, v>> \in ToldPairs => <<k, v>> \in ToldPairs'
             /\ <<k, v>> \in ToldPairs' => <<k, v>> \in ToldPairs \/ <<k, v>> = <<j, u>>
  <2>1. CASE k = j /\ v = u
    BY <1>1, <1>2, <2>1
  <2>2. CASE k # j \/ v # u
    <3>1. announced'[k][v] = announced[k][v] /\ pings'[k][v] = pings[k][v]
      BY <2>2
    <3> QED
      BY <1>2, <3>1
  <2> QED
    BY <2>1, <2>2
<1>4. ToldPairs \subseteq Jobs \X Users /\ ToldPairs' \subseteq Jobs \X Users
  BY DEF ToldPairs
<1>5. ToldPairs \subseteq ToldPairs' /\ ToldPairs' \subseteq ToldPairs \cup {<<j, u>>}
  BY <1>3, <1>4
<1> QED
  BY <1>5

LEMMA LearnKept ==
  ASSUME IInv, ListsOnce, NEW u \in Users, NEW skills \in SUBSET Skills, ReplaceUserSkills(u, skills)
  PROVE  Contract!Next /\ ListsOnce'
<1>1. /\ had' = [had EXCEPT ![u] = had[u] \cup {skills}]
      /\ UNCHANGED <<posting, required, jobMatches, announced, pings>>
  BY DEF ReplaceUserSkills, callVars, effects
<1>2. UNCHANGED <<PostedJobs, ToldPairs>>
  BY <1>1, SamePosted, SameTold
<1>3. ListsOnce'
  BY <1>1 DEF ListsOnce
<1> QED
  BY <1>1, <1>2, <1>3, ContractLearn

LEMMA CallKept ==
  ASSUME IInv, ListsOnce, NEW j \in Jobs, CreateJobStep(j)
  PROVE  [Contract!Next]_(Contract!matchingVars) /\ ListsOnce'
<1>1. UNCHANGED <<had, jobMatches, announced, pings>>
  BY CallMoves DEF snapshotVars, effects
<1>2. UNCHANGED ToldPairs
  BY <1>1, SameTold
<1>3. posting \in [Jobs -> {"idle", "refused", "inserted", "posted", "unposted"}]
  BY DEF IInv, TypeOK
<1>4. CASE Refuse(j) \/ DropJobPosted(j)
  <2>1. /\ posting' \in {[posting EXCEPT ![j] = "refused"], [posting EXCEPT ![j] = "unposted"]}
        /\ posting[j] \in {"idle", "inserted"} /\ UNCHANGED required
    BY <1>4 DEF Refuse, DropJobPosted, CallStep
  <2>2. PostedJobs' = PostedJobs
    BY <1>3, <2>1 DEF PostedJobs, Posted
  <2>3. ListsOnce'
    BY <1>3, <2>1 DEF ListsOnce
  <2> QED
    BY <1>1, <1>2, <2>1, <2>2, <2>3, ContractStutter
<1>5. ASSUME NEW ids \in Requests, InsertJob(j, ids)
      PROVE  Contract!Next /\ ListsOnce'
  <2>1. /\ posting[j] = "idle" /\ posting' = [posting EXCEPT ![j] = "inserted"]
        /\ required' = [required EXCEPT ![j] = DedupeNonEmpty(ids)]
    BY <1>5 DEF InsertJob, CallStep
  <2>2. PostedJobs' = PostedJobs /\ j \notin PostedJobs
    BY <1>3, <2>1 DEF PostedJobs, Posted
  <2>3. required[j] = <<>> /\ DistinctList(DedupeNonEmpty(ids))
    BY <2>1, DedupeIsExact, RequestsAreLists DEF ListsOnce
  <2>4. ListsOnce'
    BY <1>3, <2>1 DEF ListsOnce, IInv, TypeOK
  <2> QED
    BY <1>1, <1>2, <2>1, <2>2, <2>3, <2>4, ContractRequire
<1>6. CASE PublishJobPosted(j)
  <2>1. posting[j] = "inserted" /\ posting' = [posting EXCEPT ![j] = "posted"] /\ UNCHANGED required
    BY <1>6 DEF PublishJobPosted, CallStep
  <2>2. PostedJobs' = PostedJobs \cup {j} /\ j \notin PostedJobs
    BY <1>3, <2>1 DEF PostedJobs, Posted
  <2>3. ListsOnce'
    BY <1>3, <2>1 DEF ListsOnce
  <2> QED
    BY <1>1, <1>2, <2>1, <2>2, <2>3, ContractPost
<1> QED
  BY <1>4, <1>5, <1>6 DEF CreateJobStep

\* The row written is the score of the list the query found the user with.
LEMMA UpsertMatchKept ==
  ASSUME IInv, ListsOnce, NEW u \in Users, UpsertMatch(u)
  PROVE  Contract!Next /\ ListsOnce'
<1>1. ~Idle
  BY DEF UpsertMatch
<1>2. PICK j \in Jobs : j = work.job /\ InHand(j) /\ (\A k \in Jobs : InHand(k) => k = j)
  BY <1>1, InHandNow
<1>3. PICK overlap \in Nat : overlap = work.todo[u]
  BY <1>1, InHandNow
<1>4. /\ overlap >= 1 /\ jobMatches' = [jobMatches EXCEPT ![j][u] = overlap]
      /\ UNCHANGED <<posting, required, had, announced, pings>>
  BY <1>2, <1>3 DEF UpsertMatch, matchThresholdOverlap, WorkerOnly, callVars, snapshotVars
<1>5. PICK skills \in had[u] : Posted(j) /\ overlap = Cardinality(skills \cap ToSet(required[j]))
  <2>1. ScoresEarned
    BY DEF IInv
  <2>2. work.todo[u] > 0
    BY <1>3, <1>4
  <2>3. Earned(j, u, work.todo[u])
    BY <1>2, <2>1, <2>2 DEF ScoresEarned
  <2>4. Earned(j, u, overlap)
    BY <1>3, <2>3
  <2> QED
    BY <2>4 DEF Earned
<1>6. skills \in SUBSET Skills
  BY DEF IInv, TypeOK
<1>7. skills \cap ToSet(required[j]) # {}
  BY <1>4, <1>5, FS_EmptySet
<1>8. UNCHANGED <<PostedJobs, ToldPairs>> /\ j \in PostedJobs
  BY <1>4, <1>5, SamePosted, SameTold DEF PostedJobs
<1>9. ListsOnce'
  BY <1>4 DEF ListsOnce
<1> QED
  BY <1>4, <1>5, <1>6, <1>7, <1>8, <1>9, ContractMatch

\* Whoever is told, on either channel, has the row already.
LEMMA TellKept ==
  ASSUME IInv, ListsOnce, NEW sent \in BOOLEAN, Announce(sent) \/ Ping(sent)
  PROVE  [Contract!Next]_(Contract!matchingVars) /\ ListsOnce'
<1>1. ~Idle /\ work.user # None
  BY DEF Announce, Ping, Visiting
<1>2. PICK j \in Jobs : j = work.job /\ InHand(j)
  BY <1>1, InHandNow
<1>3. PICK u \in Users : u = work.user
  BY <1>1, InHandNow DEF Work
<1>4. /\ announced' \in {announced, Sent(announced, sent)}
      /\ pings' \in {pings, Sent(pings, sent)}
      /\ UNCHANGED <<posting, required, had, jobMatches>>
  BY DEF Announce, Ping, WorkerOnly, callVars, snapshotVars
<1>5. announced \in Counts /\ pings \in Counts
  BY DEF IInv, TypeOK
<1>6. ASSUME NEW counts \in Counts
      PROVE  /\ Sent(counts, sent) \in Counts
             /\ \A k \in Jobs, v \in Users : k # j \/ v # u => Sent(counts, sent)[k][v] = counts[k][v]
             /\ counts[j][u] <= Sent(counts, sent)[j][u] /\ counts[j][u] <= counts[j][u]
  BY <1>2, <1>3, SentCounts
<1>7. /\ announced' \in Counts /\ pings' \in Counts
      /\ announced[j][u] <= announced'[j][u] /\ pings[j][u] <= pings'[j][u]
      /\ \A k \in Jobs, v \in Users :
           k # j \/ v # u => announced'[k][v] = announced[k][v] /\ pings'[k][v] = pings[k][v]
  BY <1>4, <1>5, <1>6
<1>8. ToldPairs' \in {ToldPairs, ToldPairs \cup {<<j, u>>}}
  BY <1>5, <1>7, ToldMoves
<1>9. jobMatches[j][u] > 0
  BY <1>1, <1>2, <1>3 DEF IInv, Told, Matched
<1>10. UNCHANGED PostedJobs /\ ListsOnce'
  BY <1>4, SamePosted DEF ListsOnce
<1> QED
  BY <1>4, <1>8, <1>9, <1>10, ContractTell, ContractStutter

\* Of the rest of the worker, and of its offsets, the contract sees nothing.
LEMMA WorkerKept ==
  ASSUME IInv, ListsOnce,
         \/ \E j \in Jobs : GiveUp(j) \/ Score(j)
         \/ \E u \in Users : UpsertFails(u)
         \/ Finish \/ Poll \/ Commit \/ Stop \/ Leave \/ Restart
         \/ UNCHANGED vars
  PROVE  UNCHANGED Contract!matchingVars /\ ListsOnce'
<1>1. UNCHANGED <<posting, required, had, jobMatches, announced, pings>>
  BY DEF GiveUp, Score, UpsertFails, Finish, Poll, Commit, Stop, Leave, Restart, WorkerOnly, OffsetsOnly,
         callVars, snapshotVars, effects, vars
<1>2. UNCHANGED <<PostedJobs, ToldPairs>>
  BY <1>1, SamePosted, SameTold
<1> QED
  BY <1>1, <1>2, ContractStutter DEF ListsOnce

\* jobs-service keeps the contract of its matches, for any number of jobs, users,
\* crashes, shutdowns, database errors and changes of the snapshot.
THEOREM ContractKept == Spec => KeepsContract
<1>1. Init => Contract!Init /\ ListsOnce
  <2> SUFFICES ASSUME Init PROVE Contract!Init /\ ListsOnce
    OBVIOUS
  <2>1. /\ \A j \in Jobs : posting[j] = "idle" /\ required[j] = <<>>
        /\ required = [j \in Jobs |-> <<>>] /\ had = [u \in Users |-> {{}}]
        /\ jobMatches = [j \in Jobs |-> [u \in Users |-> 0]]
        /\ \A j \in Jobs, u \in Users : announced[j][u] = 0 /\ pings[j][u] = 0
    BY DEF Init
  <2>2. PostedJobs = {} /\ ToldPairs = {}
    BY <2>1 DEF PostedJobs, ToldPairs, Posted
  <2> QED
    BY <2>1, <2>2 DEF Contract!Init, PostedJobs, ToldPairs, ListsOnce
<1>2. IInv /\ ListsOnce /\ [Next]_vars => [Contract!Next]_(Contract!matchingVars) /\ ListsOnce'
  <2> SUFFICES ASSUME IInv, ListsOnce, [Next]_vars
               PROVE  [Contract!Next]_(Contract!matchingVars) /\ ListsOnce'
    OBVIOUS
  <2>1. CASE \E u \in Users, skills \in SUBSET Skills : ReplaceUserSkills(u, skills)
    BY <2>1, LearnKept
  <2>2. CASE \E j \in Jobs : CreateJobStep(j)
    BY <2>2, CallKept
  <2>3. CASE Handle
    BY <2>3, UpsertMatchKept, TellKept, WorkerKept DEF Handle
  <2>4. CASE Poll \/ Commit \/ Stop \/ Leave \/ Restart \/ UNCHANGED vars
    BY <2>4, WorkerKept
  <2> QED
    BY <2>1, <2>2, <2>3, <2>4 DEF Next, CreateJobStep
<1> QED
  BY <1>1, <1>2, InvAlways, PTL DEF Spec, KeepsContract, Contract!Spec
================================================================================
