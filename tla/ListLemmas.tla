------------------------------- MODULE ListLemmas -------------------------------
(***************************************************************************)
(* What the operators on lists that the models share do to the members of  *)
(* a list, to its length and to the order of its places: appending, taking *)
(* the head, joining, removing a place, and filtering.                     *)
(***************************************************************************)
EXTENDS Lists, FiniteSetTheorems, WellFoundedInduction, TLAPS

--------------------------------------------------------------------------------
(* Members *)

LEMMA AppendMembers ==
  ASSUME NEW S, NEW s \in Seq(S), NEW e \in S
  PROVE  Append(s, e) \in Seq(S) /\ ToSet(Append(s, e)) = ToSet(s) \cup {e}
<1>1. /\ Append(s, e) \in Seq(S) /\ Len(Append(s, e)) = Len(s) + 1
      /\ \A i \in 1 .. Len(s) : Append(s, e)[i] = s[i]
      /\ Append(s, e)[Len(s) + 1] = e
  OBVIOUS
<1> QED
  BY <1>1 DEF ToSet

LEMMA TailMembers ==
  ASSUME NEW S, NEW s \in Seq(S), s # <<>>
  PROVE  Head(s) \in S /\ Tail(s) \in Seq(S) /\ ToSet(s) = {Head(s)} \cup ToSet(Tail(s))
<1>1. /\ Tail(s) \in Seq(S) /\ Len(s) >= 1 /\ Len(Tail(s)) = Len(s) - 1
      /\ \A i \in 1 .. Len(Tail(s)) : Tail(s)[i] = s[i + 1]
      /\ Head(s) = s[1]
  OBVIOUS
<1>2. \A i \in DOMAIN s : i = 1 \/ (i - 1 \in DOMAIN Tail(s) /\ Tail(s)[i - 1] = s[i])
  BY <1>1
<1>3. \A i \in DOMAIN Tail(s) : i + 1 \in DOMAIN s /\ s[i + 1] = Tail(s)[i]
  BY <1>1
<1>4. 1 \in DOMAIN s
  BY <1>1
<1>5. ASSUME NEW i \in DOMAIN s PROVE s[i] \in {Head(s)} \cup ToSet(Tail(s))
  <2>1. CASE i = 1
    BY <1>1, <2>1
  <2>2. CASE i # 1
    BY <1>2, <2>2 DEF ToSet
  <2> QED
    BY <2>1, <2>2
<1>6. {Head(s)} \cup ToSet(Tail(s)) \subseteq ToSet(s)
  BY <1>1, <1>3, <1>4 DEF ToSet
<1>7. Head(s) \in S
  BY <1>1
<1>8. ToSet(s) \subseteq {Head(s)} \cup ToSet(Tail(s))
  BY <1>5 DEF ToSet
<1> QED
  BY <1>1, <1>6, <1>7, <1>8

LEMMA ConcatMembers ==
  ASSUME NEW S, NEW s \in Seq(S), NEW t \in Seq(S)
  PROVE  s \o t \in Seq(S) /\ ToSet(s \o t) = ToSet(s) \cup ToSet(t)
<1>1. /\ s \o t \in Seq(S) /\ Len(s \o t) = Len(s) + Len(t)
      /\ \A i \in 1 .. Len(s) : (s \o t)[i] = s[i]
      /\ \A i \in 1 .. Len(t) : (s \o t)[Len(s) + i] = t[i]
  OBVIOUS
<1>2. ASSUME NEW i \in DOMAIN (s \o t) PROVE (s \o t)[i] \in ToSet(s) \cup ToSet(t)
  <2>1. CASE i \in 1 .. Len(s)
    BY <1>1, <2>1 DEF ToSet
  <2>2. CASE i \notin 1 .. Len(s)
    <3>1. i - Len(s) \in 1 .. Len(t) /\ Len(s) + (i - Len(s)) = i
      BY <1>1, <2>2
    <3> QED
      BY <1>1, <3>1 DEF ToSet
  <2> QED
    BY <2>1, <2>2
<1>3. \A i \in DOMAIN s : i \in DOMAIN (s \o t) /\ (s \o t)[i] = s[i]
  BY <1>1
<1>4. \A i \in DOMAIN t : Len(s) + i \in DOMAIN (s \o t) /\ (s \o t)[Len(s) + i] = t[i]
  BY <1>1
<1>5. ToSet(s \o t) \subseteq ToSet(s) \cup ToSet(t)
  BY <1>2 DEF ToSet
<1>6. ToSet(s) \subseteq ToSet(s \o t) /\ ToSet(t) \subseteq ToSet(s \o t)
  BY <1>3, <1>4 DEF ToSet
<1> QED
  BY <1>1, <1>5, <1>6

\* Taking one place out of a sequence leaves every other value in it.
LEMMA RemoveAtMembers ==
  ASSUME NEW S, NEW s \in Seq(S), NEW i \in DOMAIN s
  PROVE  /\ RemoveAt(s, i) \in Seq(S) /\ Len(RemoveAt(s, i)) = Len(s) - 1
         /\ ToSet(RemoveAt(s, i)) \subseteq ToSet(s)
         /\ \A e \in ToSet(s) : e # s[i] => e \in ToSet(RemoveAt(s, i))
<1> DEFINE before == SubSeq(s, 1, i - 1)  after == SubSeq(s, i + 1, Len(s))
<1>1. /\ before \in Seq(S) /\ Len(before) = i - 1 /\ \A k \in 1 .. i - 1 : before[k] = s[k]
  OBVIOUS
<1>2. /\ after \in Seq(S) /\ Len(after) = Len(s) - i /\ \A k \in 1 .. Len(s) - i : after[k] = s[i + k]
  OBVIOUS
<1>3. RemoveAt(s, i) = before \o after
  BY DEF RemoveAt
<1> HIDE DEF before, after
<1>4. /\ RemoveAt(s, i) \in Seq(S) /\ ToSet(RemoveAt(s, i)) = ToSet(before) \cup ToSet(after)
  BY <1>1, <1>2, <1>3, ConcatMembers
<1>5. Len(RemoveAt(s, i)) = Len(s) - 1
  BY <1>1, <1>2, <1>3
<1>6. ToSet(before) \subseteq ToSet(s) /\ ToSet(after) \subseteq ToSet(s)
  <2>1. \A k \in DOMAIN before : k \in DOMAIN s /\ before[k] = s[k]
    BY <1>1
  <2>2. \A k \in DOMAIN after : i + k \in DOMAIN s /\ after[k] = s[i + k]
    BY <1>2
  <2> QED
    BY <2>1, <2>2 DEF ToSet
<1>7. ASSUME NEW k \in DOMAIN s, k # i PROVE s[k] \in ToSet(before) \cup ToSet(after)
  <2>1. CASE k < i
    <3>1. k \in DOMAIN before /\ before[k] = s[k]
      BY <1>1, <2>1
    <3> QED
      BY <3>1 DEF ToSet
  <2>2. CASE k > i
    <3> DEFINE d == k - i
    <3>1. d \in 1 .. Len(s) - i /\ i + d = k
      BY <2>2
    <3> HIDE DEF d
    <3>2. after[d] = s[k]
      BY <1>2, <3>1
    <3>3. d \in DOMAIN after
      BY <1>2, <3>1
    <3> QED
      BY <3>2, <3>3 DEF ToSet
  <2> QED
    BY <1>7, <2>1, <2>2
<1>8. \A e \in ToSet(s) : e # s[i] => e \in ToSet(RemoveAt(s, i))
  BY <1>4, <1>7 DEF ToSet
<1> QED
  BY <1>4, <1>5, <1>6, <1>8

\* The last so many members of a sequence.
LEMMA SuffixMembers ==
  ASSUME NEW S, NEW s \in Seq(S), NEW kept \in 1 .. Len(s),
         NEW suffix, suffix = SubSeq(s, Len(s) - kept + 1, Len(s))
  PROVE  /\ suffix \in Seq(S) /\ Len(suffix) = kept
         /\ \A i \in 1 .. kept : suffix[i] = s[Len(s) - kept + i]
<1>1. Len(s) \in Nat /\ Len(s) - kept + 1 \in 1 .. Len(s)
  OBVIOUS
<1>2. suffix \in Seq(S)
  BY <1>1
<1>3. Len(suffix) = kept
  BY <1>1
<1>4. ASSUME NEW i \in 1 .. kept PROVE suffix[i] = s[Len(s) - kept + i]
  BY <1>1
<1> QED
  BY <1>2, <1>3, <1>4

--------------------------------------------------------------------------------
(* Places *)

\* A nonempty set of naturals has a least member.
LEMMA LeastMember ==
  ASSUME NEW T \in SUBSET Nat, T # {}
  PROVE  \E i \in T : \A k \in T : i <= k
<1>1. PICK i \in T : \A k \in T : ~(<<k, i>> \in OpToRel(<, Nat))
  BY NatLessThanWellFounded, WFMin, Zenon
<1>2. \A k \in T : ~(k < i)
  BY <1>1 DEF OpToRel
<1> QED
  BY <1>2

LEMMA UpTo == ASSUME NEW n \in Nat PROVE IsFiniteSet(1 .. n) /\ Cardinality(1 .. n) = n
BY FS_Interval

LEMMA PositionsUpTo ==
  ASSUME NEW S, NEW list \in Seq(S)
  PROVE  /\ Len(list) \in Nat /\ DOMAIN list = 1 .. Len(list)
         /\ IsFiniteSet(DOMAIN list) /\ Cardinality(DOMAIN list) = Len(list)
<1>1. Len(list) \in Nat /\ DOMAIN list = 1 .. Len(list)
  OBVIOUS
<1> QED
  BY <1>1, UpTo

\* The number of members of S below i.
Rank(S, i) == Cardinality({h \in S : h < i})

LEMMA RankTyped ==
  ASSUME NEW S \in SUBSET Nat, IsFiniteSet(S), NEW i \in S
  PROVE  IsFiniteSet({h \in S : h < i}) /\ Rank(S, i) \in Nat
<1>1. {h \in S : h < i} \in SUBSET S
  OBVIOUS
<1> QED
  BY <1>1, FS_Subset, FS_CardinalityType DEF Rank

\* A set without i that lies below i is smaller than one that also has i.
LEMMA RankBelow ==
  ASSUME NEW S \in SUBSET Nat, IsFiniteSet(S), NEW i \in S,
         NEW T, IsFiniteSet(T), i \in T, {h \in S : h < i} \subseteq T
  PROVE  Rank(S, i) + 1 <= Cardinality(T)
<1> DEFINE low == {h \in S : h < i}
<1>1. i \notin low
  OBVIOUS
<1>2. low \subseteq T \ {i}
  BY <1>1
<1>3. Rank(S, i) = Cardinality(low) /\ Rank(S, i) \in Nat
  BY RankTyped DEF Rank
<1> HIDE DEF low
<1>4. IsFiniteSet(T \ {i}) /\ Cardinality(T \ {i}) = Cardinality(T) - 1
  BY FS_RemoveElement
<1>5. Cardinality(low) <= Cardinality(T \ {i}) /\ Cardinality(T) \in Nat
  BY <1>2, <1>4, FS_Subset, FS_CardinalityType
<1> QED
  BY <1>3, <1>4, <1>5

\* The ranks of a finite set of naturals are 0 up to its size, each taken once.
LEMMA RanksCount ==
  ASSUME NEW S \in SUBSET Nat, IsFiniteSet(S)
  PROVE  /\ \A i \in S : Rank(S, i) + 1 \in 1 .. Cardinality(S)
         /\ \A i, k \in S : Rank(S, i) = Rank(S, k) => i = k
         /\ \A n \in 1 .. Cardinality(S) : \E i \in S : Rank(S, i) = n - 1
<1> DEFINE N == Cardinality(S)
<1>1. N \in Nat
  BY FS_CardinalityType
<1>2. \A i \in S : Rank(S, i) \in Nat
  BY RankTyped
<1>3. ASSUME NEW i \in S PROVE Rank(S, i) + 1 \in 1 .. N
  <2>1. {h \in S : h < i} \subseteq S
    OBVIOUS
  <2>2. Rank(S, i) + 1 <= N
    BY <2>1, RankBelow
  <2> HIDE DEF N
  <2> QED
    BY <2>2, <1>1, <1>2
<1>4. ASSUME NEW i \in S, NEW k \in S, i < k PROVE Rank(S, i) < Rank(S, k)
  <2> DEFINE low == {h \in S : h < k}
  <2>1. i \in low /\ {h \in S : h < i} \subseteq low
    <3>1. i \in low
      BY <1>4
    <3>2. \A h \in S : h < i => h < k
      BY <1>4
    <3> QED
      BY <3>1, <3>2
  <2>2. IsFiniteSet(low) /\ Rank(S, k) = Cardinality(low)
    BY RankTyped DEF Rank
  <2> HIDE DEF low
  <2>3. Rank(S, i) + 1 <= Rank(S, k)
    BY <2>1, <2>2, RankBelow
  <2> QED
    BY <2>3, <1>2
<1>5. ASSUME NEW i \in S, NEW k \in S, Rank(S, i) = Rank(S, k) PROVE i = k
  <2>1. i < k \/ k < i \/ i = k
    OBVIOUS
  <2>2. i < k => Rank(S, i) < Rank(S, k)
    BY <1>4
  <2>3. k < i => Rank(S, k) < Rank(S, i)
    BY <1>4
  <2> QED
    BY <2>1, <2>2, <2>3, <1>2, <1>5
<1>6. \A n \in 1 .. N : \E i \in S : Rank(S, i) = n - 1
  <2> DEFINE rank == [i \in S |-> Rank(S, i) + 1]
  <2> HIDE DEF N
  <2>1. \A i \in S : rank[i] = Rank(S, i) + 1 /\ rank[i] \in 1 .. N
    BY <1>3
  <2>2. \A i, k \in S : rank[i] = rank[k] => i = k
    BY <2>1, <1>2, <1>5
  <2>3. rank \in [S -> 1 .. N]
    BY <2>1
  <2> HIDE DEF rank
  <2>4. rank \in Injection(S, 1 .. N)
    BY <2>2, <2>3 DEF Injection, IsInjective
  <2>5. IsFiniteSet(1 .. N) /\ Cardinality(1 .. N) = N
    BY <1>1, UpTo
  <2>6. rank \in Surjection(S, 1 .. N)
    BY <2>4, <2>5, FS_Injection DEF N
  <2>7. \A n \in 1 .. N : \E i \in S : rank[i] = n
    BY <2>6 DEF Surjection
  <2>8. ASSUME NEW n \in 1 .. N PROVE \E i \in S : Rank(S, i) = n - 1
    <3>1. PICK i \in S : rank[i] = n
      BY <2>7
    <3>2. Rank(S, i) + 1 = n /\ Rank(S, i) \in Nat
      BY <3>1, <2>1, <1>2
    <3> QED
      BY <3>2
  <2> QED
    BY <2>8
<1> QED
  BY <1>3, <1>5, <1>6

\* What a filter makes: every chosen place is there once and no other, in order.
LEMMA PlacesTaken ==
  ASSUME NEW S, NEW list \in Seq(S), NEW places \in SUBSET (DOMAIN list)
  PROVE  /\ AtPlaces(list, places) \in Seq(S)
         /\ IsFiniteSet(places) /\ Len(AtPlaces(list, places)) = Cardinality(places)
         /\ Cardinality(places) \in Nat /\ Cardinality(places) <= Len(list)
         /\ \A m \in DOMAIN AtPlaces(list, places) :
              /\ Place(places, m) \in places
              /\ AtPlaces(list, places)[m] = list[Place(places, m)]
         /\ \A m, n \in DOMAIN AtPlaces(list, places) : Place(places, m) = Place(places, n) => m = n
         /\ ToSet(AtPlaces(list, places)) = {list[i] : i \in places}
<1> DEFINE N == Cardinality(places)
<1>1. places \in SUBSET Nat /\ \A i \in places : list[i] \in S
  BY PositionsUpTo
<1>2. IsFiniteSet(places) /\ N \in Nat /\ N <= Len(list)
  BY PositionsUpTo, FS_Subset, FS_CardinalityType
<1>3. AtPlaces(list, places) = [n \in 1 .. N |-> list[Place(places, n)]]
  BY DEF AtPlaces
<1>4. /\ \A i \in places : Rank(places, i) + 1 \in 1 .. N /\ Rank(places, i) \in Nat
      /\ \A i, k \in places : Rank(places, i) = Rank(places, k) => i = k
      /\ \A n \in 1 .. N : \E i \in places : Rank(places, i) = n - 1
  BY <1>1, <1>2, RanksCount, RankTyped
<1>5. \A n : Place(places, n) = CHOOSE i \in places : Rank(places, i) = n - 1
  BY DEF Place, Rank
<1> HIDE DEF N
<1>6. \A n \in 1 .. N : Place(places, n) \in places /\ Rank(places, Place(places, n)) = n - 1
  BY <1>4, <1>5
<1>7. ASSUME NEW m \in 1 .. N, NEW n \in 1 .. N, Place(places, m) = Place(places, n)
      PROVE  m = n
  <2>1. m - 1 = n - 1
    BY <1>6, <1>7
  <2> QED
    BY <2>1
<1>8. ASSUME NEW i \in places PROVE \E n \in 1 .. N : Place(places, n) = i
  <2> DEFINE n == Rank(places, i) + 1
  <2>1. n \in 1 .. N /\ n - 1 = Rank(places, i)
    BY <1>4
  <2> HIDE DEF n
  <2>2. Place(places, n) = i
    BY <2>1, <1>4, <1>6
  <2> QED
    BY <2>1, <2>2
<1>9. \A n \in 1 .. N : list[Place(places, n)] \in S
  BY <1>1, <1>6
<1>10. AtPlaces(list, places) \in Seq(S) /\ Len(AtPlaces(list, places)) = N
       /\ DOMAIN AtPlaces(list, places) = 1 .. N
  BY <1>2, <1>3, <1>9
<1>11. ToSet(AtPlaces(list, places)) = {list[Place(places, n)] : n \in 1 .. N}
  BY <1>3 DEF ToSet
<1>12. {list[Place(places, n)] : n \in 1 .. N} = {list[i] : i \in places}
  BY <1>6, <1>8
<1>13. N = Cardinality(places)
  BY DEF N
<1> QED
  BY <1>2, <1>3, <1>6, <1>7, <1>10, <1>11, <1>12, <1>13
================================================================================
