-------------------------- MODULE NotificationsProofs --------------------------
(***************************************************************************)
(* Proofs about Notifications and JobDraft for any number of               *)
(* notifications, users, pages, gateways, troubles and visits.             *)
(*                                                                         *)
(* The bell: the broker, the handlers of every gateway and the streams     *)
(* together know where each message is, and each page knows by what way a  *)
(* recent entry has reached it, still can, or need not.                    *)
(***************************************************************************)
EXTENDS Notifications, JobDraft, ListLemmas

--------------------------------------------------------------------------------
(* The history and the list of a page *)

\* A list repeats only what is known to come twice.
RepeatsIn(s, known) == \A i, j \in DOMAIN s : i # j /\ s[i] = s[j] => s[i] \in known

\* Counted from the newest entry of a stream.
FromEnd(s, i) == s[Len(s) - i + 1]

LEMMA RecentEntries ==
  ASSUME NEW s \in Seq(Notifs)
  PROVE  /\ Recent(s) \in Seq(Notifs) /\ Len(Recent(s)) <= HistoryLimit
         /\ Len(Recent(s)) <= Len(s)
         /\ Len(Recent(s)) = HistoryLimit \/ Len(Recent(s)) = Len(s)
         /\ \A i \in DOMAIN Recent(s) : Recent(s)[i] = FromEnd(s, i)
<1> DEFINE n == IF HistoryLimit < Len(s) THEN HistoryLimit ELSE Len(s)
<1>1. /\ Reverse(s) \in Seq(Notifs) /\ Len(Reverse(s)) = Len(s)
      /\ \A i \in 1 .. Len(s) : Reverse(s)[i] = s[Len(s) - i + 1]
  BY DEF Reverse
<1>2. Recent(s) = SubSeq(Reverse(s), 1, n) /\ n \in 0 .. Len(s) /\ n <= HistoryLimit
      /\ (n = HistoryLimit \/ n = Len(s))
  BY Limits DEF Recent
<1> HIDE DEF n
<1>3. /\ SubSeq(Reverse(s), 1, n) \in Seq(Notifs) /\ Len(SubSeq(Reverse(s), 1, n)) = n
      /\ \A i \in 1 .. n : SubSeq(Reverse(s), 1, n)[i] = Reverse(s)[i]
  BY <1>1, <1>2
<1>4. Recent(s) \in Seq(Notifs) /\ Len(Recent(s)) = n /\ DOMAIN Recent(s) = 1 .. n
  BY <1>2, <1>3
<1>5. n \in Nat /\ n <= Len(s) /\ \A i \in 1 .. n : i \in 1 .. Len(s)
  BY <1>2
<1>6. \A i \in 1 .. n : Recent(s)[i] = FromEnd(s, i)
  BY <1>1, <1>2, <1>3, <1>5 DEF FromEnd
<1> QED
  BY <1>2, <1>4, <1>5, <1>6

\* The history answers with entries of the stream and repeats only what it does.
LEMMA RecentIsOfStream ==
  ASSUME NEW s \in Seq(Notifs), NEW known
  PROVE  /\ ToSet(Recent(s)) \subseteq ToSet(s)
         /\ RepeatsIn(s, known) => RepeatsIn(Recent(s), known)
<1>1. \A i \in DOMAIN Recent(s) : Len(s) - i + 1 \in DOMAIN s /\ Recent(s)[i] = s[Len(s) - i + 1]
  BY RecentEntries DEF FromEnd
<1>2. \A i, j \in DOMAIN Recent(s) : i # j => Len(s) - i + 1 # Len(s) - j + 1
  BY RecentEntries
<1>3. ToSet(Recent(s)) \subseteq ToSet(s)
  BY <1>1 DEF ToSet
<1>4. RepeatsIn(s, known) => RepeatsIn(Recent(s), known)
  BY <1>1, <1>2 DEF RepeatsIn
<1> QED
  BY <1>3, <1>4

\* One more entry, and a trim: what is recent was so before, or is new.
LEMMA RecentGrows ==
  ASSUME NEW s \in Seq(Notifs), NEW t \in Seq(Notifs), NEW n,
         Len(t) <= Len(s) + 1, FromEnd(t, 1) = n,
         \A i \in 2 .. Len(t) : FromEnd(t, i) = FromEnd(s, i - 1)
  PROVE  ToSet(Recent(t)) \subseteq ToSet(Recent(s)) \cup {n}
<1>1. /\ Recent(t) \in Seq(Notifs) /\ Len(Recent(t)) <= HistoryLimit /\ Len(Recent(t)) <= Len(t)
      /\ \A i \in DOMAIN Recent(t) : Recent(t)[i] = FromEnd(t, i)
  BY RecentEntries
<1>2. /\ Recent(s) \in Seq(Notifs) /\ (Len(Recent(s)) = HistoryLimit \/ Len(Recent(s)) = Len(s))
      /\ \A i \in DOMAIN Recent(s) : Recent(s)[i] = FromEnd(s, i)
  BY RecentEntries
<1>3. Len(s) \in Nat /\ Len(t) \in Nat /\ HistoryLimit \in Nat
  BY Limits
<1>4. ASSUME NEW i \in DOMAIN Recent(t) PROVE Recent(t)[i] \in ToSet(Recent(s)) \cup {n}
  <2>1. i \in 1 .. Len(t) /\ i <= HistoryLimit
    BY <1>1, <1>3
  <2>2. CASE i = 1
    BY <1>1, <2>2
  <2>3. CASE i # 1
    <3>1. i \in 2 .. Len(t) /\ Recent(t)[i] = FromEnd(s, i - 1)
      BY <1>1, <2>1, <2>3
    <3>2. i - 1 \in DOMAIN Recent(s)
      BY <1>2, <1>3, <2>1, <3>1
    <3> QED
      BY <1>2, <3>1, <3>2 DEF ToSet
  <2> QED
    BY <2>2, <2>3
<1> QED
  BY <1>4 DEF ToSet

\* A list with one more entry, and the last entries of a list.
IsLonger(longer, s, n) ==
  /\ longer \in Seq(Notifs) /\ Len(longer) = Len(s) + 1 /\ longer[Len(s) + 1] = n
  /\ \A i \in 1 .. Len(s) : longer[i] = s[i]

IsEnd(t, s, kept) ==
  t \in Seq(Notifs) /\ Len(t) = kept /\ \A i \in 1 .. kept : t[i] = s[Len(s) - kept + i]

LEMMA AppendIsLonger ==
  ASSUME NEW s \in Seq(Notifs), NEW n \in Notifs
  PROVE  IsLonger(Append(s, n), s, n)
BY DEF IsLonger

LEMMA SuffixIsEnd ==
  ASSUME NEW s \in Seq(Notifs), NEW kept \in 1 .. Len(s)
  PROVE  IsEnd(SubSeq(s, Len(s) - kept + 1, Len(s)), s, kept)
BY DEF IsEnd

\* The stream after an XADD: the last entries, and the new one, kept.
LEMMA EntryAdded ==
  ASSUME NEW s \in Seq(Notifs), NEW n \in Notifs, NEW longer, IsLonger(longer, s, n),
         NEW kept \in 1 .. Len(s) + 1, NEW t, IsEnd(t, longer, kept)
  PROVE  /\ n \in ToSet(t) /\ ToSet(t) \subseteq ToSet(s) \cup {n}
         /\ kept = Len(s) + 1 => ToSet(s) \subseteq ToSet(t)
         /\ \A known : RepeatsIn(s, known) /\ (n \in ToSet(s) => n \in known) => RepeatsIn(t, known)
         /\ ToSet(Recent(t)) \subseteq ToSet(Recent(s)) \cup {n}
<1>1. /\ longer \in Seq(Notifs) /\ Len(longer) = Len(s) + 1 /\ longer[Len(s) + 1] = n
      /\ \A i \in 1 .. Len(s) : longer[i] = s[i]
      /\ Len(s) \in Nat
  BY DEF IsLonger
<1>2. kept \in 1 .. Len(s) + 1
  OBVIOUS
<1>3. t \in Seq(Notifs) /\ Len(t) = kept /\ \A i \in 1 .. kept : t[i] = longer[Len(longer) - kept + i]
  BY DEF IsEnd
<1>4. t[kept] = n /\ kept \in DOMAIN t
  BY <1>1, <1>2, <1>3
<1>5. \A i \in DOMAIN t : i # kept => Len(longer) - kept + i \in DOMAIN s /\ t[i] = s[Len(longer) - kept + i]
  <2> SUFFICES ASSUME NEW i \in DOMAIN t, i # kept
               PROVE  Len(longer) - kept + i \in DOMAIN s /\ t[i] = s[Len(longer) - kept + i]
    OBVIOUS
  <2>1. i \in 1 .. kept /\ DOMAIN s = 1 .. Len(s)
    BY <1>3
  <2>2. Len(longer) - kept + i \in 1 .. Len(s)
    BY <1>1, <1>2, <2>1
  <2>3. t[i] = longer[Len(longer) - kept + i]
    BY <1>3, <2>1
  <2> QED
    BY <1>1, <2>1, <2>2, <2>3
<1>6. n \in ToSet(t) /\ ToSet(t) \subseteq ToSet(s) \cup {n}
  BY <1>4, <1>5 DEF ToSet
<1>7. ASSUME kept = Len(s) + 1 PROVE ToSet(s) \subseteq ToSet(t)
  <2>1. \A i \in DOMAIN s : i \in DOMAIN t /\ t[i] = s[i]
    BY <1>1, <1>3, <1>7
  <2> QED
    BY <2>1 DEF ToSet
<1>8. ASSUME NEW known, RepeatsIn(s, known), n \in ToSet(s) => n \in known PROVE RepeatsIn(t, known)
  <2>1. \A i, j \in DOMAIN t : i # j => Len(longer) - kept + i # Len(longer) - kept + j
    BY <1>1, <1>3
  <2> SUFFICES ASSUME NEW i \in DOMAIN t, NEW j \in DOMAIN t, i # j, t[i] = t[j] PROVE t[i] \in known
    BY DEF RepeatsIn
  <2>2. CASE i # kept /\ j # kept
    BY <1>5, <1>8, <2>1, <2>2 DEF RepeatsIn
  <2>3. CASE i = kept
    <3>1. n \in ToSet(s) /\ t[i] = n
      BY <1>4, <1>5, <2>3 DEF ToSet
    <3> QED
      BY <3>1, <1>8
  <2>4. CASE j = kept
    <3>1. n \in ToSet(s) /\ t[i] = n
      BY <1>4, <1>5, <2>4 DEF ToSet
    <3> QED
      BY <3>1, <1>8
  <2> QED
    BY <2>2, <2>3, <2>4
<1>9. FromEnd(t, 1) = n
  BY <1>2, <1>3, <1>4 DEF FromEnd
<1>10. \A i \in 2 .. Len(t) : FromEnd(t, i) = FromEnd(s, i - 1)
  <2> SUFFICES ASSUME NEW i \in 2 .. Len(t) PROVE FromEnd(t, i) = FromEnd(s, i - 1)
    OBVIOUS
  <2>1. kept - i + 1 \in DOMAIN t /\ kept - i + 1 # kept
    BY <1>2, <1>3
  <2>2. Len(longer) - kept + (kept - i + 1) = Len(s) - (i - 1) + 1
    BY <1>1, <1>2, <1>3
  <2>3. t[kept - i + 1] = s[Len(s) - (i - 1) + 1]
    BY <1>5, <2>1, <2>2
  <2>4. Len(t) = kept
    BY <1>3
  <2> QED
    BY <2>3, <2>4 DEF FromEnd
<1>11. ToSet(Recent(t)) \subseteq ToSet(Recent(s)) \cup {n}
  <2>1. Len(t) <= Len(s) + 1
    BY <1>1, <1>2, <1>3
  <2> QED
    BY <1>3, <1>9, <1>10, <2>1, RecentGrows
<1> QED
  BY <1>6, <1>7, <1>8, <1>11

\* A live push: the notification comes first and once, the others keep their order,
\* and only a full list drops any.
LEMMA PushedList ==
  ASSUME NEW n \in Notifs, NEW shown \in Seq(Notifs), NEW known
  PROVE  /\ Pushed(n, shown) \in Seq(Notifs) /\ Len(Pushed(n, shown)) <= ListLimit
         /\ n \in ToSet(Pushed(n, shown))
         /\ \A m \in ToSet(shown) : m \in ToSet(Pushed(n, shown)) \/ Len(shown) >= ListLimit
         /\ RepeatsIn(shown, known) => RepeatsIn(Pushed(n, shown), known)
<1> DEFINE places == {i \in DOMAIN shown : shown[i] # n}
           others == AtPlaces(shown, places)
           size == IF ListLimit <= Len(others) THEN ListLimit ELSE Len(others) + 1
           result == SubSeq(<<n>> \o others, 1, size)
<1>1. places \in SUBSET (DOMAIN shown) /\ \A i \in places : shown[i] # n
  OBVIOUS
<1>2. ToSet(shown) \subseteq {shown[i] : i \in places} \cup {n}
  BY DEF ToSet
<1>3. Pushed(n, shown) = result
  BY DEF Pushed
<1> HIDE DEF places
<1>4. /\ others \in Seq(Notifs) /\ Len(others) \in Nat /\ Len(others) <= Len(shown)
      /\ \A m \in DOMAIN others : Place(places, m) \in places /\ others[m] = shown[Place(places, m)]
      /\ \A m, k \in DOMAIN others : Place(places, m) = Place(places, k) => m = k
      /\ ToSet(others) = {shown[i] : i \in places}
  BY <1>1, PlacesTaken
<1> HIDE DEF others
<1>5. /\ <<n>> \o others \in Seq(Notifs) /\ Len(<<n>> \o others) = Len(others) + 1
      /\ (<<n>> \o others)[1] = n
      /\ \A i \in 2 .. Len(others) + 1 : i - 1 \in DOMAIN others /\ (<<n>> \o others)[i] = others[i - 1]
  BY <1>4
<1>6. size \in 1 .. Len(others) + 1 /\ size <= ListLimit /\ (size = Len(others) + 1 \/ ListLimit <= Len(shown))
  BY <1>4, Limits
<1> HIDE DEF size
<1>7. /\ result \in Seq(Notifs) /\ Len(result) = size
      /\ \A i \in 1 .. size : result[i] = (<<n>> \o others)[i]
  BY <1>5, <1>6
<1> HIDE DEF result
<1>8. result[1] = n /\ 1 \in DOMAIN result
  BY <1>5, <1>6, <1>7
<1>9. \A i \in DOMAIN result : i # 1 => i - 1 \in DOMAIN others /\ result[i] = others[i - 1]
  BY <1>5, <1>6, <1>7
<1>10. ASSUME NEW m \in ToSet(shown), ~(Len(shown) >= ListLimit) PROVE m \in ToSet(result)
  <2>1. size = Len(others) + 1
    BY <1>4, <1>6, <1>10, Limits
  <2>2. \A k \in DOMAIN others : k + 1 \in DOMAIN result /\ result[k + 1] = others[k]
    BY <1>4, <1>5, <1>7, <2>1
  <2>3. ToSet(others) \subseteq ToSet(result) /\ n \in ToSet(result)
    BY <1>8, <2>2 DEF ToSet
  <2> QED
    BY <1>2, <1>4, <2>3
<1>11. ASSUME RepeatsIn(shown, known) PROVE RepeatsIn(result, known)
  <2> SUFFICES ASSUME NEW i \in DOMAIN result, NEW j \in DOMAIN result, i # j, result[i] = result[j]
               PROVE  result[i] \in known
    BY DEF RepeatsIn
  <2>1. \A k \in DOMAIN result : k # 1 => result[k] # n
    BY <1>1, <1>4, <1>9
  <2>2. i # 1 /\ j # 1
    BY <1>8, <2>1
  <2>3. /\ i - 1 \in DOMAIN others /\ j - 1 \in DOMAIN others /\ i - 1 # j - 1
        /\ result[i] = others[i - 1] /\ result[j] = others[j - 1]
    BY <1>9, <2>2, <1>7, <1>6
  <2>4. Place(places, i - 1) # Place(places, j - 1)
    BY <1>4, <2>3
  <2>5. /\ Place(places, i - 1) \in DOMAIN shown /\ Place(places, j - 1) \in DOMAIN shown
        /\ result[i] = shown[Place(places, i - 1)] /\ result[j] = shown[Place(places, j - 1)]
    BY <1>1, <1>4, <2>3
  <2> QED
    BY <1>11, <2>4, <2>5 DEF RepeatsIn
<1>12. n \in ToSet(result)
  BY <1>8 DEF ToSet
<1>13. Len(result) <= ListLimit
  BY <1>6, <1>7
<1> QED
  BY <1>3, <1>7, <1>10, <1>11, <1>12, <1>13

--------------------------------------------------------------------------------
(* The queue *)

LEMMA SameOperators ==
  /\ \A s : Queue!ToSet(s) = ToSet(s)
  /\ \A s, i : Queue!RemoveAt(s, i) = RemoveAt(s, i)
BY DEF Queue!ToSet, ToSet, Queue!RemoveAt, RemoveAt

LEMMA WaitingHere ==
  /\ \A n : Queue!Waiting(n) <=> n \in ToSet(ready) \/ \E g \in Gateways : n \in ToSet(unacked[g])
  /\ \A n : Queue!Waiting(n)' <=>
       n \in ToSet(ready') \/ \E g \in Gateways : n \in ToSet(unacked'[g])
BY SameOperators DEF Queue!Waiting, Queue!Held

LEMMA Singletons ==
  /\ \A n : Len(<<n>>) = 1 /\ ToSet(<<n>>) = {n} /\ <<n>>[1] = n /\ DOMAIN <<n>> = {1}
  /\ \A n \in Notifs : <<n>> \in Seq(Notifs)
  /\ Len(<<>>) = 0 /\ ToSet(<<>>) = {} /\ <<>> \in Seq(Notifs)
BY DEF ToSet

LEMMA QueueSame == ASSUME Queue!TypeOK, UNCHANGED queueVars PROVE Queue!TypeOK'
BY DEF queueVars, Queue!TypeOK

\* Repeats of a list are known for longer than they are in it.
LEMMA RepeatsKept ==
  ASSUME NEW s, NEW known, NEW more, known \subseteq more, RepeatsIn(s, known)
  PROVE  RepeatsIn(s, more)
BY DEF RepeatsIn

LEMMA Enqueued ==
  ASSUME Queue!TypeOK, NEW n \in Notifs, Queue!Enqueue(n)
  PROVE  /\ Queue!TypeOK' /\ UNCHANGED <<unacked, redelivered>>
         /\ ToSet(ready') = ToSet(ready) \cup {n}
         /\ RepeatsIn(ready, redelivered) /\ (n \in ToSet(ready) => n \in redelivered)
              => RepeatsIn(ready', redelivered)
<1>1. /\ ready \in Seq(Notifs) /\ ready' = Append(ready, n)
      /\ UNCHANGED <<unacked, dead, redelivered>>
  BY DEF Queue!TypeOK, Queue!Enqueue
<1>2. ready' \in Seq(Notifs) /\ ToSet(ready') = ToSet(ready) \cup {n}
  BY <1>1, AppendMembers
<1>3. Queue!TypeOK'
  BY <1>1, <1>2 DEF Queue!TypeOK
<1>4. /\ \A i \in DOMAIN ready' : i # Len(ready) + 1 => i \in DOMAIN ready /\ ready'[i] = ready[i]
      /\ ready'[Len(ready) + 1] = n
  BY <1>1
<1>5. ASSUME RepeatsIn(ready, redelivered), n \in ToSet(ready) => n \in redelivered
      PROVE  RepeatsIn(ready', redelivered)
  <2> SUFFICES ASSUME NEW i \in DOMAIN ready', NEW j \in DOMAIN ready', i # j, ready'[i] = ready'[j]
               PROVE  ready'[i] \in redelivered
    BY DEF RepeatsIn
  <2>1. CASE i # Len(ready) + 1 /\ j # Len(ready) + 1
    BY <1>4, <1>5, <2>1 DEF RepeatsIn
  <2>2. CASE ~(i # Len(ready) + 1 /\ j # Len(ready) + 1)
    <3>1. ready'[i] = n /\ n \in ToSet(ready)
      BY <1>4, <2>2 DEF ToSet
    <3> QED
      BY <1>5, <3>1
  <2> QED
    BY <2>1, <2>2
<1> QED
  BY <1>1, <1>2, <1>3, <1>5

LEMMA Dispatched ==
  ASSUME Queue!TypeOK, NEW g \in Gateways, NEW n, unacked[g] = <<>>, Queue!Dispatch(g, n)
  PROVE  /\ Queue!TypeOK' /\ n \in Notifs /\ unacked' = [unacked EXCEPT ![g] = <<n>>]
         /\ UNCHANGED redelivered
         /\ ToSet(ready) = {n} \cup ToSet(ready')
         /\ RepeatsIn(ready, redelivered) =>
              RepeatsIn(ready', redelivered) /\ (n \in ToSet(ready') => n \in redelivered)
<1>1. /\ ready \in Seq(Notifs) /\ unacked \in [Gateways -> Seq(Notifs)]
      /\ \A c \in Gateways : Len(unacked[c]) <= 1
      /\ ready # <<>> /\ n = Head(ready) /\ ready' = Tail(ready)
      /\ unacked' = [unacked EXCEPT ![g] = <<n>>] /\ UNCHANGED <<dead, redelivered>>
  <2>1. Append(unacked[g], n) = <<n>>
    OBVIOUS
  <2> QED
    BY <2>1 DEF Queue!TypeOK, Queue!Dispatch
<1>2. n \in Notifs /\ ready' \in Seq(Notifs) /\ ToSet(ready) = {n} \cup ToSet(ready')
  BY <1>1, TailMembers
<1>3. Queue!TypeOK'
  <2>1. <<n>> \in Seq(Notifs) /\ Len(<<n>>) <= 1
    BY <1>2, Singletons
  <2>2. unacked' \in [Gateways -> Seq(Notifs)] /\ \A c \in Gateways : Len(unacked'[c]) <= 1
    BY <1>1, <2>1
  <2> QED
    BY <1>1, <1>2, <2>2 DEF Queue!TypeOK
<1>4. /\ \A i \in DOMAIN ready' : i + 1 \in DOMAIN ready /\ i + 1 # 1 /\ ready'[i] = ready[i + 1]
      /\ 1 \in DOMAIN ready /\ ready[1] = n
  BY <1>1
<1>5. \A i, j \in DOMAIN ready' : i # j => i + 1 # j + 1
  BY <1>1
<1>6. RepeatsIn(ready, redelivered) =>
        RepeatsIn(ready', redelivered) /\ (n \in ToSet(ready') => n \in redelivered)
  BY <1>4, <1>5 DEF RepeatsIn, ToSet
<1> QED
  BY <1>1, <1>2, <1>3, <1>6

LEMMA Acked ==
  ASSUME Queue!TypeOK, NEW g \in Gateways, NEW n, unacked[g] = <<n>>, Queue!Ack(g, n)
  PROVE  Queue!TypeOK' /\ unacked' = [unacked EXCEPT ![g] = <<>>] /\ UNCHANGED <<ready, redelivered>>
<1>1. PICK i \in DOMAIN unacked[g] : unacked' = [unacked EXCEPT ![g] = RemoveAt(unacked[g], i)]
  BY SameOperators DEF Queue!Ack, Queue!Settled, Queue!TypeOK
<1>2. UNCHANGED <<ready, dead, redelivered>> /\ unacked[g] \in Seq(Notifs)
  BY DEF Queue!Ack, Queue!TypeOK
<1>3. RemoveAt(unacked[g], i) \in Seq(Notifs) /\ Len(RemoveAt(unacked[g], i)) = 0
  <2>1. /\ RemoveAt(unacked[g], i) \in Seq(Notifs)
        /\ Len(RemoveAt(unacked[g], i)) = Len(unacked[g]) - 1
    BY <1>2, RemoveAtMembers
  <2>2. Len(unacked[g]) = 1
    BY Singletons
  <2> QED
    BY <2>1, <2>2
<1>4. RemoveAt(unacked[g], i) = <<>>
  BY <1>3
<1>5. unacked' = [unacked EXCEPT ![g] = <<>>]
  BY <1>1, <1>4
<1>6. Queue!TypeOK'
  BY <1>2, <1>5, Singletons DEF Queue!TypeOK
<1> QED
  BY <1>2, <1>5, <1>6

LEMMA Released ==
  ASSUME Queue!TypeOK, NEW g \in Gateways, NEW n, unacked[g] \in {<<>>, <<n>>}, Queue!Release(g)
  PROVE  /\ Queue!TypeOK' /\ unacked' = [unacked EXCEPT ![g] = <<>>]
         /\ ToSet(ready') = ToSet(unacked[g]) \cup ToSet(ready)
         /\ redelivered' = redelivered \cup ToSet(unacked[g])
         /\ RepeatsIn(ready, redelivered) => RepeatsIn(ready', redelivered')
<1>1. /\ ready \in Seq(Notifs) /\ unacked[g] \in Seq(Notifs) /\ unacked \in [Gateways -> Seq(Notifs)]
      /\ ready' = unacked[g] \o ready /\ unacked' = [unacked EXCEPT ![g] = <<>>]
      /\ redelivered' = redelivered \cup ToSet(unacked[g]) /\ UNCHANGED dead
  BY SameOperators DEF Queue!TypeOK, Queue!Release
<1>2. ready' \in Seq(Notifs) /\ ToSet(ready') = ToSet(unacked[g]) \cup ToSet(ready)
  BY <1>1, ConcatMembers
<1>3. ToSet(unacked[g]) \subseteq Notifs
  BY <1>1 DEF ToSet
<1>4. Queue!TypeOK'
  BY <1>1, <1>2, <1>3, Singletons DEF Queue!TypeOK
<1>5. ASSUME RepeatsIn(ready, redelivered) PROVE RepeatsIn(ready', redelivered')
  <2>1. CASE unacked[g] = <<>>
    <3>1. ready' = ready
      BY <1>1, <2>1
    <3> QED
      BY <1>1, <1>5, <3>1, RepeatsKept
  <2>2. CASE unacked[g] = <<n>>
    <3>1. n \in redelivered'
      BY <1>1, <2>2, Singletons
    <3>2. /\ ready'[1] = n
          /\ \A i \in DOMAIN ready' : i # 1 => i - 1 \in DOMAIN ready /\ ready'[i] = ready[i - 1]
      BY <1>1, <2>2
    <3>3. \A i, j \in DOMAIN ready' : i # j => i - 1 # j - 1
      BY <1>2
    <3> SUFFICES ASSUME NEW i \in DOMAIN ready', NEW j \in DOMAIN ready', i # j, ready'[i] = ready'[j]
                 PROVE  ready'[i] \in redelivered'
      BY DEF RepeatsIn
    <3>4. CASE i = 1 \/ j = 1
      BY <3>1, <3>2, <3>4
    <3>5. CASE i # 1 /\ j # 1
      <4>1. ready[i - 1] \in redelivered
        BY <1>5, <3>2, <3>3, <3>5 DEF RepeatsIn
      <4> QED
        BY <1>1, <3>2, <3>5, <4>1
    <3> QED
      BY <3>4, <3>5
  <2> QED
    BY <2>1, <2>2
<1> QED
  BY <1>1, <1>2, <1>4, <1>5

--------------------------------------------------------------------------------
(* The inductive invariant *)

Busy(g) == pc[g] \in {"publish", "append", "settle"}

\* A handler's message is the one its consumer holds, unless the connection was
\* lost meanwhile: then the broker has taken it back.
Hands ==
  \A g \in Gateways :
    /\ Busy(g) =>
         /\ handling[g] \in Notifs
         /\ cut[g] => handling[g] \in redelivered
         /\ unacked[g] = IF cut[g] THEN <<>> ELSE <<handling[g]>>
    /\ ~Busy(g) => handling[g] = NoOne /\ unacked[g] = <<>>

\* A handler about to acknowledge has recorded its message, or failed to.
SettlersKnow ==
  \A g \in Gateways :
    pc[g] = "settle" => Recorded(handling[g]) \/ handling[g] \in unwritten

InStream(n) == n \in ToSet(stream[To[n]])

\* A message that never went back to the queue is in one place at a time: not sent
\* yet, ready, in the hands of one handler that has not recorded it, or recorded.
OnePlace ==
  \A n \in Notifs \ redelivered :
    /\ n \notin sent => n \notin ToSet(ready) /\ ~InStream(n) /\ \A g \in Gateways : handling[g] # n
    /\ n \in ToSet(ready) => ~InStream(n) /\ \A g \in Gateways : handling[g] # n
    /\ \A g, h \in Gateways : handling[g] = n /\ handling[h] = n => g = h
    /\ InStream(n) => \A g \in Gateways : handling[g] = n => pc[g] = "settle"

\* Only what went back to the queue is twice in it, or twice in a stream.
QueueRepeats ==
  /\ RepeatsIn(ready, redelivered)
  /\ \A u \in Users : RepeatsIn(stream[u], redelivered) /\ \A n \in ToSet(stream[u]) : To[n] = u

PageRepeats(p) == RepeatsIn(answer[p], redelivered) /\ RepeatsIn(list[p], redelivered)

\* What has reached a page or can still reach it, and what need not.
Accounted(p) == ToSet(inbox[p]) \cup ToSet(answer[p]) \cup ToSet(list[p]) \cup missed[p]

\* Once the history is read, every recent entry is accounted for; one that a
\* handler is about to add is so already, by the push that came first.
PageKnows(p) ==
  /\ Len(answer[p]) <= HistoryLimit
  /\ history[p] # "answered" => answer[p] = <<>>
  /\ history[p] # "asked" => ToSet(Recent(stream[Owner[p]])) \subseteq Accounted(p)
  /\ \A g \in Gateways :
       pc[g] = "append" /\ To[handling[g]] = Owner[p] => handling[g] \in Accounted(p)

BridgeInv == Hands /\ SettlersKnow /\ HistoryIsComplete /\ OnePlace /\ QueueRepeats

PageInv == \A p \in Pages : PageRepeats(p) /\ PageKnows(p)

IInv == TypeOK /\ BridgeInv /\ PageInv

LEMMA RepeatsMeans ==
  ASSUME TypeOK
  PROVE  RepeatsNeedRedelivery <=> \A p \in Pages : RepeatsIn(list[p], redelivered)
<1>1. \A p \in Pages : DOMAIN list[p] = 1 .. Len(list[p])
  BY DEF TypeOK
<1> QED
  BY <1>1, Zenon DEF RepeatsNeedRedelivery, RepeatsIn

--------------------------------------------------------------------------------
(* Type correctness *)

LEMMA Numbers ==
  /\ StreamMaxLen \in Nat \ {0} /\ HistoryLimit \in Nat \ {0} /\ ListLimit \in Nat \ {0}
  /\ ListLimit <= HistoryLimit
BY Limits

LEMMA InitHolds == Init => IInv
<1> SUFFICES ASSUME Init PROVE IInv
  OBVIOUS
<1>1. /\ ready = <<>> /\ unacked = [g \in Gateways |-> <<>>] /\ dead = {} /\ redelivered = {}
  BY DEF Init, Queue!Init
<1>2. /\ sent = {} /\ accepted = {} /\ pc = [g \in Gateways |-> "idle"]
      /\ handling = [g \in Gateways |-> NoOne] /\ stream = [u \in Users |-> <<>>]
      /\ stopping = [g \in Gateways |-> FALSE] /\ cut = [g \in Gateways |-> FALSE]
  BY DEF Init
<1>3. /\ via = [p \in Pages |-> NoOne] /\ inbox = [p \in Pages |-> <<>>]
      /\ history = [p \in Pages |-> "asked"] /\ answer = [p \in Pages |-> <<>>]
      /\ list = [p \in Pages |-> <<>>] /\ unwritten = {} /\ missed = [p \in Pages |-> {}]
  BY DEF Init
<1>4. TypeOK
  <2>1. Queue!TypeOK
    BY <1>1, Singletons DEF Queue!TypeOK
  <2>2. \A p \in Pages : Len(list[p]) <= HistoryLimit
    BY <1>3, Singletons, Numbers
  <2> QED
    BY <1>2, <1>3, <2>1, <2>2, Singletons DEF TypeOK
<1>5. Hands /\ SettlersKnow
  BY <1>1, <1>2 DEF Hands, SettlersKnow, Busy
<1>6. HistoryIsComplete
  BY <1>2 DEF HistoryIsComplete
<1>7. \A known : RepeatsIn(<<>>, known)
  BY DEF RepeatsIn
<1>8. \A n \in Notifs : To[n] \in Users /\ ~InStream(n)
  BY <1>2, Addressed, Singletons DEF InStream
<1>9. OnePlace
  BY <1>1, <1>2, <1>8, Singletons, NoOneIsNobody DEF OnePlace
<1>10. QueueRepeats
  BY <1>1, <1>2, <1>7, Singletons DEF QueueRepeats
<1>11. PageInv
  BY <1>2, <1>3, <1>7, Singletons, Numbers DEF PageInv, PageRepeats, PageKnows
<1> QED
  BY <1>4, <1>5, <1>6, <1>9, <1>10, <1>11 DEF IInv, BridgeInv

\* The types, apart: what the queue's lemmas give, the bridge's and the pages'.
BridgeTyped ==
  /\ sent \subseteq Notifs /\ accepted \subseteq sent
  /\ pc \in [Gateways -> {"off", "idle", "publish", "append", "settle", "deaf"}]
  /\ handling \in [Gateways -> Notifs \cup {NoOne}]
  /\ stopping \in [Gateways -> BOOLEAN] /\ cut \in [Gateways -> BOOLEAN]
  /\ stream \in [Users -> Seq(Notifs)] /\ unwritten \subseteq Notifs

PagesTyped ==
  /\ via \in [Pages -> Gateways \cup {NoOne}]
  /\ inbox \in [Pages -> Seq(Notifs)]
  /\ history \in [Pages -> {"asked", "answered", "done", "failed"}]
  /\ answer \in [Pages -> Seq(Notifs)]
  /\ list \in [Pages -> Seq(Notifs)] /\ \A p \in Pages : Len(list[p]) <= HistoryLimit
  /\ missed \in [Pages -> SUBSET Notifs]

LEMMA TypesSplit ==
  /\ TypeOK <=> Queue!TypeOK /\ BridgeTyped /\ PagesTyped
  /\ TypeOK' <=> Queue!TypeOK' /\ BridgeTyped' /\ PagesTyped'
BY DEF TypeOK, BridgeTyped, PagesTyped

LEMMA PagesTypedSame == ASSUME PagesTyped, UNCHANGED pageVars PROVE PagesTyped'
BY DEF PagesTyped, pageVars

LEMMA BridgeTypedSame ==
  ASSUME BridgeTyped, UNCHANGED <<senderVars, bridgeVars, stream, unwritten>> PROVE BridgeTyped'
BY DEF BridgeTyped, senderVars, bridgeVars

\* What a handler at work has in hand.
LEMMA InHand ==
  ASSUME TypeOK, Hands, NEW g \in Gateways
  PROVE  /\ pc[g] \in {"publish", "append", "settle"} =>
              handling[g] \in Notifs /\ To[handling[g]] \in Users
         /\ unacked[g] \in {<<>>, <<handling[g]>>}
         /\ ~cut[g] /\ Busy(g) => unacked[g] = <<handling[g]>>
         /\ cut[g] \/ ~Busy(g) => unacked[g] = <<>>
         /\ pc[g] = "idle" => unacked[g] = <<>>
BY Addressed DEF Hands, Busy

--------------------------------------------------------------------------------
(* The bridge: one lemma for each kind of step *)

LEMMA RecordedSame == ASSUME UNCHANGED stream PROVE \A n : Recorded(n)' <=> Recorded(n)
BY DEF Recorded

LEMMA InStreamSame == ASSUME UNCHANGED stream PROVE \A n : InStream(n)' <=> InStream(n)
BY DEF InStream

LEMMA StreamsRepeatSame ==
  ASSUME QueueRepeats, UNCHANGED stream, redelivered \subseteq redelivered', RepeatsIn(ready', redelivered')
  PROVE  QueueRepeats'
BY RepeatsKept DEF QueueRepeats

LEMMA BridgeSame ==
  ASSUME TypeOK, BridgeInv,
         UNCHANGED <<queueVars, sent, accepted, pc, handling, cut, stream, unwritten>>
  PROVE  Queue!TypeOK' /\ BridgeInv'
<1> USE DEF BridgeInv
<1>1. UNCHANGED <<ready, unacked, dead, redelivered>>
  BY DEF queueVars
<1>2. Queue!TypeOK'
  BY TypesSplit, QueueSame
<1>3. Hands' /\ SettlersKnow'
  BY <1>1, RecordedSame DEF Hands, SettlersKnow, Busy
<1>4. HistoryIsComplete'
  BY <1>1, RecordedSame, WaitingHere DEF HistoryIsComplete
<1>5. OnePlace'
  BY <1>1, InStreamSame DEF OnePlace
<1>6. QueueRepeats'
  BY <1>1 DEF QueueRepeats
<1> QED
  BY <1>2, <1>3, <1>4, <1>5, <1>6

LEMMA SendKeeps ==
  ASSUME TypeOK, BridgeInv, NEW n \in Notifs, Send(n)
  PROVE  Queue!TypeOK' /\ BridgeTyped' /\ BridgeInv'
<1> USE DEF BridgeInv
<1>1. /\ n \notin sent /\ sent' = sent \cup {n}
      /\ UNCHANGED <<pc, handling, stopping, cut, stream, unwritten>>
  BY DEF Send, bridgeVars
<1>2. Queue!TypeOK /\ BridgeTyped
  BY TypesSplit
<1>3. n \notin redelivered => n \notin ToSet(ready)
  BY <1>1 DEF OnePlace
<1>4. CASE Queue!Enqueue(n) /\ accepted' = accepted \cup {n}
  <2>1. /\ Queue!TypeOK' /\ UNCHANGED <<unacked, redelivered>>
        /\ ToSet(ready') = ToSet(ready) \cup {n} /\ RepeatsIn(ready', redelivered')
    BY <1>2, <1>3, <1>4, Enqueued DEF QueueRepeats
  <2>2. BridgeTyped'
    BY <1>1, <1>2, <1>4 DEF BridgeTyped
  <2>3. Hands' /\ SettlersKnow'
    BY <1>1, <2>1, RecordedSame DEF Hands, SettlersKnow, Busy
  <2>4. HistoryIsComplete'
    BY <1>1, <1>4, <2>1, RecordedSame, WaitingHere DEF HistoryIsComplete
  <2>5. OnePlace'
    BY <1>1, <2>1, InStreamSame DEF OnePlace
  <2>6. QueueRepeats'
    BY <1>1, <2>1, StreamsRepeatSame
  <2> QED
    BY <2>1, <2>2, <2>3, <2>4, <2>5, <2>6
<1>5. CASE UNCHANGED <<queueVars, accepted>>
  <2>1. UNCHANGED <<ready, unacked, dead, redelivered>>
    BY <1>5 DEF queueVars
  <2>2. Queue!TypeOK' /\ BridgeTyped'
    BY <1>1, <1>2, <1>5, QueueSame DEF BridgeTyped
  <2>3. Hands' /\ SettlersKnow'
    BY <1>1, <2>1, RecordedSame DEF Hands, SettlersKnow, Busy
  <2>4. HistoryIsComplete'
    BY <1>1, <1>5, <2>1, RecordedSame, WaitingHere DEF HistoryIsComplete
  <2>5. OnePlace'
    BY <1>1, <2>1, InStreamSame DEF OnePlace
  <2>6. QueueRepeats'
    BY <1>1, <2>1 DEF QueueRepeats
  <2> QED
    BY <2>2, <2>3, <2>4, <2>5, <2>6
<1> QED
  BY <1>4, <1>5 DEF Send

LEMMA TakeKeeps ==
  ASSUME TypeOK, BridgeInv, NEW g \in Gateways, Take(g)
  PROVE  Queue!TypeOK' /\ BridgeTyped' /\ BridgeInv'
<1> USE DEF BridgeInv
<1>1. PICK n \in Notifs : Queue!Dispatch(g, n) /\ handling' = [handling EXCEPT ![g] = n]
  BY DEF Take
<1>2. /\ pc[g] = "idle" /\ ~cut[g] /\ pc' = [pc EXCEPT ![g] = "publish"]
      /\ UNCHANGED <<sent, accepted, stopping, cut, stream, unwritten>>
  BY DEF Take, senderVars
<1>3. Queue!TypeOK /\ BridgeTyped
  BY TypesSplit
<1>4. unacked[g] = <<>>
  BY <1>2, InHand
<1>5. /\ Queue!TypeOK' /\ unacked' = [unacked EXCEPT ![g] = <<n>>] /\ UNCHANGED redelivered
      /\ ToSet(ready) = {n} \cup ToSet(ready')
      /\ RepeatsIn(ready', redelivered) /\ (n \in ToSet(ready') => n \in redelivered)
  BY <1>1, <1>3, <1>4, Dispatched DEF QueueRepeats
<1>6. /\ \A h \in Gateways : pc'[h] = IF h = g THEN "publish" ELSE pc[h]
      /\ \A h \in Gateways : handling'[h] = IF h = g THEN n ELSE handling[h]
      /\ \A h \in Gateways : unacked'[h] = IF h = g THEN <<n>> ELSE unacked[h]
  BY <1>1, <1>2, <1>3, <1>5 DEF BridgeTyped, Queue!TypeOK
<1>7. BridgeTyped'
  BY <1>1, <1>2, <1>3 DEF BridgeTyped
<1>8. Hands'
  BY <1>2, <1>5, <1>6 DEF Hands, Busy
<1>9. SettlersKnow'
  BY <1>2, <1>6, RecordedSame DEF SettlersKnow
<1>10. HistoryIsComplete'
  <2>1. \A m : Queue!Waiting(m) => Queue!Waiting(m)'
    BY <1>4, <1>5, <1>6, Singletons, WaitingHere
  <2> QED
    BY <1>2, <2>1, RecordedSame DEF HistoryIsComplete
<1>11. OnePlace'
  <2> SUFFICES ASSUME NEW m \in Notifs \ redelivered
               PROVE  /\ m \notin sent => /\ m \notin ToSet(ready') /\ ~InStream(m)
                                          /\ \A h \in Gateways : handling'[h] # m
                      /\ m \in ToSet(ready') => ~InStream(m) /\ \A h \in Gateways : handling'[h] # m
                      /\ \A h, k \in Gateways : handling'[h] = m /\ handling'[k] = m => h = k
                      /\ InStream(m) => \A h \in Gateways : handling'[h] = m => pc'[h] = "settle"
    BY <1>2, <1>5, InStreamSame DEF OnePlace
  <2>1. CASE m = n
    BY <1>5, <1>6, <2>1 DEF OnePlace
  <2>2. CASE m # n
    BY <1>5, <1>6, <2>2 DEF OnePlace
  <2> QED
    BY <2>1, <2>2
<1>12. QueueRepeats'
  BY <1>2, <1>5, StreamsRepeatSame
<1> QED
  BY <1>5, <1>7, <1>8, <1>9, <1>10, <1>11, <1>12

\* PUBLISH, done or failed: the message stays in hand.
LEMMA PublishedKeeps ==
  ASSUME TypeOK, BridgeInv, NEW g \in Gateways, pc[g] = "publish",
         pc' = [pc EXCEPT ![g] = "append"],
         UNCHANGED <<queueVars, senderVars, handling, stopping, cut, stream, unwritten>>
  PROVE  Queue!TypeOK' /\ BridgeTyped' /\ BridgeInv'
<1> USE DEF BridgeInv
<1>1. UNCHANGED <<ready, unacked, dead, redelivered, sent, accepted>>
  BY DEF queueVars, senderVars
<1>2. Queue!TypeOK /\ BridgeTyped
  BY TypesSplit
<1>3. \A h \in Gateways : pc'[h] = IF h = g THEN "append" ELSE pc[h]
  BY <1>2 DEF BridgeTyped
<1>4. Queue!TypeOK' /\ BridgeTyped'
  BY <1>1, <1>2, QueueSame DEF BridgeTyped
<1>5. Hands'
  BY <1>1, <1>3 DEF Hands, Busy
<1>6. SettlersKnow'
  BY <1>3, RecordedSame DEF SettlersKnow
<1>7. HistoryIsComplete'
  BY <1>1, RecordedSame, WaitingHere DEF HistoryIsComplete
<1>8. OnePlace'
  BY <1>1, <1>3, InStreamSame DEF OnePlace
<1>9. QueueRepeats'
  BY <1>1 DEF QueueRepeats
<1> QED
  BY <1>4, <1>5, <1>6, <1>7, <1>8, <1>9

\* Run returns, or a process starts: nothing was in hand.
LEMMA RestKeeps ==
  ASSUME TypeOK, BridgeInv, NEW g \in Gateways, ~Busy(g),
         NEW to \in {"idle", "deaf"}, pc' = [pc EXCEPT ![g] = to],
         UNCHANGED <<queueVars, senderVars, handling, stopping, cut, stream, unwritten>>
  PROVE  Queue!TypeOK' /\ BridgeTyped' /\ BridgeInv'
<1> USE DEF BridgeInv
<1>1. UNCHANGED <<ready, unacked, dead, redelivered, sent, accepted>>
  BY DEF queueVars, senderVars
<1>2. Queue!TypeOK /\ BridgeTyped
  BY TypesSplit
<1>3. \A h \in Gateways : pc'[h] = IF h = g THEN to ELSE pc[h]
  BY <1>2 DEF BridgeTyped
<1>4. Queue!TypeOK' /\ BridgeTyped'
  BY <1>1, <1>2, QueueSame DEF BridgeTyped
<1>5. Hands'
  BY <1>1, <1>3 DEF Hands, Busy
<1>6. SettlersKnow'
  BY <1>3, RecordedSame DEF SettlersKnow
<1>7. HistoryIsComplete'
  BY <1>1, RecordedSame, WaitingHere DEF HistoryIsComplete
<1>8. OnePlace'
  BY <1>1, <1>3, InStreamSame DEF OnePlace, Busy
<1>9. QueueRepeats'
  BY <1>1 DEF QueueRepeats
<1> QED
  BY <1>4, <1>5, <1>6, <1>7, <1>8, <1>9

\* What XADD leaves of a stream: the entry is in it, what was recorded stays so,
\* and nothing else is new.
LEMMA StreamAfterAppend ==
  ASSUME TypeOK, BridgeInv, NEW g \in Gateways, AppendEntry(g)
  PROVE  LET n == handling[g]  u == To[handling[g]] IN
         /\ n \in Notifs /\ u \in Users /\ stream' \in [Users -> Seq(Notifs)]
         /\ \A v \in Users : v # u => stream'[v] = stream[v]
         /\ n \in ToSet(stream'[u]) /\ ToSet(stream'[u]) \subseteq ToSet(stream[u]) \cup {n}
         /\ ToSet(stream[u]) \subseteq ToSet(stream'[u]) \/ Len(stream'[u]) >= StreamMaxLen
         /\ Len(stream[u]) >= StreamMaxLen => Len(stream'[u]) >= StreamMaxLen
         /\ RepeatsIn(stream'[u], redelivered)
         /\ ToSet(Recent(stream'[u])) \subseteq ToSet(Recent(stream[u])) \cup {n}
<1> DEFINE n == handling[g]  u == To[handling[g]]  longer == Append(stream[u], n)
<1>1. pc[g] = "append" /\ Hands /\ OnePlace /\ QueueRepeats
  BY DEF AppendEntry, BridgeInv
<1>2. n \in Notifs /\ u \in Users /\ stream \in [Users -> Seq(Notifs)] /\ stream[u] \in Seq(Notifs)
  BY <1>1, InHand DEF TypeOK
<1>3. PICK kept \in 1 .. Len(longer) :
        /\ kept = Len(longer) \/ kept >= StreamMaxLen
        /\ stream' = [stream EXCEPT ![u] = SubSeq(longer, Len(longer) - kept + 1, Len(longer))]
  BY DEF AppendEntry
<1>4. longer \in Seq(Notifs) /\ Len(longer) = Len(stream[u]) + 1
  BY <1>2
<1>5. RepeatsIn(stream[u], redelivered) /\ (n \in ToSet(stream[u]) => n \in redelivered)
  BY <1>1, <1>2 DEF QueueRepeats, OnePlace, InStream
<1>6. stream'[u] = SubSeq(longer, Len(longer) - kept + 1, Len(longer))
  BY <1>2, <1>3
<1>7. /\ stream'[u] \in Seq(Notifs) /\ Len(stream'[u]) = kept
      /\ n \in ToSet(stream'[u]) /\ ToSet(stream'[u]) \subseteq ToSet(stream[u]) \cup {n}
      /\ kept = Len(stream[u]) + 1 => ToSet(stream[u]) \subseteq ToSet(stream'[u])
      /\ RepeatsIn(stream'[u], redelivered)
      /\ ToSet(Recent(stream'[u])) \subseteq ToSet(Recent(stream[u])) \cup {n}
  <2>1. IsLonger(longer, stream[u], n) /\ kept \in 1 .. Len(stream[u]) + 1
    BY <1>2, <1>4, AppendIsLonger
  <2>2. IsEnd(stream'[u], longer, kept)
    BY <1>4, <1>6, SuffixIsEnd
  <2> HIDE DEF longer
  <2> HIDE DEF n, u
  <2>3. PICK old, new, all, t :
          /\ old \in Seq(Notifs) /\ new \in Notifs
          /\ old = stream[u] /\ new = n /\ t = stream'[u]
          /\ IsLonger(all, old, new) /\ IsEnd(t, all, kept) /\ kept \in 1 .. Len(old) + 1
    BY <1>2, <2>1, <2>2
  <2>4. RepeatsIn(old, redelivered) /\ (new \in ToSet(old) => new \in redelivered)
    BY <1>5, <2>3
  <2>5. new \in ToSet(t) /\ ToSet(t) \subseteq ToSet(old) \cup {new}
    BY <2>3, <2>4, EntryAdded
  <2>6. kept = Len(old) + 1 => ToSet(old) \subseteq ToSet(t)
    BY <2>3, <2>4, EntryAdded
  <2>7. RepeatsIn(t, redelivered)
    BY <2>3, <2>4, EntryAdded
  <2>8. ToSet(Recent(t)) \subseteq ToSet(Recent(old)) \cup {new}
    BY <2>3, <2>4, EntryAdded
  <2> QED
    BY <2>3, <2>5, <2>6, <2>7, <2>8 DEF IsEnd
<1>9. stream' \in [Users -> Seq(Notifs)] /\ \A v \in Users : v # u => stream'[v] = stream[v]
  BY <1>2, <1>3, <1>6, <1>7
<1>10. Len(stream'[u]) = Len(stream[u]) + 1 \/ Len(stream'[u]) >= StreamMaxLen
  BY <1>3, <1>4, <1>7
<1>11. Len(stream[u]) >= StreamMaxLen => Len(stream'[u]) >= StreamMaxLen
  BY <1>2, <1>10, Numbers
<1>12. ToSet(stream[u]) \subseteq ToSet(stream'[u]) \/ Len(stream'[u]) >= StreamMaxLen
  BY <1>7, <1>10
<1> HIDE DEF n, u
<1>13. /\ n \in Notifs /\ u \in Users /\ stream' \in [Users -> Seq(Notifs)]
       /\ \A v \in Users : v # u => stream'[v] = stream[v]
       /\ n \in ToSet(stream'[u]) /\ ToSet(stream'[u]) \subseteq ToSet(stream[u]) \cup {n}
       /\ ToSet(stream[u]) \subseteq ToSet(stream'[u]) \/ Len(stream'[u]) >= StreamMaxLen
       /\ Len(stream[u]) >= StreamMaxLen => Len(stream'[u]) >= StreamMaxLen
       /\ RepeatsIn(stream'[u], redelivered)
       /\ ToSet(Recent(stream'[u])) \subseteq ToSet(Recent(stream[u])) \cup {n}
  BY <1>2, <1>7, <1>9, <1>11, <1>12
<1> QED
  BY <1>13 DEF n, u

LEMMA AppendKeeps ==
  ASSUME TypeOK, BridgeInv, NEW g \in Gateways, AppendEntry(g)
  PROVE  Queue!TypeOK' /\ BridgeTyped' /\ BridgeInv'
<1> USE DEF BridgeInv
<1> DEFINE n == handling[g]  u == To[handling[g]]
<1>1. /\ pc[g] = "append" /\ pc' = [pc EXCEPT ![g] = "settle"]
      /\ UNCHANGED <<queueVars, ready, unacked, dead, redelivered, sent, accepted>>
      /\ UNCHANGED <<handling, stopping, cut, unwritten>>
  BY DEF AppendEntry, queueVars, senderVars
<1>2. Queue!TypeOK /\ BridgeTyped /\ PagesTyped
  BY TypesSplit
<1>3. /\ n \in Notifs /\ u \in Users /\ stream' \in [Users -> Seq(Notifs)]
      /\ \A v \in Users : v # u => stream'[v] = stream[v]
      /\ n \in ToSet(stream'[u]) /\ ToSet(stream'[u]) \subseteq ToSet(stream[u]) \cup {n}
      /\ ToSet(stream[u]) \subseteq ToSet(stream'[u]) \/ Len(stream'[u]) >= StreamMaxLen
      /\ Len(stream[u]) >= StreamMaxLen => Len(stream'[u]) >= StreamMaxLen
      /\ RepeatsIn(stream'[u], redelivered)
  BY StreamAfterAppend
<1>4. \A h \in Gateways : pc'[h] = IF h = g THEN "settle" ELSE pc[h]
  BY <1>1, <1>2 DEF BridgeTyped
<1>5. Queue!TypeOK' /\ BridgeTyped'
  <2> HIDE DEF n, u
  <2> QED
    BY <1>1, <1>2, <1>3, QueueSame DEF BridgeTyped
<1>6. Hands'
  BY <1>1, <1>4 DEF Hands, Busy
<1>7. u = To[n] /\ \A m \in Notifs : To[m] \in Users
  BY Addressed
<1>8. n = handling[g]
  OBVIOUS
<1> HIDE DEF n, u
<1>9. \A m \in Notifs : Recorded(m) => Recorded(m)'
  BY <1>3, <1>7 DEF Recorded
<1>10. \A m \in Notifs : m = n => Recorded(m)'
  BY <1>3, <1>7 DEF Recorded
<1>11. \A m \in Notifs : m # n => (InStream(m)' => InStream(m))
  BY <1>3, <1>7 DEF InStream
<1>12. SettlersKnow'
  <2>1. \A h \in Gateways : pc[h] = "settle" => handling[h] \in Notifs
    BY InHand
  <2> QED
    BY <1>1, <1>3, <1>4, <1>8, <1>9, <1>10, <2>1 DEF SettlersKnow
<1>13. HistoryIsComplete'
  BY <1>1, <1>2, <1>9, WaitingHere DEF HistoryIsComplete, BridgeTyped
<1>14. OnePlace'
  BY <1>1, <1>4, <1>8, <1>11 DEF OnePlace
<1>15. QueueRepeats'
  BY <1>1, <1>3, <1>7 DEF QueueRepeats
<1> QED
  BY <1>5, <1>6, <1>12, <1>13, <1>14, <1>15

LEMMA AppendFailsKeeps ==
  ASSUME TypeOK, BridgeInv, NEW g \in Gateways, AppendFails(g)
  PROVE  Queue!TypeOK' /\ BridgeTyped' /\ BridgeInv'
<1> USE DEF BridgeInv
<1>1. /\ pc[g] = "append" /\ pc' = [pc EXCEPT ![g] = "settle"]
      /\ unwritten' = unwritten \cup {handling[g]}
      /\ UNCHANGED <<queueVars, ready, unacked, dead, redelivered, sent, accepted>>
      /\ UNCHANGED <<handling, stopping, cut, stream>>
  BY DEF AppendFails, queueVars, senderVars
<1>2. Queue!TypeOK /\ BridgeTyped /\ handling[g] \in Notifs
  BY <1>1, TypesSplit, InHand
<1>3. \A h \in Gateways : pc'[h] = IF h = g THEN "settle" ELSE pc[h]
  BY <1>1, <1>2 DEF BridgeTyped
<1>4. Queue!TypeOK' /\ BridgeTyped'
  BY <1>1, <1>2, QueueSame DEF BridgeTyped
<1>5. Hands'
  BY <1>1, <1>3 DEF Hands, Busy
<1>6. SettlersKnow'
  BY <1>1, <1>3, RecordedSame DEF SettlersKnow
<1>7. HistoryIsComplete'
  BY <1>1, RecordedSame, WaitingHere DEF HistoryIsComplete
<1>8. OnePlace'
  BY <1>1, <1>3, InStreamSame DEF OnePlace
<1>9. QueueRepeats'
  BY <1>1 DEF QueueRepeats
<1> QED
  BY <1>4, <1>5, <1>6, <1>7, <1>8, <1>9

LEMMA SettleKeeps ==
  ASSUME TypeOK, BridgeInv, NEW g \in Gateways, Settle(g)
  PROVE  Queue!TypeOK' /\ BridgeTyped' /\ BridgeInv'
<1> USE DEF BridgeInv
<1>1. /\ pc[g] = "settle" /\ pc' = [pc EXCEPT ![g] = "idle"]
      /\ handling' = [handling EXCEPT ![g] = NoOne]
      /\ UNCHANGED <<sent, accepted, stopping, cut, stream, unwritten>>
  BY DEF Settle, senderVars
<1>2. Queue!TypeOK /\ BridgeTyped /\ handling[g] \in Notifs
  BY <1>1, TypesSplit, InHand
<1>3. /\ Queue!TypeOK' /\ UNCHANGED <<ready, redelivered>>
      /\ unacked' = [unacked EXCEPT ![g] = <<>>]
      /\ ToSet(unacked[g]) \subseteq {handling[g]}
  <2>1. CASE cut[g]
    <3>1. unacked[g] = <<>> /\ UNCHANGED queueVars
      BY <1>1, <2>1, InHand DEF Settle, Acknowledged
    <3>2. UNCHANGED <<ready, unacked, redelivered>> /\ Queue!TypeOK'
      BY <1>2, <3>1, QueueSame DEF queueVars
    <3> QED
      BY <1>2, <3>1, <3>2, Singletons DEF Queue!TypeOK
  <2>2. CASE ~cut[g]
    <3>1. unacked[g] = <<handling[g]>> /\ Queue!Ack(g, handling[g])
      BY <1>1, <2>2, InHand DEF Settle, Acknowledged, Busy
    <3> QED
      BY <1>2, <3>1, Acked, Singletons
  <2> QED
    BY <2>1, <2>2
<1>4. /\ \A h \in Gateways : pc'[h] = IF h = g THEN "idle" ELSE pc[h]
      /\ \A h \in Gateways : handling'[h] = IF h = g THEN NoOne ELSE handling[h]
      /\ \A h \in Gateways : unacked'[h] = IF h = g THEN <<>> ELSE unacked[h]
  BY <1>1, <1>2, <1>3 DEF BridgeTyped, Queue!TypeOK
<1>5. BridgeTyped'
  BY <1>1, <1>2 DEF BridgeTyped
<1>6. Hands'
  BY <1>1, <1>3, <1>4 DEF Hands, Busy
<1>7. SettlersKnow'
  BY <1>1, <1>4, RecordedSame DEF SettlersKnow
<1>8. HistoryIsComplete'
  <2>1. \A n : n # handling[g] /\ Queue!Waiting(n) => Queue!Waiting(n)'
    BY <1>3, <1>4, WaitingHere
  <2>2. Recorded(handling[g]) \/ handling[g] \in unwritten
    BY <1>1 DEF SettlersKnow
  <2> QED
    BY <1>1, <2>1, <2>2, RecordedSame DEF HistoryIsComplete
<1>9. OnePlace'
  BY <1>1, <1>3, <1>4, InStreamSame, NoOneIsNobody DEF OnePlace
<1>10. QueueRepeats'
  BY <1>1, <1>3 DEF QueueRepeats
<1> QED
  BY <1>3, <1>5, <1>6, <1>7, <1>8, <1>9, <1>10

\* The broker takes back what a gateway holds.
LEMMA GivenBack ==
  ASSUME TypeOK, BridgeInv, NEW g \in Gateways, Queue!Release(g)
  PROVE  /\ Queue!TypeOK' /\ unacked' = [unacked EXCEPT ![g] = <<>>]
         /\ ToSet(ready') = ToSet(unacked[g]) \cup ToSet(ready)
         /\ redelivered' = redelivered \cup ToSet(unacked[g])
         /\ RepeatsIn(ready', redelivered')
         /\ \A n : Queue!Waiting(n) => Queue!Waiting(n)'
         /\ ToSet(unacked[g]) \subseteq {handling[g]}
<1>1. unacked[g] \in {<<>>, <<handling[g]>>} /\ Queue!TypeOK /\ RepeatsIn(ready, redelivered)
  BY InHand, TypesSplit DEF BridgeInv, QueueRepeats
<1>2. /\ Queue!TypeOK' /\ unacked' = [unacked EXCEPT ![g] = <<>>]
      /\ ToSet(ready') = ToSet(unacked[g]) \cup ToSet(ready)
      /\ redelivered' = redelivered \cup ToSet(unacked[g])
      /\ RepeatsIn(ready', redelivered')
  BY <1>1, Released
<1>3. \A h \in Gateways : unacked'[h] = IF h = g THEN <<>> ELSE unacked[h]
  BY <1>1, <1>2 DEF Queue!TypeOK
<1>4. \A n : Queue!Waiting(n) => Queue!Waiting(n)'
  BY <1>2, <1>3, WaitingHere
<1>5. ToSet(unacked[g]) \subseteq {handling[g]}
  BY <1>1, Singletons
<1> QED
  BY <1>2, <1>4, <1>5

LEMMA CutKeeps ==
  ASSUME TypeOK, BridgeInv, NEW g \in Gateways, Cut(g)
  PROVE  Queue!TypeOK' /\ BridgeTyped' /\ BridgeInv'
<1> USE DEF BridgeInv
<1>1. /\ Queue!Release(g) /\ ~cut[g] /\ cut' = [cut EXCEPT ![g] = TRUE]
      /\ UNCHANGED <<sent, accepted, pc, handling, stopping, stream, unwritten>>
  BY DEF Cut, senderVars
<1>2. Queue!TypeOK /\ BridgeTyped
  BY TypesSplit
<1>3. /\ Queue!TypeOK' /\ unacked' = [unacked EXCEPT ![g] = <<>>]
      /\ ToSet(ready') = ToSet(unacked[g]) \cup ToSet(ready)
      /\ redelivered' = redelivered \cup ToSet(unacked[g])
      /\ RepeatsIn(ready', redelivered')
      /\ \A n : Queue!Waiting(n) => Queue!Waiting(n)'
      /\ ToSet(unacked[g]) \subseteq {handling[g]}
  BY <1>1, GivenBack
<1>4. /\ \A h \in Gateways : cut'[h] = IF h = g THEN TRUE ELSE cut[h]
      /\ \A h \in Gateways : unacked'[h] = IF h = g THEN <<>> ELSE unacked[h]
  BY <1>1, <1>2, <1>3 DEF BridgeTyped, Queue!TypeOK
<1>5. BridgeTyped'
  BY <1>1, <1>2 DEF BridgeTyped
<1>6. Busy(g) => handling[g] \in redelivered'
  BY <1>1, <1>3, InHand, Singletons
<1>7. Hands'
  BY <1>1, <1>3, <1>4, <1>6 DEF Hands, Busy
<1>8. SettlersKnow'
  BY <1>1, RecordedSame DEF SettlersKnow
<1>9. HistoryIsComplete'
  BY <1>1, <1>3, RecordedSame DEF HistoryIsComplete
<1>10. OnePlace'
  BY <1>1, <1>3, InStreamSame DEF OnePlace
<1>11. QueueRepeats'
  BY <1>1, <1>3, StreamsRepeatSame
<1> QED
  BY <1>3, <1>5, <1>7, <1>8, <1>9, <1>10, <1>11

LEMMA EndedKeeps ==
  ASSUME TypeOK, BridgeInv, NEW g \in Gateways, Ended(g)
  PROVE  Queue!TypeOK' /\ BridgeTyped' /\ BridgeInv'
<1> USE DEF BridgeInv
<1>1. /\ pc' = [pc EXCEPT ![g] = "off"] /\ handling' = [handling EXCEPT ![g] = NoOne]
      /\ stopping' = [stopping EXCEPT ![g] = FALSE] /\ cut' = [cut EXCEPT ![g] = FALSE]
      /\ UNCHANGED <<sent, accepted, stream, unwritten>>
  BY DEF Ended, senderVars
<1>2. Queue!TypeOK /\ BridgeTyped
  BY TypesSplit
<1>3. /\ Queue!TypeOK' /\ unacked' = [unacked EXCEPT ![g] = <<>>]
      /\ ToSet(ready') = ToSet(unacked[g]) \cup ToSet(ready)
      /\ redelivered' = redelivered \cup ToSet(unacked[g])
      /\ RepeatsIn(ready', redelivered')
      /\ \A n : Queue!Waiting(n) => Queue!Waiting(n)'
      /\ ToSet(unacked[g]) \subseteq {handling[g]}
  <2>1. CASE cut[g]
    <3>1. unacked[g] = <<>> /\ UNCHANGED queueVars
      BY <2>1, InHand DEF Ended
    <3>2. UNCHANGED <<ready, unacked, redelivered>> /\ Queue!TypeOK'
      BY <1>2, <3>1, QueueSame DEF queueVars
    <3>3. RepeatsIn(ready', redelivered') /\ \A n : Queue!Waiting(n) => Queue!Waiting(n)'
      BY <3>2, WaitingHere DEF QueueRepeats
    <3>4. unacked' = [unacked EXCEPT ![g] = <<>>] /\ ToSet(unacked[g]) = {}
      BY <1>2, <3>1, <3>2, Singletons DEF Queue!TypeOK
    <3> QED
      BY <3>2, <3>3, <3>4
  <2>2. CASE ~cut[g]
    BY <2>2, GivenBack DEF Ended
  <2> QED
    BY <2>1, <2>2
<1>4. /\ \A h \in Gateways : pc'[h] = IF h = g THEN "off" ELSE pc[h]
      /\ \A h \in Gateways : handling'[h] = IF h = g THEN NoOne ELSE handling[h]
      /\ \A h \in Gateways : h # g => cut'[h] = cut[h]
      /\ \A h \in Gateways : unacked'[h] = IF h = g THEN <<>> ELSE unacked[h]
  BY <1>1, <1>2, <1>3 DEF BridgeTyped, Queue!TypeOK
<1>5. BridgeTyped'
  BY <1>1, <1>2 DEF BridgeTyped
<1>6. Hands'
  BY <1>1, <1>3, <1>4 DEF Hands, Busy
<1>7. SettlersKnow'
  BY <1>1, <1>4, RecordedSame DEF SettlersKnow
<1>8. HistoryIsComplete'
  BY <1>1, <1>3, RecordedSame DEF HistoryIsComplete
<1>9. OnePlace'
  BY <1>1, <1>3, <1>4, InStreamSame, NoOneIsNobody DEF OnePlace
<1>10. QueueRepeats'
  BY <1>1, <1>3, StreamsRepeatSame
<1> QED
  BY <1>3, <1>5, <1>6, <1>7, <1>8, <1>9, <1>10

--------------------------------------------------------------------------------
(* The pages *)

\* What a step keeps of a page whose list and history it leaves alone.
LEMMA PageSame ==
  ASSUME NEW p \in Pages, PageRepeats(p), PageKnows(p),
         history'[p] = history[p], answer'[p] = answer[p], list'[p] = list[p],
         UNCHANGED stream, redelivered \subseteq redelivered',
         Accounted(p) \subseteq Accounted(p)',
         \A g \in Gateways : pc'[g] = "append" => pc[g] = "append" /\ handling'[g] = handling[g]
  PROVE  PageRepeats(p)' /\ PageKnows(p)'
<1>1. PageRepeats(p)'
  BY RepeatsKept DEF PageRepeats
<1>2. PageKnows(p)'
  BY DEF PageKnows
<1> QED
  BY <1>1, <1>2

\* What the bridge keeps of every page when it leaves its stream alone.
LEMMA PagesSame ==
  ASSUME PageInv, PagesTyped, UNCHANGED <<pageVars, stream>>, redelivered \subseteq redelivered',
         \A g \in Gateways : pc'[g] = "append" => pc[g] = "append" /\ handling'[g] = handling[g]
  PROVE  PagesTyped' /\ PageInv'
<1>1. UNCHANGED <<inbox, history, answer, list, missed>>
  BY DEF pageVars
<1>2. ASSUME NEW p \in Pages PROVE PageRepeats(p)' /\ PageKnows(p)'
  BY <1>1, PageSame DEF PageInv, Accounted
<1> QED
  BY <1>2, PagesTypedSame DEF PageInv

\* A push reaches the pages that listen; for the others it is missed.
LEMMA PublishedPages ==
  ASSUME TypeOK, BridgeInv, PageInv, NEW g \in Gateways, pc[g] = "publish",
         pc' = [pc EXCEPT ![g] = "append"],
         UNCHANGED <<queueVars, handling, stream, via, history, answer, list>>,
         inbox' \in [Pages -> Seq(Notifs)], missed' \in [Pages -> SUBSET Notifs],
         \A p \in Pages : /\ ToSet(inbox[p]) \subseteq ToSet(inbox'[p]) /\ missed[p] \subseteq missed'[p]
                          /\ Owner[p] = To[handling[g]] =>
                               handling[g] \in ToSet(inbox'[p]) \cup missed'[p]
  PROVE  PagesTyped' /\ PageInv'
<1>1. PagesTyped /\ BridgeTyped /\ UNCHANGED redelivered
  BY TypesSplit DEF queueVars
<1>2. PagesTyped'
  BY <1>1 DEF PagesTyped
<1>3. \A h \in Gateways : pc'[h] = IF h = g THEN "append" ELSE pc[h]
  BY <1>1 DEF BridgeTyped
<1>4. ASSUME NEW p \in Pages PROVE PageRepeats(p)' /\ PageKnows(p)'
  <2>1. PageRepeats(p) /\ PageKnows(p)
    BY DEF PageInv
  <2>2. Accounted(p) \subseteq Accounted(p)'
    BY DEF Accounted
  <2>3. Owner[p] = To[handling[g]] => handling[g] \in Accounted(p)'
    BY DEF Accounted
  <2>4. PageRepeats(p)'
    BY <1>1, <2>1 DEF PageRepeats
  <2>5. PageKnows(p)'
    BY <1>3, <2>1, <2>2, <2>3 DEF PageKnows
  <2> QED
    BY <2>4, <2>5
<1> QED
  BY <1>2, <1>4 DEF PageInv

LEMMA PublishPages ==
  ASSUME TypeOK, BridgeInv, PageInv, NEW g \in Gateways, Publish(g)
  PROVE  PagesTyped' /\ PageInv'
<1> DEFINE n == handling[g]
<1>1. /\ pc[g] = "publish" /\ pc' = [pc EXCEPT ![g] = "append"]
      /\ inbox' = [p \in Pages |-> IF p \in Listening(n) THEN Append(inbox[p], n) ELSE inbox[p]]
      /\ missed' = [p \in Pages |-> IF Owner[p] = To[n] /\ via[p] = NoOne
                                    THEN missed[p] \cup {n} ELSE missed[p]]
      /\ UNCHANGED <<queueVars, handling, stream, via, history, answer, list>>
  BY DEF Publish, AfterPublish
<1>2. n \in Notifs /\ PagesTyped
  BY <1>1, InHand, TypesSplit DEF BridgeInv
<1> HIDE DEF n
<1>3. \A p \in Pages : /\ Append(inbox[p], n) \in Seq(Notifs)
                       /\ ToSet(Append(inbox[p], n)) = ToSet(inbox[p]) \cup {n}
  BY <1>2, AppendMembers DEF PagesTyped
<1>4. inbox' \in [Pages -> Seq(Notifs)] /\ missed' \in [Pages -> SUBSET Notifs]
  BY <1>1, <1>2, <1>3 DEF PagesTyped
<1>5. \A p \in Pages : /\ ToSet(inbox[p]) \subseteq ToSet(inbox'[p]) /\ missed[p] \subseteq missed'[p]
                       /\ Owner[p] = To[n] => n \in ToSet(inbox'[p]) \cup missed'[p]
  BY <1>1, <1>3 DEF Listening
<1> USE DEF n
<1> QED
  BY <1>1, <1>4, <1>5, PublishedPages

LEMMA PublishFailsPages ==
  ASSUME TypeOK, BridgeInv, PageInv, NEW g \in Gateways, PublishFails(g)
  PROVE  PagesTyped' /\ PageInv'
<1>1. /\ pc[g] = "publish" /\ pc' = [pc EXCEPT ![g] = "append"]
      /\ missed' = [p \in Pages |-> IF Owner[p] = To[handling[g]]
                                    THEN missed[p] \cup {handling[g]} ELSE missed[p]]
      /\ UNCHANGED <<queueVars, handling, stream, via, inbox, history, answer, list>>
  BY DEF PublishFails, AfterPublish
<1>2. handling[g] \in Notifs /\ PagesTyped
  BY <1>1, InHand, TypesSplit DEF BridgeInv
<1>3. inbox' \in [Pages -> Seq(Notifs)] /\ missed' \in [Pages -> SUBSET Notifs]
  BY <1>1, <1>2 DEF PagesTyped
<1>4. \A p \in Pages : /\ ToSet(inbox[p]) \subseteq ToSet(inbox'[p]) /\ missed[p] \subseteq missed'[p]
                       /\ Owner[p] = To[handling[g]] =>
                            handling[g] \in ToSet(inbox'[p]) \cup missed'[p]
  BY <1>1
<1> QED
  BY <1>1, <1>3, <1>4, PublishedPages

\* The entry that becomes recent was pushed before, or missed.
LEMMA AppendPages ==
  ASSUME TypeOK, BridgeInv, PageInv, NEW g \in Gateways, AppendEntry(g)
  PROVE  PagesTyped' /\ PageInv'
<1>1. /\ pc[g] = "append" /\ pc' = [pc EXCEPT ![g] = "settle"]
      /\ UNCHANGED <<pageVars, handling, inbox, history, answer, list, missed, redelivered>>
  BY DEF AppendEntry, queueVars, pageVars
<1>2. PagesTyped /\ BridgeTyped
  BY TypesSplit
<1>3. \A h \in Gateways : pc'[h] = "append" => pc[h] = "append"
  BY <1>1, <1>2 DEF BridgeTyped
<1>4. /\ \A v \in Users : v # To[handling[g]] => stream'[v] = stream[v]
      /\ ToSet(Recent(stream'[To[handling[g]]]))
           \subseteq ToSet(Recent(stream[To[handling[g]]])) \cup {handling[g]}
  BY StreamAfterAppend
<1>5. ASSUME NEW p \in Pages PROVE PageRepeats(p)' /\ PageKnows(p)'
  <2>1. PageRepeats(p) /\ PageKnows(p) /\ Owner[p] \in Users
    BY Addressed DEF PageInv
  <2>2. Accounted(p)' = Accounted(p)
    BY <1>1 DEF Accounted
  <2>3. To[handling[g]] = Owner[p] => handling[g] \in Accounted(p)
    BY <1>1, <2>1 DEF PageKnows
  <2>4. history[p] # "asked" => ToSet(Recent(stream'[Owner[p]])) \subseteq Accounted(p)
    BY <1>4, <2>1, <2>3 DEF PageKnows
  <2>5. PageKnows(p)'
    BY <1>1, <1>3, <2>1, <2>2, <2>4 DEF PageKnows
  <2>6. PageRepeats(p)'
    BY <1>1, <2>1 DEF PageRepeats
  <2> QED
    BY <2>5, <2>6
<1>6. PagesTyped'
  BY <1>1, <1>2, PagesTypedSame
<1> QED
  BY <1>5, <1>6 DEF PageInv

\* What a process that ends had not yet shown to a page is missed by it.
LEMMA EndedPages ==
  ASSUME TypeOK, BridgeInv, PageInv, NEW g \in Gateways, Ended(g), Queue!TypeOK'
  PROVE  PagesTyped' /\ PageInv'
<1>1. /\ pc' = [pc EXCEPT ![g] = "off"] /\ handling' = [handling EXCEPT ![g] = NoOne]
      /\ via' = [p \in Pages |-> IF via[p] = g THEN NoOne ELSE via[p]]
      /\ inbox' = [p \in Pages |-> IF via[p] = g THEN <<>> ELSE inbox[p]]
      /\ missed' = [p \in Pages |-> missed[p] \cup IF via[p] = g THEN ToSet(inbox[p]) ELSE {}]
      /\ UNCHANGED <<stream, history, answer, list>>
  BY DEF Ended
<1>2. PagesTyped /\ BridgeTyped /\ redelivered \subseteq redelivered'
  <2>1. redelivered \subseteq redelivered'
    BY DEF Ended, queueVars, Queue!Release
  <2> QED
    BY <2>1, TypesSplit
<1>3. \A h \in Gateways : pc'[h] = "append" => pc[h] = "append" /\ handling'[h] = handling[h]
  BY <1>1, <1>2 DEF BridgeTyped
<1>4. \A p \in Pages : ToSet(inbox[p]) \subseteq Notifs
  BY <1>2 DEF PagesTyped, ToSet
<1>5. PagesTyped'
  BY <1>1, <1>2, <1>4, Singletons DEF PagesTyped
<1>6. ASSUME NEW p \in Pages PROVE PageRepeats(p)' /\ PageKnows(p)'
  <2>1. Accounted(p) \subseteq Accounted(p)'
    BY <1>1, <1>2 DEF Accounted
  <2> QED
    BY <1>1, <1>2, <1>3, <2>1, PageSame DEF PageInv
<1> QED
  BY <1>5, <1>6 DEF PageInv

\* A page's own step: the other pages keep what they have.
LEMMA OtherPages ==
  ASSUME PageInv, NEW p \in Pages, UNCHANGED <<queueVars, bridgeVars, stream>>,
         \A q \in Pages \ {p} :
           /\ inbox'[q] = inbox[q] /\ history'[q] = history[q] /\ answer'[q] = answer[q]
           /\ list'[q] = list[q] /\ missed'[q] = missed[q],
         PageRepeats(p)', PageKnows(p)'
  PROVE  PageInv'
<1>1. UNCHANGED <<redelivered, pc, handling>>
  BY DEF queueVars, bridgeVars
<1>2. ASSUME NEW q \in Pages \ {p} PROVE PageRepeats(q)' /\ PageKnows(q)'
  <2>1. Accounted(q) \subseteq Accounted(q)'
    BY DEF Accounted
  <2> QED
    BY <1>1, <2>1, PageSame DEF PageInv
<1> QED
  BY <1>2 DEF PageInv

LEMMA SubscribePages ==
  ASSUME TypeOK, PageInv, NEW p \in Pages, Subscribe(p)
  PROVE  PagesTyped' /\ PageInv'
<1>1. PICK g \in Gateways : via' = [via EXCEPT ![p] = g]
  BY DEF Subscribe
<1>2. UNCHANGED <<queueVars, bridgeVars, stream, inbox, history, answer, list, missed>>
  BY DEF Subscribe
<1>3. PagesTyped'
  BY <1>1, <1>2, TypesSplit DEF PagesTyped
<1>4. PageRepeats(p)' /\ PageKnows(p)'
  <2>1. Accounted(p) \subseteq Accounted(p)'
    BY <1>2 DEF Accounted
  <2> QED
    BY <1>2, <2>1, PageSame DEF PageInv, queueVars, bridgeVars
<1> QED
  BY <1>2, <1>3, <1>4, OtherPages

LEMMA AnswerPages ==
  ASSUME TypeOK, BridgeInv, PageInv, NEW p \in Pages, AnswerHistory(p)
  PROVE  PagesTyped' /\ PageInv'
<1> DEFINE entries == stream[Owner[p]]
<1>1. /\ history[p] = "asked" /\ history' = [history EXCEPT ![p] = "answered"]
      /\ UNCHANGED <<queueVars, bridgeVars, stream, via, inbox, list>>
      /\ UNCHANGED <<redelivered, pc, handling>>
  BY DEF AnswerHistory, queueVars, bridgeVars
<1>2. PagesTyped /\ PageRepeats(p) /\ PageKnows(p) /\ entries \in Seq(Notifs)
      /\ RepeatsIn(entries, redelivered)
  BY TypesSplit, Addressed DEF PageInv, TypeOK, BridgeInv, QueueRepeats
<1>3. /\ Recent(entries) \in Seq(Notifs) /\ Len(Recent(entries)) <= HistoryLimit
      /\ RepeatsIn(Recent(entries), redelivered)
      /\ ToSet(Recent(entries)) \subseteq ToSet(entries) /\ ToSet(entries) \subseteq Notifs
  <2>1. Recent(entries) \in Seq(Notifs) /\ Len(Recent(entries)) <= HistoryLimit
    BY <1>2, RecentEntries
  <2>2. ToSet(Recent(entries)) \subseteq ToSet(entries)
    BY <1>2, RecentIsOfStream
  <2>3. RepeatsIn(Recent(entries), redelivered)
    BY <1>2, RecentIsOfStream
  <2>4. ToSet(entries) \subseteq Notifs
    BY <1>2 DEF ToSet
  <2> QED
    BY <2>1, <2>2, <2>3, <2>4
<1>4. answer[p] = <<>> /\ Len(answer[p]) = 0
  BY <1>1, <1>2 DEF PageKnows
<1>5. CASE /\ answer' = [answer EXCEPT ![p] = Recent(entries)]
           /\ missed' = [missed EXCEPT ![p] = @ \ ToSet(Recent(entries))]
  <2>1. /\ answer'[p] = Recent(entries) /\ missed'[p] = missed[p] \ ToSet(Recent(entries))
        /\ history'[p] = "answered"
        /\ \A q \in Pages \ {p} : /\ answer'[q] = answer[q] /\ missed'[q] = missed[q]
                                  /\ history'[q] = history[q]
    BY <1>1, <1>2, <1>5 DEF PagesTyped
  <2> HIDE DEF entries
  <2>2. PagesTyped'
    BY <1>1, <1>2, <1>3, <1>5 DEF PagesTyped
  <2>3. PageRepeats(p)'
    BY <1>1, <1>2, <1>3, <2>1 DEF PageRepeats
  <2>4. Accounted(p) \cup ToSet(Recent(entries)) \subseteq Accounted(p)'
    BY <1>1, <1>4, <2>1, Singletons DEF Accounted
  <2> USE DEF entries
  <2>5. PageKnows(p)'
    BY <1>1, <1>2, <1>3, <2>1, <2>4 DEF PageKnows
  <2> QED
    BY <1>1, <2>1, <2>2, <2>3, <2>5, OtherPages
<1>6. CASE missed' = [missed EXCEPT ![p] = @ \cup ToSet(entries)] /\ UNCHANGED answer
  <2>1. /\ answer' = answer /\ missed'[p] = missed[p] \cup ToSet(entries)
        /\ history'[p] = "answered"
        /\ \A q \in Pages \ {p} : missed'[q] = missed[q] /\ history'[q] = history[q]
    BY <1>1, <1>2, <1>6 DEF PagesTyped
  <2> HIDE DEF entries
  <2>2. PagesTyped'
    BY <1>1, <1>2, <1>3, <1>6 DEF PagesTyped
  <2>3. PageRepeats(p)'
    BY <1>1, <1>2, <2>1 DEF PageRepeats
  <2>4. Accounted(p) \cup ToSet(Recent(entries)) \subseteq Accounted(p)'
    BY <1>1, <1>3, <2>1 DEF Accounted
  <2> USE DEF entries
  <2>5. PageKnows(p)'
    BY <1>1, <1>2, <2>1, <2>4 DEF PageKnows
  <2> QED
    BY <1>1, <2>1, <2>2, <2>3, <2>5, OtherPages
<1> QED
  BY <1>5, <1>6 DEF AnswerHistory

LEMMA ShowHistoryPages ==
  ASSUME TypeOK, PageInv, NEW p \in Pages, ShowHistory(p)
  PROVE  PagesTyped' /\ PageInv'
<1>1. /\ history[p] = "answered" /\ history' = [history EXCEPT ![p] = "done"]
      /\ list' = [list EXCEPT ![p] = answer[p]] /\ answer' = [answer EXCEPT ![p] = <<>>]
      /\ missed' = [missed EXCEPT ![p] = @ \cup (ToSet(list[p]) \ ToSet(answer[p]))]
      /\ UNCHANGED <<queueVars, bridgeVars, stream, via, inbox, redelivered, pc, handling>>
  BY DEF ShowHistory, queueVars, bridgeVars
<1>2. PagesTyped /\ PageRepeats(p) /\ PageKnows(p)
  BY TypesSplit DEF PageInv
<1>3. /\ list'[p] = answer[p] /\ answer'[p] = <<>> /\ history'[p] = "done"
      /\ missed'[p] = missed[p] \cup (ToSet(list[p]) \ ToSet(answer[p]))
      /\ \A q \in Pages \ {p} : /\ answer'[q] = answer[q] /\ missed'[q] = missed[q]
                                /\ history'[q] = history[q] /\ list'[q] = list[q]
  BY <1>1, <1>2 DEF PagesTyped
<1>4. PagesTyped'
  <2>1. \A q \in Pages : ToSet(list[q]) \subseteq Notifs
    BY <1>2 DEF PagesTyped, ToSet
  <2>2. \A q \in Pages : Len(list'[q]) <= HistoryLimit
    BY <1>2, <1>3 DEF PagesTyped, PageKnows
  <2> QED
    BY <1>1, <1>2, <2>1, <2>2, Singletons DEF PagesTyped
<1>5. PageRepeats(p)'
  BY <1>1, <1>2, <1>3 DEF PageRepeats, RepeatsIn
<1>6. Accounted(p) \subseteq Accounted(p)'
  BY <1>1, <1>3 DEF Accounted
<1>7. PageKnows(p)'
  BY <1>1, <1>2, <1>3, <1>6, Singletons, Numbers DEF PageKnows
<1> QED
  BY <1>1, <1>3, <1>4, <1>5, <1>7, OtherPages

LEMMA LoseHistoryPages ==
  ASSUME TypeOK, PageInv, NEW p \in Pages, LoseHistory(p), Hands
  PROVE  PagesTyped' /\ PageInv'
<1>1. /\ history' = [history EXCEPT ![p] = "failed"] /\ answer' = [answer EXCEPT ![p] = <<>>]
      /\ missed' = [missed EXCEPT ![p] = Notifs]
      /\ UNCHANGED <<queueVars, bridgeVars, stream, via, inbox, list, redelivered, pc, handling>>
  BY DEF LoseHistory, queueVars, bridgeVars
<1>2. PagesTyped /\ PageRepeats(p)
  BY TypesSplit DEF PageInv
<1>3. /\ answer'[p] = <<>> /\ missed'[p] = Notifs
      /\ \A q \in Pages \ {p} : /\ answer'[q] = answer[q] /\ missed'[q] = missed[q]
                                /\ history'[q] = history[q] /\ list'[q] = list[q]
  BY <1>1, <1>2 DEF PagesTyped
<1>4. PagesTyped'
  BY <1>1, <1>2, Singletons DEF PagesTyped
<1>5. PageRepeats(p)'
  BY <1>1, <1>2, <1>3 DEF PageRepeats, RepeatsIn
<1>6. Notifs \subseteq Accounted(p)'
  BY <1>3 DEF Accounted
<1>7. ToSet(Recent(stream[Owner[p]])) \subseteq Notifs
  <2>1. stream[Owner[p]] \in Seq(Notifs)
    BY Addressed DEF TypeOK
  <2> QED
    BY <2>1, RecentEntries DEF ToSet
<1>8. PageKnows(p)'
  <2>1. \A g \in Gateways : pc[g] = "append" => handling[g] \in Notifs
    BY InHand
  <2> QED
    BY <1>1, <1>3, <1>6, <1>7, <2>1, Singletons, Numbers DEF PageKnows
<1> QED
  BY <1>1, <1>3, <1>4, <1>5, <1>8, OtherPages

LEMMA ShowPushPages ==
  ASSUME TypeOK, PageInv, NEW p \in Pages, ShowPush(p)
  PROVE  PagesTyped' /\ PageInv'
<1> DEFINE n == Head(inbox[p])
<1>1. /\ inbox[p] # <<>> /\ inbox' = [inbox EXCEPT ![p] = Tail(@)]
      /\ list' = [list EXCEPT ![p] = Pushed(n, list[p])]
      /\ missed' = [missed EXCEPT ![p] =
                      @ \cup IF Len(list[p]) >= ListLimit THEN ToSet(list[p]) ELSE {}]
      /\ UNCHANGED <<queueVars, bridgeVars, stream, via, history, answer, redelivered, pc, handling>>
  BY DEF ShowPush, queueVars, bridgeVars
<1>2. PagesTyped /\ PageRepeats(p) /\ PageKnows(p)
  BY TypesSplit DEF PageInv
<1>3. n \in Notifs /\ Tail(inbox[p]) \in Seq(Notifs) /\ ToSet(inbox[p]) = {n} \cup ToSet(Tail(inbox[p]))
  BY <1>1, <1>2, TailMembers DEF PagesTyped
<1> HIDE DEF n
<1>4. list[p] \in Seq(Notifs) /\ RepeatsIn(list[p], redelivered)
  BY <1>2 DEF PagesTyped, PageRepeats
<1>5. /\ Pushed(n, list[p]) \in Seq(Notifs) /\ Len(Pushed(n, list[p])) <= ListLimit
      /\ n \in ToSet(Pushed(n, list[p]))
      /\ \A m \in ToSet(list[p]) : m \in ToSet(Pushed(n, list[p])) \/ Len(list[p]) >= ListLimit
      /\ RepeatsIn(Pushed(n, list[p]), redelivered)
  BY <1>3, <1>4, PushedList
<1>6. /\ inbox'[p] = Tail(inbox[p]) /\ list'[p] = Pushed(n, list[p])
      /\ missed'[p] = missed[p] \cup IF Len(list[p]) >= ListLimit THEN ToSet(list[p]) ELSE {}
      /\ \A q \in Pages \ {p} : /\ inbox'[q] = inbox[q] /\ list'[q] = list[q]
                                /\ missed'[q] = missed[q]
  BY <1>1, <1>2 DEF PagesTyped
<1>7. PagesTyped'
  <2>1. \A q \in Pages : ToSet(list[q]) \subseteq Notifs
    BY <1>2 DEF PagesTyped, ToSet
  <2>2. Len(list'[p]) <= HistoryLimit /\ \A q \in Pages : Len(list'[q]) <= HistoryLimit
    <3>1. Len(Pushed(n, list[p])) \in Nat
      BY <1>5
    <3>2. Len(list'[p]) <= HistoryLimit
      BY <1>5, <1>6, <3>1, Numbers
    <3>3. \A q \in Pages \ {p} : Len(list'[q]) <= HistoryLimit
      BY <1>2, <1>6 DEF PagesTyped
    <3> QED
      BY <3>2, <3>3
  <2> QED
    BY <1>1, <1>2, <1>3, <1>5, <2>1, <2>2 DEF PagesTyped
<1>8. PageRepeats(p)'
  BY <1>1, <1>2, <1>5, <1>6 DEF PageRepeats
<1>9. Accounted(p) \subseteq Accounted(p)'
  BY <1>1, <1>3, <1>5, <1>6 DEF Accounted
<1>10. PageKnows(p)'
  BY <1>1, <1>2, <1>9 DEF PageKnows
<1> QED
  BY <1>1, <1>6, <1>7, <1>8, <1>10, OtherPages

LEMMA RefreshPages ==
  ASSUME TypeOK, Hands, PageInv, NEW p \in Pages, Refresh(p)
  PROVE  PagesTyped' /\ PageInv'
<1> DEFINE late == {handling[g] : g \in {b \in Gateways : pc[b] = "append"}}
<1>1. /\ via' = [via EXCEPT ![p] = NoOne] /\ inbox' = [inbox EXCEPT ![p] = <<>>]
      /\ history' = [history EXCEPT ![p] = "asked"] /\ answer' = [answer EXCEPT ![p] = <<>>]
      /\ list' = [list EXCEPT ![p] = <<>>] /\ missed' = [missed EXCEPT ![p] = late]
      /\ UNCHANGED <<queueVars, bridgeVars, stream, redelivered, pc, handling>>
  BY DEF Refresh, queueVars, bridgeVars
<1>2. PagesTyped
  BY TypesSplit
<1>3. late \subseteq Notifs
  BY InHand
<1>4. \A g \in Gateways : pc[g] = "append" => handling[g] \in late
  OBVIOUS
<1> HIDE DEF late
<1>5. /\ history'[p] = "asked" /\ answer'[p] = <<>> /\ list'[p] = <<>> /\ missed'[p] = late
      /\ \A q \in Pages \ {p} : /\ inbox'[q] = inbox[q] /\ history'[q] = history[q]
                                /\ answer'[q] = answer[q] /\ list'[q] = list[q]
                                /\ missed'[q] = missed[q]
  BY <1>1, <1>2 DEF PagesTyped
<1>6. PagesTyped'
  <2>1. \A q \in Pages : Len(list'[q]) <= HistoryLimit
    BY <1>2, <1>5, Singletons, Numbers DEF PagesTyped
  <2> QED
    BY <1>1, <1>2, <1>3, <2>1, Singletons DEF PagesTyped
<1>7. PageRepeats(p)'
  BY <1>5 DEF PageRepeats, RepeatsIn
<1>8. PageKnows(p)'
  <2>1. late \subseteq Accounted(p)'
    BY <1>5 DEF Accounted
  <2> QED
    BY <1>1, <1>4, <1>5, <2>1, Singletons, Numbers DEF PageKnows
<1> QED
  BY <1>1, <1>5, <1>6, <1>7, <1>8, OtherPages

--------------------------------------------------------------------------------
(* The theorems of the bell *)

LEMMA BridgeStepKeeps ==
  ASSUME IInv, NEW g \in Gateways, GatewayStep(g)
  PROVE  IInv'
<1>1. TypeOK /\ BridgeInv /\ Hands /\ PageInv /\ BridgeTyped /\ PagesTyped
  BY TypesSplit DEF IInv, BridgeInv
<1> SUFFICES Queue!TypeOK' /\ BridgeTyped' /\ BridgeInv' /\ PagesTyped' /\ PageInv'
  BY TypesSplit DEF IInv
<1>2. CASE Take(g)
  <2>1. Queue!TypeOK' /\ BridgeTyped' /\ BridgeInv'
    BY <1>1, <1>2, TakeKeeps
  <2>2. /\ UNCHANGED <<pageVars, stream, redelivered>>
        /\ \A h \in Gateways : pc'[h] = "append" => pc[h] = "append" /\ handling'[h] = handling[h]
    BY <1>1, <1>2 DEF Take, Queue!Dispatch, BridgeTyped
  <2> QED
    BY <1>1, <2>1, <2>2, PagesSame
<1>3. CASE Publish(g)
  BY <1>1, <1>3, PublishedKeeps, PublishPages DEF Publish, AfterPublish
<1>4. CASE PublishFails(g)
  BY <1>1, <1>4, PublishedKeeps, PublishFailsPages DEF PublishFails, AfterPublish
<1>5. CASE AppendEntry(g)
  BY <1>1, <1>5, AppendKeeps, AppendPages
<1>6. CASE AppendFails(g)
  <2>1. Queue!TypeOK' /\ BridgeTyped' /\ BridgeInv'
    BY <1>1, <1>6, AppendFailsKeeps
  <2>2. /\ UNCHANGED <<pageVars, stream, redelivered>>
        /\ \A h \in Gateways : pc'[h] = "append" => pc[h] = "append" /\ handling'[h] = handling[h]
    BY <1>1, <1>6 DEF AppendFails, queueVars, BridgeTyped
  <2> QED
    BY <1>1, <2>1, <2>2, PagesSame
<1>7. CASE Settle(g)
  <2>1. Queue!TypeOK' /\ BridgeTyped' /\ BridgeInv'
    BY <1>1, <1>7, SettleKeeps
  <2>2. /\ UNCHANGED <<pageVars, stream, redelivered>>
        /\ \A h \in Gateways : pc'[h] = "append" => pc[h] = "append" /\ handling'[h] = handling[h]
    BY <1>1, <1>7 DEF Settle, queueVars, Queue!Ack, BridgeTyped
  <2> QED
    BY <1>1, <2>1, <2>2, PagesSame
<1>8. CASE GoDeaf(g) \/ Start(g)
  <2>1. PICK to \in {"idle", "deaf"} :
          /\ ~Busy(g) /\ pc' = [pc EXCEPT ![g] = to]
          /\ UNCHANGED <<queueVars, senderVars, handling, stopping, cut, stream, pageVars, unwritten>>
    BY <1>8 DEF GoDeaf, Start, Busy
  <2>2. Queue!TypeOK' /\ BridgeTyped' /\ BridgeInv'
    BY <1>1, <2>1, RestKeeps
  <2>3. /\ UNCHANGED redelivered
        /\ \A h \in Gateways : pc'[h] = "append" => pc[h] = "append" /\ handling'[h] = handling[h]
    BY <1>1, <2>1 DEF queueVars, BridgeTyped
  <2> QED
    BY <1>1, <2>1, <2>2, <2>3, PagesSame
<1>9. CASE Cut(g)
  <2>1. Queue!TypeOK' /\ BridgeTyped' /\ BridgeInv'
    BY <1>1, <1>9, CutKeeps
  <2>2. /\ UNCHANGED <<pageVars, stream, pc, handling>> /\ redelivered \subseteq redelivered'
    BY <1>9 DEF Cut, Queue!Release
  <2> QED
    BY <1>1, <2>1, <2>2, PagesSame
<1>10. CASE Stop(g)
  <2>1. /\ stopping' = [stopping EXCEPT ![g] = TRUE]
        /\ UNCHANGED <<queueVars, sent, accepted, pc, handling, cut, stream, pageVars, unwritten>>
    BY <1>10 DEF Stop, senderVars
  <2>2. Queue!TypeOK' /\ BridgeInv'
    BY <1>1, <2>1, BridgeSame
  <2>3. BridgeTyped'
    BY <1>1, <2>1 DEF BridgeTyped
  <2>4. UNCHANGED redelivered
    BY <2>1 DEF queueVars
  <2> QED
    BY <1>1, <2>1, <2>2, <2>3, <2>4, PagesSame
<1>11. CASE Exit(g) \/ Crash(g)
  <2>1. Ended(g)
    BY <1>11 DEF Exit, Crash
  <2>2. Queue!TypeOK' /\ BridgeTyped' /\ BridgeInv'
    BY <1>1, <2>1, EndedKeeps
  <2> QED
    BY <1>1, <2>1, <2>2, EndedPages
<1> QED
  BY <1>2, <1>3, <1>4, <1>5, <1>6, <1>7, <1>8, <1>9, <1>10, <1>11 DEF GatewayStep, HandlerStep

LEMMA PageStepKeeps ==
  ASSUME IInv, NEW p \in Pages, PageStep(p)
  PROVE  IInv'
<1>1. TypeOK /\ BridgeInv /\ Hands /\ PageInv /\ BridgeTyped
  BY TypesSplit DEF IInv, BridgeInv
<1>2. UNCHANGED <<queueVars, senderVars, bridgeVars, stream, unwritten>>
  BY DEF PageStep, Subscribe, AnswerHistory, ShowHistory, LoseHistory, ShowPush, Refresh
<1>3. Queue!TypeOK' /\ BridgeInv' /\ BridgeTyped'
  BY <1>1, <1>2, BridgeSame, BridgeTypedSame DEF senderVars, bridgeVars
<1>4. PagesTyped' /\ PageInv'
  BY <1>1, SubscribePages, AnswerPages, ShowHistoryPages, LoseHistoryPages, ShowPushPages,
     RefreshPages DEF PageStep
<1> QED
  BY <1>3, <1>4, TypesSplit DEF IInv

LEMMA StepKeeps == IInv /\ [Next]_vars => IInv'
<1> SUFFICES ASSUME IInv, [Next]_vars PROVE IInv'
  OBVIOUS
<1>1. TypeOK /\ BridgeInv /\ PageInv /\ BridgeTyped /\ PagesTyped
  BY TypesSplit DEF IInv
<1>2. ASSUME NEW n \in Notifs, Send(n) PROVE IInv'
  <2>1. Queue!TypeOK' /\ BridgeTyped' /\ BridgeInv'
    BY <1>1, <1>2, SendKeeps
  <2>2. UNCHANGED <<pageVars, stream, redelivered, pc, handling>>
    BY <1>2 DEF Send, bridgeVars, queueVars, Queue!Enqueue
  <2> QED
    BY <1>1, <2>1, <2>2, PagesSame, TypesSplit DEF IInv
<1>3. CASE UNCHANGED vars
  <2>1. UNCHANGED <<queueVars, senderVars, bridgeVars, stream, pageVars, unwritten>>
    BY <1>3 DEF vars
  <2>2. Queue!TypeOK' /\ BridgeInv' /\ BridgeTyped'
    BY <1>1, <2>1, BridgeSame, BridgeTypedSame DEF senderVars, bridgeVars
  <2>3. PagesTyped' /\ PageInv'
    BY <1>1, <2>1, PagesSame DEF queueVars, bridgeVars
  <2> QED
    BY <2>2, <2>3, TypesSplit DEF IInv
<1> QED
  BY <1>2, <1>3, BridgeStepKeeps, PageStepKeeps DEF Next

LEMMA BellInvariant == Spec => []IInv
<1> QED
  BY InitHolds, StepKeeps, PTL DEF Spec

\* The states of the bell keep their types: a page's list never grows beyond what
\* one history answer may hold, whatever pushes follow (useNotifications.ts), and a
\* consumer holds one delivery at a time.
THEOREM BellTyped == Spec => []TypeOK
<1>1. IInv => TypeOK
  BY DEF IInv
<1> QED
  BY <1>1, BellInvariant, PTL

\* Nothing the broker accepted leaves the queue without being in its addressee's
\* stream, unless its XADD was tried and failed (bridge.go, consumer.go).
THEOREM HistoryComplete == Spec => []HistoryIsComplete
<1>1. IInv => HistoryIsComplete
  BY DEF IInv, BridgeInv
<1> QED
  BY <1>1, BellInvariant, PTL

\* The bell shows a notification twice only if the broker delivered it twice.
THEOREM RepeatsAreRedelivered == Spec => []RepeatsNeedRedelivery
<1>1. IInv => RepeatsNeedRedelivery
  BY RepeatsMeans DEF IInv, PageInv, PageRepeats
<1> QED
  BY <1>1, BellInvariant, PTL

\* What a settled page does not show of the recent history it had a reason to miss.
THEOREM MissesExplained == Spec => []MissesHaveACause
<1>1. IInv => MissesHaveACause
  <2> SUFFICES ASSUME IInv, NEW p \in Pages, Settled(p) PROVE Missing(p) \subseteq missed[p]
    BY DEF MissesHaveACause
  <2>1. PageKnows(p) /\ inbox[p] = <<>> /\ history[p] = "done"
    BY DEF IInv, PageInv, Settled
  <2>2. ToSet(inbox[p]) = {} /\ ToSet(answer[p]) = {}
    BY <2>1, Singletons DEF PageKnows
  <2> QED
    BY <2>1, <2>2 DEF PageKnows, Accounted, Missing
<1> QED
  BY <1>1, BellInvariant, PTL

--------------------------------------------------------------------------------
(* Notifications implements FeedContract.  What the contract asks besides     *)
(* IInv is where notifications come from: nothing waits, is worked on, is kept *)
(* or is on its way to a page that the broker did not accept for that user.   *)

Pending == {n \in Notifs : Queue!Waiting(n)}

Kept == [u \in Users |-> ToSet(stream[u])]

Full == {u \in Users : Len(stream[u]) >= StreamMaxLen}

Shown == [p \in Pages |-> ToSet(list[p])]

Mail(u) == {n \in accepted : To[n] = u}

OnlyAccepted ==
  /\ Pending \subseteq accepted
  /\ \A g \in Gateways : handling[g] # NoOne => handling[g] \in accepted

OwnMail ==
  /\ \A u \in Users : ToSet(stream[u]) \subseteq Mail(u)
  /\ \A p \in Pages :
       /\ ToSet(inbox[p]) \subseteq Mail(Owner[p])
       /\ ToSet(answer[p]) \subseteq Mail(Owner[p])
       /\ ToSet(list[p]) \subseteq Mail(Owner[p])

FeedInv == IInv /\ OnlyAccepted /\ OwnMail

LEMMA MailGrows ==
  ASSUME accepted \subseteq accepted' PROVE \A u : Mail(u) \subseteq Mail(u)'
BY DEF Mail

LEMMA SamePending ==
  ASSUME \A n \in Notifs : Queue!Waiting(n)' <=> Queue!Waiting(n)
  PROVE  Pending' = Pending
BY DEF Pending

LEMMA QueueUntouched == ASSUME UNCHANGED queueVars PROVE Pending' = Pending
<1>1. \A n \in Notifs : Queue!Waiting(n)' <=> Queue!Waiting(n)
  BY WaitingHere DEF queueVars
<1> QED
  BY <1>1, SamePending

LEMMA StreamsUntouched == ASSUME UNCHANGED stream PROVE UNCHANGED <<Kept, Full>>
BY DEF Kept, Full

LEMMA ListsUntouched == ASSUME UNCHANGED list PROVE UNCHANGED Shown
BY DEF Shown

\* What the actions of the contract say, with the mapping filled in.
LEMMA FeedOffer ==
  ASSUME NEW n \in Notifs, n \notin accepted, accepted' = accepted \cup {n},
         Pending' = Pending \cup {n}, UNCHANGED <<Kept, Full, unwritten, Shown>>
  PROVE  Feed!Next
<1>1. Feed!Offer(n)
  BY DEF Feed!Offer, Pending, Kept, Full, Shown
<1> QED
  BY <1>1 DEF Feed!Next

LEMMA FeedFail ==
  ASSUME NEW n \in Notifs, n \in accepted, unwritten' = unwritten \cup {n},
         UNCHANGED <<accepted, Pending, Kept, Full, Shown>>
  PROVE  Feed!Next
<1>1. Feed!Fail(n)
  BY DEF Feed!Fail, Pending, Kept, Full, Shown
<1> QED
  BY <1>1 DEF Feed!Next

LEMMA FeedSettle ==
  ASSUME NEW n \in Notifs, n \in Kept[To[n]] \cup unwritten \/ To[n] \in Full,
         Pending' = Pending \ {n}, UNCHANGED <<accepted, Kept, Full, unwritten, Shown>>
  PROVE  Feed!Next
<1>1. Feed!Settle(n)
  BY DEF Feed!Settle, Pending, Kept, Full, Shown
<1> QED
  BY <1>1 DEF Feed!Next

LEMMA FeedKeep ==
  ASSUME NEW n \in Notifs, NEW entries \in SUBSET Notifs,
         n \in accepted, n \in entries, entries \subseteq Kept[To[n]] \cup {n},
         Kept' = [Kept EXCEPT ![To[n]] = entries],
         Full' \in {Full, Full \cup {To[n]}}, To[n] \in Full' \/ Kept[To[n]] \subseteq entries,
         UNCHANGED <<accepted, Pending, unwritten, Shown>>
  PROVE  Feed!Next
<1>1. Feed!Keep(n, entries)
  BY DEF Feed!Keep, Pending, Kept, Full, Shown
<1> QED
  BY <1>1 DEF Feed!Next

LEMMA FeedShow ==
  ASSUME NEW p \in Pages, NEW entries \in SUBSET Notifs, entries \subseteq Mail(Owner[p]),
         Shown' = [Shown EXCEPT ![p] = entries],
         UNCHANGED <<accepted, Pending, Kept, Full, unwritten>>
  PROVE  Feed!Next
<1>1. Feed!Show(p, entries)
  BY DEF Feed!Show, Feed!Mail, Mail, Pending, Kept, Full, Shown
<1> QED
  BY <1>1 DEF Feed!Next

LEMMA FeedStutter ==
  ASSUME UNCHANGED <<accepted, Pending, Kept, Full, unwritten, Shown>>
  PROVE  UNCHANGED Feed!feedVars
BY DEF Feed!feedVars, Pending, Kept, Full, Shown

\* A push adds nothing to the list but itself.
LEMMA PushedMembers ==
  ASSUME NEW n \in Notifs, NEW shown \in Seq(Notifs)
  PROVE  ToSet(Pushed(n, shown)) \subseteq ToSet(shown) \cup {n}
<1> DEFINE places == {i \in DOMAIN shown : shown[i] # n}
           others == AtPlaces(shown, places)
           size == IF ListLimit <= Len(others) THEN ListLimit ELSE Len(others) + 1
<1>1. places \in SUBSET (DOMAIN shown)
  OBVIOUS
<1>2. Pushed(n, shown) = SubSeq(<<n>> \o others, 1, size)
  BY DEF Pushed
<1>3. {shown[i] : i \in places} \subseteq ToSet(shown)
  BY <1>1 DEF ToSet
<1> HIDE DEF places
<1>4. others \in Seq(Notifs) /\ ToSet(others) \subseteq ToSet(shown) /\ Len(others) \in Nat
  BY <1>1, <1>3, PlacesTaken
<1> HIDE DEF others
<1>5. /\ <<n>> \o others \in Seq(Notifs) /\ Len(<<n>> \o others) = Len(others) + 1
      /\ ToSet(<<n>> \o others) = {n} \cup ToSet(others)
  <2>1. <<n>> \in Seq(Notifs) /\ Len(<<n>>) = 1 /\ ToSet(<<n>>) = {n}
    BY Singletons
  <2>2. /\ <<n>> \o others \in Seq(Notifs)
        /\ ToSet(<<n>> \o others) = ToSet(<<n>>) \cup ToSet(others)
    <3>1. PICK first \in Seq(Notifs) : first = <<n>>
      BY <2>1
    <3>2. first \o others \in Seq(Notifs) /\ ToSet(first \o others) = ToSet(first) \cup ToSet(others)
      BY <1>4, ConcatMembers
    <3> QED
      BY <3>1, <3>2
  <2>3. Len(<<n>> \o others) = Len(<<n>>) + Len(others)
    BY <1>4, <2>1
  <2> QED
    BY <1>4, <2>1, <2>2, <2>3
<1>6. size \in 1 .. Len(others) + 1
  BY <1>4, Limits
<1> HIDE DEF size
<1>7. \A s \in Seq(Notifs) : size \in 1 .. Len(s) => ToSet(SubSeq(s, 1, size)) \subseteq ToSet(s)
  <2> SUFFICES ASSUME NEW s \in Seq(Notifs), size \in 1 .. Len(s)
               PROVE  ToSet(SubSeq(s, 1, size)) \subseteq ToSet(s)
    OBVIOUS
  <2>1. DOMAIN SubSeq(s, 1, size) = 1 .. size /\ \A i \in 1 .. size : SubSeq(s, 1, size)[i] = s[i]
    OBVIOUS
  <2> QED
    BY <2>1 DEF ToSet
<1>8. size \in 1 .. Len(<<n>> \o others)
  BY <1>5, <1>6
<1> QED
  BY <1>2, <1>4, <1>5, <1>7, <1>8

\* A step that leaves the senders, the streams and the pages alone and gives the
\* handlers nothing that does not wait.
LEMMA HandsFilled ==
  ASSUME FeedInv, Pending' \subseteq Pending, UNCHANGED <<accepted, stream, inbox, answer, list>>,
         \A g \in Gateways : handling'[g] \in {handling[g], NoOne} \/ handling'[g] \in Pending
  PROVE  OnlyAccepted' /\ OwnMail'
<1>1. \A u : Mail(u)' = Mail(u)
  BY DEF Mail
<1>2. OwnMail'
  BY <1>1 DEF FeedInv, OwnMail
<1>3. OnlyAccepted'
  BY DEF FeedInv, OnlyAccepted
<1> QED
  BY <1>2, <1>3

LEMMA SendFeeds ==
  ASSUME FeedInv, NEW n \in Notifs, Send(n)
  PROVE  [Feed!Next]_(Feed!feedVars) /\ OnlyAccepted' /\ OwnMail'
<1>1. /\ n \notin accepted /\ Queue!TypeOK
      /\ UNCHANGED <<handling, stream, inbox, answer, list, unwritten>>
  BY DEF Send, bridgeVars, pageVars, FeedInv, IInv, TypeOK
<1>2. UNCHANGED <<Kept, Full, Shown>>
  BY <1>1, StreamsUntouched, ListsUntouched
<1>3. CASE Queue!Enqueue(n) /\ accepted' = accepted \cup {n}
  <2>1. ToSet(ready') = ToSet(ready) \cup {n} /\ UNCHANGED unacked
    BY <1>1, <1>3, Enqueued
  <2>2. \A m \in Notifs : Queue!Waiting(m)' <=> Queue!Waiting(m) \/ m = n
    BY <2>1, WaitingHere
  <2>3. Pending' = Pending \cup {n}
    BY <2>2 DEF Pending
  <2>4. OnlyAccepted' /\ OwnMail'
    <3>1. \A u : Mail(u) \subseteq Mail(u)'
      BY <1>3, MailGrows
    <3>2. OwnMail'
      BY <1>1, <3>1 DEF FeedInv, OwnMail
    <3>3. OnlyAccepted'
      BY <1>1, <1>3, <2>3 DEF FeedInv, OnlyAccepted
    <3> QED
      BY <3>2, <3>3
  <2> QED
    BY <1>1, <1>2, <1>3, <2>3, <2>4, FeedOffer
<1>4. CASE UNCHANGED <<queueVars, accepted>>
  <2>1. UNCHANGED Pending
    BY <1>4, QueueUntouched
  <2> QED
    BY <1>1, <1>2, <1>4, <2>1, HandsFilled, FeedStutter
<1> QED
  BY <1>3, <1>4 DEF Send

LEMMA TakeFeeds ==
  ASSUME FeedInv, NEW g \in Gateways, Take(g)
  PROVE  UNCHANGED Feed!feedVars /\ OnlyAccepted' /\ OwnMail'
<1>1. PICK n \in Notifs : Queue!Dispatch(g, n) /\ handling' = [handling EXCEPT ![g] = n]
  BY DEF Take
<1>2. /\ pc[g] = "idle" /\ UNCHANGED <<accepted, stream, inbox, answer, list, unwritten>>
      /\ Queue!TypeOK /\ TypeOK /\ Hands
  BY DEF Take, senderVars, pageVars, FeedInv, IInv, BridgeInv, TypeOK
<1>3. unacked[g] = <<>>
  BY <1>2, InHand
<1>4. unacked' = [unacked EXCEPT ![g] = <<n>>] /\ ToSet(ready) = {n} \cup ToSet(ready')
  BY <1>1, <1>2, <1>3, Dispatched
<1>5. \A h \in Gateways : unacked'[h] = IF h = g THEN <<n>> ELSE unacked[h]
  BY <1>2, <1>4 DEF Queue!TypeOK
<1>6. \A m \in Notifs : Queue!Waiting(m)' <=> Queue!Waiting(m)
  BY <1>3, <1>4, <1>5, Singletons, WaitingHere
<1>7. UNCHANGED <<Pending, Kept, Full, Shown>>
  BY <1>2, <1>6, SamePending, StreamsUntouched, ListsUntouched
<1>8. n \in Pending
  BY <1>4, WaitingHere DEF Pending
<1>9. \A h \in Gateways : handling'[h] \in {handling[h], NoOne} \/ handling'[h] \in Pending
  BY <1>1, <1>2, <1>8 DEF TypeOK
<1> QED
  BY <1>2, <1>7, <1>9, HandsFilled, FeedStutter

\* The push goes to the pages of the addressee.
LEMMA PublishFeeds ==
  ASSUME FeedInv, NEW g \in Gateways, Publish(g)
  PROVE  UNCHANGED Feed!feedVars /\ OnlyAccepted' /\ OwnMail'
<1>1. PICK n \in Notifs : n = handling[g] /\ n \in accepted
  <2>1. handling[g] \in Notifs
    BY InHand DEF Publish, FeedInv, IInv, BridgeInv
  <2> QED
    BY <2>1, NoOneIsNobody DEF FeedInv, OnlyAccepted
<1>2. /\ inbox' = [p \in Pages |-> IF p \in Listening(n) THEN Append(inbox[p], n) ELSE inbox[p]]
      /\ UNCHANGED <<queueVars, accepted, handling, stream, answer, list, unwritten>>
  BY <1>1 DEF Publish, senderVars
<1>3. UNCHANGED <<Pending, Kept, Full, Shown>>
  BY <1>2, QueueUntouched, StreamsUntouched, ListsUntouched
<1>4. \A u : Mail(u)' = Mail(u)
  BY <1>2 DEF Mail
<1>5. ASSUME NEW p \in Pages PROVE ToSet(inbox'[p]) \subseteq Mail(Owner[p])
  <2>1. inbox[p] \in Seq(Notifs) /\ ToSet(inbox[p]) \subseteq Mail(Owner[p])
    BY DEF FeedInv, IInv, TypeOK, OwnMail
  <2>2. ToSet(Append(inbox[p], n)) = ToSet(inbox[p]) \cup {n}
    BY <2>1, AppendMembers
  <2>3. p \in Listening(n) => n \in Mail(Owner[p])
    BY <1>1 DEF Listening, Mail
  <2> QED
    BY <1>2, <2>1, <2>2, <2>3
<1>6. OwnMail'
  BY <1>2, <1>4, <1>5 DEF FeedInv, OwnMail
<1>7. OnlyAccepted'
  BY <1>2, <1>3 DEF FeedInv, OnlyAccepted
<1> QED
  BY <1>2, <1>3, <1>6, <1>7, FeedStutter

LEMMA AppendFeeds ==
  ASSUME FeedInv, NEW g \in Gateways, AppendEntry(g)
  PROVE  Feed!Next /\ OnlyAccepted' /\ OwnMail'
<1>1. TypeOK /\ BridgeInv
  BY DEF FeedInv, IInv
<1>2. PICK n \in Notifs, u \in Users : n = handling[g] /\ u = To[n]
  BY <1>1, InHand DEF AppendEntry, BridgeInv
<1>3. n \in accepted
  BY <1>2, NoOneIsNobody DEF FeedInv, OnlyAccepted
<1>4. UNCHANGED <<queueVars, accepted, handling, inbox, answer, list, unwritten>>
  BY DEF AppendEntry, senderVars, pageVars
<1>5. /\ stream' \in [Users -> Seq(Notifs)] /\ \A v \in Users : v # u => stream'[v] = stream[v]
      /\ n \in ToSet(stream'[u]) /\ ToSet(stream'[u]) \subseteq ToSet(stream[u]) \cup {n}
      /\ ToSet(stream[u]) \subseteq ToSet(stream'[u]) \/ Len(stream'[u]) >= StreamMaxLen
      /\ Len(stream[u]) >= StreamMaxLen => Len(stream'[u]) >= StreamMaxLen
  BY <1>1, <1>2, StreamAfterAppend
<1>6. UNCHANGED <<Pending, Shown>>
  BY <1>4, QueueUntouched, ListsUntouched
<1>7. PICK entries : entries = ToSet(stream'[u])
  OBVIOUS
<1>8. /\ entries \in SUBSET Notifs /\ Kept[u] = ToSet(stream[u])
      /\ Kept' = [Kept EXCEPT ![u] = entries]
  <2>1. entries \in SUBSET Notifs
    BY <1>5, <1>7 DEF ToSet
  <2>2. \A v \in Users : v # u => ToSet(stream'[v]) = ToSet(stream[v])
    BY <1>5
  <2> QED
    BY <1>7, <2>1, <2>2 DEF Kept
<1>9. Full' \in {Full, Full \cup {u}} /\ (u \in Full' <=> Len(stream'[u]) >= StreamMaxLen)
  <2>1. \A v \in Users : v # u => (v \in Full' <=> v \in Full)
    BY <1>5 DEF Full
  <2>2. u \in Full => u \in Full'
    BY <1>5 DEF Full
  <2>3. Full \subseteq Users /\ Full' \subseteq Users
    BY DEF Full
  <2>4. Full' = Full \/ Full' = Full \cup {u}
    BY <2>1, <2>2, <2>3
  <2> QED
    BY <2>4 DEF Full
<1>10. Feed!Next
  <2>1. n \in entries /\ entries \subseteq Kept[To[n]] \cup {n}
    BY <1>2, <1>5, <1>7, <1>8
  <2>2. entries \in SUBSET Notifs /\ Kept' = [Kept EXCEPT ![To[n]] = entries]
    BY <1>2, <1>8
  <2>3. Full' \in {Full, Full \cup {To[n]}}
    BY <1>2, <1>9
  <2>4. To[n] \in Full' \/ Kept[To[n]] \subseteq entries
    BY <1>2, <1>5, <1>7, <1>8, <1>9
  <2> QED
    BY <1>3, <1>4, <1>6, <2>1, <2>2, <2>3, <2>4, FeedKeep
<1>11. \A v : Mail(v)' = Mail(v)
  BY <1>4 DEF Mail
<1>12. OwnMail'
  <2>1. n \in Mail(u)
    BY <1>2, <1>3 DEF Mail
  <2>2. \A v \in Users : ToSet(stream'[v]) \subseteq Mail(v)
    BY <1>5, <2>1 DEF FeedInv, OwnMail
  <2> QED
    BY <1>4, <1>11, <2>2 DEF FeedInv, OwnMail
<1>13. OnlyAccepted'
  BY <1>4, <1>6 DEF FeedInv, OnlyAccepted
<1> QED
  BY <1>10, <1>12, <1>13

LEMMA AppendFailsFeeds ==
  ASSUME FeedInv, NEW g \in Gateways, AppendFails(g)
  PROVE  Feed!Next /\ OnlyAccepted' /\ OwnMail'
<1>1. PICK n \in Notifs : n = handling[g] /\ n \in accepted
  BY InHand, NoOneIsNobody DEF AppendFails, FeedInv, IInv, BridgeInv, OnlyAccepted
<1>2. /\ unwritten' = unwritten \cup {n}
      /\ UNCHANGED <<queueVars, accepted, handling, stream, inbox, answer, list>>
  BY <1>1 DEF AppendFails, senderVars, pageVars
<1>3. UNCHANGED <<Pending, Kept, Full, Shown>>
  BY <1>2, QueueUntouched, StreamsUntouched, ListsUntouched
<1> QED
  BY <1>1, <1>2, <1>3, FeedFail, HandsFilled

\* Only what is in the history, or failed to be, is let go.
LEMMA SettleFeeds ==
  ASSUME FeedInv, NEW g \in Gateways, Settle(g)
  PROVE  [Feed!Next]_(Feed!feedVars) /\ OnlyAccepted' /\ OwnMail'
<1>1. /\ pc[g] = "settle" /\ handling' = [handling EXCEPT ![g] = NoOne]
      /\ UNCHANGED <<accepted, stream, inbox, answer, list, unwritten>>
  BY DEF Settle, senderVars, pageVars
<1>2. Queue!TypeOK /\ TypeOK /\ Hands /\ SettlersKnow
  BY DEF FeedInv, IInv, BridgeInv, TypeOK
<1>3. PICK n \in Notifs : n = handling[g] /\ To[n] \in Users
  BY <1>1, <1>2, InHand
<1>4. UNCHANGED <<Kept, Full, Shown>>
  BY <1>1, StreamsUntouched, ListsUntouched
<1>5. Pending' \in {Pending, Pending \ {n}}
  <2>1. CASE UNCHANGED queueVars
    BY <2>1, QueueUntouched
  <2>2. CASE ~cut[g] /\ Queue!Ack(g, n)
    <3>1. unacked[g] = <<n>>
      BY <1>1, <1>2, <1>3, <2>2, InHand DEF Busy
    <3>2. unacked' = [unacked EXCEPT ![g] = <<>>] /\ UNCHANGED ready
      BY <1>2, <2>2, <3>1, Acked
    <3>3. \A h \in Gateways : unacked'[h] = IF h = g THEN <<>> ELSE unacked[h]
      BY <1>2, <3>2 DEF Queue!TypeOK
    <3>4. /\ \A m \in Notifs : Queue!Waiting(m)' => Queue!Waiting(m)
          /\ \A m \in Notifs : m # n /\ Queue!Waiting(m) => Queue!Waiting(m)'
      <4>1. \A h \in Gateways : ToSet(unacked'[h]) \subseteq ToSet(unacked[h])
        BY <3>1, <3>3, Singletons
      <4>2. \A m \in Notifs, h \in Gateways :
              m # n /\ m \in ToSet(unacked[h]) => m \in ToSet(unacked'[h])
        <5>1. ToSet(unacked[g]) = {n}
          BY <3>1, Singletons
        <5>2. \A h \in Gateways : h # g => unacked'[h] = unacked[h]
          BY <3>3
        <5> QED
          BY <5>1, <5>2
      <4> QED
        BY <3>2, <4>1, <4>2, WaitingHere
    <3> QED
      BY <3>4 DEF Pending
  <2> QED
    BY <1>3, <2>1, <2>2 DEF Settle, Acknowledged
<1>6. n \in Kept[To[n]] \cup unwritten \/ To[n] \in Full
  BY <1>1, <1>2, <1>3 DEF SettlersKnow, Recorded, Kept, Full
<1>7. \A h \in Gateways : handling'[h] \in {handling[h], NoOne}
  BY <1>1, <1>2 DEF TypeOK
<1>8. OnlyAccepted' /\ OwnMail'
  BY <1>1, <1>5, <1>7, HandsFilled
<1>9. [Feed!Next]_(Feed!feedVars)
  <2>1. CASE Pending' = Pending
    BY <1>1, <1>4, <2>1, FeedStutter
  <2>2. CASE Pending' = Pending \ {n}
    BY <1>1, <1>3, <1>4, <1>6, <2>2, FeedSettle
  <2> QED
    BY <1>5, <2>1, <2>2
<1> QED
  BY <1>8, <1>9

\* What a gateway loses the broker has again.
LEMMA ReleaseFeeds ==
  ASSUME FeedInv, NEW g \in Gateways, Queue!Release(g)
  PROVE  UNCHANGED Pending
<1>1. TypeOK /\ BridgeInv /\ Queue!TypeOK
  BY DEF FeedInv, IInv, TypeOK
<1>2. /\ unacked' = [unacked EXCEPT ![g] = <<>>]
      /\ ToSet(ready') = ToSet(unacked[g]) \cup ToSet(ready)
      /\ \A n : Queue!Waiting(n) => Queue!Waiting(n)'
  BY <1>1, GivenBack
<1>3. \A h \in Gateways : unacked'[h] = IF h = g THEN <<>> ELSE unacked[h]
  BY <1>1, <1>2 DEF Queue!TypeOK
<1>4. \A n \in Notifs : Queue!Waiting(n)' => Queue!Waiting(n)
  BY <1>2, <1>3, Singletons, WaitingHere
<1> QED
  BY <1>2, <1>4, SamePending

LEMMA GatewayFeeds ==
  ASSUME FeedInv, NEW g \in Gateways,
         \/ PublishFails(g) \/ GoDeaf(g)
         \/ Cut(g) \/ Stop(g) \/ Exit(g) \/ Crash(g) \/ Start(g)
  PROVE  UNCHANGED Feed!feedVars /\ OnlyAccepted' /\ OwnMail'
<1>1. /\ UNCHANGED queueVars \/ Queue!Release(g)
      /\ UNCHANGED <<accepted, stream, answer, list, unwritten>>
      /\ UNCHANGED handling \/ handling' = [handling EXCEPT ![g] = NoOne]
      /\ UNCHANGED inbox \/ inbox' = [p \in Pages |-> IF via[p] = g THEN <<>> ELSE inbox[p]]
  BY DEF PublishFails, GoDeaf, Cut, Stop, Exit, Crash, Ended, Start, senderVars, pageVars
<1>2. UNCHANGED <<Pending, Kept, Full, Shown>>
  BY <1>1, QueueUntouched, ReleaseFeeds, StreamsUntouched, ListsUntouched
<1>3. \A p \in Pages : ToSet(inbox'[p]) \subseteq ToSet(inbox[p])
  BY <1>1, Singletons DEF FeedInv, IInv, TypeOK
<1>4. \A h \in Gateways : handling'[h] \in {handling[h], NoOne}
  BY <1>1 DEF FeedInv, IInv, TypeOK
<1>5. \A u : Mail(u)' = Mail(u)
  BY <1>1 DEF Mail
<1>6. OwnMail'
  BY <1>1, <1>3, <1>5 DEF FeedInv, OwnMail
<1>7. OnlyAccepted'
  BY <1>1, <1>2, <1>4 DEF FeedInv, OnlyAccepted
<1> QED
  BY <1>1, <1>2, <1>6, <1>7, FeedStutter

\* What a page does reaches nobody else: its list, if it changes, is made of what
\* was its own already.
LEMMA PageFeeds ==
  ASSUME FeedInv, NEW p \in Pages, PageStep(p)
  PROVE  [Feed!Next]_(Feed!feedVars) /\ OnlyAccepted' /\ OwnMail'
<1> DEFINE own == Mail(Owner[p])
<1>1. /\ UNCHANGED <<queueVars, accepted, handling, stream, unwritten>>
  BY DEF PageStep, Subscribe, AnswerHistory, ShowHistory, LoseHistory, ShowPush, Refresh, senderVars,
         bridgeVars
<1>2. UNCHANGED <<Pending, Kept, Full>>
  BY <1>1, QueueUntouched, StreamsUntouched
<1>3. /\ inbox \in [Pages -> Seq(Notifs)] /\ answer \in [Pages -> Seq(Notifs)]
      /\ list \in [Pages -> Seq(Notifs)] /\ stream[Owner[p]] \in Seq(Notifs)
      /\ ToSet(inbox[p]) \subseteq own /\ ToSet(answer[p]) \subseteq own /\ ToSet(list[p]) \subseteq own
      /\ ToSet(stream[Owner[p]]) \subseteq own
  BY Addressed DEF FeedInv, IInv, TypeOK, OwnMail
<1>4. own \subseteq Notifs
  BY DEF Mail, FeedInv, IInv, TypeOK
<1>5. /\ \A q \in Pages \ {p} : inbox'[q] = inbox[q] /\ answer'[q] = answer[q] /\ list'[q] = list[q]
      /\ ToSet(inbox'[p]) \subseteq own /\ ToSet(answer'[p]) \subseteq own /\ ToSet(list'[p]) \subseteq own
      /\ list' = [list EXCEPT ![p] = list'[p]]
  <2>1. CASE Subscribe(p)
    BY <2>1, <1>3 DEF Subscribe
  <2>2. CASE AnswerHistory(p)
    <3>1. /\ UNCHANGED <<inbox, list>>
          /\ answer' \in {answer, [answer EXCEPT ![p] = Recent(stream[Owner[p]])]}
      BY <2>2 DEF AnswerHistory
    <3>2. ToSet(Recent(stream[Owner[p]])) \subseteq own
      BY <1>3, RecentIsOfStream
    <3> QED
      BY <1>3, <3>1, <3>2
  <2>3. CASE ShowHistory(p)
    BY <2>3, <1>3, Singletons DEF ShowHistory
  <2>4. CASE LoseHistory(p)
    BY <2>4, <1>3, Singletons DEF LoseHistory
  <2>5. CASE ShowPush(p)
    <3>1. PICK n \in Notifs, rest \in Seq(Notifs) :
            n = Head(inbox[p]) /\ rest = Tail(inbox[p]) /\ ToSet(inbox[p]) = {n} \cup ToSet(rest)
      <4>1. inbox[p] # <<>>
        BY <2>5 DEF ShowPush
      <4>2. /\ Head(inbox[p]) \in Notifs /\ Tail(inbox[p]) \in Seq(Notifs)
            /\ ToSet(inbox[p]) = {Head(inbox[p])} \cup ToSet(Tail(inbox[p]))
        BY <1>3, <4>1, TailMembers
      <4> QED
        BY <4>2
    <3>2. /\ inbox' = [inbox EXCEPT ![p] = rest] /\ UNCHANGED answer
          /\ list' = [list EXCEPT ![p] = Pushed(n, list[p])]
      BY <2>5, <3>1 DEF ShowPush
    <3>3. ToSet(Pushed(n, list[p])) \subseteq own
      BY <1>3, <3>1, PushedMembers
    <3> QED
      BY <1>3, <3>1, <3>2, <3>3
  <2>6. CASE Refresh(p)
    BY <2>6, <1>3, Singletons DEF Refresh
  <2> QED
    BY <2>1, <2>2, <2>3, <2>4, <2>5, <2>6 DEF PageStep
<1>6. PICK entries \in SUBSET Notifs : entries = ToSet(list'[p]) /\ entries \subseteq own
  BY <1>4, <1>5
<1>7. Shown' = [Shown EXCEPT ![p] = entries]
  <2>1. \A q \in Pages : ToSet(list'[q]) = IF q = p THEN entries ELSE ToSet(list[q])
    BY <1>5, <1>6
  <2> QED
    BY <2>1 DEF Shown
<1>8. \A u : Mail(u)' = Mail(u)
  BY <1>1 DEF Mail
<1>9. OwnMail'
  BY <1>1, <1>5, <1>8 DEF FeedInv, OwnMail
<1>10. OnlyAccepted'
  BY <1>1, <1>2 DEF FeedInv, OnlyAccepted
<1>11. Feed!Next
  BY <1>1, <1>2, <1>6, <1>7, FeedShow
<1> QED
  BY <1>9, <1>10, <1>11

\* The notifications keep the contract of the feed, for any number of users, pages,
\* gateways and notifications and any number of troubles.
THEOREM FeedKept == Spec => KeepsFeed
<1>1. Init => Feed!Init /\ OnlyAccepted /\ OwnMail
  <2> SUFFICES ASSUME Init PROVE Feed!Init /\ OnlyAccepted /\ OwnMail
    OBVIOUS
  <2>1. /\ ready = <<>> /\ \A g \in Gateways : unacked[g] = <<>> /\ handling[g] = NoOne
        /\ accepted = {} /\ unwritten = {} /\ \A u \in Users : stream[u] = <<>>
        /\ \A p \in Pages : inbox[p] = <<>> /\ answer[p] = <<>> /\ list[p] = <<>>
    BY DEF Init, Queue!Init
  <2>2. Pending = {}
    BY <2>1, Singletons, WaitingHere DEF Pending
  <2>3. Kept = [u \in Users |-> {}] /\ Full = {} /\ Shown = [p \in Pages |-> {}]
    BY <2>1, Singletons, Limits DEF Kept, Full, Shown
  <2>4. OnlyAccepted /\ OwnMail
    BY <2>1, <2>2, Singletons DEF OnlyAccepted, OwnMail
  <2> QED
    BY <2>1, <2>2, <2>3, <2>4 DEF Feed!Init, Pending, Kept, Full, Shown
<1>2. FeedInv /\ [Next]_vars => [Feed!Next]_(Feed!feedVars) /\ OnlyAccepted' /\ OwnMail'
  <2> SUFFICES ASSUME FeedInv, [Next]_vars
               PROVE  [Feed!Next]_(Feed!feedVars) /\ OnlyAccepted' /\ OwnMail'
    OBVIOUS
  <2>1. CASE \E n \in Notifs : Send(n)
    BY <2>1, SendFeeds
  <2>2. ASSUME NEW g \in Gateways, GatewayStep(g)
        PROVE  [Feed!Next]_(Feed!feedVars) /\ OnlyAccepted' /\ OwnMail'
    BY <2>2, TakeFeeds, PublishFeeds, AppendFeeds, AppendFailsFeeds, SettleFeeds, GatewayFeeds
       DEF GatewayStep, HandlerStep
  <2>3. CASE \E p \in Pages : PageStep(p)
    BY <2>3, PageFeeds
  <2>4. CASE UNCHANGED vars
    <3>1. UNCHANGED <<queueVars, accepted, handling, stream, inbox, answer, list, unwritten>>
      BY <2>4 DEF vars, senderVars, bridgeVars, pageVars
    <3>2. UNCHANGED <<Pending, Kept, Full, Shown>>
      BY <3>1, QueueUntouched, StreamsUntouched, ListsUntouched
    <3> QED
      BY <3>1, <3>2, HandsFilled, FeedStutter
  <2> QED
    BY <2>1, <2>2, <2>3, <2>4 DEF Next
<1>3. Spec => [](IInv /\ OnlyAccepted /\ OwnMail)
  BY <1>1, <1>2, BellInvariant, PTL DEF Spec, FeedInv
<1> QED
  BY <1>1, <1>2, <1>3, PTL DEF Spec, KeepsFeed, Feed!Spec, FeedInv

--------------------------------------------------------------------------------
(* The draft of a job posting                                                *)
(*                                                                           *)
(* Once the draft is over, no answer is under way and nothing has failed,    *)
(* what is still in the queue ends with a delete, or with nothing but reads  *)
(* of an empty store; and no timer is left that could save, except on a page *)
(* that is leaving, where its firing is the overrun.                         *)

Transactions == {Delete} \cup {Get(visit) : visit \in Nat} \cup {Put(draft) : draft \in Drafts}

DraftTyped ==
  /\ page \in {"away", "open", "leaving"} /\ form \in Drafts \cup {Blank}
  /\ saveTimer \in Drafts \cup {Blank, NoDraft}
  /\ disk \in Drafts \cup {NoDraft} /\ queue \in Seq(Transactions)
  /\ visits \in Nat /\ draftFaults \in Nat

\* What is still to come leaves no draft in the store s.
Ending(q, s) ==
  \/ \E i \in DOMAIN q : q[i].does = "delete" /\ \A k \in DOMAIN q : k > i => q[k].does = "get"
  \/ s = NoDraft /\ \A i \in DOMAIN q : q[i].does = "get"

DraftOver == over /\ ~overrun /\ draftFaults = 0 /\ posting = {}

DraftInv ==
  /\ DraftTyped
  /\ page = "away" => saveTimer = NoDraft
  /\ DraftOver => Ending(queue, disk) /\ (saveTimer \in {NoDraft, Blank} \/ page = "leaving")

LEMMA TransactionKinds ==
  \A t \in Transactions : \/ t.does = "delete"
                          \/ t.does = "get"
                          \/ t.does = "put" /\ t.draft \in Drafts
BY DEF Transactions, Delete, Get, Put

\* One more transaction.
LEMMA AskedLast ==
  ASSUME NEW q \in Seq(Transactions), NEW t \in Transactions
  PROVE  /\ Append(q, t) \in Seq(Transactions)
         /\ \A s : t.does = "delete" => Ending(Append(q, t), s)
         /\ \A s : t.does = "get" /\ Ending(q, s) => Ending(Append(q, t), s)
<1> DEFINE more == Append(q, t)
<1>1. /\ more \in Seq(Transactions) /\ DOMAIN q = 1 .. Len(q) /\ DOMAIN more = 1 .. Len(q) + 1
      /\ Len(q) \in Nat /\ more[Len(q) + 1] = t /\ \A i \in 1 .. Len(q) : more[i] = q[i]
  OBVIOUS
<1> HIDE DEF more
<1>2. ASSUME NEW s, t.does = "delete" PROVE Ending(more, s)
  BY <1>1, <1>2 DEF Ending
<1>3. ASSUME NEW s, t.does = "get", Ending(q, s) PROVE Ending(more, s)
  <2>1. CASE \E i \in DOMAIN q : q[i].does = "delete" /\ \A k \in DOMAIN q : k > i => q[k].does = "get"
    <3>1. PICK i \in DOMAIN q : q[i].does = "delete" /\ \A k \in DOMAIN q : k > i => q[k].does = "get"
      BY <2>1
    <3>2. i \in DOMAIN more /\ more[i].does = "delete"
      BY <1>1, <3>1
    <3>3. \A k \in DOMAIN more : k > i => more[k].does = "get"
      BY <1>1, <1>3, <3>1
    <3> QED
      BY <3>2, <3>3 DEF Ending
  <2>2. CASE s = NoDraft /\ \A i \in DOMAIN q : q[i].does = "get"
    <3>1. \A i \in DOMAIN more : more[i].does = "get"
      BY <1>1, <1>3, <2>2
    <3> QED
      BY <2>2, <3>1 DEF Ending
  <2> QED
    BY <1>3, <2>1, <2>2 DEF Ending
<1> USE DEF more
<1> QED
  BY <1>1, <1>2, <1>3

\* The first transaction has run, and left the store as s.
LEMMA FirstRun ==
  ASSUME NEW q \in Seq(Transactions), q # <<>>, NEW old, NEW s, Ending(q, old),
         Head(q).does = "delete" => s = NoDraft,
         Head(q).does = "get" => s = old
  PROVE  Ending(Tail(q), s)
<1> DEFINE rest == Tail(q)
<1>1. /\ Len(q) \in Nat \ {0} /\ DOMAIN q = 1 .. Len(q) /\ DOMAIN rest = 1 .. Len(q) - 1
      /\ Head(q) = q[1] /\ \A i \in 1 .. Len(q) - 1 : rest[i] = q[i + 1]
  OBVIOUS
<1> HIDE DEF rest
<1>2. ASSUME NEW i \in DOMAIN q, q[i].does = "delete", \A k \in DOMAIN q : k > i => q[k].does = "get"
      PROVE  Ending(rest, s)
  <2>1. CASE i = 1
    <3>1. s = NoDraft
      BY <1>1, <1>2, <2>1
    <3>2. \A k \in DOMAIN rest : rest[k].does = "get"
      BY <1>1, <1>2, <2>1
    <3> QED
      BY <3>1, <3>2 DEF Ending
  <2>2. CASE i # 1
    <3>1. i - 1 \in DOMAIN rest /\ rest[i - 1].does = "delete"
      BY <1>1, <1>2, <2>2
    <3>2. \A k \in DOMAIN rest : k > i - 1 => rest[k].does = "get"
      BY <1>1, <1>2
    <3> QED
      BY <3>1, <3>2 DEF Ending
  <2> QED
    BY <2>1, <2>2
<1>3. ASSUME old = NoDraft, \A i \in DOMAIN q : q[i].does = "get" PROVE Ending(rest, s)
  <2>1. s = NoDraft
    BY <1>1, <1>3
  <2>2. \A k \in DOMAIN rest : rest[k].does = "get"
    BY <1>1, <1>3
  <2> QED
    BY <2>1, <2>2 DEF Ending
<1>4. Ending(rest, s)
  BY <1>2, <1>3 DEF Ending
<1> QED
  BY <1>4 DEF rest

LEMMA DraftInitHolds == DraftInit => DraftInv
<1> SUFFICES ASSUME DraftInit PROVE DraftInv
  OBVIOUS
<1>1. <<>> \in Seq(Transactions)
  OBVIOUS
<1> QED
  BY <1>1 DEF DraftInit, DraftInv, DraftTyped, DraftOver

LEMMA DraftStepKeeps == DraftInv /\ [DraftNext]_draftVars => DraftInv'
<1> SUFFICES ASSUME DraftInv, [DraftNext]_draftVars PROVE DraftInv'
  OBVIOUS
<1>0. DraftTyped /\ (page = "away" => saveTimer = NoDraft)
  BY DEF DraftInv
<1>1. CASE Mount
  <2>1. /\ page = "away" /\ page' = "open" /\ form' = Blank /\ visits' = visits + 1
        /\ queue' = Append(queue, Get(visits + 1))
        /\ UNCHANGED <<posting, saveTimer, disk, draftFaults, over, overrun>>
    BY <1>1 DEF Mount, Ask
  <2>2. Get(visits + 1) \in Transactions /\ Get(visits + 1).does = "get"
    BY <1>0 DEF Transactions, Get, DraftTyped
  <2>3. queue' \in Seq(Transactions) /\ (Ending(queue, disk) => Ending(queue', disk))
    BY <1>0, <2>1, <2>2, AskedLast DEF DraftTyped
  <2>4. DraftTyped'
    BY <1>0, <2>1, <2>3 DEF DraftTyped
  <2> QED
    BY <1>0, <2>1, <2>3, <2>4 DEF DraftInv, DraftOver
<1>2. CASE \E values \in Drafts \cup {Blank} : Edit(values)
  BY <1>0, <1>2 DEF Edit, Watch, Here, DraftInv, DraftTyped, DraftOver
<1>3. CASE TimerFires
  <2>1. /\ saveTimer # NoDraft /\ saveTimer' = NoDraft
        /\ overrun' = (overrun \/ page = "leaving")
        /\ UNCHANGED <<page, posting, form, restored, disk, visits, draftFaults, over>>
    BY <1>3 DEF TimerFires
  <2>2. CASE saveTimer # Blank
    <3>1. queue' = Append(queue, Put(saveTimer)) /\ Put(saveTimer) \in Transactions
      BY <1>0, <1>3, <2>1, <2>2 DEF TimerFires, Savable, Ask, Transactions, DraftTyped
    <3>2. queue' \in Seq(Transactions)
      BY <1>0, <3>1, AskedLast DEF DraftTyped
    <3>3. DraftTyped'
      BY <1>0, <2>1, <3>2 DEF DraftTyped
    <3>4. ~DraftOver'
      BY <1>0, <2>1, <2>2 DEF DraftInv, DraftOver
    <3> QED
      BY <2>1, <3>3, <3>4 DEF DraftInv
  <2>3. CASE saveTimer = Blank
    <3>1. UNCHANGED queue
      BY <1>3, <2>3 DEF TimerFires, Savable
    <3> QED
      BY <1>0, <2>1, <3>1 DEF DraftInv, DraftTyped, DraftOver
  <2> QED
    BY <2>2, <2>3
<1>4. CASE discardDraft
  <2>1. /\ page # "away" /\ queue' = Append(queue, Delete) /\ form' = Blank /\ saveTimer' = Blank
        /\ UNCHANGED <<page, posting, disk, visits, draftFaults>>
    BY <1>4 DEF discardDraft, Here, Ask, Reset, Watch
  <2>2. Delete \in Transactions /\ Delete.does = "delete"
    BY DEF Transactions, Delete
  <2>3. queue' \in Seq(Transactions) /\ Ending(queue', disk)
    BY <1>0, <2>1, <2>2, AskedLast DEF DraftTyped
  <2>4. DraftTyped'
    BY <1>0, <2>1, <2>3 DEF DraftTyped
  <2> QED
    BY <2>1, <2>3, <2>4 DEF DraftInv, DraftOver
<1>5. CASE Submit
  <2>1. posting' # {} /\ UNCHANGED <<page, form, saveTimer, disk, queue, visits, draftFaults>>
    BY <1>5 DEF Submit
  <2> QED
    BY <1>0, <2>1 DEF DraftInv, DraftTyped, DraftOver
<1>6. ASSUME NEW visit \in posting, PostFails(visit) PROVE DraftInv'
  BY <1>0, <1>6 DEF PostFails, DraftInv, DraftTyped, DraftOver
<1>7. ASSUME NEW visit \in posting, Posted(visit) PROVE DraftInv'
  <2>1. /\ queue' = Append(queue, Delete) /\ page' = IF page # "away" THEN "leaving" ELSE "away"
        /\ UNCHANGED <<form, saveTimer, disk, visits, draftFaults, over, overrun>>
    BY <1>7 DEF Posted, Here, Ask
  <2>2. Delete \in Transactions /\ Delete.does = "delete"
    BY DEF Transactions, Delete
  <2>3. queue' \in Seq(Transactions) /\ Ending(queue', disk)
    BY <1>0, <2>1, <2>2, AskedLast DEF DraftTyped
  <2>4. DraftTyped'
    BY <1>0, <2>1, <2>3 DEF DraftTyped
  <2> QED
    BY <1>0, <2>1, <2>3, <2>4 DEF DraftInv, DraftOver
<1>8. CASE Unmount
  <2>1. /\ page' = "away" /\ saveTimer' = NoDraft
        /\ UNCHANGED <<posting, form, disk, queue, visits, draftFaults, over, overrun>>
    BY <1>8 DEF Unmount, TimerAfter
  <2> QED
    BY <1>0, <2>1 DEF DraftInv, DraftTyped, DraftOver
<1>9. CASE CloseTab
  <2>1. /\ page' = "away" /\ saveTimer' = NoDraft /\ queue' = <<>> /\ posting' = {}
        /\ draftFaults' = IF queue = <<>> THEN draftFaults ELSE draftFaults + 1
        /\ over' = (over /\ posting = {})
        /\ UNCHANGED <<form, disk, visits, overrun>>
    BY <1>9 DEF CloseTab
  <2>2. DraftTyped'
    <3>1. queue' \in Seq(Transactions)
      BY <2>1
    <3> QED
      BY <1>0, <2>1, <3>1 DEF DraftTyped
  <2>3. DraftOver' => DraftOver /\ queue' = queue
    <3>1. draftFaults' = 0 => queue = <<>> /\ draftFaults = 0
      BY <1>0, <2>1 DEF DraftTyped
    <3>2. over' => over /\ posting = {}
      BY <2>1, Zenon
    <3> QED
      BY <2>1, <3>1, <3>2 DEF DraftOver
  <2>4. DraftOver' => Ending(queue', disk')
    BY <2>1, <2>3 DEF DraftInv
  <2> QED
    BY <2>1, <2>2, <2>4 DEF DraftInv
<1>10. CASE Restore
  <2>1. /\ page # "away" /\ disk # NoDraft /\ saveTimer' = disk /\ form' = disk
        /\ queue # <<>> /\ queue' = Tail(queue) /\ over' = FALSE
        /\ UNCHANGED <<page, disk, visits, draftFaults>>
    BY <1>10 DEF Restore, Restorable, Here, Reset, Watch
  <2>2. queue' \in Seq(Transactions)
    BY <1>0, <2>1 DEF DraftTyped
  <2> QED
    BY <1>0, <2>1, <2>2 DEF DraftInv, DraftTyped, DraftOver
<1>11. CASE Transact
  <2>1. /\ queue # <<>> /\ queue' = Tail(queue)
        /\ UNCHANGED <<page, posting, form, restored, saveTimer, visits, draftFaults, over, overrun>>
    BY <1>11 DEF Transact
  <2>2. queue \in Seq(Transactions) /\ queue' \in Seq(Transactions) /\ Head(queue) \in Transactions
    BY <1>0, <2>1 DEF DraftTyped
  <2>3. disk' = CASE Head(queue).does = "put" -> Head(queue).draft
                  [] Head(queue).does = "delete" -> NoDraft
                  [] OTHER -> disk
    BY <1>11 DEF Transact
  <2>4. /\ Head(queue).does = "delete" => disk' = NoDraft
        /\ Head(queue).does = "get" => disk' = disk
        /\ Head(queue).does = "put" => disk' \in Drafts
    BY <2>2, <2>3, TransactionKinds
  <2>5. DraftTyped'
    BY <1>0, <2>1, <2>2, <2>4, TransactionKinds DEF DraftTyped
  <2>6. Ending(queue, disk) => Ending(queue', disk')
    BY <2>1, <2>2, <2>4, FirstRun
  <2> QED
    BY <1>0, <2>1, <2>5, <2>6 DEF DraftInv, DraftOver
<1>12. CASE TransactionFails
  <2>1. /\ queue # <<>> /\ queue' = Tail(queue) /\ draftFaults' = draftFaults + 1
        /\ UNCHANGED <<page, posting, form, saveTimer, disk, visits, over, overrun>>
    BY <1>12 DEF TransactionFails
  <2>2. queue' \in Seq(Transactions) /\ draftFaults' \in Nat /\ draftFaults' # 0
    BY <1>0, <2>1 DEF DraftTyped
  <2> QED
    BY <1>0, <2>1, <2>2 DEF DraftInv, DraftTyped, DraftOver
<1>13. CASE UNCHANGED draftVars
  BY <1>13 DEF draftVars, DraftInv, DraftTyped, DraftOver
<1> QED
  BY <1>1, <1>2, <1>3, <1>4, <1>5, <1>6, <1>7, <1>8, <1>9, <1>10, <1>11, <1>12, <1>13 DEF DraftNext

\* A draft that was discarded or posted does not come back, for any number of
\* contents, visits and transactions under way, unless its timer ran out between the
\* answer and the change of page or a transaction failed (NewJobPage.tsx).
THEOREM DraftsStayGone == DraftSpec => []DraftsReturnForACause
<1>1. DraftSpec => []DraftInv
  BY DraftInitHolds, DraftStepKeeps, PTL DEF DraftSpec
<1>2. DraftInv => DraftsReturnForACause
  <2> SUFFICES ASSUME DraftInv, DraftSettled, DraftOver PROVE disk = NoDraft
    BY DEF DraftsReturnForACause, DraftOver, DraftSettled
  <2>1. Ending(queue, disk) /\ queue = <<>>
    BY DEF DraftInv, DraftSettled
  <2> QED
    BY <2>1 DEF Ending
<1> QED
  BY <1>1, <1>2, PTL
================================================================================
