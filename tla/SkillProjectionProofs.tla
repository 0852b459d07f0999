------------------------- MODULE SkillProjectionProofs -------------------------
(***************************************************************************)
(* Proofs about SkillProjection, for every set of users, skills,           *)
(* proficiencies and calls and every value of the bounds.  The last        *)
(* sections need both ends of it: that a published list carries its        *)
(* caller's own write, and that a settled snapshot differs from the record *)
(* only for a named cause.                                                 *)
(***************************************************************************)
EXTENDS SkillProjection, TLAPS

--------------------------------------------------------------------------------
(* The consumer's own steps *)

\* The steps of Poll, Commit, Stop, Leave and Restart, seen by the consumer alone.
OffsetStep ==
  \/ Group!Repoll
  \/ \E u \in Users : \E n \in 1 .. Len(topic[u]) : Group!Fetch(u, n)
  \/ Group!AutoCommit \/ Group!Cancel \/ Group!Crash \/ Group!Close \/ Group!Start

Offsets == Group!TypeOK /\ Group!OffsetsOrdered

\* Whatever the consumer does between two records keeps its offsets in order.
LEMMA OffsetStepOrdered ==
  ASSUME Offsets, OffsetStep, topic \in [Users -> Seq(Lists)], UNCHANGED topic
  PROVE  Offsets'
<1> USE DEF Offsets, Group!TypeOK, Group!OffsetsOrdered
<1>1. CASE Group!Repoll
  BY <1>1 DEF Group!Repoll, Group!BatchDone
<1>2. ASSUME NEW u \in Users, NEW n \in 1 .. Len(topic[u]), Group!Fetch(u, n)
      PROVE  Offsets'
  BY <1>2 DEF Group!Fetch, Group!BatchUntouched
<1>3. CASE Group!AutoCommit
  BY <1>3 DEF Group!AutoCommit, Group!Committable
<1>4. CASE Group!Cancel \/ Group!Crash
  BY <1>4 DEF Group!Cancel, Group!Crash
<1>5. CASE Group!Close
  BY <1>5 DEF Group!Close, Group!Committable
<1>6. CASE Group!Start
  BY <1>6 DEF Group!Start
<1> QED
  BY <1>1, <1>2, <1>3, <1>4, <1>5, <1>6 DEF OffsetStep

\* So does handing a record to the handler, and that record is in the log.
LEMMA DeliverOrdered ==
  ASSUME Offsets, NEW u \in Users, Group!Deliver(u),
         topic \in [Users -> Seq(Lists)], UNCHANGED topic
  PROVE  /\ Offsets'
         /\ next[u] + 1 \in 1 .. Len(topic[u])
         /\ topic[u][next[u] + 1] \in Lists
<1> USE DEF Offsets, Group!TypeOK, Group!OffsetsOrdered
<1>1. next[u] + 1 <= end[u] /\ end[u] <= Len(topic[u])
  BY DEF Group!Deliver, Group!Delivering
<1>2. /\ next' = [next EXCEPT ![u] = next[u] + 1]
      /\ UNCHANGED <<mode, committed, head, end>>
  BY DEF Group!Deliver
<1>3. Group!TypeOK'
  BY <1>2
<1>4. \A p \in Users : next'[p] >= next[p] /\ next'[p] <= end[p]
  BY <1>1, <1>2
<1>5. Group!OffsetsOrdered'
  BY <1>2, <1>3, <1>4
<1>6. next[u] + 1 \in 1 .. Len(topic[u]) /\ topic[u] \in Seq(Lists)
  BY <1>1
<1> QED
  BY <1>3, <1>5, <1>6

\* Appending to the log disturbs none of it.
LEMMA AppendOrdered ==
  ASSUME Offsets, UNCHANGED groupVars, topic \in [Users -> Seq(Lists)],
         NEW u \in Users, NEW list \in Lists,
         topic' = [topic EXCEPT ![u] = Append(@, list)]
  PROVE  Offsets' /\ topic' \in [Users -> Seq(Lists)]
BY DEF Offsets, groupVars, Group!TypeOK, Group!OffsetsOrdered

\* The steps that only move offsets, and what they leave alone.
LEMMA OffsetActions ==
  ASSUME Poll \/ Commit \/ Stop \/ Leave \/ Restart
  PROVE  OffsetStep /\ OffsetsOnly /\ (UNCHANGED stops \/ stops' = stops + 1)
BY DEF Poll, Commit, Stop, Leave, Restart, OffsetStep

--------------------------------------------------------------------------------
(* Type correctness *)

\* TypeOK alone is not inductive: that the list a record carries has its type
\* needs the record to be in the log.
IInv == TypeOK /\ Group!OffsetsOrdered

LEMMA TypeInit == Init => IInv
BY DEF Init, IInv, TypeOK, CallersKnown, Group!Init, Group!TypeOK, Group!OffsetsOrdered,
       Lists, NoSkills, Call, NotCalled, Pending

LEMMA TypeNext == IInv /\ [Next]_vars => IInv'
<1> SUFFICES ASSUME IInv, [Next]_vars
             PROVE  IInv'
  OBVIOUS
<1> USE DEF IInv, TypeOK, Offsets
<1>0. UNCHANGED <<topic, groupVars>> => Offsets'
  BY DEF groupVars, Group!TypeOK, Group!OffsetsOrdered
<1>1. ASSUME NEW k \in Calls, Refuse(k)
      PROVE  IInv'
  <2> DEFINE refused == [call[k] EXCEPT !.pc = "done"]
  <2>1. UNCHANGED <<userSkills, topic, had, jobsVars, groupVars, handlerErrors, stops, drift>>
    BY <1>1 DEF Refuse
  <2>2. call' = [call EXCEPT ![k] = refused]
    BY <1>1 DEF Refuse
  <2>3. refused \in Call /\ refused.pc = "done"
    BY DEF Call
  <2> HIDE DEF refused
  <2>4. call' \in [Calls -> Call]
    BY <2>2, <2>3
  <2>5. CallersKnown'
    BY <2>2, <2>3 DEF CallersKnown, Pending
  <2> QED
    BY <1>0, <2>1, <2>4, <2>5 DEF jobsVars
<1>2. ASSUME NEW k \in Calls, NEW u \in Users, NEW s \in Skills,
             NEW p \in Proficiencies, Upsert(k, u, s, p)
      PROVE  IInv'
  <2>1. [userSkills[u] EXCEPT ![s] = p] \in Lists
    BY DEF Lists
  <2>2. userSkills' \in [Users -> Lists] /\ had' \in [Users -> SUBSET Lists]
    BY <1>2, <2>1 DEF Upsert
  <2>3. Upserted(u, s, InFlight(u)) \in Call
    BY DEF Upserted, Call, Lists, NoSkills, Pending
  <2>4. \A j \in Calls : [call[j] EXCEPT !.alone = @ /\ j \notin InFlight(u)] \in Call
    BY DEF Call
  <2>5. call' \in [Calls -> Call]
    BY <1>2, <2>3, <2>4 DEF Upsert
  <2>6. CallersKnown'
    BY <1>2, <2>3, <2>4 DEF Upsert, CallersKnown, Upserted, Call
  <2> QED
    BY <1>0, <1>2, <2>2, <2>5, <2>6 DEF Upsert, jobsVars
<1>3. ASSUME NEW k \in Calls, ListRows(k)
      PROVE  IInv'
  <2>1. CurrentRows(k) \in Lists
    BY <1>3 DEF ListRows, Step, CurrentRows, CallersKnown, Pending
  <2>2. [call[k] EXCEPT !.pc = "listed", !.rows = CurrentRows(k)] \in Call
    BY <2>1 DEF Call, Pending
  <2>3. call' = [call EXCEPT ![k] = [call[k] EXCEPT !.pc = "listed", !.rows = CurrentRows(k)]]
    BY <1>3 DEF ListRows, Call
  <2>4. call' \in [Calls -> Call]
    BY <2>2, <2>3
  <2>5. CallersKnown'
    BY <1>3, <2>3 DEF ListRows, Step, Call, CallersKnown, Pending
  <2> QED
    BY <1>0, <1>3, <2>4, <2>5 DEF ListRows, jobsVars
<1>4. ASSUME NEW k \in Calls, DropEvent(k)
      PROVE  IInv'
  <2>1. call[k].user \in Users
    BY <1>4 DEF DropEvent, CallersKnown, Pending
  <2>2. drift' \in [Users -> SUBSET {"overlap", "lost"}]
    BY <1>4, <2>1 DEF DropEvent
  <2>3. call' \in [Calls -> Call] /\ CallersKnown'
    <3>1. [call[k] EXCEPT !.pc = "done"] \in Call
      BY DEF Call
    <3>2. call' = [call EXCEPT ![k] = [call[k] EXCEPT !.pc = "done"]]
      BY <1>4 DEF DropEvent
    <3> QED
      BY <3>1, <3>2 DEF CallersKnown, Pending
  <2> QED
    BY <1>0, <1>4, <2>2, <2>3 DEF DropEvent, jobsVars
<1>5. ASSUME NEW k \in Calls, Publish(k)
      PROVE  IInv'
  <2>1. call[k].user \in Users /\ call[k].rows \in Lists
    BY <1>5 DEF Publish, Step, CallersKnown, Pending, Call
  <2>2. Offsets' /\ topic' \in [Users -> Seq(Lists)]
    BY <1>5, <2>1, AppendOrdered DEF Publish
  <2>3. call' \in [Calls -> Call] /\ CallersKnown'
    <3>1. [call[k] EXCEPT !.pc = "published"] \in Call
      BY DEF Call
    <3>2. call' = [call EXCEPT ![k] = [call[k] EXCEPT !.pc = "published"]]
      BY <1>5 DEF Publish
    <3> QED
      BY <1>5, <3>1, <3>2 DEF Publish, Step, CallersKnown, Pending, Call
  <2> QED
    BY <1>5, <2>1, <2>2, <2>3 DEF Publish, jobsVars
<1>6. ASSUME NEW u \in Users, Replace(u)
      PROVE  IInv'
  BY <1>6, DeliverOrdered DEF Replace, Replaced, serviceVars, CallersKnown
<1>7. ASSUME NEW u \in Users, ReplaceFails(u)
      PROVE  IInv'
  BY <1>7, DeliverOrdered DEF ReplaceFails, serviceVars, CallersKnown
<1>8. ASSUME NEW u \in Users, ReplaceCancelled(u)
      PROVE  IInv'
  BY <1>8, DeliverOrdered DEF ReplaceCancelled, serviceVars, jobsVars, CallersKnown
<1>9. CASE Poll \/ Commit \/ Stop \/ Leave \/ Restart
  BY <1>9, OffsetActions, OffsetStepOrdered DEF OffsetsOnly, serviceVars, jobsVars, CallersKnown
<1>10. CASE UNCHANGED vars
  BY <1>0, <1>10 DEF vars, CallersKnown
<1> QED
  BY <1>1, <1>2, <1>3, <1>4, <1>5, <1>6, <1>7, <1>8, <1>9, <1>10 DEF Next

LEMMA Inductive == Spec => []IInv
BY TypeInit, TypeNext, PTL DEF Spec

\* The variables of the projection keep their types.
THEOREM TypeCorrect == Spec => []TypeOK
BY Inductive, PTL DEF IInv

--------------------------------------------------------------------------------
(* The snapshot was once true *)

\* A list is followed on its way: read by a call, published, applied.  At every
\* station it is one the record has held.
RecordHad == \A u \in Users : userSkills[u] \in had[u]
RowsHad == \A k \in Calls : call[k].pc = "listed" => call[k].rows \in had[call[k].user]
EventsHad == \A u \in Users : \A n \in 1 .. Len(topic[u]) : topic[u][n] \in had[u]

HadInv == RecordHad /\ RowsHad /\ EventsHad /\ SnapshotWasOnceTrue

LEMMA HadInit == Init => HadInv
BY DEF Init, HadInv, RecordHad, RowsHad, EventsHad, SnapshotWasOnceTrue, NotCalled

LEMMA HadNext == IInv /\ HadInv /\ [Next]_vars => HadInv'
<1> SUFFICES ASSUME IInv, HadInv, [Next]_vars
             PROVE  HadInv'
  OBVIOUS
<1> USE DEF IInv, TypeOK, HadInv, RecordHad, RowsHad, EventsHad, SnapshotWasOnceTrue
<1>1. ASSUME NEW k \in Calls, Refuse(k)
      PROVE  HadInv'
  BY <1>1 DEF Refuse, Step, Call, jobsVars
<1>2. ASSUME NEW k \in Calls, NEW u \in Users, NEW s \in Skills,
             NEW p \in Proficiencies, Upsert(k, u, s, p)
      PROVE  HadInv'
  <2>1. \A v \in Users : had[v] \subseteq had'[v]
    BY <1>2 DEF Upsert
  <2>2. RecordHad'
    BY <1>2 DEF Upsert
  <2>3. RowsHad'
    BY <1>2, <2>1 DEF Upsert, Upserted, Call, CallersKnown, Pending
  <2> QED
    BY <1>2, <2>1, <2>2, <2>3 DEF Upsert, jobsVars
<1>3. ASSUME NEW k \in Calls, ListRows(k)
      PROVE  HadInv'
  BY <1>3 DEF ListRows, Step, CurrentRows, Call, CallersKnown, Pending, jobsVars
<1>4. ASSUME NEW k \in Calls, DropEvent(k)
      PROVE  HadInv'
  BY <1>4 DEF DropEvent, Call, jobsVars
<1>5. ASSUME NEW k \in Calls, Publish(k)
      PROVE  HadInv'
  <2>1. call[k].user \in Users /\ call[k].rows \in had[call[k].user] /\ call[k].rows \in Lists
    BY <1>5 DEF Publish, Step, CallersKnown, Pending, Call
  <2>2. EventsHad'
    BY <1>5, <2>1 DEF Publish
  <2>3. RowsHad'
    BY <1>5 DEF Publish, Call
  <2> QED
    BY <1>5, <2>2, <2>3 DEF Publish, jobsVars
<1>6. ASSUME NEW u \in Users, Replace(u)
      PROVE  HadInv'
  <2>1. next[u] + 1 \in 1 .. Len(topic[u])
    BY <1>6, DeliverOrdered DEF Replace, serviceVars, Offsets
  <2> QED
    BY <1>6, <2>1 DEF Replace, Replaced, serviceVars
<1>7. ASSUME NEW u \in Users, ReplaceFails(u) \/ ReplaceCancelled(u)
      PROVE  HadInv'
  BY <1>7 DEF ReplaceFails, ReplaceCancelled, serviceVars, jobsVars
<1>8. CASE Poll \/ Commit \/ Stop \/ Leave \/ Restart
  BY <1>8, OffsetActions DEF OffsetsOnly, serviceVars, jobsVars
<1>9. CASE UNCHANGED vars
  BY <1>9 DEF vars
<1> QED
  BY <1>1, <1>2, <1>3, <1>4, <1>5, <1>6, <1>7, <1>8, <1>9 DEF Next

LEMMA HadAlways == Spec => [](IInv /\ HadInv)
BY Inductive, HadInit, HadNext, PTL DEF Spec

\* The snapshot of a user is always a list the user has had.
THEOREM SnapshotTrue == Spec => []SnapshotWasOnceTrue
BY HadAlways, PTL DEF HadInv

\* SkillProjection implements ProjectionContract: an upsert is its Write, the
\* replacement of a snapshot its Project, and every other step stutters.
THEOREM ContractKept == Spec => KeepsContract
<1> USE DEF Contract!contractVars
<1>1. Init => Contract!Init
  BY DEF Init, Contract!Init
<1>2. IInv /\ HadInv /\ [Next]_vars => [Contract!Next]_(Contract!contractVars)
  <2> SUFFICES ASSUME IInv, HadInv, [Next]_vars
               PROVE  [Contract!Next]_(Contract!contractVars)
    OBVIOUS
  <2>1. ASSUME NEW k \in Calls, NEW u \in Users, NEW s \in Skills,
               NEW p \in Proficiencies, Upsert(k, u, s, p)
        PROVE  Contract!Next
    <3> DEFINE list == [userSkills[u] EXCEPT ![s] = p]
    <3>1. list \in Lists
      BY DEF IInv, TypeOK, Lists
    <3>2. Contract!Write(u, list)
      BY <2>1 DEF Upsert, Contract!Write, jobsVars
    <3> QED
      BY <3>1, <3>2 DEF Contract!Next
  <2>2. ASSUME NEW u \in Users, Replace(u)
        PROVE  Contract!Next
    <3> DEFINE list == topic[u][next[u] + 1]
    <3>1. next[u] + 1 \in 1 .. Len(topic[u]) /\ list \in Lists
      BY <2>2, DeliverOrdered DEF Replace, serviceVars, Offsets, IInv, TypeOK
    <3>2. Contract!Project(u, list)
      BY <2>2, <3>1 DEF Replace, Replaced, serviceVars, HadInv, EventsHad, Contract!Project
    <3> QED
      BY <3>1, <3>2 DEF Contract!Next
  <2>3. ASSUME NEW k \in Calls, Refuse(k) \/ ListRows(k) \/ DropEvent(k) \/ Publish(k)
        PROVE  UNCHANGED Contract!contractVars
    BY <2>3 DEF Refuse, ListRows, DropEvent, Publish, jobsVars
  <2>4. ASSUME NEW u \in Users, ReplaceFails(u) \/ ReplaceCancelled(u)
        PROVE  UNCHANGED Contract!contractVars
    BY <2>4 DEF ReplaceFails, ReplaceCancelled, serviceVars, jobsVars
  <2>5. CASE Poll \/ Commit \/ Stop \/ Leave \/ Restart
    BY <2>5, OffsetActions DEF OffsetsOnly, serviceVars, jobsVars
  <2>6. CASE UNCHANGED vars
    BY <2>6 DEF vars
  <2> QED
    BY <2>1, <2>2, <2>3, <2>4, <2>5, <2>6 DEF Next
<1> QED
  BY <1>1, <1>2, HadAlways, PTL DEF Spec, KeepsContract, Contract!Spec

--------------------------------------------------------------------------------
(* The snapshot holds one event *)

OneEventInv == SnapshotIsOneEvent /\ \A u \in Users : applied[u] \in 0 .. Len(topic[u])

LEMMA OneEventInit == Init => OneEventInv
BY DEF Init, OneEventInv, SnapshotIsOneEvent

LEMMA OneEventNext == IInv /\ OneEventInv /\ [Next]_vars => OneEventInv'
<1> SUFFICES ASSUME IInv, OneEventInv, [Next]_vars
             PROVE  OneEventInv'
  OBVIOUS
<1> USE DEF IInv, TypeOK, OneEventInv, SnapshotIsOneEvent
<1>1. ASSUME NEW k \in Calls, Publish(k)
      PROVE  OneEventInv'
  <2>1. call[k].user \in Users
    BY <1>1 DEF Publish, Step, CallersKnown, Pending
  <2> QED
    BY <1>1, <2>1 DEF Publish, jobsVars, Call
<1>2. ASSUME NEW u \in Users, Replace(u)
      PROVE  OneEventInv'
  <2>1. next[u] + 1 \in 1 .. Len(topic[u])
    BY <1>2, DeliverOrdered DEF Replace, serviceVars, Offsets
  <2> QED
    BY <1>2, <2>1 DEF Replace, Replaced, serviceVars
<1>3. UNCHANGED <<topic, snapshot, applied>> => OneEventInv'
  OBVIOUS
<1>4. ASSUME NEW k \in Calls,
             \/ Refuse(k) \/ ListRows(k) \/ DropEvent(k)
             \/ \E u \in Users, s \in Skills, p \in Proficiencies : Upsert(k, u, s, p)
      PROVE  UNCHANGED <<topic, snapshot, applied>>
  BY <1>4 DEF Refuse, ListRows, DropEvent, Upsert, jobsVars
<1>5. ASSUME NEW u \in Users, ReplaceFails(u) \/ ReplaceCancelled(u)
      PROVE  UNCHANGED <<topic, snapshot, applied>>
  BY <1>5 DEF ReplaceFails, ReplaceCancelled, serviceVars, jobsVars
<1>6. CASE Poll \/ Commit \/ Stop \/ Leave \/ Restart
  BY <1>3, <1>6, OffsetActions DEF OffsetsOnly, serviceVars, jobsVars
<1>7. CASE UNCHANGED vars
  BY <1>3, <1>7 DEF vars
<1> QED
  BY <1>1, <1>2, <1>3, <1>4, <1>5, <1>6, <1>7 DEF Next

LEMMA OneEventAlways == Spec => [](IInv /\ OneEventInv)
BY Inductive, OneEventInit, OneEventNext, PTL DEF Spec

\* The snapshot of a user is the list of exactly one event, the one applied last.
THEOREM SnapshotOneEvent == Spec => []SnapshotIsOneEvent
BY OneEventAlways, PTL DEF OneEventInv

--------------------------------------------------------------------------------
(* Committed offsets cover handled records only *)

\* The polls that are finished were handled, and so was everything delivered by
\* a loop whose context still lives.
HandledInv ==
  \A u \in Users :
    /\ 1 .. head[u] \subseteq handled[u]
    /\ mode = "running" => 1 .. next[u] \subseteq handled[u]

LEMMA HandledInit == Init => HandledInv
BY DEF Init, HandledInv, Group!Init

LEMMA HandledNext == IInv /\ HandledInv /\ [Next]_vars => HandledInv'
<1> SUFFICES ASSUME IInv, HandledInv, [Next]_vars
             PROVE  HandledInv'
  OBVIOUS
<1> USE DEF IInv, TypeOK, Group!TypeOK, Group!OffsetsOrdered, HandledInv
<1>1. ASSUME NEW u \in Users, Replace(u) \/ ReplaceFails(u)
      PROVE  HandledInv'
  <2>1. /\ next' = [next EXCEPT ![u] = next[u] + 1]
        /\ handled' = [handled EXCEPT ![u] = handled[u] \cup {next[u] + 1}]
        /\ UNCHANGED <<mode, head>>
    BY <1>1 DEF Replace, ReplaceFails, Group!Deliver
  <2>2. 1 .. next[u] + 1 = (1 .. next[u]) \cup {next[u] + 1}
    OBVIOUS
  <2>3. mode = "running"
    BY <1>1 DEF Replace, ReplaceFails
  <2> QED
    BY <2>1, <2>2, <2>3
<1>2. ASSUME NEW u \in Users, ReplaceCancelled(u)
      PROVE  HandledInv'
  BY <1>2 DEF ReplaceCancelled, Group!Deliver, jobsVars
<1>3. CASE Poll \/ Commit \/ Stop \/ Leave \/ Restart
  <2>1. OffsetStep /\ UNCHANGED handled
    BY <1>3, OffsetActions DEF OffsetsOnly, jobsVars
  <2>2. CASE Group!Repoll
    BY <2>1, <2>2 DEF Group!Repoll
  <2>3. ASSUME NEW u \in Users, NEW n \in 1 .. Len(topic[u]), Group!Fetch(u, n)
        PROVE  HandledInv'
    BY <2>1, <2>3 DEF Group!Fetch
  <2>4. CASE Group!AutoCommit \/ Group!Cancel \/ Group!Crash \/ Group!Close
    BY <2>1, <2>4 DEF Group!AutoCommit, Group!Cancel, Group!Crash, Group!Close
  <2>5. CASE Group!Start
    <3>1. \A u \in Users : 1 .. committed[u] \subseteq 1 .. head[u]
      OBVIOUS
    <3> QED
      BY <2>1, <2>5, <3>1 DEF Group!Start
  <2> QED
    BY <2>1, <2>2, <2>3, <2>4, <2>5 DEF OffsetStep
<1>4. UNCHANGED <<mode, head, next, handled>> => HandledInv'
  OBVIOUS
<1>5. ASSUME NEW k \in Calls,
             \/ Refuse(k) \/ ListRows(k) \/ DropEvent(k) \/ Publish(k)
             \/ \E u \in Users, s \in Skills, p \in Proficiencies : Upsert(k, u, s, p)
      PROVE  UNCHANGED <<mode, head, next, handled>>
  BY <1>5 DEF Refuse, ListRows, DropEvent, Publish, Upsert, jobsVars, groupVars
<1>6. CASE UNCHANGED vars
  BY <1>4, <1>6 DEF vars, groupVars
<1> QED
  BY <1>1, <1>2, <1>3, <1>4, <1>5, <1>6 DEF Next

LEMMA HandledAlways == Spec => [](IInv /\ HandledInv)
BY Inductive, HandledInit, HandledNext, PTL DEF Spec

\* What a shutdown made fail is never committed: it will be delivered again.
THEOREM CommittedHandled == Spec => []CommittedWasHandled
<1>1. IInv /\ HandledInv => CommittedWasHandled
  <2> SUFFICES ASSUME IInv, HandledInv
               PROVE  CommittedWasHandled
    OBVIOUS
  <2>1. \A u \in Users : 1 .. committed[u] \subseteq 1 .. head[u]
    BY DEF IInv, TypeOK, Group!TypeOK, Group!OffsetsOrdered
  <2> QED
    BY <2>1 DEF IInv, HandledInv, CommittedWasHandled
<1> QED
  BY <1>1, HandledAlways, PTL

--------------------------------------------------------------------------------
(* What the steps of a call do to the calls, field by field *)

Answered(k) == Refuse(k) \/ DropEvent(k)

\* Only the program counter of the call that moves changes, and what it has read.
LEMMA CallMoves ==
  ASSUME IInv, NEW k \in Calls, Answered(k) \/ ListRows(k) \/ Publish(k)
  PROVE  /\ \A j \in Calls \ {k} : call'[j] = call[j]
         /\ call'[k].user = call[k].user /\ call'[k].skill = call[k].skill
         /\ call'[k].alone = call[k].alone
         /\ Answered(k) => call'[k].pc = "done"
         /\ ListRows(k) => call'[k].pc = "listed" /\ call'[k].rows = CurrentRows(k)
         /\ Publish(k) => call'[k].pc = "published"
<1>1. call \in [Calls -> Call]
  BY DEF IInv, TypeOK
<1>2. CASE Answered(k)
  <2>1. call' = [call EXCEPT ![k] = [call[k] EXCEPT !.pc = "done"]]
    BY <1>2 DEF Answered, Refuse, DropEvent
  <2>2. Answered(k) /\ ~ListRows(k) /\ ~Publish(k)
    BY <1>1, <1>2, <2>1 DEF ListRows, Publish, Call
  <2> QED
    BY <1>1, <2>1, <2>2 DEF Call
<1>3. CASE ListRows(k)
  <2>1. call' = [call EXCEPT ![k] = [call[k] EXCEPT !.pc = "listed", !.rows = CurrentRows(k)]]
    BY <1>1, <1>3 DEF ListRows, Call
  <2>2. ~Answered(k) /\ ~Publish(k)
    BY <1>1, <1>3, <2>1 DEF Answered, Refuse, DropEvent, ListRows, Publish, Call
  <2> QED
    BY <1>1, <1>3, <2>1, <2>2 DEF Call
<1>4. CASE Publish(k)
  <2>1. call' = [call EXCEPT ![k] = [call[k] EXCEPT !.pc = "published"]]
    BY <1>4 DEF Publish
  <2>2. ~Answered(k) /\ ~ListRows(k)
    BY <1>1, <1>4, <2>1 DEF Answered, Refuse, DropEvent, ListRows, Publish, Call
  <2> QED
    BY <1>1, <1>4, <2>1, <2>2 DEF Call
<1> QED
  BY <1>2, <1>3, <1>4

\* A new call starts with its row written; the others of its user are alone no more.
LEMMA UpsertMoves ==
  ASSUME IInv, NEW k \in Calls, NEW u \in Users, NEW s \in Skills,
         NEW p \in Proficiencies, Upsert(k, u, s, p)
  PROVE  /\ call[k].pc = "idle"
         /\ call'[k].pc = "upserted" /\ call'[k].user = u /\ call'[k].skill = s
         /\ call'[k].alone = (InFlight(u) = {})
         /\ \A j \in Calls \ {k} :
              /\ call'[j].pc = call[j].pc /\ call'[j].user = call[j].user
              /\ call'[j].skill = call[j].skill /\ call'[j].rows = call[j].rows
              /\ call'[j].alone <=> (call[j].alone /\ j \notin InFlight(u))
<1>1. call \in [Calls -> Call]
  BY DEF IInv, TypeOK
<1>2. call[k].pc = "idle"
  BY DEF Upsert, Step
<1>3. call'[k] = Upserted(u, s, InFlight(u))
  BY DEF Upsert
<1>4. \A j \in Calls \ {k} :
        call'[j] = [call[j] EXCEPT !.alone = call[j].alone /\ j \notin InFlight(u)]
  BY DEF Upsert
<1>5. ASSUME NEW j \in Calls \ {k}
      PROVE  /\ call'[j].pc = call[j].pc /\ call'[j].user = call[j].user
             /\ call'[j].skill = call[j].skill /\ call'[j].rows = call[j].rows
             /\ call'[j].alone <=> (call[j].alone /\ j \notin InFlight(u))
  <2>1. call[j] \in Call
    BY <1>1
  <2> QED
    BY <1>4, <2>1 DEF Call
<1> QED
  BY <1>2, <1>3, <1>5 DEF Upserted

--------------------------------------------------------------------------------
(* A call's own write on its way into the topic *)

WroteRow == \A k \in Calls :
  call[k].pc = "upserted" => userSkills[call[k].user][call[k].skill] # None

ReadRow == \A k \in Calls :
  call[k].pc = "listed" => call[k].rows[call[k].skill] # None

OwnWriteInv == WroteRow /\ ReadRow /\ EventCarriesOwnWrite

LEMMA OwnWriteInit == Init => OwnWriteInv
BY DEF Init, OwnWriteInv, WroteRow, ReadRow, EventCarriesOwnWrite, NotCalled

LEMMA OwnWriteNext == IInv /\ OwnWriteInv /\ [Next]_vars => OwnWriteInv'
<1> SUFFICES ASSUME IInv, OwnWriteInv, [Next]_vars
             PROVE  OwnWriteInv'
  OBVIOUS
<1> USE DEF OwnWriteInv, WroteRow, ReadRow, EventCarriesOwnWrite
<1>0. /\ CallersKnown /\ userSkills \in [Users -> Lists] /\ topic \in [Users -> Seq(Lists)]
      /\ call \in [Calls -> Call]
  BY DEF IInv, TypeOK
<1>1. ASSUME NEW k \in Calls, Answered(k)
      PROVE  OwnWriteInv'
  <2>1. UNCHANGED <<userSkills, topic>>
    BY <1>1 DEF Answered, Refuse, DropEvent
  <2> QED
    BY <1>1, <2>1, CallMoves
<1>2. ASSUME NEW k \in Calls, NEW u \in Users, NEW s \in Skills,
             NEW p \in Proficiencies, Upsert(k, u, s, p)
      PROVE  OwnWriteInv'
  <2>1. /\ userSkills'[u][s] # None
        /\ \A v \in Users, t \in Skills :
             userSkills[v][t] # None => userSkills'[v][t] # None
    BY <1>0, <1>2, NoneIsNoValue DEF Upsert, Lists
  <2>2. topic' = topic
    BY <1>2 DEF Upsert
  <2>3. WroteRow'
    <3>1. ASSUME NEW j \in Calls \ {k}, call'[j].pc = "upserted"
          PROVE  userSkills'[call'[j].user][call'[j].skill] # None
      <4>1. call[j].user \in Users /\ call[j].skill \in Skills /\ call[j].pc = "upserted"
        BY <1>0, <1>2, <3>1, UpsertMoves DEF CallersKnown, Pending
      <4> QED
        BY <1>2, <2>1, <4>1, UpsertMoves
    <3> QED
      BY <1>2, <2>1, <3>1, UpsertMoves
  <2>4. ReadRow'
    BY <1>2, UpsertMoves
  <2>5. EventCarriesOwnWrite'
    BY <1>2, <2>2, UpsertMoves
  <2> QED
    BY <2>3, <2>4, <2>5
<1>3. ASSUME NEW k \in Calls, ListRows(k)
      PROVE  OwnWriteInv'
  <2>1. UNCHANGED <<userSkills, topic>> /\ call[k].pc = "upserted"
    BY <1>3 DEF ListRows, Step
  <2> QED
    BY <1>3, <2>1, CallMoves DEF CurrentRows
<1>4. ASSUME NEW k \in Calls, Publish(k)
      PROVE  OwnWriteInv'
  <2>1. call[k].user \in Users /\ call[k].rows \in Lists
    BY <1>0, <1>4 DEF Publish, Step, CallersKnown, Pending, Call
  <2>2. /\ topic' = [topic EXCEPT ![call[k].user] = Append(topic[call[k].user], call[k].rows)]
        /\ UNCHANGED userSkills /\ call[k].pc = "listed"
    BY <1>4 DEF Publish, Step
  <2>3. \A v \in Users : \A n \in 1 .. Len(topic[v]) :
          n \in 1 .. Len(topic'[v]) /\ topic'[v][n] = topic[v][n]
    BY <1>0, <2>1, <2>2
  <2>4. \E n \in 1 .. Len(topic'[call[k].user]) :
          topic'[call[k].user][n] = call[k].rows
    <3>1. topic'[call[k].user] = Append(topic[call[k].user], call[k].rows)
      BY <1>0, <2>1, <2>2
    <3>2. /\ Len(topic'[call[k].user]) = Len(topic[call[k].user]) + 1
          /\ topic'[call[k].user][Len(topic[call[k].user]) + 1] = call[k].rows
      BY <1>0, <2>1, <3>1
    <3>3. Len(topic[call[k].user]) \in Nat
      BY <1>0, <2>1
    <3> QED
      BY <3>2, <3>3
  <2>5. EventCarriesOwnWrite'
    <3>1. ASSUME NEW j \in Calls \ {k}, call'[j].pc = "published"
          PROVE  \E n \in 1 .. Len(topic'[call'[j].user]) :
                   topic'[call'[j].user][n][call'[j].skill] # None
      <4>1. call'[j] = call[j]
        BY <1>4, CallMoves
      <4>2. call[j].user \in Users
        BY <1>0, <3>1, <4>1 DEF CallersKnown
      <4>3. PICK n \in 1 .. Len(topic[call[j].user]) : topic[call[j].user][n][call[j].skill] # None
        BY <3>1, <4>1
      <4> QED
        BY <2>3, <4>1, <4>2, <4>3
    <3>2. call'[k].user = call[k].user /\ call'[k].skill = call[k].skill
      BY <1>4, CallMoves
    <3>3. call[k].rows[call[k].skill] # None
      BY <2>2
    <3> QED
      BY <2>4, <3>1, <3>2, <3>3
  <2> QED
    BY <1>4, <2>2, <2>5, CallMoves
<1>5. UNCHANGED <<userSkills, call, topic>> => OwnWriteInv'
  OBVIOUS
<1>6. ASSUME NEW u \in Users, Replace(u) \/ ReplaceFails(u) \/ ReplaceCancelled(u)
      PROVE  OwnWriteInv'
  BY <1>5, <1>6 DEF Replace, ReplaceFails, ReplaceCancelled, serviceVars
<1>7. CASE Poll \/ Commit \/ Stop \/ Leave \/ Restart
  BY <1>5, <1>7, OffsetActions DEF OffsetsOnly, serviceVars
<1>8. CASE UNCHANGED vars
  BY <1>5, <1>8 DEF vars
<1> QED
  BY <1>1, <1>2, <1>3, <1>4, <1>6, <1>7, <1>8 DEF Next, Answered

\* However the calls of a user interleave, the list a call publishes contains the
\* skill that call added: AddUserSkill reads the rows after its own upsert.
THEOREM OwnWriteCarried == Spec => []EventCarriesOwnWrite
<1>1. Spec => [](IInv /\ OwnWriteInv)
  BY Inductive, OwnWriteInit, OwnWriteNext, PTL DEF Spec
<1> QED
  BY <1>1, PTL DEF OwnWriteInv

--------------------------------------------------------------------------------
(* Why the record is what was published last *)

\* A call that nobody has overlapped is the only one of its user.
AloneInv == \A k, j \in Calls :
  /\ call[k].pc \in Pending /\ call[k].alone
  /\ call[j].pc \in Pending /\ call[j].user = call[k].user
  => j = k

OverlapInv == \A k \in Calls :
  call[k].pc \in Pending /\ ~call[k].alone => "overlap" \in drift[call[k].user]

FreshRows == \A k \in Calls :
  call[k].pc = "listed" /\ call[k].alone => call[k].rows = userSkills[call[k].user]

Newest(u) == IF Len(topic[u]) = 0 THEN NoSkills ELSE topic[u][Len(topic[u])]

AtRest == \A u \in Users :
  InFlight(u) = {} /\ drift[u] = {} => userSkills[u] = Newest(u)

CallsInv == AloneInv /\ OverlapInv /\ FreshRows /\ AtRest

LEMMA CallsInit == Init => CallsInv
BY DEF Init, CallsInv, AloneInv, OverlapInv, FreshRows, AtRest, Newest, NotCalled, Pending

\* A step that leaves the calls, the record, the topic and the causes alone.
LEMMA CallsUntouched ==
  ASSUME CallsInv, UNCHANGED <<userSkills, call, topic, drift>>
  PROVE  CallsInv'
BY DEF CallsInv, AloneInv, OverlapInv, FreshRows, AtRest, InFlight, Newest

LEMMA CallsNext == IInv /\ CallsInv /\ [Next]_vars => CallsInv'
<1> SUFFICES ASSUME IInv, CallsInv, [Next]_vars
             PROVE  CallsInv'
  OBVIOUS
<1> USE DEF CallsInv
<1>0. /\ CallersKnown /\ userSkills \in [Users -> Lists] /\ topic \in [Users -> Seq(Lists)]
      /\ call \in [Calls -> Call] /\ drift \in [Users -> SUBSET {"overlap", "lost"}]
  BY DEF IInv, TypeOK
<1>1. ASSUME NEW k \in Calls, Refuse(k)
      PROVE  CallsInv'
  <2>1. /\ UNCHANGED <<userSkills, topic, drift>> /\ call[k].pc = "idle"
        /\ Answered(k)
    BY <1>1 DEF Refuse, Step, Answered
  <2>2. /\ \A j \in Calls \ {k} : call'[j] = call[j]
        /\ call'[k].pc = "done"
    BY <2>1, CallMoves
  <2>3. \A u \in Users : InFlight(u)' = InFlight(u)
    BY <2>1, <2>2 DEF InFlight, Pending
  <2>4. AloneInv' /\ OverlapInv' /\ FreshRows'
    BY <2>1, <2>2 DEF AloneInv, OverlapInv, FreshRows, Pending
  <2> QED
    BY <2>1, <2>3, <2>4 DEF AtRest, Newest
<1>2. ASSUME NEW k \in Calls, NEW u \in Users, NEW s \in Skills,
             NEW p \in Proficiencies, Upsert(k, u, s, p)
      PROVE  CallsInv'
  <2>1. /\ \A v \in Users : v # u => userSkills'[v] = userSkills[v] /\ drift'[v] = drift[v]
        /\ \A v \in Users : drift[v] \subseteq drift'[v]
        /\ InFlight(u) # {} => "overlap" \in drift'[u]
        /\ topic' = topic
    BY <1>0, <1>2 DEF Upsert
  <2>2. \A j \in Calls \ {k} :
          /\ call'[j].pc = call[j].pc /\ call'[j].user = call[j].user
          /\ call'[j].rows = call[j].rows
          /\ call'[j].alone <=> (call[j].alone /\ j \notin InFlight(u))
    BY <1>2, UpsertMoves
  <2>3. /\ call[k].pc = "idle" /\ call'[k].pc = "upserted" /\ call'[k].user = u
        /\ call'[k].alone <=> (InFlight(u) = {})
    BY <1>2, UpsertMoves
  <2>4. AloneInv'
    <3>1. ASSUME NEW i \in Calls, NEW j \in Calls,
                 call'[i].pc \in Pending, call'[i].alone,
                 call'[j].pc \in Pending, call'[j].user = call'[i].user
          PROVE  j = i
      <4>1. CASE i = k
        BY <2>2, <2>3, <3>1, <4>1 DEF InFlight
      <4>2. CASE i # k /\ j = k
        BY <2>2, <2>3, <3>1, <4>2 DEF InFlight
      <4>3. CASE i # k /\ j # k
        BY <2>2, <3>1, <4>3 DEF AloneInv
      <4> QED
        BY <4>1, <4>2, <4>3
    <3> QED
      BY <3>1 DEF AloneInv
  <2>5. OverlapInv'
    <3>1. ASSUME NEW j \in Calls \ {k}, call'[j].pc \in Pending, ~call'[j].alone
          PROVE  "overlap" \in drift'[call'[j].user]
      <4>1. call[j].pc \in Pending /\ call[j].user \in Users /\ call'[j].user = call[j].user
        BY <1>0, <2>2, <3>1 DEF CallersKnown
      <4>2. CASE j \in InFlight(u)
        BY <2>1, <4>1, <4>2 DEF InFlight
      <4>3. CASE ~call[j].alone
        BY <2>1, <4>1, <4>3 DEF OverlapInv
      <4> QED
        BY <2>2, <3>1, <4>2, <4>3
    <3> QED
      BY <2>1, <2>3, <3>1 DEF OverlapInv
  <2>6. FreshRows'
    <3>1. ASSUME NEW j \in Calls \ {k}, call'[j].pc = "listed", call'[j].alone
          PROVE  call'[j].rows = userSkills'[call'[j].user]
      <4>1. call[j].pc = "listed" /\ call[j].alone /\ j \notin InFlight(u)
        BY <2>2, <3>1
      <4>2. call[j].user \in Users /\ call[j].user # u
        BY <1>0, <4>1 DEF CallersKnown, InFlight, Pending
      <4> QED
        BY <2>1, <2>2, <4>1, <4>2 DEF FreshRows
    <3> QED
      BY <2>3, <3>1 DEF FreshRows
  <2>7. AtRest'
    <3>1. ASSUME NEW v \in Users, v # u
          PROVE  InFlight(v)' = InFlight(v)
      BY <2>2, <2>3, <3>1 DEF InFlight, Pending
    <3>2. k \in InFlight(u)'
      BY <2>3 DEF InFlight, Pending
    <3> QED
      BY <2>1, <3>1, <3>2 DEF AtRest, Newest
  <2> QED
    BY <2>4, <2>5, <2>6, <2>7
<1>3. ASSUME NEW k \in Calls, ListRows(k)
      PROVE  CallsInv'
  <2>1. UNCHANGED <<userSkills, topic, drift>> /\ call[k].pc = "upserted"
    BY <1>3 DEF ListRows, Step
  <2>2. /\ \A j \in Calls \ {k} : call'[j] = call[j]
        /\ call'[k].user = call[k].user /\ call'[k].alone = call[k].alone
        /\ call'[k].pc = "listed" /\ call'[k].rows = userSkills[call[k].user]
    BY <1>3, CallMoves DEF CurrentRows
  <2>3. \A j \in Calls : (call'[j].pc \in Pending <=> call[j].pc \in Pending)
                        /\ call'[j].user = call[j].user /\ call'[j].alone = call[j].alone
    BY <2>1, <2>2 DEF Pending
  <2>4. \A u \in Users : InFlight(u)' = InFlight(u)
    BY <2>3 DEF InFlight
  <2>5. AloneInv' /\ OverlapInv'
    BY <2>1, <2>3 DEF AloneInv, OverlapInv
  <2>6. FreshRows'
    BY <2>1, <2>2 DEF FreshRows
  <2> QED
    BY <2>1, <2>4, <2>5, <2>6 DEF AtRest, Newest
<1>4. ASSUME NEW k \in Calls, DropEvent(k)
      PROVE  CallsInv'
  <2>1. /\ UNCHANGED <<userSkills, topic>> /\ call[k].pc \in Pending
        /\ drift' = [drift EXCEPT ![call[k].user] = drift[call[k].user] \cup {"lost"}]
        /\ Answered(k)
    BY <1>4 DEF DropEvent, Answered
  <2>2. /\ \A j \in Calls \ {k} : call'[j] = call[j]
        /\ call'[k].pc = "done" /\ call[k].user \in Users
    BY <1>0, <2>1, CallMoves DEF CallersKnown
  <2>3. /\ \A v \in Users : v # call[k].user => drift'[v] = drift[v]
        /\ \A v \in Users : drift[v] \subseteq drift'[v]
        /\ "lost" \in drift'[call[k].user]
    BY <1>0, <2>1, <2>2
  <2>4. AloneInv' /\ FreshRows'
    BY <2>1, <2>2 DEF AloneInv, FreshRows, Pending
  <2>5. OverlapInv'
    BY <1>0, <2>2, <2>3 DEF OverlapInv, CallersKnown, Pending
  <2>6. AtRest'
    <3>1. ASSUME NEW v \in Users, v # call[k].user
          PROVE  InFlight(v)' = InFlight(v)
      BY <2>2, <3>1 DEF InFlight, Pending
    <3> QED
      BY <2>1, <2>3, <3>1 DEF AtRest, Newest
  <2> QED
    BY <2>4, <2>5, <2>6
<1>5. ASSUME NEW k \in Calls, Publish(k)
      PROVE  CallsInv'
  <2> DEFINE u == call[k].user
  <2>1. /\ call[k].pc = "listed" /\ UNCHANGED userSkills
        /\ topic' = [topic EXCEPT ![u] = Append(topic[u], call[k].rows)]
        /\ drift' = [drift EXCEPT ![u] = IF call[k].alone THEN {} ELSE drift[u]]
    BY <1>5 DEF Publish, Step
  <2>2. /\ \A j \in Calls \ {k} : call'[j] = call[j]
        /\ call'[k].pc = "published"
    BY <1>5, CallMoves
  <2>3. u \in Users /\ call[k].rows \in Lists
    BY <1>0, <2>1 DEF CallersKnown, Pending, Call
  <2>4. /\ \A v \in Users : v # u => drift'[v] = drift[v] /\ topic'[v] = topic[v]
        /\ drift'[u] = IF call[k].alone THEN {} ELSE drift[u]
        /\ topic'[u] = Append(topic[u], call[k].rows) /\ topic[u] \in Seq(Lists)
    BY <1>0, <2>1, <2>3
  <2>5. AloneInv' /\ FreshRows'
    BY <2>1, <2>2 DEF AloneInv, FreshRows, Pending
  <2>6. OverlapInv'
    <3>1. ASSUME NEW j \in Calls \ {k}, call[j].pc \in Pending, ~call[j].alone
          PROVE  "overlap" \in drift'[call[j].user]
      <4>1. call[j].user \in Users /\ "overlap" \in drift[call[j].user]
        BY <1>0, <3>1 DEF OverlapInv, CallersKnown
      <4>2. call[j].user = u => ~call[k].alone
        BY <2>1, <3>1 DEF AloneInv, Pending
      <4> QED
        BY <2>4, <4>1, <4>2
    <3> QED
      BY <2>2, <3>1 DEF OverlapInv, Pending
  <2>7. ASSUME NEW v \in Users, v = u
        PROVE  Newest(v)' = call[k].rows
    <3>1. Len(topic'[u]) = Len(topic[u]) + 1 /\ Len(topic[u]) \in Nat
      BY <2>3, <2>4
    <3>2. topic'[u][Len(topic'[u])] = call[k].rows
      BY <2>3, <2>4, <3>1
    <3> QED
      BY <2>7, <3>1, <3>2 DEF Newest
  <2>8. AtRest'
    <3>1. ASSUME NEW v \in Users, v # u
          PROVE  InFlight(v)' = InFlight(v) /\ Newest(v)' = Newest(v)
      BY <2>2, <2>4, <3>1 DEF InFlight, Pending, Newest
    <3>2. CASE call[k].alone
      <4>1. call[k].rows = userSkills[u]
        BY <2>1, <3>2 DEF FreshRows
      <4> QED
        BY <2>1, <2>4, <2>7, <3>1, <4>1 DEF AtRest
    <3>3. CASE ~call[k].alone
      <4>1. "overlap" \in drift'[u]
        BY <2>1, <2>4, <3>3 DEF OverlapInv, Pending
      <4> QED
        BY <2>1, <2>4, <3>1, <4>1 DEF AtRest
    <3> QED
      BY <3>2, <3>3
  <2> QED
    BY <2>5, <2>6, <2>8
<1>6. ASSUME NEW u \in Users, Replace(u) \/ ReplaceCancelled(u)
      PROVE  CallsInv'
  BY <1>6, CallsUntouched DEF Replace, ReplaceCancelled, serviceVars
<1>7. ASSUME NEW u \in Users, ReplaceFails(u)
      PROVE  CallsInv'
  <2>1. /\ UNCHANGED <<userSkills, call, topic>>
        /\ \A v \in Users : drift'[v] = drift[v] \/ drift'[v] = drift[v] \cup {"lost"}
    BY <1>0, <1>7 DEF ReplaceFails, serviceVars
  <2>2. AloneInv' /\ FreshRows'
    BY <2>1 DEF AloneInv, FreshRows
  <2>3. OverlapInv'
    BY <1>0, <2>1 DEF OverlapInv, CallersKnown
  <2>4. AtRest'
    <3>1. \A v \in Users : drift'[v] = {} => drift[v] = {}
      BY <2>1
    <3>2. \A v \in Users : InFlight(v)' = InFlight(v) /\ Newest(v)' = Newest(v)
      BY <2>1 DEF InFlight, Newest
    <3> QED
      BY <2>1, <3>1, <3>2 DEF AtRest
  <2> QED
    BY <2>2, <2>3, <2>4
<1>8. CASE Poll \/ Commit \/ Stop \/ Leave \/ Restart
  BY <1>8, OffsetActions, CallsUntouched DEF OffsetsOnly, serviceVars
<1>9. CASE UNCHANGED vars
  BY <1>9, CallsUntouched DEF vars
<1> QED
  BY <1>1, <1>2, <1>3, <1>4, <1>5, <1>6, <1>7, <1>8, <1>9 DEF Next

--------------------------------------------------------------------------------
(* Why the snapshot is what was published last *)

CaughtUpAt(u, offset) == offset = Len(topic[u]) => applied[u] = Len(topic[u])

CaughtUpInv == \A u \in Users :
  "lost" \notin drift[u] =>
    /\ CaughtUpAt(u, head[u])
    /\ mode = "running" => CaughtUpAt(u, next[u])

LEMMA CaughtUpInit == Init => CaughtUpInv
BY DEF Init, CaughtUpInv, CaughtUpAt, Group!Init

\* A consumer that is somewhere else keeps what it had caught up with.
LEMMA CaughtUpKept ==
  ASSUME CaughtUpInv, UNCHANGED <<topic, applied, mode, head, next>>,
         \A u \in Users : "lost" \in drift[u] => "lost" \in drift'[u]
  PROVE  CaughtUpInv'
BY DEF CaughtUpInv, CaughtUpAt

LEMMA CaughtUpNext == IInv /\ CaughtUpInv /\ [Next]_vars => CaughtUpInv'
<1> SUFFICES ASSUME IInv, CaughtUpInv, [Next]_vars
             PROVE  CaughtUpInv'
  OBVIOUS
<1> USE DEF CaughtUpInv, CaughtUpAt
<1>0. /\ CallersKnown /\ topic \in [Users -> Seq(Lists)] /\ applied \in [Users -> Nat]
      /\ call \in [Calls -> Call] /\ drift \in [Users -> SUBSET {"overlap", "lost"}]
      /\ next \in [Users -> Nat] /\ head \in [Users -> Nat] /\ committed \in [Users -> Nat]
      /\ end \in [Users -> Nat]
  BY DEF IInv, TypeOK, Group!TypeOK
<1>00. \A u \in Users :
         /\ committed[u] <= head[u] /\ head[u] <= next[u]
         /\ next[u] <= end[u] /\ end[u] <= Len(topic[u])
  BY DEF IInv, Group!OffsetsOrdered
<1>1. ASSUME NEW k \in Calls,
             \/ Refuse(k) \/ ListRows(k) \/ DropEvent(k)
             \/ \E u \in Users, s \in Skills, p \in Proficiencies : Upsert(k, u, s, p)
      PROVE  CaughtUpInv'
  <2>1. UNCHANGED <<topic, applied, mode, head, next>>
    BY <1>1 DEF Refuse, ListRows, DropEvent, Upsert, jobsVars, groupVars
  <2>2. ASSUME NEW u \in Users PROVE drift[u] \subseteq drift'[u]
    <3>1. drift' = drift \/ \E v \in Users, why \in SUBSET {"overlap", "lost"} :
                           drift' = [drift EXCEPT ![v] = drift[v] \cup why]
      <4>1. CASE Refuse(k) \/ ListRows(k)
        BY <4>1 DEF Refuse, ListRows
      <4>2. CASE DropEvent(k)
        <5>1. call[k].user \in Users
          BY <1>0, <4>2 DEF DropEvent, CallersKnown, Pending
        <5> QED
          BY <4>2, <5>1 DEF DropEvent
      <4>3. CASE \E v \in Users, s \in Skills, p \in Proficiencies : Upsert(k, v, s, p)
        <5>1. PICK v \in Users, s \in Skills, p \in Proficiencies : Upsert(k, v, s, p)
          BY <4>3
        <5>2. \/ drift' = [drift EXCEPT ![v] = drift[v]]
              \/ drift' = [drift EXCEPT ![v] = drift[v] \cup {"overlap"}]
          BY <5>1 DEF Upsert
        <5>3. drift[v] = drift[v] \cup {}
          OBVIOUS
        <5> QED
          BY <5>2, <5>3
      <4> QED
        BY <1>1, <4>1, <4>2, <4>3
    <3> QED
      BY <1>0, <3>1
  <2> QED
    BY <2>1, <2>2, CaughtUpKept
<1>2. ASSUME NEW k \in Calls, Publish(k)
      PROVE  CaughtUpInv'
  <2> DEFINE u == call[k].user
  <2>1. /\ topic' = [topic EXCEPT ![u] = Append(topic[u], call[k].rows)]
        /\ drift' = [drift EXCEPT ![u] = IF call[k].alone THEN {} ELSE drift[u]]
        /\ UNCHANGED <<applied, mode, head, next>> /\ call[k].pc = "listed"
    BY <1>2 DEF Publish, Step, jobsVars, groupVars
  <2>2. u \in Users
    BY <1>0, <2>1 DEF CallersKnown, Pending
  <2>3. /\ \A v \in Users : v # u => drift'[v] = drift[v] /\ topic'[v] = topic[v]
        /\ Len(topic'[u]) = Len(topic[u]) + 1 /\ Len(topic[u]) \in Nat
    BY <1>0, <2>1, <2>2
  <2>4. head'[u] # Len(topic'[u]) /\ next'[u] # Len(topic'[u])
    BY <1>0, <1>00, <2>1, <2>2, <2>3
  <2> QED
    BY <2>1, <2>3, <2>4
<1>3. ASSUME NEW u \in Users, Replace(u)
      PROVE  CaughtUpInv'
  <2>1. /\ next' = [next EXCEPT ![u] = next[u] + 1]
        /\ applied' = [applied EXCEPT ![u] = next[u] + 1]
        /\ UNCHANGED <<topic, mode, head, drift>> /\ next[u] < end[u]
    BY <1>3 DEF Replace, Replaced, Group!Deliver, Group!Delivering, serviceVars
  <2>2. head[u] # Len(topic[u]) /\ Len(topic[u]) \in Nat
    BY <1>0, <1>00, <2>1
  <2> QED
    BY <1>0, <2>1, <2>2
<1>4. ASSUME NEW u \in Users, ReplaceFails(u)
      PROVE  CaughtUpInv'
  <2>1. /\ next' = [next EXCEPT ![u] = next[u] + 1]
        /\ drift' = [drift EXCEPT ![u] = IF next[u] + 1 = Len(topic[u])
                                        THEN drift[u] \cup {"lost"} ELSE drift[u]]
        /\ UNCHANGED <<topic, mode, head, applied>>
    BY <1>4 DEF ReplaceFails, Group!Deliver, serviceVars
  <2> QED
    BY <1>0, <2>1
<1>5. ASSUME NEW u \in Users, ReplaceCancelled(u)
      PROVE  CaughtUpInv'
  BY <1>5 DEF ReplaceCancelled, Group!Deliver, serviceVars, jobsVars
<1>6. CASE Poll \/ Commit \/ Stop \/ Leave \/ Restart
  <2>1. OffsetStep /\ UNCHANGED <<topic, applied, drift>>
    BY <1>6, OffsetActions DEF OffsetsOnly, serviceVars, jobsVars
  <2>2. CASE Group!Repoll
    BY <2>1, <2>2 DEF Group!Repoll
  <2>3. CASE \/ Group!AutoCommit \/ Group!Cancel \/ Group!Crash \/ Group!Close
             \/ \E u \in Users : \E n \in 1 .. Len(topic[u]) : Group!Fetch(u, n)
    BY <2>1, <2>3 DEF Group!AutoCommit, Group!Cancel, Group!Crash, Group!Close, Group!Fetch
  <2>4. CASE Group!Start
    <3>1. \A u \in Users : committed[u] = Len(topic[u]) => head[u] = Len(topic[u])
      BY <1>0, <1>00
    <3>2. /\ head' = committed /\ next' = committed
      BY <2>4 DEF Group!Start
    <3> QED
      BY <2>1, <3>1, <3>2
  <2> QED
    BY <2>1, <2>2, <2>3, <2>4 DEF OffsetStep
<1>7. CASE UNCHANGED vars
  BY <1>7, CaughtUpKept DEF vars, groupVars
<1> QED
  BY <1>1, <1>2, <1>3, <1>4, <1>5, <1>6, <1>7 DEF Next

--------------------------------------------------------------------------------
\* Once a user's calls are answered and the topic is consumed, the snapshot is
\* users-service's record unless an event was lost, the newest one could not be
\* applied, or calls of the user overlapped: crashes, shutdowns and redelivery
\* are no cause, whatever their number and order.
THEOREM DriftExplained == Spec => []DriftHasACause
<1>1. IInv /\ OneEventInv /\ CallsInv /\ CaughtUpInv => DriftHasACause
  <2> SUFFICES ASSUME IInv, OneEventInv, CallsInv, CaughtUpInv,
                      NEW u \in Users, Settled(u), drift[u] = {}
               PROVE  snapshot[u] = userSkills[u]
    BY DEF DriftHasACause
  <2>1. userSkills[u] = Newest(u)
    BY DEF Settled, CallsInv, AtRest
  <2>2. applied[u] = Len(topic[u])
    BY DEF Settled, CaughtUpInv, CaughtUpAt
  <2>3. snapshot[u] = Newest(u)
    BY <2>2 DEF OneEventInv, SnapshotIsOneEvent, Newest
  <2> QED
    BY <2>1, <2>3
<1>2. Spec => [](IInv /\ CallsInv /\ CaughtUpInv)
  BY Inductive, CallsInit, CallsNext, CaughtUpInit, CaughtUpNext, PTL DEF Spec
<1> QED
  BY <1>1, <1>2, OneEventAlways, PTL
================================================================================
