----------------------------- MODULE EmailLogProofs -----------------------------
(***************************************************************************)
(* Proofs about EmailLog for any number of messages, copies, slots, faults *)
(* and outages.  A message leaves the queue for one of two reasons only:   *)
(* its handler was past its INSERT, and then the row or the failure is on  *)
(* record; or it was malformed, and then it is a dead letter.  What has to *)
(* be added to the three invariants of the module is what a handler about  *)
(* to acknowledge knows.                                                   *)
(***************************************************************************)
EXTENDS EmailLog, ListLemmas

--------------------------------------------------------------------------------
(* The queue: its type, and who still waits after each of its operations. *)

Mine == unacked[Service]

LEMMA SameOperators ==
  /\ \A s : Queue!ToSet(s) = ToSet(s)
  /\ \A s, i : Queue!RemoveAt(s, i) = RemoveAt(s, i)
BY DEF Queue!ToSet, ToSet, Queue!RemoveAt, RemoveAt

LEMMA WaitingHere ==
  /\ \A m : Queue!Waiting(m) <=> m \in ToSet(ready) \cup ToSet(Mine)
  /\ \A m : Queue!Waiting(m)' <=> m \in ToSet(ready') \cup ToSet(Mine')
BY SameOperators DEF Queue!Waiting, Queue!Held, Mine

LEMMA SlotsCounted == Cardinality(Slots) \in Nat
BY FinitelyManySlots, FS_CardinalityType

LEMMA QueueSame ==
  ASSUME Queue!TypeOK, UNCHANGED queueVars
  PROVE  Queue!TypeOK' /\ \A n : Queue!Waiting(n)' <=> Queue!Waiting(n)
BY DEF queueVars, Queue!TypeOK, Queue!Waiting, Queue!Held

LEMMA EnqueueKeeps ==
  ASSUME Queue!TypeOK, NEW m \in Messages, Queue!Enqueue(m)
  PROVE  /\ Queue!TypeOK' /\ UNCHANGED dead
         /\ \A n : Queue!Waiting(n)' <=> Queue!Waiting(n) \/ n = m
<1>1. /\ ready \in Seq(Messages) /\ ready' = Append(ready, m)
      /\ UNCHANGED <<unacked, Mine, dead, redelivered>>
  BY DEF Queue!TypeOK, Queue!Enqueue, Mine
<1>2. ready' \in Seq(Messages) /\ ToSet(ready') = ToSet(ready) \cup {m}
  BY <1>1, AppendMembers
<1>3. Queue!TypeOK'
  BY <1>1, <1>2 DEF Queue!TypeOK
<1> QED
  BY <1>1, <1>2, <1>3, WaitingHere

LEMMA DispatchKeeps ==
  ASSUME Queue!TypeOK, NEW m \in Messages, Queue!Dispatch(Service, m)
  PROVE  /\ Queue!TypeOK' /\ UNCHANGED dead
         /\ \A n : Queue!Waiting(n)' <=> Queue!Waiting(n)
<1>1. /\ ready \in Seq(Messages) /\ Mine \in Seq(Messages)
      /\ ready # <<>> /\ m = Head(ready) /\ ready' = Tail(ready)
      /\ Mine' = Append(Mine, m) /\ unacked' = [unacked EXCEPT ![Service] = Mine']
      /\ Len(Mine) < Cardinality(Slots) /\ UNCHANGED <<dead, redelivered>>
  BY DEF Queue!TypeOK, Queue!Dispatch, Mine
<1>2. ready' \in Seq(Messages) /\ ToSet(ready) = {m} \cup ToSet(ready')
  BY <1>1, TailMembers
<1>3. Mine' \in Seq(Messages) /\ ToSet(Mine') = ToSet(Mine) \cup {m} /\ Len(Mine') = Len(Mine) + 1
  BY <1>1, AppendMembers
<1>4. Len(Mine') <= Cardinality(Slots)
  BY <1>1, <1>3, SlotsCounted
<1>5. Queue!TypeOK'
  BY <1>1, <1>2, <1>3, <1>4 DEF Queue!TypeOK, Mine
<1> QED
  BY <1>1, <1>2, <1>3, <1>5, WaitingHere

\* An ack of m takes m alone from the queue, if anything.
LEMMA AckKeeps ==
  ASSUME Queue!TypeOK, NEW m \in Messages, Queue!Ack(Service, m)
  PROVE  /\ Queue!TypeOK' /\ UNCHANGED dead
         /\ \A n : n # m /\ Queue!Waiting(n) => Queue!Waiting(n)'
         /\ \A n : Queue!Waiting(n)' => Queue!Waiting(n)
<1>1. PICK i \in DOMAIN Mine :
        /\ Mine[i] = m /\ Mine \in Seq(Messages) /\ Len(Mine) <= Cardinality(Slots)
        /\ Mine' = RemoveAt(Mine, i) /\ unacked' = [unacked EXCEPT ![Service] = Mine']
        /\ UNCHANGED <<ready, dead, redelivered>>
  BY SameOperators DEF Queue!TypeOK, Queue!Ack, Queue!Settled, Mine
<1>2. /\ Mine' \in Seq(Messages) /\ Len(Mine') = Len(Mine) - 1
      /\ \A e \in ToSet(Mine) : e # m => e \in ToSet(Mine')
      /\ ToSet(Mine') \subseteq ToSet(Mine)
  BY <1>1, RemoveAtMembers
<1>3. Len(Mine') <= Cardinality(Slots)
  BY <1>1, <1>2, SlotsCounted
<1>4. Queue!TypeOK'
  BY <1>1, <1>2, <1>3 DEF Queue!TypeOK, Mine
<1> QED
  BY <1>1, <1>2, <1>4, WaitingHere

LEMMA RejectKeeps ==
  ASSUME Queue!TypeOK, NEW m \in Messages, Queue!Reject(m)
  PROVE  /\ Queue!TypeOK' /\ dead' = dead \cup {m}
         /\ \A n : n # m /\ Queue!Waiting(n) => Queue!Waiting(n)'
         /\ Queue!Waiting(m) /\ \A n : Queue!Waiting(n)' => Queue!Waiting(n)
<1>1. /\ ready \in Seq(Messages) /\ ready # <<>> /\ m = Head(ready) /\ ready' = Tail(ready)
      /\ dead' = dead \cup {m} /\ UNCHANGED <<unacked, Mine, redelivered>>
  BY DEF Queue!TypeOK, Queue!Reject, Mine
<1>2. ready' \in Seq(Messages) /\ ToSet(ready) = {m} \cup ToSet(ready')
  BY <1>1, TailMembers
<1>3. Queue!TypeOK'
  BY <1>1, <1>2 DEF Queue!TypeOK
<1> QED
  BY <1>1, <1>2, <1>3, WaitingHere

\* A closed channel gives back what it held.
LEMMA ReleaseKeeps ==
  ASSUME Queue!TypeOK, Queue!Release(Service)
  PROVE  /\ Queue!TypeOK' /\ UNCHANGED dead
         /\ \A n : Queue!Waiting(n)' <=> Queue!Waiting(n)
<1>1. /\ ready \in Seq(Messages) /\ Mine \in Seq(Messages)
      /\ ready' = Mine \o ready /\ Mine' = <<>>
      /\ unacked' = [unacked EXCEPT ![Service] = <<>>]
      /\ redelivered' = redelivered \cup ToSet(Mine) /\ UNCHANGED dead
  BY SameOperators DEF Queue!TypeOK, Queue!Release, Mine
<1>2. ready' \in Seq(Messages) /\ ToSet(ready') = ToSet(Mine) \cup ToSet(ready)
  BY <1>1, ConcatMembers
<1>3. ToSet(Mine') = {} /\ ToSet(Mine) \subseteq Messages
  BY <1>1 DEF ToSet
<1>4. Queue!TypeOK'
  BY <1>1, <1>2, <1>3, SlotsCounted DEF Queue!TypeOK
<1> QED
  BY <1>1, <1>2, <1>3, <1>4, WaitingHere

--------------------------------------------------------------------------------
(* Type correctness *)

LEMMA TypeInit == Init => TypeOK
<1> SUFFICES ASSUME Init PROVE TypeOK
  OBVIOUS
<1>1. /\ ready = <<>> /\ unacked = [c \in {Service} |-> <<>>] /\ dead = {} /\ redelivered = {}
  BY DEF Init, Queue!Init
<1>2. Queue!TypeOK
  BY <1>1, SlotsCounted DEF Queue!TypeOK
<1>3. /\ published = {} /\ proc = "up" /\ cut = FALSE /\ pool = TRUE /\ log = <<>> /\ unlogged = {}
      /\ inFlight = [s \in Slots |-> NoMessage] /\ step = [s \in Slots |-> "query"]
  BY DEF Init
<1>4. log \in Seq(Messages \ Malformed)
  BY <1>3
<1> QED
  BY <1>2, <1>3, <1>4 DEF TypeOK

\* The INSERT adds the message's row, or finds it.
LEMMA InsertedRows ==
  ASSUME log \in Seq(Messages \ Malformed), NEW m \in Messages \ Malformed
  PROVE  /\ Inserted(m) \in Seq(Messages \ Malformed)
         /\ ToSet(Inserted(m)) = ToSet(log) \cup {m}
         /\ IsInjective(log) => IsInjective(Inserted(m))
<1>1. CASE m \in ToSet(log)
  BY <1>1 DEF Inserted
<1>2. CASE m \notin ToSet(log)
  <2>1. Inserted(m) = Append(log, m)
    BY <1>2 DEF Inserted
  <2>2. /\ Append(log, m) \in Seq(Messages \ Malformed)
        /\ ToSet(Append(log, m)) = ToSet(log) \cup {m}
    BY AppendMembers
  <2>3. /\ DOMAIN Append(log, m) = (DOMAIN log) \cup {Len(log) + 1}
        /\ \A i \in DOMAIN log : Append(log, m)[i] = log[i] /\ i # Len(log) + 1
        /\ Append(log, m)[Len(log) + 1] = m
    OBVIOUS
  <2>4. \A i \in DOMAIN log : log[i] # m
    BY <1>2 DEF ToSet
  <2>5. IsInjective(log) => IsInjective(Append(log, m))
    BY <2>3, <2>4 DEF IsInjective
  <2> QED
    BY <2>1, <2>2, <2>5
<1> QED
  BY <1>1, <1>2

\* A handler works on a well-formed message, and one about to acknowledge has
\* its row or the failure on record.
HandlersKnow ==
  \A s \in Slots : inFlight[s] # NoMessage =>
    /\ inFlight[s] \notin Malformed
    /\ step[s] = "ack" => inFlight[s] \in ToSet(log) \cup unlogged

LogInv == TypeOK /\ HandlersKnow /\ OneRowPerMessage /\ GoneMeansLogged /\ DeadLettersAreMalformed

LEMMA LogInit == Init => LogInv
<1> SUFFICES ASSUME Init PROVE LogInv
  OBVIOUS
<1>1. TypeOK
  BY TypeInit
<1>2. log = <<>> /\ published = {} /\ dead = {} /\ \A s \in Slots : inFlight[s] = NoMessage
  BY DEF Init, Queue!Init
<1>3. OneRowPerMessage
  BY <1>2 DEF OneRowPerMessage, IsInjective
<1> QED
  BY <1>1, <1>2, <1>3 DEF LogInv, HandlersKnow, GoneMeansLogged, DeadLettersAreMalformed

--------------------------------------------------------------------------------
(* One lemma per action *)

LEMMA ArriveKeeps == ASSUME LogInv, NEW m \in Messages, Arrive(m) PROVE LogInv'
<1>1. /\ Queue!Enqueue(m) /\ published' = published \cup {m}
      /\ UNCHANGED <<proc, cut, pool, inFlight, step, log, unlogged>>
  BY DEF Arrive, processVars, handlerVars
<1>2. Queue!TypeOK' /\ UNCHANGED dead /\ \A n : Queue!Waiting(n)' <=> Queue!Waiting(n) \/ n = m
  BY <1>1, EnqueueKeeps DEF LogInv, TypeOK
<1> QED
  BY <1>1, <1>2
     DEF LogInv, TypeOK, HandlersKnow, OneRowPerMessage, GoneMeansLogged, DeadLettersAreMalformed

LEMMA ReceiveKeeps ==
  ASSUME LogInv, NEW s \in Slots, NEW m \in Messages, Receive(s, m) PROVE LogInv'
<1>1. /\ Queue!Dispatch(Service, m) /\ m \notin Malformed
      /\ inFlight' = [inFlight EXCEPT ![s] = m] /\ step' = [step EXCEPT ![s] = "query"]
      /\ UNCHANGED <<published, proc, cut, pool, log, unlogged>>
  BY DEF Receive, Taken, Refused, processVars
<1>2. Queue!TypeOK' /\ UNCHANGED dead /\ \A n : Queue!Waiting(n)' <=> Queue!Waiting(n)
  BY <1>1, DispatchKeeps DEF LogInv, TypeOK
<1>3. TypeOK'
  BY <1>1, <1>2 DEF LogInv, TypeOK
<1>4. HandlersKnow'
  BY <1>1 DEF LogInv, TypeOK, HandlersKnow
<1> QED
  BY <1>1, <1>2, <1>3, <1>4 DEF LogInv, OneRowPerMessage, GoneMeansLogged, DeadLettersAreMalformed

LEMMA RejectMalformedKeeps ==
  ASSUME LogInv, NEW m \in Messages, RejectMalformed(m) PROVE LogInv'
<1>1. /\ Queue!Reject(m) /\ m \in Malformed
      /\ UNCHANGED <<published, proc, cut, pool, inFlight, step, log, unlogged>>
  BY DEF RejectMalformed, Rejected, Refused, processVars, handlerVars
<1>2. /\ Queue!TypeOK' /\ dead' = dead \cup {m}
      /\ \A n : n # m /\ Queue!Waiting(n) => Queue!Waiting(n)'
  BY <1>1, RejectKeeps DEF LogInv, TypeOK
<1> QED
  BY <1>1, <1>2
     DEF LogInv, TypeOK, HandlersKnow, OneRowPerMessage, GoneMeansLogged, DeadLettersAreMalformed

LEMMA RecordKeeps == ASSUME LogInv, NEW s \in Slots, Record(s) PROVE LogInv'
<1>1. /\ inFlight[s] # NoMessage /\ log' = Inserted(inFlight[s]) /\ step' = [step EXCEPT ![s] = "ack"]
      /\ UNCHANGED <<queueVars, published, proc, cut, pool, inFlight, unlogged>>
  BY DEF Record, processVars
<1>2. inFlight[s] \in Messages \ Malformed
  BY <1>1 DEF LogInv, TypeOK, HandlersKnow
<1>3. /\ log' \in Seq(Messages \ Malformed) /\ ToSet(log') = ToSet(log) \cup {inFlight[s]}
      /\ IsInjective(log')
  BY <1>1, <1>2, InsertedRows DEF LogInv, TypeOK, OneRowPerMessage
<1>4. Queue!TypeOK' /\ UNCHANGED dead /\ \A n : Queue!Waiting(n)' <=> Queue!Waiting(n)
  BY <1>1, QueueSame DEF LogInv, TypeOK, queueVars
<1>5. TypeOK'
  BY <1>1, <1>3, <1>4 DEF LogInv, TypeOK
<1>6. HandlersKnow'
  BY <1>1, <1>2, <1>3 DEF LogInv, TypeOK, HandlersKnow
<1> QED
  BY <1>1, <1>3, <1>4, <1>5, <1>6
     DEF LogInv, OneRowPerMessage, GoneMeansLogged, DeadLettersAreMalformed

LEMMA RecordFailsKeeps == ASSUME LogInv, NEW s \in Slots, RecordFails(s) PROVE LogInv'
<1>1. /\ inFlight[s] # NoMessage /\ step' = [step EXCEPT ![s] = "ack"]
      /\ unlogged' = unlogged \cup {inFlight[s]}
      /\ UNCHANGED <<queueVars, published, proc, cut, pool, inFlight, log>>
  BY DEF RecordFails, processVars
<1>2. inFlight[s] \in Messages \ Malformed
  BY <1>1 DEF LogInv, TypeOK, HandlersKnow
<1>3. Queue!TypeOK' /\ UNCHANGED dead /\ \A n : Queue!Waiting(n)' <=> Queue!Waiting(n)
  BY <1>1, QueueSame DEF LogInv, TypeOK, queueVars
<1>4. TypeOK'
  BY <1>1, <1>2, <1>3 DEF LogInv, TypeOK
<1>5. HandlersKnow'
  BY <1>1, <1>2 DEF LogInv, TypeOK, HandlersKnow
<1> QED
  BY <1>1, <1>3, <1>4, <1>5
     DEF LogInv, OneRowPerMessage, GoneMeansLogged, DeadLettersAreMalformed

\* The only step that lets a well-formed message go.
LEMMA FinishKeeps == ASSUME LogInv, NEW s \in Slots, Finish(s) PROVE LogInv'
<1>1. /\ inFlight[s] # NoMessage /\ step[s] = "ack"
      /\ Queue!Ack(Service, inFlight[s]) \/ UNCHANGED queueVars
      /\ inFlight' = [inFlight EXCEPT ![s] = NoMessage] /\ step' = [step EXCEPT ![s] = "query"]
      /\ UNCHANGED <<published, proc, cut, pool, log, unlogged>>
  BY DEF Finish, processVars
<1>2. inFlight[s] \in Messages \ Malformed /\ inFlight[s] \in ToSet(log) \cup unlogged
  BY <1>1 DEF LogInv, TypeOK, HandlersKnow
<1>3. /\ Queue!TypeOK' /\ UNCHANGED dead
      /\ \A n : n # inFlight[s] /\ Queue!Waiting(n) => Queue!Waiting(n)'
  BY <1>1, <1>2, AckKeeps, QueueSame DEF LogInv, TypeOK, queueVars
<1>4. TypeOK'
  BY <1>1, <1>3 DEF LogInv, TypeOK
<1>5. HandlersKnow'
  BY <1>1 DEF LogInv, TypeOK, HandlersKnow
<1> QED
  BY <1>1, <1>2, <1>3, <1>4, <1>5
     DEF LogInv, OneRowPerMessage, GoneMeansLogged, DeadLettersAreMalformed

\* The process may go, and give back what it holds, at any moment: nobody forgets
\* what it has not handled.
LEMMA ProcessKeeps == ASSUME LogInv, ProcessStep PROVE LogInv'
<1>1. /\ Queue!Release(Service) \/ UNCHANGED queueVars
      /\ UNCHANGED <<inFlight, step>> \/ NoHandlers
      /\ UNCHANGED <<published, log, unlogged>>
      /\ proc' \in {"off", "up", "cancelled", "closed"} /\ cut' \in BOOLEAN /\ pool' \in BOOLEAN
  BY DEF ProcessStep, Cut, CancelConsumer, CloseChannel, Exit, Crash, Start,
         handlerVars, boundVars, processVars, LogInv, TypeOK
<1>2. Queue!TypeOK' /\ UNCHANGED dead /\ \A n : Queue!Waiting(n)' <=> Queue!Waiting(n)
  BY <1>1, ReleaseKeeps, QueueSame DEF LogInv, TypeOK, queueVars
<1>3. TypeOK'
  BY <1>1, <1>2 DEF LogInv, TypeOK, NoHandlers
<1>4. HandlersKnow'
  BY <1>1 DEF LogInv, TypeOK, HandlersKnow, NoHandlers
<1> QED
  BY <1>1, <1>2, <1>3, <1>4 DEF LogInv, OneRowPerMessage, GoneMeansLogged, DeadLettersAreMalformed

LEMMA LogNext == LogInv /\ [Next]_vars => LogInv'
<1> SUFFICES ASSUME LogInv, [Next]_vars PROVE LogInv'
  OBVIOUS
<1>1. CASE UNCHANGED vars
  <2>1. Queue!TypeOK' /\ UNCHANGED dead /\ \A n : Queue!Waiting(n)' <=> Queue!Waiting(n)
    BY <1>1, QueueSame DEF vars, queueVars, LogInv, TypeOK
  <2> QED
    BY <1>1, <2>1
       DEF vars, processVars, handlerVars, LogInv, TypeOK, HandlersKnow, OneRowPerMessage,
           GoneMeansLogged, DeadLettersAreMalformed
<1> QED
  BY <1>1, ArriveKeeps, ReceiveKeeps, RejectMalformedKeeps, RecordKeeps, RecordFailsKeeps,
     FinishKeeps, ProcessKeeps DEF Next, HandlerStep

LEMMA LogAlways == Spec => []LogInv
BY LogInit, LogNext, PTL DEF Spec

\* The variables of notification-service keep their types: its consumer never
\* holds more than its prefetch, and the log has rows of well-formed messages only.
THEOREM EmailTyped == Spec => []TypeOK
BY LogAlways, PTL DEF LogInv

\* One message_id, one row, whatever is redelivered or published twice.
THEOREM OneRow == Spec => []OneRowPerMessage
BY LogAlways, PTL DEF LogInv

\* A well-formed message that has left the queue was recorded, or the database
\* was unavailable to the handler that acknowledged it.
THEOREM NothingLost == Spec => []GoneMeansLogged
BY LogAlways, PTL DEF LogInv

\* The dead letters are malformed, and no malformed message just disappears.
THEOREM DeadLettersExact == Spec => []DeadLettersAreMalformed
BY LogAlways, PTL DEF LogInv

--------------------------------------------------------------------------------
(* EmailLog implements MailLedger.  What the ledger asks besides LogInv is   *)
(* that nothing waits, or is worked on, that was never published.            *)

Waits == {m \in Messages : Queue!Waiting(m)}

Provenance ==
  /\ Waits \subseteq published
  /\ \A s \in Slots : inFlight[s] # NoMessage => inFlight[s] \in published

LEMMA LedgerOperators == \A s : Ledger!ToSet(s) = ToSet(s)
BY DEF Ledger!ToSet, ToSet

\* What an action of the ledger says, with the mapping filled in.
LEMMA LedgerStep ==
  ASSUME NEW m \in Messages,
         \/ /\ published' = published \cup {m} /\ Waits' = Waits \cup {m}
            /\ UNCHANGED <<log, unlogged, dead>>
         \/ /\ m \in published \ Malformed /\ m \notin ToSet(log) /\ log' = Append(log, m)
            /\ UNCHANGED <<published, Waits, unlogged, dead>>
         \/ /\ m \in published \ Malformed /\ unlogged' = unlogged \cup {m}
            /\ UNCHANGED <<published, Waits, log, dead>>
         \/ /\ m \in ToSet(log) \cup unlogged /\ Waits' = Waits \ {m}
            /\ UNCHANGED <<published, log, unlogged, dead>>
         \/ /\ m \in Waits \cap Malformed /\ dead' = dead \cup {m} /\ Waits' \in {Waits, Waits \ {m}}
            /\ UNCHANGED <<published, log, unlogged>>
  PROVE  Ledger!Next
<1>1. Ledger!Give(m) \/ Ledger!Insert(m) \/ Ledger!Skip(m) \/ Ledger!Acknowledge(m) \/ Ledger!Bury(m)
  BY LedgerOperators
     DEF Waits, Ledger!Give, Ledger!Insert, Ledger!Skip, Ledger!Acknowledge, Ledger!Bury
<1> QED
  BY <1>1 DEF Ledger!Next

LEMMA LedgerStutter ==
  ASSUME UNCHANGED <<published, Waits, log, unlogged, dead>>
  PROVE  UNCHANGED Ledger!ledgerVars
BY DEF Waits, Ledger!ledgerVars

LEMMA SameWaits ==
  ASSUME \A n : Queue!Waiting(n)' <=> Queue!Waiting(n)
  PROVE  Waits' = Waits
BY DEF Waits

LEMMA ArriveKept ==
  ASSUME LogInv, Provenance, NEW m \in Messages, Arrive(m)
  PROVE  Ledger!Next /\ Provenance'
<1>1. /\ Queue!Enqueue(m) /\ published' = published \cup {m}
      /\ UNCHANGED <<inFlight, log, unlogged>>
  BY DEF Arrive, handlerVars
<1>2. UNCHANGED dead /\ \A n : Queue!Waiting(n)' <=> Queue!Waiting(n) \/ n = m
  BY <1>1, EnqueueKeeps DEF LogInv, TypeOK
<1>3. Waits' = Waits \cup {m}
  BY <1>2 DEF Waits
<1>4. Provenance'
  BY <1>1, <1>3 DEF Provenance
<1> QED
  BY <1>1, <1>2, <1>3, <1>4, LedgerStep

LEMMA ReceiveKept ==
  ASSUME LogInv, Provenance, NEW s \in Slots, NEW m \in Messages, Receive(s, m)
  PROVE  UNCHANGED Ledger!ledgerVars /\ Provenance'
<1>1. /\ Queue!Dispatch(Service, m) /\ inFlight' = [inFlight EXCEPT ![s] = m]
      /\ UNCHANGED <<published, log, unlogged>>
  BY DEF Receive, Taken
<1>2. UNCHANGED dead /\ \A n : Queue!Waiting(n)' <=> Queue!Waiting(n)
  BY <1>1, DispatchKeeps DEF LogInv, TypeOK
<1>3. Waits' = Waits
  BY <1>2, SameWaits
<1>4. m \in published
  <2>1. ready \in Seq(Messages) /\ ready # <<>> /\ m = Head(ready)
    BY <1>1 DEF LogInv, TypeOK, Queue!TypeOK, Queue!Dispatch
  <2>2. m \in ToSet(ready)
    BY <2>1, TailMembers
  <2> QED
    BY <2>2, WaitingHere DEF Provenance, Waits
<1>5. Provenance'
  BY <1>1, <1>3, <1>4 DEF Provenance, LogInv, TypeOK
<1> QED
  BY <1>1, <1>2, <1>3, <1>5, LedgerStutter

LEMMA RejectMalformedKept ==
  ASSUME LogInv, Provenance, NEW m \in Messages, RejectMalformed(m)
  PROVE  Ledger!Next /\ Provenance'
<1>1. /\ Queue!Reject(m) /\ m \in Malformed /\ UNCHANGED <<published, inFlight, log, unlogged>>
  BY DEF RejectMalformed, Rejected, Refused, handlerVars
<1>2. /\ dead' = dead \cup {m} /\ Queue!Waiting(m)
      /\ \A n : n # m /\ Queue!Waiting(n) => Queue!Waiting(n)'
      /\ \A n : Queue!Waiting(n)' => Queue!Waiting(n)
  BY <1>1, RejectKeeps DEF LogInv, TypeOK
<1>3. m \in Waits /\ Waits' \in {Waits, Waits \ {m}}
  BY <1>2 DEF Waits
<1>4. Provenance'
  BY <1>1, <1>3 DEF Provenance
<1> QED
  BY <1>1, <1>2, <1>3, <1>4, LedgerStep

LEMMA RecordKept ==
  ASSUME LogInv, Provenance, NEW s \in Slots, Record(s)
  PROVE  [Ledger!Next]_(Ledger!ledgerVars) /\ Provenance'
<1>1. /\ inFlight[s] # NoMessage /\ log' = Inserted(inFlight[s])
      /\ UNCHANGED <<queueVars, published, inFlight, unlogged>>
  BY DEF Record
<1>2. inFlight[s] \in published \ Malformed /\ inFlight[s] \in Messages
  BY <1>1 DEF LogInv, TypeOK, HandlersKnow, Provenance
<1>3. UNCHANGED dead /\ \A n : Queue!Waiting(n)' <=> Queue!Waiting(n)
  BY <1>1, QueueSame DEF LogInv, TypeOK, queueVars
<1>4. Waits' = Waits
  BY <1>3, SameWaits
<1>5. Provenance'
  BY <1>1, <1>4 DEF Provenance
<1>6. CASE inFlight[s] \in ToSet(log)
  <2>1. log' = log
    BY <1>1, <1>6 DEF Inserted
  <2> QED
    BY <2>1, <1>1, <1>3, <1>4, <1>5, LedgerStutter
<1>7. CASE inFlight[s] \notin ToSet(log)
  <2>1. log' = Append(log, inFlight[s])
    BY <1>1, <1>7 DEF Inserted
  <2> QED
    BY <2>1, <1>1, <1>2, <1>3, <1>4, <1>5, <1>7, LedgerStep
<1> QED
  BY <1>6, <1>7

LEMMA RecordFailsKept ==
  ASSUME LogInv, Provenance, NEW s \in Slots, RecordFails(s)
  PROVE  Ledger!Next /\ Provenance'
<1>1. /\ inFlight[s] # NoMessage /\ unlogged' = unlogged \cup {inFlight[s]}
      /\ UNCHANGED <<queueVars, published, inFlight, log>>
  BY DEF RecordFails
<1>2. inFlight[s] \in published \ Malformed /\ inFlight[s] \in Messages
  BY <1>1 DEF LogInv, TypeOK, HandlersKnow, Provenance
<1>3. UNCHANGED dead /\ \A n : Queue!Waiting(n)' <=> Queue!Waiting(n)
  BY <1>1, QueueSame DEF LogInv, TypeOK, queueVars
<1>4. Waits' = Waits
  BY <1>3, SameWaits
<1>5. Provenance'
  BY <1>1, <1>4 DEF Provenance
<1> QED
  BY <1>1, <1>2, <1>3, <1>4, <1>5, LedgerStep

LEMMA FinishKept ==
  ASSUME LogInv, Provenance, NEW s \in Slots, Finish(s)
  PROVE  [Ledger!Next]_(Ledger!ledgerVars) /\ Provenance'
<1>1. /\ inFlight[s] # NoMessage /\ step[s] = "ack"
      /\ inFlight' = [inFlight EXCEPT ![s] = NoMessage]
      /\ UNCHANGED <<published, log, unlogged>>
  BY DEF Finish
<1>2. inFlight[s] \in Messages /\ inFlight[s] \in ToSet(log) \cup unlogged
  BY <1>1 DEF LogInv, TypeOK, HandlersKnow
<1>3. CASE Queue!Ack(Service, inFlight[s])
  <2>1. /\ UNCHANGED dead
        /\ \A n : n # inFlight[s] /\ Queue!Waiting(n) => Queue!Waiting(n)'
        /\ \A n : Queue!Waiting(n)' => Queue!Waiting(n)
    BY <1>2, <1>3, AckKeeps DEF LogInv, TypeOK
  <2>2. Waits' \in {Waits, Waits \ {inFlight[s]}}
    BY <2>1 DEF Waits
  <2>3. Provenance'
    BY <1>1, <2>2 DEF Provenance, LogInv, TypeOK
  <2>4. [Ledger!Next]_(Ledger!ledgerVars)
    <3>1. CASE Waits' = Waits
      BY <3>1, <1>1, <2>1, LedgerStutter
    <3>2. CASE Waits' = Waits \ {inFlight[s]}
      BY <3>2, <1>1, <1>2, <2>1, LedgerStep
    <3> QED
      BY <2>2, <3>1, <3>2
  <2> QED
    BY <2>3, <2>4
<1>4. CASE UNCHANGED queueVars
  <2>1. UNCHANGED dead /\ \A n : Queue!Waiting(n)' <=> Queue!Waiting(n)
    BY <1>4, QueueSame DEF LogInv, TypeOK, queueVars
  <2>2. Waits' = Waits
    BY <2>1, SameWaits
  <2>3. Provenance'
    BY <1>1, <2>2 DEF Provenance, LogInv, TypeOK
  <2> QED
    BY <2>1, <2>2, <2>3, <1>1, LedgerStutter
<1> QED
  BY <1>3, <1>4 DEF Finish

\* The ledger does not see what becomes of the process.
LEMMA ProcessKept ==
  ASSUME LogInv, Provenance, ProcessStep \/ UNCHANGED vars
  PROVE  UNCHANGED Ledger!ledgerVars /\ Provenance'
<1>1. /\ Queue!Release(Service) \/ UNCHANGED queueVars
      /\ UNCHANGED inFlight \/ NoHandlers
      /\ UNCHANGED <<published, log, unlogged>>
  BY DEF ProcessStep, Cut, CancelConsumer, CloseChannel, Exit, Crash, Start,
         handlerVars, boundVars, processVars, vars
<1>2. UNCHANGED dead /\ \A n : Queue!Waiting(n)' <=> Queue!Waiting(n)
  BY <1>1, ReleaseKeeps, QueueSame DEF LogInv, TypeOK, queueVars
<1>3. Waits' = Waits
  BY <1>2, SameWaits
<1>4. Provenance'
  BY <1>1, <1>3 DEF Provenance, NoHandlers
<1> QED
  BY <1>1, <1>2, <1>3, <1>4, LedgerStutter

\* notification-service keeps the ledger, for any number of messages, copies,
\* slots and outages.
THEOREM LedgerKept == Spec => KeepsLedger
<1>1. Init => Ledger!Init /\ Provenance
  <2> SUFFICES ASSUME Init PROVE Ledger!Init /\ Provenance
    OBVIOUS
  <2>1. /\ ready = <<>> /\ Mine = <<>> /\ dead = {} /\ published = {} /\ log = <<>> /\ unlogged = {}
        /\ \A s \in Slots : inFlight[s] = NoMessage
    BY DEF Init, Queue!Init, Mine
  <2>2. Waits = {}
    BY <2>1, WaitingHere DEF Waits, ToSet
  <2> QED
    BY <2>1, <2>2 DEF Ledger!Init, Provenance, Waits
<1>2. LogInv /\ Provenance /\ [Next]_vars => [Ledger!Next]_(Ledger!ledgerVars) /\ Provenance'
  <2> SUFFICES ASSUME LogInv, Provenance, [Next]_vars
               PROVE  [Ledger!Next]_(Ledger!ledgerVars) /\ Provenance'
    OBVIOUS
  <2>1. ASSUME NEW m \in Messages, Arrive(m) \/ RejectMalformed(m)
        PROVE  [Ledger!Next]_(Ledger!ledgerVars) /\ Provenance'
    BY <2>1, ArriveKept, RejectMalformedKept
  <2>2. ASSUME NEW s \in Slots, NEW m \in Messages, Receive(s, m)
        PROVE  [Ledger!Next]_(Ledger!ledgerVars) /\ Provenance'
    BY <2>2, ReceiveKept
  <2>3. ASSUME NEW s \in Slots, Record(s) \/ RecordFails(s) \/ Finish(s)
        PROVE  [Ledger!Next]_(Ledger!ledgerVars) /\ Provenance'
    BY <2>3, RecordKept, RecordFailsKept, FinishKept
  <2>4. ASSUME ProcessStep \/ UNCHANGED vars
        PROVE  [Ledger!Next]_(Ledger!ledgerVars) /\ Provenance'
    BY <2>4, ProcessKept
  <2> QED
    BY <2>1, <2>2, <2>3, <2>4 DEF Next, HandlerStep
<1> QED
  BY <1>1, <1>2, LogAlways, PTL DEF Spec, KeepsLedger, Ledger!Spec
================================================================================
