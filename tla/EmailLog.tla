------------------------------- MODULE EmailLog -------------------------------
(***************************************************************************)
(* notification-service (backend/notification-service/src): it consumes    *)
(* notifications.email with up to Prefetch messages in flight, records     *)
(* each well-formed one once in notification_log and acknowledges it,      *)
(* sends a malformed one to the dead-letter queue, and shuts down in the   *)
(* order its modules' hooks run.                                           *)
(*                                                                         *)
(* A message stands for its message_id.  The publisher is auth-service's   *)
(* Register (module Accounts); a malformed message or a second copy of one *)
(* comes from an operator at the broker's console.                         *)
(***************************************************************************)
EXTENDS Naturals, FiniteSets, SequencesExt

CONSTANTS
  Messages,
  Malformed,      \* those parseEmailNotification refuses
  Service,        \* the consumer's name at the broker
  Slots,          \* prefetch: one slot per message in flight, 10 in the code
  NoMessage,
  MaxFaults,      \* bound: failed queries
  MaxOutages,     \* bound: crashes, shutdowns, lost connections
  MaxCopies       \* bound: messages published a second time

ASSUME SomeMalformed == Malformed \subseteq Messages
ASSUME NoMessageIsNone == NoMessage \notin Messages
ASSUME FinitelyManySlots == IsFiniteSet(Slots) /\ Slots # {}

VARIABLES
  ready, unacked, dead, redelivered,    \* the queue, see AmqpQueue
  published,    \* messages the broker has been given
  proc,         \* off: no process; up: consuming; cancelled, closed: how far
                \* onModuleDestroy has come
  cut,          \* the connection is lost; `channel' still refers to it
  pool,         \* the pg pool of this process answered at start
  inFlight,     \* the message each slot's handleMessage works on
  step,         \* its next step: query or ack
  log,          \* rows of notification_log, in the order inserted
  faults, outages, copies,
  unlogged      \* ghost: messages acknowledged with 'db_unavailable'

Queue == INSTANCE AmqpQueue
  WITH Consumers <- {Service}, Prefetch <- Cardinality(Slots)

queueVars == <<ready, unacked, dead, redelivered>>
processVars == <<proc, cut, pool>>
handlerVars == <<inFlight, step>>
boundVars == <<faults, outages, copies>>
vars == <<queueVars, published, processVars, handlerVars, log, boundVars, unlogged>>

TypeOK ==
  /\ Queue!TypeOK
  /\ published \subseteq Messages
  /\ proc \in {"off", "up", "cancelled", "closed"}
  /\ cut \in BOOLEAN /\ pool \in BOOLEAN
  /\ inFlight \in [Slots -> Messages \cup {NoMessage}]
  /\ step \in [Slots -> {"query", "ack"}]
  /\ log \in Seq(Messages \ Malformed)
  /\ unlogged \subseteq Messages \ Malformed

Init ==
  /\ Queue!Init
  /\ published = {}
  /\ proc = "up" /\ cut = FALSE /\ pool = TRUE
  /\ inFlight = [s \in Slots |-> NoMessage]
  /\ step = [s \in Slots |-> "query"]
  /\ log = <<>>
  /\ faults = 0 /\ outages = 0 /\ copies = 0
  /\ unlogged = {}

--------------------------------------------------------------------------------
(* Publishers.                                                               *)

Arrive(m) ==
  /\ \/ m \notin published /\ UNCHANGED copies
     \/ m \in published /\ copies < MaxCopies /\ copies' = copies + 1
  /\ Queue!Enqueue(m)
  /\ published' = published \cup {m}
  /\ UNCHANGED <<processVars, handlerVars, log, faults, outages, unlogged>>

--------------------------------------------------------------------------------
(* handleMessage.                                                            *)

\* channel.cancel stops the deliveries, a lost connection ends them.
Delivering == proc = "up" /\ ~cut

\* Mutant of Refused: the parser takes whatever is JSON.
Unchecked(m) == FALSE

\* parseEmailNotification throws a MalformedMessageError.
Refused(m) == m \in Malformed

\* Mutant of Taken: consume with noAck.
TakenForGood(m) ==
  /\ ready # <<>> /\ m = Head(ready)
  /\ ready' = Tail(ready)
  /\ UNCHANGED <<unacked, dead, redelivered>>

\* consume with { noAck: false }.
Taken(m) == Queue!Dispatch(Service, m)

\* The part before the await: a malformed message is rejected at once, another
\* one goes as far as its INSERT.
Receive(s, m) ==
  /\ Delivering
  /\ inFlight[s] = NoMessage
  /\ ~Refused(m)
  /\ Taken(m)
  /\ inFlight' = [inFlight EXCEPT ![s] = m]
  /\ step' = [step EXCEPT ![s] = "query"]
  /\ UNCHANGED <<published, processVars, log, boundVars, unlogged>>

\* Mutant of Rejected: nack(msg, false, true), which requeues it.
Requeued(m) ==
  /\ ready' = Append(Tail(ready), m)
  /\ UNCHANGED <<unacked, dead, redelivered>>

\* nack(msg, false, false) right after the delivery.
Rejected(m) == Queue!Reject(m)

RejectMalformed(m) ==
  /\ Delivering
  /\ Len(unacked[Service]) < Cardinality(Slots)
  /\ Refused(m)
  /\ ready # <<>> /\ Head(ready) = m
  /\ Rejected(m)
  /\ UNCHANGED <<published, processVars, handlerVars, log, boundVars, unlogged>>

\* Mutant of Inserted: the INSERT without its ON CONFLICT clause, and without
\* the constraint.
AlwaysInserted(m) == Append(log, m)

\* INSERT ... ON CONFLICT (message_id) DO NOTHING.
Inserted(m) == IF m \in ToSet(log) THEN log ELSE Append(log, m)

Record(s) ==
  /\ inFlight[s] # NoMessage /\ step[s] = "query"
  /\ pool
  /\ log' = Inserted(inFlight[s])
  /\ step' = [step EXCEPT ![s] = "ack"]
  /\ UNCHANGED <<queueVars, published, processVars, inFlight, boundVars, unlogged>>

\* 'db_unavailable': no pool since this process started, or a query that fails.
RecordFails(s) ==
  /\ inFlight[s] # NoMessage /\ step[s] = "query"
  /\ \/ ~pool /\ UNCHANGED faults
     \/ pool /\ faults < MaxFaults /\ faults' = faults + 1
  /\ step' = [step EXCEPT ![s] = "ack"]
  /\ unlogged' = unlogged \cup {inFlight[s]}
  /\ UNCHANGED <<queueVars, published, processVars, inFlight, log, outages, copies>>

\* Mutant of AckWorks: the result is not acknowledged.
NeverAcks == FALSE

\* channel.ack throws once the channel is closed, and what the throw leaves
\* unacked the broker has already taken back.
AckWorks == ~cut /\ proc \in {"up", "cancelled"}

Finish(s) ==
  /\ inFlight[s] # NoMessage /\ step[s] = "ack"
  /\ IF AckWorks THEN Queue!Ack(Service, inFlight[s]) ELSE UNCHANGED queueVars
  /\ inFlight' = [inFlight EXCEPT ![s] = NoMessage]
  /\ step' = [step EXCEPT ![s] = "query"]
  /\ UNCHANGED <<published, processVars, log, boundVars, unlogged>>

--------------------------------------------------------------------------------
(* The process.                                                              *)

Outage == outages < MaxOutages /\ outages' = outages + 1

\* The 'error' event is logged; nothing resets `channel', nothing reconnects.
Cut ==
  /\ proc = "up" /\ ~cut
  /\ Outage
  /\ Queue!Release(Service)
  /\ cut' = TRUE
  /\ UNCHANGED <<published, proc, pool, handlerVars, log, faults, copies, unlogged>>

\* onModuleDestroy: beforeClose cancels the consumer, ...
CancelConsumer ==
  /\ proc = "up"
  /\ Outage
  /\ proc' = "cancelled"
  /\ UNCHANGED <<queueVars, published, cut, pool, handlerVars, log, faults, copies,
                 unlogged>>

\* ... then the channel and the connection are closed, handlers or not, ...
CloseChannel ==
  /\ proc = "cancelled"
  /\ proc' = "closed"
  /\ IF cut THEN UNCHANGED queueVars ELSE Queue!Release(Service)
  /\ UNCHANGED <<published, cut, pool, handlerVars, log, boundVars, unlogged>>

NoHandlers ==
  /\ inFlight' = [s \in Slots |-> NoMessage]
  /\ step' = [s \in Slots |-> "query"]

\* ... then pool.end waits for the queries under way and the process exits.
Exit ==
  /\ proc = "closed"
  /\ \A s \in Slots : inFlight[s] # NoMessage => step[s] = "ack"
  /\ proc' = "off"
  /\ NoHandlers
  /\ UNCHANGED <<queueVars, published, cut, pool, log, boundVars, unlogged>>

Crash ==
  /\ proc # "off"
  /\ Outage
  /\ proc' = "off"
  /\ NoHandlers
  /\ IF cut \/ proc = "closed" THEN UNCHANGED queueVars ELSE Queue!Release(Service)
  /\ UNCHANGED <<published, cut, pool, log, faults, copies, unlogged>>

\* onModuleInit, the database module first.  A SELECT 1 that fails leaves this
\* process without a pool for as long as it lives.
Start ==
  /\ proc = "off"
  /\ proc' = "up" /\ cut' = FALSE
  /\ \/ pool' = TRUE /\ UNCHANGED faults
     \/ pool' = FALSE /\ faults < MaxFaults /\ faults' = faults + 1
  /\ UNCHANGED <<queueVars, published, handlerVars, log, outages, copies, unlogged>>

--------------------------------------------------------------------------------
HandlerStep(s) ==
  \/ \E m \in Messages : Receive(s, m)
  \/ Record(s) \/ RecordFails(s) \/ Finish(s)

ProcessStep == Cut \/ CancelConsumer \/ CloseChannel \/ Exit \/ Crash \/ Start

Next ==
  \/ \E m \in Messages : Arrive(m) \/ RejectMalformed(m)
  \/ \E s \in Slots : HandlerStep(s)
  \/ ProcessStep

Spec == Init /\ [][Next]_vars

\* The event loop runs what is ready, a shutdown goes on to its end, and the
\* container's restart policy starts the process again.
FairSpec ==
  /\ Spec
  /\ \A s \in Slots : WF_vars(HandlerStep(s))
  /\ WF_vars(\E m \in Messages : RejectMalformed(m))
  /\ WF_vars(CloseChannel \/ Exit \/ Start)

--------------------------------------------------------------------------------
(* Safety.                                                                   *)

\* Redelivery and second copies never make a second row (the UNIQUE message_id
\* of notification_log, whatever was cut between the INSERT and the ack).
OneRowPerMessage == IsInjective(log)

\* A well-formed message that has left the queue has its row, unless the
\* database was unavailable to the very handler that acknowledged it; no
\* crash, lost connection or shutdown lets an unhandled one go.
GoneMeansLogged ==
  \A m \in published \ Malformed :
    Queue!Waiting(m) \/ m \in ToSet(log) \/ m \in unlogged

\* The dead-letter queue holds the malformed messages and nothing else: a
\* failing database dead-letters none, and no malformed one just disappears.
DeadLettersAreMalformed ==
  /\ dead \subseteq Malformed
  /\ \A m \in published \cap Malformed : Queue!Waiting(m) \/ m \in dead

--------------------------------------------------------------------------------
(* What notification-service promises.                                       *)

Ledger == INSTANCE MailLedger
  WITH given <- published,
       waiting <- {m \in Messages : Queue!Waiting(m)},
       rows <- log, skipped <- unlogged, letters <- dead

\* Step by step the consumer keeps the ledger of MailLedger: no redelivery, second
\* copy, crash, lost connection or shutdown writes a row twice or takes one back,
\* lets a message go before it is on record, or buries a well-formed one.
KeepsLedger == Ledger!Spec

--------------------------------------------------------------------------------
(* Liveness.                                                                 *)

\* Every message is settled by an ack or the dead-letter queue, through crashes
\* and shutdowns, unless the process has lost its connection and lives on.
QueuedIsSettled ==
  \A m \in Messages : Queue!Waiting(m) ~> (~Queue!Waiting(m) \/ (cut /\ proc = "up"))
================================================================================
