------------------------------- MODULE AmqpQueue -------------------------------
(***************************************************************************)
(* One durable RabbitMQ queue as the platform uses it: at most Prefetch    *)
(* messages are out with a consumer, each is acknowledged or rejected      *)
(* without requeue, and what a lost connection leaves open goes back to    *)
(* the head of the queue.  The broker is external; the code's part is the  *)
(* topology it declares, its Qos and the ack/nack of each delivery.        *)
(***************************************************************************)
EXTENDS Naturals, SequencesExt

CONSTANTS
  Messages,
  Consumers,
  Prefetch      \* Qos of backend/internal/platform/rabbitmq/consumer.go, or
                \* prefetch() of the NestJS consumer; at least one

VARIABLES
  ready,        \* messages no consumer holds, oldest first
  unacked,      \* what each consumer holds, oldest first
  dead,         \* the dead-letter queue
  redelivered   \* messages that went back to the queue at least once

queueVars == <<ready, unacked, dead, redelivered>>

Init ==
  /\ ready = <<>>
  /\ unacked = [c \in Consumers |-> <<>>]
  /\ dead = {}
  /\ redelivered = {}

TypeOK ==
  /\ ready \in Seq(Messages)
  /\ unacked \in [Consumers -> Seq(Messages)]
  /\ \A c \in Consumers : Len(unacked[c]) <= Prefetch
  /\ dead \subseteq Messages
  /\ redelivered \subseteq Messages

Held(m) == \E c \in Consumers : m \in ToSet(unacked[c])

Waiting(m) == m \in ToSet(ready) \/ Held(m)

Enqueue(m) ==
  /\ ready' = Append(ready, m)
  /\ UNCHANGED <<unacked, dead, redelivered>>

Dispatch(c, m) ==
  /\ Len(unacked[c]) < Prefetch
  /\ ready # <<>>
  /\ m = Head(ready)
  /\ ready' = Tail(ready)
  /\ unacked' = [unacked EXCEPT ![c] = Append(@, m)]
  /\ UNCHANGED <<dead, redelivered>>

\* One of the deliveries of m to c is over, and takes its place with it.
Settled(c, m) ==
  \E i \in DOMAIN unacked[c] :
    /\ unacked[c][i] = m
    /\ unacked' = [unacked EXCEPT ![c] = RemoveAt(@, i)]

Ack(c, m) == Settled(c, m) /\ UNCHANGED <<ready, dead, redelivered>>

\* Handed out, and nacked without requeue before anything else happens: the
\* dead-letter exchange takes it.
Reject(m) ==
  /\ ready # <<>> /\ m = Head(ready)
  /\ ready' = Tail(ready)
  /\ dead' = dead \cup {m}
  /\ UNCHANGED <<unacked, redelivered>>

\* The channel of c is gone: closed, or its connection or process lost.
Release(c) ==
  /\ ready' = unacked[c] \o ready
  /\ unacked' = [unacked EXCEPT ![c] = <<>>]
  /\ redelivered' = redelivered \cup ToSet(unacked[c])
  /\ UNCHANGED dead
================================================================================
