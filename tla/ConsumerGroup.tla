----------------------------- MODULE ConsumerGroup -----------------------------
(***************************************************************************)
(* One Kafka consumer of the platform: the Run/Close loop of               *)
(* backend/internal/platform/kafka/consumer.go, together with what it      *)
(* relies on from the client library (offsets are committed in the         *)
(* background, and only those of records handed out by an EARLIER poll).   *)
(* The component that owns the consumer supplies the handler: it conjoins  *)
(* Deliver(p) with the effect the handler has on its own state.            *)
(*                                                                         *)
(* Offsets are counts: offset n means "the first n records of the log".    *)
(***************************************************************************)
EXTENDS Naturals

CONSTANT Partitions     \* the partitions (or keys) the group consumes

VARIABLES
  logEnd,       \* how many records each partition holds
  mode,         \* running:  Run's loop with a live context
                \* stopping: the context is cancelled, Run has not returned yet
                \* down:     no process
  committed,    \* where the broker restarts the group from
  head,         \* the end of the polls before the current one
  next,         \* how far the handler has been called
  end           \* the end of the batch the current poll returned

groupVars == <<mode, committed, head, next, end>>

TypeOK ==
  /\ mode \in {"running", "stopping", "down"}
  /\ committed \in [Partitions -> Nat]
  /\ head \in [Partitions -> Nat]
  /\ next \in [Partitions -> Nat]
  /\ end \in [Partitions -> Nat]

\* A new group starts at the beginning of each partition (AtStart).
Init ==
  /\ mode = "running"
  /\ committed = [p \in Partitions |-> 0]
  /\ head = committed /\ next = committed /\ end = committed

BatchDone == next = end
BatchUntouched == next = head

\* Run loops back to PollFetches: the batch it handed out counts as processed.
Repoll ==
  /\ mode = "running"
  /\ BatchDone /\ ~BatchUntouched
  /\ head' = next
  /\ UNCHANGED <<mode, committed, next, end>>

\* PollFetches returns records: the batch may hold those of several partitions,
\* one Fetch each, and is complete once the first of them is delivered.
Fetch(p, n) ==
  /\ mode = "running"
  /\ BatchUntouched
  /\ end[p] = head[p] /\ end[p] < n /\ n <= logEnd[p]
  /\ end' = [end EXCEPT ![p] = n]
  /\ UNCHANGED <<mode, committed, head, next>>

\* A record of the batch is waiting for, or being given to, the handler.
Delivering(p) == mode # "down" /\ next[p] < end[p]

\* The handler returned, with or without an error: Run moves on either way.
Deliver(p) ==
  /\ Delivering(p)
  /\ next' = [next EXCEPT ![p] = @ + 1]
  /\ UNCHANGED <<mode, committed, head, end>>

\* Mutants of Committable: GreedyAutoCommit, which takes every record fetched, or
\* marking each record once the handler has returned.
Fetched == end
Delivered == next

\* NewConsumer leaves committing to the client's default: the finished polls.
Committable == head

\* The client's background commit.
AutoCommit ==
  /\ mode # "down"
  /\ committed # Committable
  /\ committed' = Committable
  /\ UNCHANGED <<mode, head, next, end>>

\* The shutdown sequence cancels the context Run was started with.
Cancel ==
  /\ mode = "running"
  /\ mode' = "stopping"
  /\ UNCHANGED <<committed, head, next, end>>

\* Run returns between two batches, or before it hands out a fresh one, and
\* Close leaves the group; leaving commits what AutoCommit would have, or fails.
Close ==
  /\ mode = "stopping"
  /\ BatchDone \/ BatchUntouched
  /\ mode' = "down"
  /\ committed' \in {committed, Committable}
  /\ UNCHANGED <<head, next, end>>

Crash ==
  /\ mode # "down"
  /\ mode' = "down"
  /\ UNCHANGED <<committed, head, next, end>>

\* A new process resumes from the committed offsets.
Start ==
  /\ mode = "down"
  /\ mode' = "running"
  /\ head' = committed /\ next' = committed /\ end' = committed
  /\ UNCHANGED committed

OffsetsOrdered ==
  \A p \in Partitions :
    /\ committed[p] <= head[p]
    /\ head[p] <= next[p]
    /\ next[p] <= end[p]
    /\ end[p] <= logEnd[p]
================================================================================
