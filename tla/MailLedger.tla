------------------------------- MODULE MailLedger -------------------------------
(***************************************************************************)
(* What notification-service promises of the messages it is given, whatever*)
(* crashes, redeliveries and failed queries come in between: each ends up  *)
(* with one row of the log, or as a dead letter if it is malformed, before *)
(* the queue lets it go; the one exception is a message that was handled   *)
(* while the database was not available.  Rows stay, in the order in which *)
(* they were inserted, and nothing gets one that nobody sent.              *)
(***************************************************************************)
EXTENDS SequencesExt

CONSTANTS Messages, Malformed

VARIABLES
  given,      \* messages the queue has been given
  waiting,    \* those it has not let go
  rows,       \* the log
  skipped,    \* handled without the database
  letters     \* dead letters

ledgerVars == <<given, waiting, rows, skipped, letters>>

Init ==
  /\ given = {} /\ waiting = {}
  /\ rows = <<>>
  /\ skipped = {} /\ letters = {}

Give(m) ==
  /\ given' = given \cup {m}
  /\ waiting' = waiting \cup {m}
  /\ UNCHANGED <<rows, skipped, letters>>

Insert(m) ==
  /\ m \in given \ Malformed
  /\ m \notin ToSet(rows)
  /\ rows' = Append(rows, m)
  /\ UNCHANGED <<given, waiting, skipped, letters>>

Skip(m) ==
  /\ m \in given \ Malformed
  /\ skipped' = skipped \cup {m}
  /\ UNCHANGED <<given, waiting, rows, letters>>

\* Only what is on record, one way or the other, is acknowledged.
Acknowledge(m) ==
  /\ m \in ToSet(rows) \cup skipped
  /\ waiting' = waiting \ {m}
  /\ UNCHANGED <<given, rows, skipped, letters>>

\* A second copy of m may wait on.
Bury(m) ==
  /\ m \in waiting \cap Malformed
  /\ letters' = letters \cup {m}
  /\ waiting' \in {waiting, waiting \ {m}}
  /\ UNCHANGED <<given, rows, skipped>>

Next ==
  \E m \in Messages : Give(m) \/ Insert(m) \/ Skip(m) \/ Acknowledge(m) \/ Bury(m)

Spec == Init /\ [][Next]_ledgerVars
================================================================================
