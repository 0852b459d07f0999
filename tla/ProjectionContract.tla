--------------------------- MODULE ProjectionContract ---------------------------
(***************************************************************************)
(* What an event-carried projection promises, whatever carries the events: *)
(* the copy jobs-service keeps of a user's skill list is a list that user  *)
(* really had at some moment, never an invented one and never a mixture of *)
(* several (docs/DECISIONS.md, "why jobs-service doesn't just query        *)
(* users-service's database").  How fresh the copy is, it does not promise.*)
(***************************************************************************)
CONSTANTS
  Users,
  Lists,      \* every skill list a user can have
  NoList      \* the list of a user without skills

VARIABLES
  record,     \* the list users-service holds
  history,    \* every list it has held
  projection  \* the list jobs-service holds

contractVars == <<record, history, projection>>

Init ==
  /\ record = [u \in Users |-> NoList]
  /\ history = [u \in Users |-> {NoList}]
  /\ projection = [u \in Users |-> NoList]

Write(u, list) ==
  /\ record' = [record EXCEPT ![u] = list]
  /\ history' = [history EXCEPT ![u] = @ \cup {list}]
  /\ UNCHANGED projection

\* An event arrives; it may be any list the user has had, old ones included.
Project(u, list) ==
  /\ list \in history[u]
  /\ projection' = [projection EXCEPT ![u] = list]
  /\ UNCHANGED <<record, history>>

Next == \E u \in Users, list \in Lists : Write(u, list) \/ Project(u, list)

Spec == Init /\ [][Next]_contractVars
================================================================================
