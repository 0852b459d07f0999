---------------------------- MODULE MatchingContract ----------------------------
(***************************************************************************)
(* What jobs-service promises of its matches, whatever crashes, redelivered*)
(* events and failed queries come in between: a row of job_matches scores a*)
(* list of skills the user really had against the list the job was posted  *)
(* with, rows are never taken back, and nobody is told of a match before it*)
(* is on record.  Which of a user's lists is scored, it does not promise.  *)
(***************************************************************************)
EXTENDS SequencesExt

CONSTANTS Jobs, Users, Skills, Wanted   \* Wanted: the lists a job can require

VARIABLES
  posted,     \* the jobs matching may begin for
  required,   \* the list each job requires
  had,        \* every skill list each user has had
  rows,       \* the score on record per job and user, 0 for no row
  told        \* who has been told of which job

matchingVars == <<posted, required, had, rows, told>>

Init ==
  /\ posted = {}
  /\ required = [j \in Jobs |-> <<>>]
  /\ had = [u \in Users |-> {{}}]
  /\ rows = [j \in Jobs |-> [u \in Users |-> 0]]
  /\ told = {}

\* A job's list is settled before the job is posted, and names no skill twice.
Require(j, list) ==
  /\ j \notin posted /\ required[j] = <<>>
  /\ IsInjective(list)
  /\ required' = [required EXCEPT ![j] = list]
  /\ UNCHANGED <<posted, had, rows, told>>

Post(j) ==
  /\ j \notin posted
  /\ posted' = posted \cup {j}
  /\ UNCHANGED <<required, had, rows, told>>

Learn(u, skills) ==
  /\ had' = [had EXCEPT ![u] = @ \cup {skills}]
  /\ UNCHANGED <<posted, required, rows, told>>

Match(j, u, skills) ==
  LET shared == skills \cap ToSet(required[j])
  IN  /\ j \in posted /\ skills \in had[u] /\ shared # {}
      /\ rows' = [rows EXCEPT ![j][u] = Cardinality(shared)]
      /\ UNCHANGED <<posted, required, had, told>>

Tell(j, u) ==
  /\ rows[j][u] > 0
  /\ told' = told \cup {<<j, u>>}
  /\ UNCHANGED <<posted, required, had, rows>>

Next ==
  \/ \E j \in Jobs : Post(j) \/ \E list \in Wanted : Require(j, list)
  \/ \E u \in Users, skills \in SUBSET Skills :
       \/ Learn(u, skills)
       \/ \E j \in Jobs : Match(j, u, skills)
  \/ \E j \in Jobs, u \in Users : Tell(j, u)

Spec == Init /\ [][Next]_matchingVars
================================================================================
