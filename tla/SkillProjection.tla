---------------------------- MODULE SkillProjection ----------------------------
(***************************************************************************)
(* users-service's AddUserSkill, the user.skills.updated topic it          *)
(* publishes to, and the consumer in jobs-service that keeps               *)
(* jobs.user_skill_snapshot.                                               *)
(*                                                                         *)
(* AddUserSkill runs in one goroutine per call: upsert the row, read the   *)
(* user's whole list back, publish it.  Each of the three is a step of its *)
(* own, since nothing holds a lock across them.  Every call for a user     *)
(* publishes under that user's key, so the topic is one log per user (users*)
(* that share a partition are only more ordered than that).                *)
(***************************************************************************)
EXTENDS Naturals, Sequences, FiniteSets

CONSTANTS
  Users, Skills, Proficiencies,
  Calls,            \* AddUserSkill calls; each is made once
  None,             \* an absent row, and a blank request field
  MaxHandlerErrors, \* bound: database errors of the snapshot handler
  MaxStops          \* bound: crashes and shutdowns of jobs-service

ASSUME NoneIsNoValue == None \notin Users \cup Skills \cup Proficiencies

VARIABLES
  userSkills,     \* users.user_skills: the proficiency per user and skill, or None
  call,           \* the AddUserSkill calls
  topic,          \* user.skills.updated: the lists published, per user
  snapshot,       \* jobs.user_skill_snapshot
  mode, committed, head, next, end,   \* the group jobs-service.user-skill-snapshot
  handlerErrors, stops,  \* how much of the bounds is used
  \* History, read by properties only:
  had,            \* every list users-service has held, per user
  applied,        \* the offset whose list the snapshot holds, 0 for none
  handled,        \* the offsets handed to a handler that could still write
  drift           \* per user: why the snapshot may settle away from the record

groupVars == <<mode, committed, head, next, end>>
vars == <<userSkills, call, topic, snapshot, groupVars, handlerErrors, stops,
          had, applied, handled, drift>>
serviceVars == <<userSkills, call, topic, had>>
jobsVars == <<snapshot, applied, handled>>

Lists == [Skills -> Proficiencies \cup {None}]
NoSkills == [s \in Skills |-> None]

Group == INSTANCE ConsumerGroup
           WITH Partitions <- Users, logEnd <- [u \in Users |-> Len(topic[u])]

Pending == {"upserted", "listed"}
Call == [pc: {"idle", "done", "published"} \cup Pending,
         user: Users \cup {None}, skill: Skills \cup {None},
         rows: Lists,      \* what listSkillRows returned
         alone: BOOLEAN]   \* history: no other call for the user has overlapped it

NotCalled == [pc |-> "idle", user |-> None, skill |-> None, rows |-> NoSkills, alone |-> FALSE]

Init ==
  /\ userSkills = [u \in Users |-> NoSkills]
  /\ call = [k \in Calls |-> NotCalled]
  /\ topic = [u \in Users |-> <<>>]
  /\ snapshot = [u \in Users |-> NoSkills]
  /\ Group!Init
  /\ handlerErrors = 0 /\ stops = 0
  /\ had = [u \in Users |-> {NoSkills}]
  /\ applied = [u \in Users |-> 0]
  /\ handled = [u \in Users |-> {}]
  /\ drift = [u \in Users |-> {}]

--------------------------------------------------------------------------------
(* users-service *)

InFlight(u) == {k \in Calls : call[k].pc \in Pending /\ call[k].user = u}

Step(k, pc) == call[k].pc = pc

\* Mutant of Upserted: the user's and the skill's id are swapped.
SwappedIds(u, s, others) ==
  [pc |-> "upserted", user |-> s, skill |-> u, rows |-> NoSkills, alone |-> others = {}]

\* Mutant of Upserted: the list is read before the row is written.
ReadBeforeUpsert(u, s, others) ==
  [pc |-> "listed", user |-> u, skill |-> s, rows |-> userSkills[u], alone |-> others = {}]

\* What a call has behind it once its row is written.
Upserted(u, s, others) ==
  [pc |-> "upserted", user |-> u, skill |-> s, rows |-> NoSkills, alone |-> others = {}]

\* A blank field, or an upsert the database refused: nothing was written.
Refuse(k) ==
  /\ Step(k, "idle")
  /\ call' = [call EXCEPT ![k].pc = "done"]
  /\ UNCHANGED <<userSkills, topic, had, jobsVars, groupVars, handlerErrors, stops, drift>>

\* upsertSkillRow: ON CONFLICT (user_id, skill_id) DO UPDATE.
Upsert(k, u, s, p) ==
  LET others == InFlight(u)
      list == [userSkills[u] EXCEPT ![s] = p]
  IN  /\ Step(k, "idle")
      /\ userSkills' = [userSkills EXCEPT ![u] = list]
      /\ had' = [had EXCEPT ![u] = @ \cup {list}]
      /\ call' = [j \in Calls |->
                    IF j = k THEN Upserted(u, s, others)
                    ELSE [call[j] EXCEPT !.alone = @ /\ j \notin others]]
      /\ drift' = [drift EXCEPT ![u] = IF others = {} THEN @ ELSE @ \cup {"overlap"}]
      /\ UNCHANGED <<topic, jobsVars, groupVars, handlerErrors, stops>>

\* Mutant of CurrentRows: the event carries only the row just written.
RowJustWritten(k) ==
  [s \in Skills |-> IF s = call[k].skill THEN userSkills[call[k].user][s] ELSE None]

CurrentRows(k) == userSkills[call[k].user]

\* listSkillRows: one SELECT of all the user's rows.
ListRows(k) ==
  /\ Step(k, "upserted")
  /\ call' = [call EXCEPT ![k].pc = "listed", ![k].rows = CurrentRows(k)]
  /\ UNCHANGED <<userSkills, topic, had, jobsVars, groupVars, handlerErrors, stops, drift>>

\* The SELECT or the publish failed, or the process died after the upsert: the
\* row stays, the event is dropped and nobody retries it.
DropEvent(k) ==
  /\ call[k].pc \in Pending
  /\ call' = [call EXCEPT ![k].pc = "done"]
  /\ drift' = [drift EXCEPT ![call[k].user] = @ \cup {"lost"}]
  /\ UNCHANGED <<userSkills, topic, had, jobsVars, groupVars, handlerErrors, stops>>

\* ProduceSync under the user's key.  A list published by a call that no other
\* call overlapped is the record itself, and settles earlier drift.
Publish(k) ==
  LET u == call[k].user
  IN  /\ Step(k, "listed")
      /\ topic' = [topic EXCEPT ![u] = Append(@, call[k].rows)]
      /\ call' = [call EXCEPT ![k].pc = "published"]
      /\ drift' = [drift EXCEPT ![u] = IF call[k].alone THEN {} ELSE @]
      /\ UNCHANGED <<userSkills, had, jobsVars, groupVars, handlerErrors, stops>>

--------------------------------------------------------------------------------
(* jobs-service's snapshot consumer *)

\* Mutant of Replaced: the rows are upserted and none is deleted.
Merged(u, n) ==
  /\ snapshot' = [snapshot EXCEPT ![u] =
                    [s \in Skills |-> IF topic[u][n][s] = None THEN @[s] ELSE topic[u][n][s]]]
  /\ applied' = [applied EXCEPT ![u] = n]

Replaced(u, n) ==
  /\ snapshot' = [snapshot EXCEPT ![u] = topic[u][n]]
  /\ applied' = [applied EXCEPT ![u] = n]

\* HandleUserSkillsUpdated with ReplaceUserSkills committed: delete and insert
\* in one transaction.
Replace(u) ==
  LET n == next[u] + 1
  IN  /\ mode = "running"
      /\ Group!Deliver(u)
      /\ Replaced(u, n)
      /\ handled' = [handled EXCEPT ![u] = @ \cup {n}]
      /\ UNCHANGED <<serviceVars, handlerErrors, stops, drift>>

\* The transaction failed and rolled back; Run logs the error and moves on.
ReplaceFails(u) ==
  LET n == next[u] + 1
  IN  /\ mode = "running" /\ handlerErrors < MaxHandlerErrors
      /\ Group!Deliver(u)
      /\ handlerErrors' = handlerErrors + 1
      /\ handled' = [handled EXCEPT ![u] = @ \cup {n}]
      /\ drift' = [drift EXCEPT ![u] = IF n = Len(topic[u]) THEN @ \cup {"lost"} ELSE @]
      /\ UNCHANGED <<serviceVars, snapshot, applied, stops>>

\* After the context is cancelled every database call of the handler fails,
\* and Run still walks through the rest of its batch.
ReplaceCancelled(u) ==
  /\ mode = "stopping"
  /\ Group!Deliver(u)
  /\ UNCHANGED <<serviceVars, jobsVars, handlerErrors, stops, drift>>

\* The steps of the consumer that touch nothing but its offsets.
OffsetsOnly == UNCHANGED <<serviceVars, jobsVars, handlerErrors, drift>>

Poll ==
  /\ Group!Repoll \/ \E u \in Users : \E n \in 1 .. Len(topic[u]) : Group!Fetch(u, n)
  /\ OffsetsOnly /\ UNCHANGED stops

Commit == Group!AutoCommit /\ OffsetsOnly /\ UNCHANGED stops

\* jobs-service is told to shut down, or dies.
Stop ==
  /\ stops < MaxStops
  /\ Group!Cancel \/ Group!Crash
  /\ stops' = stops + 1
  /\ OffsetsOnly

Leave == Group!Close /\ OffsetsOnly /\ UNCHANGED stops

Restart == Group!Start /\ OffsetsOnly /\ UNCHANGED stops

--------------------------------------------------------------------------------
Next ==
  \/ \E k \in Calls :
       \/ Refuse(k)
       \/ \E u \in Users, s \in Skills, p \in Proficiencies : Upsert(k, u, s, p)
       \/ ListRows(k)
       \/ DropEvent(k)
       \/ Publish(k)
  \/ \E u \in Users : Replace(u) \/ ReplaceFails(u) \/ ReplaceCancelled(u)
  \/ Poll \/ Commit \/ Stop \/ Leave \/ Restart

Spec == Init /\ [][Next]_vars

\* Run polls and hands out records as long as its context lives; a cancelled Run
\* works through its batch and the cleanup closes the client; the platform
\* starts the process again.  Nothing is assumed of the callers of AddUserSkill.
Fairness ==
  /\ WF_vars(Poll)
  /\ \A u \in Users : WF_vars(Replace(u)) /\ WF_vars(ReplaceCancelled(u))
  /\ WF_vars(Leave)
  /\ WF_vars(Restart)

FairSpec == Spec /\ Fairness

--------------------------------------------------------------------------------
(* Properties *)

\* A call that got past its upsert knows whose row it wrote.
CallersKnown ==
  \A k \in Calls :
    call[k].pc \in Pending \cup {"published"} => call[k].user \in Users /\ call[k].skill \in Skills

TypeOK ==
  /\ userSkills \in [Users -> Lists]
  /\ call \in [Calls -> Call] /\ CallersKnown
  /\ topic \in [Users -> Seq(Lists)]
  /\ snapshot \in [Users -> Lists]
  /\ Group!TypeOK
  /\ handlerErrors \in Nat /\ stops \in Nat
  /\ had \in [Users -> SUBSET Lists]
  /\ applied \in [Users -> Nat]
  /\ handled \in [Users -> SUBSET Nat]
  /\ drift \in [Users -> SUBSET {"overlap", "lost"}]

\* The snapshot of a user is a list the user really had at some moment: events
\* are whole lists, so whatever is dropped, repeated or late, the matcher never
\* scores a skill list that mixes two moments (users/server.go's "the *entire*
\* list, not a delta").
SnapshotWasOnceTrue == \A u \in Users : snapshot[u] \in had[u]

\* The snapshot holds exactly the list of the event applied last, and nothing of
\* an earlier one (snapshot.go's delete-then-insert).
SnapshotIsOneEvent ==
  \A u \in Users : snapshot[u] = IF applied[u] = 0 THEN NoSkills ELSE topic[u][applied[u]]

\* The list a call publishes contains the skill that call added, however the
\* calls of one user interleave: the read comes after the call's own write.
EventCarriesOwnWrite ==
  \A k \in Calls :
    call[k].pc = "published" =>
      \E n \in 1 .. Len(topic[call[k].user]) : topic[call[k].user][n][call[k].skill] # None

\* A committed offset covers no record whose handler ran only after the context
\* was cancelled: what a shutdown made fail is delivered again (go's
\* at-least-once).
CommittedWasHandled ==
  /\ Group!OffsetsOrdered
  /\ \A u \in Users : 1 .. committed[u] \subseteq handled[u]

Settled(u) ==
  /\ InFlight(u) = {}
  /\ mode = "running"
  /\ next[u] = Len(topic[u])

\* Once calls are answered and the topic is consumed, the snapshot differs from
\* users-service's record only if an event was lost, or the newest one could
\* not be applied, or two calls of the user overlapped, and no call has
\* published undisturbed since.  Crashes, shutdowns and redelivery are no cause.
DriftHasACause ==
  \A u \in Users : Settled(u) /\ drift[u] = {} => snapshot[u] = userSkills[u]

\* Without database errors the snapshot ends at the list published last and
\* stays there, however often the consumer is restarted on the way.
ConvergesToLastEvent ==
  <>[](\A u \in Users :
         topic[u] # <<>> /\ handlerErrors = 0 => snapshot[u] = topic[u][Len(topic[u])])

Contract == INSTANCE ProjectionContract
              WITH NoList <- NoSkills, record <- userSkills, history <- had,
                   projection <- snapshot

\* The projection keeps the promise of ProjectionContract.
KeepsContract == Contract!Spec

\* events.go and migrations/jobs/00002: replacing the whole projection "is what
\* makes repeated/out-of-order delivery safe"; producer.go names a failed
\* publish as what lets the projection drift.
OnlyLossDrifts ==
  \A u \in Users : Settled(u) /\ "lost" \notin drift[u] => snapshot[u] = userSkills[u]
================================================================================
