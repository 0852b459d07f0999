------------------------------ MODULE JobMatching ------------------------------
(***************************************************************************)
(* jobs-service's CreateJob, the job.posted topic it publishes to, and the *)
(* matching worker that consumes it: score every user of the skill         *)
(* snapshot against the job, record a row per match, announce each on      *)
(* job.matched and ping the user through notifications.realtime.           *)
(*                                                                         *)
(* The worker visits the candidates one at a time, in any order (Go map    *)
(* iteration), and each visit is three effects on three systems, so a crash*)
(* or a shutdown can fall between any two of them.  The event of a job is  *)
(* published at most once, under its own key: one log of at most one       *)
(* record per job.                                                         *)
(*                                                                         *)
(* A score is overlap / Len(required[j]); required never changes, so the   *)
(* overlap stands for it.  CreateJob's eviction of jobs:all is left to     *)
(* the module of the cache.                                                *)
(***************************************************************************)
EXTENDS Lists

CONSTANTS
  Jobs,             \* CreateJob calls, each with the id it generates
  Users, Skills,
  Blank,            \* an id that is empty once trimmed
  Requests,         \* the required_skill_ids a caller may send
  None,
  MaxChanges,       \* bound: changes of the snapshot
  MaxStoreErrors,   \* bound: database errors of the worker
  MaxStops          \* bound: crashes and shutdowns of jobs-service

ASSUME RequestsAreLists == Requests \subseteq Seq(Skills \cup {Blank})
ASSUME NoneIsNoId == None \notin Users \cup Jobs /\ Blank \notin Skills
ASSUME SkillsAreFinite == IsFiniteSet(Skills)

VARIABLES
  posting,        \* the CreateJob calls
  required,       \* jobs.job_required_skills, in the order of the event's list
  snapshot,       \* jobs.user_skill_snapshot: the skills of each user
  mode, committed, head, next, end,   \* the group jobs-service.matching-worker
  work,           \* the record the worker is handling
  jobMatches,     \* jobs.job_matches: the overlap per job and user, 0 for no row
  announced,      \* job.matched records, per job and user
  pings,          \* job_match messages sent to notifications.realtime
  changes, storeErrors, stops,   \* how much of the bounds is used
  \* History, read by properties only:
  had,            \* every skill set the snapshot has held, per user
  deliveries,     \* how often the record of a job was given to the worker
  due,            \* the users who overlapped the job when it was posted
  owed            \* the candidates a completed query found, less database errors

groupVars == <<mode, committed, head, next, end>>
vars == <<posting, required, snapshot, groupVars, work, jobMatches, announced, pings,
          changes, storeErrors, stops, had, deliveries, due, owed>>
callVars == <<posting, required, due>>
snapshotVars == <<snapshot, had, changes>>
effects == <<jobMatches, announced, pings>>

matchThresholdOverlap == 1

\* Mutant of DedupeNonEmpty: the list is stored as it was sent.
AsSent(ids) == ids

\* Mutant of DedupeNonEmpty: blanks are dropped, duplicates are kept.
DropBlanks(ids) == SelectSeq(ids, LAMBDA id : id # Blank)

\* The first occurrence of each id that is not blank, in order.
DedupeNonEmpty(ids) ==
  AtPlaces(ids, {i \in DOMAIN ids : ids[i] # Blank /\ \A h \in 1 .. i - 1 : ids[h] # ids[i]})

\* Mutant of Overlap: a skill counts once per user who has it, wanted or not.
AllSkills(j, u) == Cardinality(snapshot[u])

\* The worker's query: how many of the required ids the user has.
Overlap(j, u) == Cardinality(snapshot[u] \cap ToSet(required[j]))

Matches(j) == {u \in Users : Overlap(j, u) >= matchThresholdOverlap}

Posted(j) == posting[j] = "posted"

Group == INSTANCE ConsumerGroup
           WITH Partitions <- Jobs,
                logEnd <- [j \in Jobs |-> IF Posted(j) THEN 1 ELSE 0]

Resting == [job |-> None, todo |-> [u \in Users |-> 0], user |-> None, step |-> "upsert"]

Work == [job: Jobs \cup {None},
         todo: [Users -> Nat],       \* overlap of the candidates not visited yet
         user: Users \cup {None},    \* the candidate being visited
         step: {"upsert", "announce", "ping"}]

Init ==
  /\ posting = [j \in Jobs |-> "idle"]
  /\ required = [j \in Jobs |-> <<>>]
  /\ snapshot = [u \in Users |-> {}]
  /\ Group!Init
  /\ work = Resting
  /\ jobMatches = [j \in Jobs |-> [u \in Users |-> 0]]
  /\ announced = [j \in Jobs |-> [u \in Users |-> 0]]
  /\ pings = [j \in Jobs |-> [u \in Users |-> 0]]
  /\ changes = 0 /\ storeErrors = 0 /\ stops = 0
  /\ had = [u \in Users |-> {{}}]
  /\ deliveries = [j \in Jobs |-> 0]
  /\ due = [j \in Jobs |-> {}]
  /\ owed = [j \in Jobs |-> {}]

--------------------------------------------------------------------------------
(* The snapshot, kept by SkillProjection *)

ReplaceUserSkills(u, skills) ==
  /\ changes < MaxChanges
  /\ skills # snapshot[u]
  /\ snapshot' = [snapshot EXCEPT ![u] = skills]
  /\ had' = [had EXCEPT ![u] = @ \cup {skills}]
  /\ changes' = changes + 1
  /\ UNCHANGED <<callVars, groupVars, work, effects, storeErrors, stops, deliveries, owed>>

--------------------------------------------------------------------------------
(* CreateJob *)

CallStep(j, from, to) ==
  /\ posting[j] = from
  /\ posting' = [posting EXCEPT ![j] = to]
  /\ UNCHANGED <<snapshotVars, groupVars, work, effects, storeErrors, stops, deliveries, owed>>

\* A blank title, or a transaction that rolled back.
Refuse(j) == CallStep(j, "idle", "refused") /\ UNCHANGED <<required, due>>

\* insertJob: the job and its required-skill rows in one transaction.
InsertJob(j, ids) ==
  /\ CallStep(j, "idle", "inserted")
  /\ required' = [required EXCEPT ![j] = DedupeNonEmpty(ids)]
  /\ UNCHANGED due

PublishJobPosted(j) ==
  /\ CallStep(j, "inserted", "posted")
  /\ due' = [due EXCEPT ![j] = Matches(j)]
  /\ UNCHANGED required

\* The publish failed or the process died first; the job is never matched.
DropJobPosted(j) == CallStep(j, "inserted", "unposted") /\ UNCHANGED <<required, due>>

--------------------------------------------------------------------------------
(* HandleJobPosted *)

Idle == work.job = None

Unvisited == {u \in Users : work.todo[u] > 0}

WorkerOnly == UNCHANGED <<callVars, snapshotVars, stops>>

Received(j) ==
  /\ Idle /\ Group!Delivering(j)
  /\ deliveries' = [deliveries EXCEPT ![j] = @ + 1]

\* The database fails on its own, or because the context is cancelled.
DatabaseFails ==
  \/ mode = "stopping" /\ UNCHANGED storeErrors
  \/ /\ mode = "running" /\ storeErrors < MaxStoreErrors
     /\ storeErrors' = storeErrors + 1

\* A job without required skills, or a query that failed: nothing is matched.
GiveUp(j) ==
  /\ Received(j)
  /\ \/ required[j] = <<>> /\ UNCHANGED storeErrors
     \/ required[j] # <<>> /\ DatabaseFails
  /\ Group!Deliver(j)
  /\ owed' = [owed EXCEPT ![j] = IF mode = "running" THEN {} ELSE @]
  /\ WorkerOnly /\ UNCHANGED <<work, effects>>

\* CandidatesForSkills: one query over the snapshot as it is now.
Score(j) ==
  /\ Received(j)
  /\ mode = "running" /\ required[j] # <<>>
  /\ work' = [Resting EXCEPT !.job = j, !.todo = [u \in Users |-> Overlap(j, u)]]
  /\ owed' = [owed EXCEPT ![j] = Matches(j)]
  /\ WorkerOnly /\ UNCHANGED <<groupVars, effects, storeErrors>>

\* Mutant of AfterUpsert: the candidate is still to be visited.
VisitAgain(u) == [work EXCEPT !.user = u, !.step = "announce"]

\* Mutant of AfterUpsert: the loop ends with the first match.
FirstOnly(u) == [work EXCEPT !.todo = [v \in Users |-> 0], !.user = u, !.step = "announce"]

AfterUpsert(u) == [work EXCEPT !.todo[u] = 0, !.user = u, !.step = "announce"]

\* UpsertMatch: ON CONFLICT (job_id, user_id) DO UPDATE.
UpsertMatch(u) ==
  LET j == work.job
  IN  /\ ~Idle /\ work.user = None
      /\ work.todo[u] >= matchThresholdOverlap
      /\ mode = "running"
      /\ jobMatches' = [jobMatches EXCEPT ![j][u] = work.todo[u]]
      /\ work' = AfterUpsert(u)
      /\ WorkerOnly /\ UNCHANGED <<groupVars, announced, pings, storeErrors, deliveries, owed>>

\* Mutant of AfterFailedUpsert: the continue is missing.
AnnounceAnyway(u) == [work EXCEPT !.todo[u] = 0, !.user = u, !.step = "announce"]

\* The candidate is passed over: nothing is announced without a row.
AfterFailedUpsert(u) == [work EXCEPT !.todo[u] = 0]

UpsertFails(u) ==
  /\ ~Idle /\ work.user = None
  /\ work.todo[u] >= matchThresholdOverlap
  /\ DatabaseFails
  /\ work' = AfterFailedUpsert(u)
  /\ owed' = [owed EXCEPT ![work.job] = IF mode = "running" THEN @ \ {u} ELSE @]
  /\ WorkerOnly /\ UNCHANGED <<groupVars, effects, deliveries>>

Visiting(step) == ~Idle /\ work.user # None /\ work.step = step

Sent(counts, sent) ==
  IF sent THEN [counts EXCEPT ![work.job][work.user] = @ + 1] ELSE counts

\* job.matched, synchronous and best effort.  ProduceSync fails once the
\* context is cancelled.
Announce(sent) ==
  /\ Visiting("announce")
  /\ sent => mode = "running"
  /\ announced' = Sent(announced, sent)
  /\ work' = [work EXCEPT !.step = "ping"]
  /\ WorkerOnly /\ UNCHANGED <<groupVars, jobMatches, pings, storeErrors, deliveries, owed>>

\* notifications.realtime, fire and forget.
Ping(sent) ==
  /\ Visiting("ping")
  /\ pings' = Sent(pings, sent)
  /\ work' = [work EXCEPT !.user = None, !.step = "upsert"]
  /\ WorkerOnly /\ UNCHANGED <<groupVars, jobMatches, announced, storeErrors, deliveries, owed>>

\* Every candidate is visited; the handler returns to Run.
Finish ==
  /\ ~Idle /\ work.user = None /\ Unvisited = {}
  /\ Group!Deliver(work.job)
  /\ work' = Resting
  /\ WorkerOnly /\ UNCHANGED <<effects, storeErrors, deliveries, owed>>

--------------------------------------------------------------------------------
(* The consumer loop *)

OffsetsOnly ==
  UNCHANGED <<callVars, snapshotVars, effects, storeErrors, deliveries, owed>>

Poll ==
  /\ Group!Repoll \/ \E j \in Jobs : Group!Fetch(j, 1)
  /\ OffsetsOnly /\ UNCHANGED <<work, stops>>

Commit == Group!AutoCommit /\ OffsetsOnly /\ UNCHANGED <<work, stops>>

\* A crash forgets the record in hand; a cancelled handler goes on.
Stop ==
  /\ stops < MaxStops
  /\ \/ Group!Cancel /\ UNCHANGED work
     \/ Group!Crash /\ work' = Resting
  /\ stops' = stops + 1
  /\ OffsetsOnly

Leave ==
  /\ Idle
  /\ Group!Close
  /\ OffsetsOnly /\ UNCHANGED <<work, stops>>

Restart == Group!Start /\ OffsetsOnly /\ UNCHANGED <<work, stops>>

--------------------------------------------------------------------------------
Handle ==
  \/ \E j \in Jobs : GiveUp(j) \/ Score(j)
  \/ \E u \in Users : UpsertMatch(u) \/ UpsertFails(u)
  \/ \E sent \in BOOLEAN : Announce(sent) \/ Ping(sent)
  \/ Finish

Next ==
  \/ \E u \in Users, skills \in SUBSET Skills : ReplaceUserSkills(u, skills)
  \/ \E j \in Jobs :
       \/ Refuse(j)
       \/ \E ids \in Requests : InsertJob(j, ids)
       \/ PublishJobPosted(j)
       \/ DropJobPosted(j)
  \/ Handle
  \/ Poll \/ Commit \/ Stop \/ Leave \/ Restart

Spec == Init /\ [][Next]_vars

\* As for SkillProjection: Run polls and the handler runs to its end while the
\* process lives, and the platform restarts a process that stopped.
FairSpec ==
  /\ Spec
  /\ WF_vars(Poll) /\ WF_vars(Handle) /\ WF_vars(Leave) /\ WF_vars(Restart)

--------------------------------------------------------------------------------
(* Properties *)

Counts == [Jobs -> [Users -> Nat]]

TypeOK ==
  /\ posting \in [Jobs -> {"idle", "refused", "inserted", "posted", "unposted"}]
  /\ required \in [Jobs -> Seq(Skills)]
  /\ snapshot \in [Users -> SUBSET Skills]
  /\ Group!TypeOK
  /\ work \in Work
  /\ jobMatches \in Counts /\ announced \in Counts /\ pings \in Counts
  /\ changes \in Nat /\ storeErrors \in Nat /\ stops \in Nat
  /\ had \in [Users -> SUBSET SUBSET Skills]
  /\ deliveries \in [Jobs -> Nat]
  /\ due \in [Jobs -> SUBSET Users]
  /\ owed \in [Jobs -> SUBSET Users]

Matched(j, u) == jobMatches[j][u] > 0

\* A row of job_matches says what was true of the user at some moment: the score
\* counts the required skills of a list the user had, lies in (0, 1], and is 1
\* exactly when that list covers the job (matcher.go's overlap / len(required),
\* server.go's dedupeNonEmpty).
MatchesAreEarned ==
  \A j \in Jobs, u \in Users :
    Matched(j, u) =>
      /\ Posted(j)
      /\ jobMatches[j][u] <= Len(required[j])
      /\ \E skills \in had[u] :
           /\ jobMatches[j][u] = Cardinality(skills \cap ToSet(required[j]))
           /\ jobMatches[j][u] = Len(required[j]) <=> ToSet(required[j]) \subseteq skills

\* Nobody is told of a match that is not recorded: a ping or a job.matched event
\* leaves only after the user's row is in the database, however the upserts fail.
ToldOnlyIfRecorded ==
  \A j \in Jobs, u \in Users : announced[j][u] + pings[j][u] > 0 => Matched(j, u)

\* Only a restart of the process repeats a ping: without one, a user hears of a
\* job once.
RepeatsNeedRestarts ==
  \A j \in Jobs, u \in Users : announced[j][u] <= 1 + stops /\ pings[j][u] <= 1 + stops

\* Once the offset of a job's event is committed, every candidate of the last
\* scoring has a row, save those whose upsert the database refused: a crash or a
\* shutdown between two candidates loses none of them.
CommittedJobsMatched ==
  \A j \in Jobs :
    committed[j] = 1 => \A u \in owed[j] : Matched(j, u)

Contract == INSTANCE MatchingContract
              WITH Wanted <- {DedupeNonEmpty(ids) : ids \in Requests},
                   posted <- {j \in Jobs : Posted(j)},
                   rows <- jobMatches,
                   told <- {p \in Jobs \X Users : announced[p[1]][p[2]] + pings[p[1]][p[2]] > 0}

\* CreateJob and the worker together keep the promise of MatchingContract, however
\* crashes, shutdowns, redelivered events and changes of the snapshot fall between
\* the query for the candidates, a row and its two announcements: each is a step
\* the contract allows, or none it sees.
KeepsContract == Contract!Spec

\* A user whose snapshot overlaps a job when its event is published ends up
\* matched, restarts or not, unless a later list of the user's no longer overlaps
\* it or the database failed.
EveryDueMatchHappens ==
  \A j \in Jobs, u \in Users : u \in due[j] ~> Matched(j, u) \/ Overlap(j, u) = 0 \/ storeErrors > 0
================================================================================
