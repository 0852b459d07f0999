------------------------------ MODULE JobsListing ------------------------------
(***************************************************************************)
(* jobs-service's ListJobs and GetJob, read through the Redis entries      *)
(* jobs:all and jobs:<id>, against CreateJob, which inserts a job and then *)
(* evicts jobs:all, and against the consumer of skill.updated, which       *)
(* evicts it too.                                                          *)
(*                                                                         *)
(* A read that misses asks the database twice (the jobs, then the required *)
(* skills of those jobs) before it fills the entry, and holds no lock over *)
(* any of it.  CreateJob's publication of job.posted is JobMatching's.     *)
(***************************************************************************)
EXTENDS Naturals, FiniteSets

CONSTANTS
  Jobs,         \* CreateJob calls, each with the id it generates
  Skills,
  Readers,      \* callers of ListJobs and GetJob, one call at a time each
  All,          \* the key jobs:all; the key jobs:<id> is the id
  None,
  MaxRedisErrors    \* bound: commands Redis fails to serve

ASSUME KeysAreDistinct == All \notin Jobs /\ None \notin Jobs \cup {All}
ASSUME ErrorsAreBounded == MaxRedisErrors \in Nat

VARIABLES
  jobs,         \* jobs.jobs and jobs.job_required_skills: the skills per job
  posting,      \* the CreateJob calls
  call,         \* the call each reader is in, or has had answered last
  stored,       \* the cache
  redisErrors,
  \* History, read by properties only:
  overtaken     \* jobs a fill of jobs:all may have missed, or whose Del failed

vars == <<jobs, posting, call, stored, redisErrors, overtaken>>

Keys == Jobs \cup {All}

\* A list of jobs as it is stored and answered: each job with its skills.
Listings == UNION {[js -> SUBSET Skills] : js \in SUBSET Jobs}
Empty == [j \in {} |-> {}]
NotFound == Empty       \* GetJob's error; ListJobs answers an empty list as such
Failed == None          \* any other error

Entries == INSTANCE Cache WITH Values <- Listings, Miss <- None

Call == [pc: {"idle", "missed", "read", "filling", "answered"},
         key: Keys,
         rows: SUBSET Jobs,             \* the ids the first query returned
         listing: Listings \cup {None}, \* what is about to be, or was, answered
         made: SUBSET Jobs]             \* history: jobs created before the call

NoCall == [pc |-> "idle", key |-> All, rows |-> {}, listing |-> None, made |-> {}]

Init ==
  /\ jobs = Empty
  /\ posting = [j \in Jobs |-> "idle"]
  /\ call = [r \in Readers |-> NoCall]
  /\ Entries!Init
  /\ redisErrors = 0
  /\ overtaken = {}

RedisServes(works) ==
  \/ works /\ UNCHANGED redisErrors
  \/ ~works /\ redisErrors < MaxRedisErrors /\ redisErrors' = redisErrors + 1

--------------------------------------------------------------------------------
(* CreateJob *)

\* insertJob: one transaction makes the job and its required skills visible.
InsertJob(j, skills) ==
  /\ posting[j] = "idle"
  /\ jobs' = [i \in DOMAIN jobs \cup {j} |-> IF i = j THEN skills ELSE jobs[i]]
  /\ posting' = [posting EXCEPT ![j] = "inserted"]
  /\ UNCHANGED <<call, stored, redisErrors, overtaken>>

\* A list query in flight has not seen j.
Overlooks(r, j) ==
  call[r].key = All /\ call[r].pc \in {"read", "filling"} /\ j \notin call[r].rows

\* Mutant of EvictedKey: the entry of the job itself is evicted.
OwnKey(j) == j

EvictedKey(j) == All

\* The Del after the insert, then the answer.
EvictList(j, works) ==
  /\ posting[j] = "inserted"
  /\ RedisServes(works)
  /\ Entries!Del(EvictedKey(j), works)
  /\ posting' = [posting EXCEPT ![j] = "created"]
  /\ overtaken' = IF works /\ ~ \E r \in Readers : Overlooks(r, j)
                    THEN overtaken ELSE overtaken \cup {j}
  /\ UNCHANGED <<jobs, call>>

\* The title is blank, the transaction rolled back, or the process died between
\* the insert and the Del: the caller has no answer.
Fail(j) ==
  /\ posting[j] \in {"idle", "inserted"}
  /\ posting' = [posting EXCEPT ![j] = "failed"]
  /\ UNCHANGED <<jobs, call, stored, redisErrors, overtaken>>

\* HandleSkillUpdated: jobs:all goes, whatever skill has changed.
HandleSkillUpdated(works) ==
  /\ stored[All] # None
  /\ RedisServes(works)
  /\ Entries!Del(All, works)
  /\ UNCHANGED <<jobs, posting, call, overtaken>>

--------------------------------------------------------------------------------
(* ListJobs and GetJob *)

Created == {j \in Jobs : posting[j] = "created"}

Answer(r, listing) == [call[r] EXCEPT !.pc = "answered", !.listing = listing]

\* The entry is there: it is the answer.  Otherwise the database is asked.
Lookup(r, key, works) ==
  LET entry == Entries!Get(key, works)
      made == Created
  IN  /\ call[r].pc \in {"idle", "answered"}
      /\ RedisServes(works)
      /\ call' = [call EXCEPT ![r] =
                    [pc |-> IF entry = None THEN "missed" ELSE "answered",
                     key |-> key, rows |-> {}, listing |-> entry, made |-> made]]
      /\ UNCHANGED <<jobs, posting, stored, overtaken>>

Wanted(key) == IF key = All THEN Jobs ELSE {key}

\* GetJob's NotFound is an error, and errors are not stored.
IsError(key, rows) == rows = {} /\ key # All

\* The first query.
ReadJobs(r) ==
  LET rows == DOMAIN jobs \cap Wanted(call[r].key)
  IN  /\ call[r].pc = "missed"
      /\ call' = [call EXCEPT ![r] =
                    IF IsError(@.key, rows) THEN Answer(r, NotFound)
                    ELSE [@ EXCEPT !.pc = "read", !.rows = rows]]
      /\ UNCHANGED <<jobs, posting, stored, redisErrors, overtaken>>

\* Mutant of WithSkills: the jobs are read after the skills, not before.
SkillsThenJobs(r) ==
  [j \in DOMAIN jobs \cap Wanted(call[r].key) |-> IF j \in call[r].rows THEN jobs[j] ELSE {}]

\* The second query, requiredSkillsByJobID, for the ids of the first.
WithSkills(r) == [j \in call[r].rows |-> jobs[j]]

ReadSkills(r) ==
  /\ call[r].pc = "read"
  /\ call' = [call EXCEPT ![r].pc = "filling", ![r].listing = WithSkills(r)]
  /\ UNCHANGED <<jobs, posting, stored, redisErrors, overtaken>>

\* The entry is stored and the call answered; a failed Set changes nothing.
Fill(r, works) ==
  /\ call[r].pc = "filling"
  /\ RedisServes(works)
  /\ Entries!Set(call[r].key, call[r].listing, works)
  /\ call' = [call EXCEPT ![r] = Answer(r, @.listing)]
  /\ UNCHANGED <<jobs, posting, overtaken>>

\* Either query fails.
ReadFails(r) ==
  /\ call[r].pc \in {"missed", "read"}
  /\ call' = [call EXCEPT ![r] = Answer(r, Failed)]
  /\ UNCHANGED <<jobs, posting, stored, redisErrors, overtaken>>

\* The TTL of an entry has passed.
Expire(key) ==
  /\ Entries!Expire(key)
  /\ UNCHANGED <<jobs, posting, call, redisErrors, overtaken>>

--------------------------------------------------------------------------------
Serve(r) ==
  \/ ReadJobs(r) \/ ReadSkills(r) \/ ReadFails(r)
  \/ \E works \in BOOLEAN : Fill(r, works)

Next ==
  \/ \E j \in Jobs :
       \/ \E skills \in SUBSET Skills : InsertJob(j, skills)
       \/ \E works \in BOOLEAN : EvictList(j, works)
       \/ Fail(j)
  \/ \E works \in BOOLEAN : HandleSkillUpdated(works)
  \/ \E r \in Readers :
       \/ \E key \in Keys, works \in BOOLEAN : Lookup(r, key, works)
       \/ Serve(r)
  \/ \E key \in Keys : Expire(key)

Spec == Init /\ [][Next]_vars

\* A call that was taken is served, and Redis drops an entry whose TTL is over.
Fairness ==
  /\ \A r \in Readers : WF_vars(Serve(r))
  /\ \A key \in Keys : WF_vars(Expire(key))

FairSpec == Spec /\ Fairness

--------------------------------------------------------------------------------
(* Properties *)

TypeOK ==
  /\ jobs \in Listings
  /\ posting \in [Jobs -> {"idle", "inserted", "created", "failed"}]
  /\ call \in [Readers -> Call]
  /\ Entries!TypeOK
  /\ redisErrors \in 0 .. MaxRedisErrors
  /\ overtaken \subseteq Jobs

\* What a reader is shown of a job is the whole job: the two queries of one read
\* may straddle any CreateJob, and still no job appears without its skills.
ShownJobsAreWhole ==
  LET whole(listing) == \A j \in DOMAIN listing : j \in DOMAIN jobs /\ listing[j] = jobs[j]
  IN  /\ \A r \in Readers : call[r].listing # None => whole(call[r].listing)
      /\ \A key \in Keys : stored[key] # None => whole(stored[key])

\* jobs:all lacks a job whose CreateJob has answered only if a fill was between
\* its query and its Set when CreateJob evicted the entry, or that Del failed.
StaleListHasACause ==
  \A j \in Jobs \ overtaken :
    posting[j] = "created" /\ stored[All] # None => j \in DOMAIN stored[All]

\* However a stale list came to be stored, it goes: once no job is created any
\* more, jobs:all is absent or complete from some moment on.
StaleListExpires ==
  <>[](stored[All] # None => DOMAIN stored[All] = DOMAIN jobs)

\* server.go, CreateJob: "DELs jobs:all [...] so ListJobs never serves a stale
\* list missing the new posting".
CreatedIsListed ==
  \A r \in Readers :
    call[r].pc = "answered" /\ call[r].key = All /\ call[r].listing # Failed
      => call[r].made \subseteq DOMAIN call[r].listing
================================================================================
