-------------------------------- MODULE Platform --------------------------------
(***************************************************************************)
(* The services together, each reduced to what its contract promises and   *)
(* the modules SkillProjection, JobMatching and Notifications are shown to *)
(* keep: from a skill a user saves, through the snapshot jobs-service keeps*)
(* of it and the matches it records, to what the bell of a page shows.     *)
(* A step of the platform is a step of one service, or of two where one    *)
(* hands the other something: the snapshot consumer writes the table that  *)
(* the matching worker queries, and the worker's ping is the message that  *)
(* the gateways' bridges consume.                                          *)
(***************************************************************************)
EXTENDS SequencesExt

CONSTANTS
  Users, SkillIds, JobIds, Pages,
  Profiles,           \* the skill lists a user can have: a level for each skill, or
  NoLevel,            \* this for a skill the user has not
  Wanted,             \* the lists of skills a job can require
  LoggedIn,           \* who is logged in on a page
  Copies              \* how often a match can be told of

ASSUME SkillsAreFinite == IsFiniteSet(SkillIds)
ASSUME PagesAreOwned == LoggedIn \in [Pages -> Users]

NoProfile == [s \in SkillIds |-> NoLevel]

Notifs == JobIds \X Users \X Copies

JobOf(n) == n[1]
UserOf(n) == n[2]

VARIABLES
  record, profiles, projection,           \* users-service and the snapshot
  posted, requires, had, matches, told,   \* jobs-service
  offered, pending, histories, full, failed, shown   \* queue, bridges, pages

projectionVars == <<record, profiles, projection>>
matchingVars == <<posted, requires, had, matches, told>>
feedVars == <<offered, pending, histories, full, failed, shown>>
platformVars == <<projectionVars, matchingVars, feedVars>>

Projection == INSTANCE ProjectionContract
  WITH Lists <- Profiles, NoList <- NoProfile, history <- profiles

Matching == INSTANCE MatchingContract
  WITH Jobs <- JobIds, Skills <- SkillIds, required <- requires, rows <- matches

Feed == INSTANCE FeedContract
  WITH To <- [n \in Notifs |-> UserOf(n)], Owner <- LoggedIn, kept <- histories

PlatformInit == Projection!Init /\ Matching!Init /\ Feed!Init

--------------------------------------------------------------------------------
\* UpsertUserSkill.
SaveSkill(u, profile) ==
  /\ Projection!Write(u, profile)
  /\ UNCHANGED <<matchingVars, feedVars>>

\* The levels do not matter to the matcher: the query joins on the skill's id.
SkillsOf(profile) == {s \in SkillIds : profile[s] # NoLevel}

\* Mutant of SnapshotSkills: the event's skills are added to those on record.
AddToSnapshot(u, profile) ==
  /\ Projection!Project(u, profile)
  /\ Matching!Learn(u, SkillsOf(profile) \cup SkillsOf(projection[u]))
  /\ UNCHANGED feedVars

\* ReplaceUserSkills: what the worker's next query finds of the user.
SnapshotSkills(u, profile) ==
  /\ Projection!Project(u, profile)
  /\ Matching!Learn(u, SkillsOf(profile))
  /\ UNCHANGED feedVars

PostJob(j) ==
  /\ Matching!Post(j) \/ \E list \in Wanted : Matching!Require(j, list)
  /\ UNCHANGED <<projectionVars, feedVars>>

RecordMatch(j, u) ==
  /\ \E skills \in SUBSET SkillIds : Matching!Match(j, u, skills)
  /\ UNCHANGED <<projectionVars, feedVars>>

\* The match is announced, or the user is pinged, and the broker takes the ping.
TellUser(j, u) ==
  /\ Matching!Tell(j, u)
  /\ UNCHANGED feedVars \/ \E c \in Copies : Feed!Offer(<<j, u, c>>)
  /\ UNCHANGED projectionVars

\* A bridge's part, and the settling of the delivery.
Bridge(n) ==
  /\ Feed!Fail(n) \/ Feed!Settle(n) \/ \E entries \in SUBSET Notifs : Feed!Keep(n, entries)
  /\ UNCHANGED <<projectionVars, matchingVars>>

RingBell(p) ==
  /\ \E entries \in SUBSET Notifs : Feed!Show(p, entries)
  /\ UNCHANGED <<projectionVars, matchingVars>>

PlatformNext ==
  \/ \E u \in Users, profile \in Profiles : SaveSkill(u, profile) \/ SnapshotSkills(u, profile)
  \/ \E j \in JobIds : PostJob(j) \/ \E u \in Users : RecordMatch(j, u) \/ TellUser(j, u)
  \/ \E n \in Notifs : Bridge(n)
  \/ \E p \in Pages : RingBell(p)

PlatformSpec == PlatformInit /\ [][PlatformNext]_platformVars

--------------------------------------------------------------------------------
\* What a bell says of a job is true: the job is posted, the user who is logged in
\* has a row of job_matches for it, and the row scores, against the list the job was
\* posted with, a list of skills that users-service has really held for that user;
\* through every topic, table, queue and stream on the way, and whatever each of
\* them delays, repeats or drops (matcher.go, snapshot_consumer.go, bridge.go).
BellsTellTheTruth ==
  \A p \in Pages : \A n \in shown[p] :
    LET j == JobOf(n)  u == LoggedIn[p]
    IN  /\ UserOf(n) = u /\ j \in posted
        /\ matches[j][u] > 0
        /\ \E profile \in profiles[u] :
             matches[j][u] = Cardinality(SkillsOf(profile) \cap ToSet(requires[j]))
================================================================================
