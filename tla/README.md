# Skill Bridge: TLA+ specifications and proofs

Specifications of the concurrent and distributed parts of the Skill Bridge
platform, checked with TLC on small instances and, for the properties that
matter most, proved with TLAPS for every value of the constants. Paths below are
relative to the repository root; `backend/` is the Go (and one NestJS) back end,
`frontend/` the React client.

## 1. The system

Six processes share one Postgres database (one schema and one role per service),
Redis, Kafka and RabbitMQ. Every dependency is optional at run time: a service
that cannot reach one logs the fact and goes on without it. There is no
transactional outbox: an event is published after the row it is about is
committed, once, best effort.

```
 browser --HTTP/WS--> api-gateway --gRPC--> auth / users / skills / jobs service
                          |  ^                 |       |        |       |
                          |  | Redis pub/sub   |       | user.  | skill.|  job.posted
                          v  | + stream        |       | skills.| upda- |  (to itself)
                     realtime bridge           |       | updated| ted   v
                          ^                    |       +--------+--> jobs-service consumers
                          | notifications.realtime (RabbitMQ) <------ matching worker
                          |                    v
                          |           notifications.email (RabbitMQ)
                          |                    v
                          +-------     notification-service (NestJS)
```

### 1.1 Components

| component | state it keeps | operations | talks to | hard behaviour |
|---|---|---|---|---|
| users-service (`internal/users`) | `users.profiles`, `users.user_skills` | GetProfile, UpdateProfile, AddUserSkill, ListUserSkills, GetProfilesByIds | Kafka `user.skills.updated` | concurrent calls for one user; lost publish; lazy profile creation raced by two readers |
| jobs-service RPCs (`internal/jobs/server.go`) | `jobs.jobs`, `jobs.job_required_skills`, cache keys `jobs:all`, `jobs:<id>` | CreateJob, ListJobs, GetJob, ListJobMatches | Redis, Kafka `job.posted` | cache filled from a read that a write has overtaken; list read in two queries |
| snapshot consumer (`internal/jobs/snapshot.go`) | `jobs.user_skill_snapshot`, its group's offsets | HandleUserSkillsUpdated | Kafka | redelivery, restart, an event applied out of order |
| matching worker (`internal/jobs/matcher.go`) | `jobs.job_matches`, its group's offsets | HandleJobPosted | Kafka `job.matched`, RabbitMQ | crash between a row, its event and its ping; one candidate failing |
| cache invalidator (`internal/jobs/cache_invalidation.go`) | none | HandleSkillUpdated | Redis | races the fill of `jobs:all` |
| skills-service (`internal/skills`) | `skills.skills`, cache key `skills:all` | CreateSkill, ListSkills, GetSkillsByIds | Redis, Kafka `skill.updated` | as the jobs cache; unique name raced by two creators |
| auth-service (`internal/auth`) | `auth.credentials`, `auth.oauth_identities`, the signing key | Register, Login, GoogleOAuthURL, GoogleOAuthCallback | RabbitMQ both queues, JWKS over HTTP | two registrations of one e-mail; callback, e-mail linking and registration interleaved |
| JWKS and tokens (`internal/platform/jwks`) | key map of the client, key pair of the server | Refresh, GetKey, Sign, Verify | HTTP | refresh racing a lookup; restart of auth-service changes the key |
| api-gateway (`internal/gateway`) | per-connection subscriptions, per-request data loaders | GraphQL resolvers, rate limiter, CORS, auth middleware | all gRPC services, Redis | fixed window made of INCR and EXPIRE; pub/sub with no replay |
| realtime bridge (`internal/gateway/realtime`) | none | Bridge.Handler | RabbitMQ, Redis stream and channel | subscriber absent, history and live push overlapping |
| Kafka platform (`internal/platform/kafka`) | client | Publish, Run, Close | Kafka | offsets against handler effects across a restart |
| RabbitMQ platform (`internal/platform/rabbitmq`) | channel, topology | Publish, Run, closeWithTimeout | RabbitMQ | nack to the dead-letter queue, closed delivery channel, no reconnection |
| cache platform (`internal/platform/cache`) | Redis client | Get, Set, Del, Incr, Publish, Subscribe, AppendNotification, RecentNotifications | Redis | two-command sequences, expiry |
| shutdown (`internal/platform/shutdown`) | none | Wait | every service | signal, drain timeout, cleanups in order |
| notification-service (`backend/notification-service`) | `notifications.notification_log`, pg pool, channel | onModuleInit, handleMessage, onModuleDestroy | RabbitMQ, Postgres | connection lost while a message is handled, redelivery, shutdown order |
| front end (`frontend/src`) | notification list, job draft in IndexedDB, auth store | useNotifications, NewJobPage autosave | gateway HTTP and WebSocket | history query racing the live push; autosave timer racing submit |
| all-in-one binary (`cmd/allinone`) | the five Go services in one process | main | everything | same components, one shutdown sequence |
| db, health, logger, request ids, telemetry, tracing, sentry | none that outlives a call | | | pure plumbing |

### 1.2 What makes each part correct

* Projection: a snapshot is exactly one event, an event carries its caller's own
  write, the copy differs from the record only for named causes, and it settles
  on the last event.
* Consumer: a committed offset never covers a record nobody handled.
* Matching: a row is earned by a skill list the user had, nobody is told of a
  match that is not recorded, every due match happens, repeats need a restart.
* Caches: a job is shown whole, a list lacks a created row only for a named cause,
  and not for ever.
* Profiles: no first touch and no update undoes what another call wrote.
* Rate limiter: at most twice the limit in any window, nobody is rejected for what
  others did, and a client that waits is served again.
* Accounts: one account per e-mail, a Google account keeps its account, who
  registered can log in.
* Tokens: a good token is refused, and a retired key accepted past its time, only
  for named causes.
* Gateway: an answer lacks something only because of the caller's rights, a failed
  call of this operation, or a claimed skill that does not exist; the gauge of
  sockets is exact.
* Notifications: what leaves the queue is in the history, a page misses something
  only for a named cause; one log row per e-mail message.
* Shutdown: nothing uses a client after it is closed, requests are lost only for
  named causes, only consumers outlast the deadline, and the process ends.
* Draft: what was discarded or posted does not come back.

## 2. Plan

Order of work, most important first.

| module | what it is | composes |
|---|---|---|
| `ConsumerGroup` | one Kafka consumer of `platform/kafka`: polls, offsets, auto-commit, cancel, close, crash, restart | |
| `ProjectionContract` | abstract: what an event-carried copy of a skill list promises | |
| `SkillProjection` | AddUserSkill, the topic, the snapshot consumer | `ConsumerGroup`; implements `ProjectionContract` |
| `MatchingContract` | abstract: what a match on record and a message about it promise | |
| `JobMatching` | CreateJob's event, the matching worker | `ConsumerGroup`; implements `MatchingContract`; takes the snapshot's changes from what `SkillProjection` allows |
| `Cache` | Redis entries with TTL | |
| `Lists` | what a filter leaves of a list | |
| `JobsListing` | ListJobs, GetJob, CreateJob and the jobs cache | `Cache` |
| `Taxonomy` | CreateSkill, ListSkills and the skills cache | `Cache` |
| `Profiles` | GetProfile, UpdateProfile, getOrCreateProfile | |
| `RateLimit` | the gateway's fixed window | |
| `DirectoryContract` | abstract: who has an account, and which account a Google account is signed in to | |
| `Accounts` | Register, Login, Google callback | implements `DirectoryContract` |
| `Tokens` | the signing key, its JWKS document and the gateway's copy of it | |
| `GraphQL` | the schema as the generated code executes it: nulls, fields with resolvers | |
| `Gateway` | authentication, resolvers and data loaders of HTTP requests and WebSockets | `GraphQL` |
| `AmqpQueue` | one durable RabbitMQ queue with prefetch, release and dead-lettering | |
| `FeedContract` | abstract: what becomes of an accepted notification, and what a bell may show | |
| `Notifications` | realtime queue, bridge, history stream, browser page | `AmqpQueue`; implements `FeedContract` |
| `MailLedger` | abstract: what becomes of an accepted e-mail message | |
| `EmailLog` | notification-service | `AmqpQueue`; implements `MailLedger` |
| `Shutdown` | `shutdown.Wait` for any program: drains, deadline, cleanups | |
| `Services` | the six programs of `backend/cmd` as values of `Shutdown`'s constants | |
| `JobDraft` | NewJobPage's autosave, discard and submit against IndexedDB | |
| `Platform` | the services together, from a saved skill to a bell | `ProjectionContract`, `MatchingContract`, `FeedContract` |

Proof modules: `SkillProjectionProofs`, `JobMatchingProofs`, `ListsAndProfilesProofs`
(`JobsListing`, `Taxonomy`, `Profiles`), `AuthProofs` (`Accounts`, `Tokens`, and `Platform`),
`NotificationsProofs` (`Notifications`, `JobDraft`), `EmailLogProofs`, `ServingProofs`
(`RateLimit`, `Shutdown`, `Gateway` with `GraphQL`), and `ListLemmas`, the lemmas about
lists that three of them share. Every safety property of a passing run is proved, the
five refinements among them.

## 3. Modules and the code

`PROJECT.json` names, for every definition, the lines it models. In short:

**ConsumerGroup** (`platform/kafka/consumer.go`, franz-go from the way the code
uses it). `mode` is the process (running, stopping once its context is
cancelled, stopped); per partition `committed`, `head` (what auto-commit would
commit), `end` (how far the last poll reached) and `next` (how far Run has
walked). `Fetch` is a poll, `Deliver` hands one record to the handler, `AutoCommit`
the background commit, which covers a poll only when the next poll begins or
when the group is left, `Close` the leave with its final commit, `Crash` a death
without one, `Start` a restart at the committed offset. A rule of franz-go that the
repository relies on without stating it, that auto-commit never covers the
batch being walked, is the definition `Committable`.

**SkillProjection** (`internal/users/server.go`, `events.go`, `producer.go`,
`internal/jobs/snapshot.go`, the user_skill_snapshot migration). An AddUserSkill
call goes idle → written → listed → published or lost: its upsert, its read of
the list, its best-effort publish. The topic has one log per user because the
key is the user's id. `HandleUserSkillsUpdated` replaces the snapshot in one
transaction, or fails, and Run goes on to the next record either way. History variables:
`had` (every list a user held), `applied` (which event the snapshot is),
`handled` (records that were tried with a live context), `drift` (what may
have made the copy differ).

**JobMatching** (`internal/jobs/server.go`, `matcher.go`, `producer.go`). CreateJob
may refuse, insert, publish or lose `job.posted`. The worker scores all
candidates with one query, then per candidate upserts the match, publishes
`job.matched` and sends the ping, each of which can fail or be cut off by a
crash. The snapshot changes arbitrarily between any two steps, as `SkillProjection`
lets it (lists may also go back to older ones). Blank and repeated ids are
dropped by `DedupeNonEmpty` as the code drops them (`Lists` has the places a
filter keeps). History variables: `had` (every list a user had), `deliveries` (how
often a record was handed to the handler), `due` (who overlapped at publication), `owed`
(the candidates of the last scoring whose upsert the database did not refuse).

**Cache, JobsListing** (`platform/cache`, `internal/jobs/server.go`,
`cache_invalidation.go`). A read looks in the cache, queries jobs, queries their
skills, and stores the answer; a creation inserts, then deletes `jobs:all`. Every
Redis command can fail, and then the code goes on. Expiry may happen whenever
an entry has a TTL: how long it is does not matter to the properties.

**RateLimit** (`internal/gateway/ratelimit`, `Client.Incr`). INCR and EXPIRE are
two steps; time is a tick that all counters with a TTL feel. A Redis failure
lets the request through (`FailOpen`). History variables: `recent[key][age]`, the requests
counted and admitted at most `age` ticks ago, and `used`, what an identity has used of
the present counter.

**Accounts** (`internal/auth/server.go`, `oauth.go`, the auth migrations). Each
call runs statement by statement against two tables with their UNIQUE
constraints; e-mails are spellings with a normal form, and a Google account may
change its address once. What a Google account may be linked by is kept nowhere in the code's
state: the e-mails Google has given for it are those of the calls made for it, and that is
what `DirectoryContract` sees of them.

**AmqpQueue, Notifications** (`platform/rabbitmq`, `gateway/realtime/bridge.go`,
`platform/cache`, `useNotifications.ts`). The broker gives a consumer at most
its prefetch; a lost connection returns what is unacknowledged to the front of
the queue, marked redelivered, while the handler that holds it goes on. An ack
settles one delivery: a message delivered twice is held twice. The
bridge PUBLISHes, then XADDs. A page subscribes and asks for its history
independently, and the history's answer replaces the list. A gateway whose
deliveries were closed stays up and consumes no more (`GoDeaf`), as
`consumer.go` returns and `main.go` starts it only once.

**EmailLog** (`backend/notification-service/src`). `onMessage` does not await the
handler, so several messages are in flight on one channel; a malformed message
is rejected to the dead-letter queue, a database failure is logged and
acknowledged; a shutdown runs the module hooks while handlers are still at work.
The order of those hooks is Nest 11's and is modelled as external.

**Taxonomy** (`internal/skills/server.go`, its migration). CreateSkill inserts
against the unique name, deletes `skills:all`, publishes; ListSkills looks, queries
and fills in three steps. `unseen` remembers the skills a fill in flight or a
failed DEL may hide: the same race as that of `jobs:all`, with an hour's TTL.

**Profiles** (`internal/users/server.go`). GetProfile and UpdateProfile are a
SELECT, an INSERT ... ON CONFLICT DO NOTHING, a second SELECT and an UPDATE of the
columns the request gave. `written` is what each column was last given on purpose.

**Tokens** (`platform/jwks`, `gateway/authctx`). auth-service has one key, new at
a restart, under a kid of its own or under the one JWT_KID fixes. GetKey reads
the cache; on a miss or a stale entry it fetches the document, replaces the map and
reads it again, each a step of its own since the lock is held for single reads
and writes. A tick of the clock may fall between any two steps; a lookup sees at
most `FetchTime` of them, as the HTTP client's timeout has it.

**GraphQL, Gateway** (`gateway/graph`, `graph/generated`, `gateway/dataloader`,
`gateway/authctx`, `cmd/api-gateway`). `GraphQL` holds the types, which fields may
be null and which have a resolver. A place in an answer is the list of the fields that
lead to it, each with its type and whether it may be null, as gqlgen's chain of
FieldContexts has them; `Nulled` is how far up a missing value reaches.
In `Gateway` an operation is a set of fields to resolve, in any order; each
makes its call or asks a loader, whose four values per id are unasked, present,
absent and error. An HTTP request's loaders go with it, a WebSocket keeps its
own for life. A mutation may commit and its answer be lost.

**Shutdown, Services** (`platform/shutdown`, `platform/rabbitmq/close.go`, the six
mains). `Wait` stops all gRPC servers together, then each HTTP server, then runs
the cleanups, all under one deadline. A server that is stopped or not waited for
leaves its handlers running. A cleanup that stops consumers waits for their Run,
whatever the deadline; one that closes a broker client gives up after three seconds.
`Services` writes each main as the record `Shutdown` is parameterised by: its
servers, consumers, who uses which client, its cleanups. TLC evaluates
`Shutdown`'s assumptions `ServersAreDistinct`, `StopsComeFirst` and `StopsAndCloses` on these
six records: that is where the order of the cleanups in the mains is checked. The
guard of each step of `Wait` is an operator of its own (GrpcCanStop, HttpCanShut,
ConsumersReturned, ...), and `CanGoOn` is their disjunction: the sequence can take a step.

**Platform** (the handovers between `users-service`, `jobs-service`, the broker, the
gateways and the pages). Its state is that of the three contracts, and its steps are theirs,
joined where the code hands something over: the snapshot that `ReplaceUserSkills` writes
is the table `CandidatesForSkills` queries, so a Project of `ProjectionContract` is a
Learn of `MatchingContract`, with the levels of the skills left behind (`SkillsOf`); and a
ping of the worker is a message the broker takes, so a Tell may be an Offer of
`FeedContract`, addressed to the user it is about. The other message on that queue,
the welcome that Register sends, is about no job and is left out here. Everything else,
from polls to XADDs, is inside the contracts.

**JobDraft** (`NewJobPage.tsx`, `jobDraftDb.ts`). Saves, reads and deletes are
transactions on one store, run in the order they were asked for and perhaps after
the page has gone. The form's timer, the answer of createJob and the change
of page are separate steps.

## 4. What TLC checks

| run | shows | expected |
|---|---|---|
| `projection` | SnapshotIsOneEvent, EventCarriesOwnWrite, CommittedWasHandled, DriftHasACause; the refinement KeepsContract; ConvergesToLastEvent | holds |
| `projection_order` | OnlyLossDrifts: that only a lost event lets the copy drift | violated |
| `matching` | MatchesAreEarned, RepeatsNeedRestarts, CommittedJobsMatched; the refinement KeepsContract; EveryDueMatchHappens | holds |
| `listing` | jobs: ShownJobsAreWhole, StaleListHasACause, StaleListExpires; taxonomy: StaleTaxonomyHasACause; profiles: UnsetColumnsSurvive | holds |
| `listing_stale` | CreatedIsListed: that ListJobs never misses a created job | violated |
| `ratelimit` | BurstAtMostTwice, RejectionsAreEarned; BudgetsReturn | holds |
| `accounts` | accounts: OneAccountPerEmail, RegisteredCanLogIn; the refinement KeepsDirectory; tokens: GoodTokensRefusedHaveACause, RetiredKeysLapse | holds |
| `notifications` | bell: RepeatsNeedRedelivery, MissesHaveACause, the refinement KeepsFeed, QueuedIsHandled; draft: DraftsReturnForACause | holds |
| `notifications_gap` | GapIsCovered: that history and pushes together miss nothing | violated |
| `email` | GoneMeansLogged; the refinement KeepsLedger; QueuedIsSettled | holds |
| `shutdown` | ConsumersKeepTheirClients, HandlersKeepTheirClients, LossesHaveACause, OnlyConsumersOutlastTheDeadline; ShutdownEnds, for all six programs | holds |
| `gateway` | gateway: AnswersLoseForACause, GaugeIsExact; platform: BellsTellTheTruth | holds |

Run any of them with `tlc -config <cfg> <module>`; the longest take about two
minutes and reach 1.6 and 1.8 million states (`projection`, `gateway`).

A refinement says what several invariants said before, and how a step may change things
besides: KeepsContract of `JobMatching` has ToldOnlyIfRecorded, KeepsLedger has
OneRowPerMessage and DeadLettersAreMalformed, KeepsFeed has HistoryIsComplete,
KeepsDirectory has SubjectKeepsAccount. These
invariants are still stated in the modules and proved (section 5), as steps towards the
refinements, and have no run of their own.

`listing`, `accounts`, `notifications` and `gateway` put side by side components that share
no variable. Their MC modules let one move only while the others are in an
initial state, so the run has the sum of their states and not the product. A
property about one component's variables loses nothing by this: its behaviours
are all there, with the others at rest.

The type invariants are in the modules, next to the properties, and proved
(section 5).

### 4.1 Findings

The three violated runs are disagreements between a comment or document and the
code; `PROJECT.json` quotes both. None of them is repaired in the models: the
passing runs state what remains true (DriftHasACause, StaleListHasACause and
MissesHaveACause name the very causes these runs exhibit).

Met on the way and not given a run:

* `skills/server.go:99-101` says ListSkills never serves a stale taxonomy after
  CreateSkill returns; the race of `listing_stale` exists there too, and
  StaleTaxonomyHasACause names it.
* `dataloader.go:116-121` says a dangling skill id is silently omitted. For a
  job's required skills it is; a profile's claimed skill is a non-null field, and
  the null takes the whole profile with it (AnswersLoseForACause).
* `shutdown.go:44-47` says the timeout bounds the whole sequence. A consumer that
  does not return from its handler holds it up past any deadline
  (OnlyConsumersOutlastTheDeadline names it as the only thing that does).
* EXPIRE may fail after INCR, and the counter then never expires: BudgetsReturn
  has it as its one exception.
* A Google sign-in that fails between its two inserts leaves a credential without
  an identity although `oauth.go:258-260` says both rows are created together.
* `rabbitmq.consumer.ts:63` speaks of one unacknowledged message at a time where
  the prefetch is ten (`EmailLog` has two slots for this reason); `/readyz` of
  notification-service stays ready after the connection is lost, because its flag
  asks whether a channel object exists.

### 4.2 Bounds

* Calls, jobs, messages, lookups and pages are finite sets of model values; each
  stands for one use of an operation, so their number bounds how many overlap. Two
  overlapping calls exhibit every race found, the third lets one of them be
  followed or preceded by another (projection, accounts, profiles).
* `MaxStops`, `MaxHandlerErrors`, `MaxStoreErrors`, `MaxOutages`, `MaxFaults`,
  `MaxTroubles`, `MaxRedisErrors`, `MaxSkillFaults`, `MaxDraftFaults`, `MaxLost`,
  `MaxCopies`, `MaxMoves`, `MaxChanges` bound how often the environment fails. One of
  each kind is enough for the failure itself; two stops allow a restart to be
  interrupted again (matching), and three outages in `email` a lost connection, a shutdown
  and a crash in a row. `projection` has three calls and, by `OneTrouble` of its MC
  module, a database error or a stop but not both: the proofs of section 5 have
  no such bound.
* `StreamMaxLen`, `HistoryLimit`, `ListLimit` (50, 50, 20 in the code) and
  `Limit` are cut to 2, so that trimming and rejection really happen; the order
  ListLimit <= HistoryLimit is kept as an assumption. `Window` is three ticks, long
  enough for requests before, within and after a window's edge. `Interval` and `FetchTime`
  are one tick each: an entry is fresh, then stale, and a clock that counts to
  their sum and one more tells whether a retired key has outlived both.
* `shutdown` has one request, which may call within its process, and every client
  of all six programs; what two requests share is only the deadline.
* `platform`, in the run `gateway`, has two users, two skills of which a user has at
  most one, one job that requires both, one page and one ping a match. A snapshot that mixed
  two lists, or a bell of the wrong user, would show. In `notifications` both messages
  are one user's, to let them meet in one stream: that a bell shows nobody else's is there
  a matter of the proof (FeedKept).
* `gateway` has one HTTP client and one WebSocket, each with any number of
  operations in a row, one skill that can be created and one id that never is. `job`,
  `register`, `updateProfile` and their like follow the rule of an operation that
  is in the run.
* `JobDraft` has two contents, two visits and three transactions under way: a save,
  a delete and a read.
* Symmetry is used only in runs without liveness properties.
* `CHECK_DEADLOCK FALSE` where every call answered, every message handled and
  every bound used up leaves nothing to do: the system is then at rest. Only
  `RateLimit` and the run `gateway` never rest.

### 4.3 Fairness

`FairSpec` (or `Fairness`) asks for weak fairness only, and only of what the platform drives:
Run polls again and a handler that was entered goes on (goroutines are
scheduled, and every call of a handler runs under a context);
the bridge and the NestJS handler likewise; the broker hands out what it holds;
a process that is stopping exits and is started again (`restart:
unless-stopped` in `docker/docker-compose.yml`); Redis expires what has a TTL and time
passes. In `Shutdown` the deadline passes, the sequence takes its next step when it
can, and a consumer's handler returns; nothing is asked of request handlers, of
clients or of a broker that does not answer. No fairness is asked of callers, of
successes over failures (the failure bounds do that), of a browser, or of
reconnection, which the code does not do.

## 5. What TLAPS proves

Each theorem holds for every value of the constants that the named ASSUMEs of
its module allow: that a value like `None` is none of the real ones, that bounds
are natural numbers, and where it says so below, something about the code.

**SkillProjectionProofs.** From the one assumption that `None` is no
proficiency, no skill and no user:

* `TypeCorrect`: Spec => []TypeOK. TypeOK alone is not inductive: that the list
  handed to the handler is a list needs the record to lie in the log. The
  inductive invariant is IInv == TypeOK /\ OffsetsOrdered, where OffsetsOrdered says
  committed <= head <= next <= end <= length of the log.
* `SnapshotTrue`: a snapshot is a list its user had. Strengthened by: everything
  in the topic, in the hands of a call and in users-service's own rows is in `had`.
* `ContractKept`: `SkillProjection` implements `ProjectionContract`; every step
  is a Write, a Project, or a stutter, by the same invariant.
* `SnapshotOneEvent`: the snapshot is the event `applied` points to, whatever is
  redelivered; strengthened by the bounds of `applied`.
* `CommittedHandled`: committed offsets cover only records whose handler ran with
  a live context; strengthened by the same fact for `head` and, while the
  process runs, for everything before `next`.
* `OwnWriteCarried`: a published list contains the skill its call added.
  Strengthened by following that skill from the row to the list read and to the
  topic; it uses that a proficiency is never `None`.
* `DriftExplained`: once a user's calls are answered and the topic is consumed,
  the snapshot is the record, or `drift` names why not. Two independent
  invariants meet in it. CallsInv: a call nobody overlapped is alone and holds the
  current record, an overlapped one has left its mark in `drift`, and with no call
  in flight and no mark the record is the newest list of the topic. CaughtUpInv: where
  no event was lost, a consumer whose offset (`next` while it runs, `head` and so
  `committed` across a restart) is at the end of the topic has applied the newest
  event. With SnapshotOneEvent they give the equality.

All safety properties of `SkillProjection` that TLC checks are thus proved. The
lemmas on `ConsumerGroup` (OffsetStepOrdered, DeliverOrdered) use nothing of the
projection but its topic.

**JobMatchingProofs.** From: requests are lists of ids, there are finitely many
skills (so that overlaps are numbers), and `None` and a blank id are no real ones.

* `MatchingTyped`, `MatchesEarned`: an overlap is followed from the query, through
  the worker's hands, to the row (ScoresEarned), always as that of one list the user
  really had. That the score of such a list lies between 0 and the number of
  required skills, and is full exactly when the list covers them, is the lemma
  ScoreBounds; it needs that `DedupeNonEmpty` leaves distinct skills.
* `ToldIsRecorded`: whoever is about to be told has a row (Told).
* `RepeatsBounded`: two facts meet. A delivery tells a user at most once
  (OncePerDelivery: not before the visit, not after it); and a process is handed a
  record once, each further delivery having used up a stop (OncePerProcess).
* `CommittedIsMatched`: what lies behind the finished polls is matched, and so is
  whatever a living context has handed to the handler; of the record in hand the
  rest is still to be visited (OwedMatched). It rests on
  committed <= head <= next <= end of `ConsumerGroup`.
* `ContractKept`: `JobMatching` implements `MatchingContract`. A job counts as posted once
  its event is in the topic, and a user as told once `job.matched` or the ping has gone out. A poll, a commit, a crash, a refused upsert and a
  second telling change none of that and are stutters; for an upsert to be a Match, the
  overlap in the worker's hands must be that of one list the user had, which MatchesEarned's
  invariant says; that CreateJob gives a job its list but once is added (ListsOnce).

**ListsAndProfilesProofs.** `TaxonomyTyped`, `TaxonomyComplete`, `ListingTyped`,
`WholeJobs`, `ListComplete`: a list that is stored, and also a list some fill is
about to store, has whatever no history variable excuses it from having: the
second half is what makes the first inductive. `WholeJobs` needs that a job and its
skills are inserted at once and its id is never given again. `ProfilesTyped`,
`ColumnsSurvive`: RowComesFirst, who has got past getOrCreateProfile has seen to it
that there is a row, so no insert can follow an update.

**AuthProofs.** `OneAccount`, `SubjectKept`, `RegisteredLogIn`: that addresses are
normalized before every lookup and insert, that no two rows share one, and where
each call stands between its statements. The assumption Normalizes, that normalizing
twice changes nothing, is that of lower-casing and trimming. `DirectoryKept`:
`Accounts` implements `DirectoryContract`. An account is opened by the INSERT, an e-mail
vouched for by the exchange with Google, a link made by the last INSERT of a callback; the
lookups between are stutters, though what they found decides what is written steps later.
So the refinement needs what they found to be still true when it is used: a callback
about to link holds an account that has the e-mail Google gave this callback
(LinkersKnow), and a call that has not begun speaks for no Google account
(IdleIsBlank). The assumption is that no value stands for both an account or Google account and none.
`TokensTyped`,
`RotationTakesEffect`, `RefusalsExplained`: two action properties from one
invariant, Sound. Its heart is CacheIsRecent: a retired key in a cache that is not
stale has been retired for no longer than the cache's age and one fetch. It is
inductive only together with what a lookup carries (LookupIsSound): a document is
as old as the ticks its lookup has seen, and that of a token of the key in use holds
that key. The assumption FetchTime <= Interval is that of the code's constants.

**AuthProofs**, platform (`BellsTrue`, `PlatformKeeps`). From: there are finitely many
skills, and every page is some user's. `BellsTrue` follows a fact from station to station:
every list the matcher had is one users-service held (HadIsTrue), every row scores such a
list against what its job was posted with (RowsAreTrue), who was told has a row
(ToldHaveRows), what was offered was told (OfferedWereTold), and a bell shows what was offered for
its user (ShownWereOffered). The conjunction is inductive because lists, rows and tellings
are never taken back, and a job's list is settled before there is a row. `PlatformKeeps`: in
every behaviour of `Platform` each of the three contracts holds. The argument for the
whole system has two halves, then: the detailed modules implement the contracts
(`ContractKept` twice, `FeedKept`), and the contracts together give the bell's
truth. That the modules, put together in all their detail, behave as the contracts put
together do, is the usual step of composition and is not proved here: each of them was
proved with an environment that does anything its contract allows. `JobMatching` lets the
snapshot become any list at any time, and `Notifications` lets any message be sent
once at any time.

**NotificationsProofs.** From: every notification has an addressee and every page an
owner, the limits are positive, and ListLimit <= HistoryLimit as in the code.

* `BellTyped`: a page's list never outgrows HistoryLimit, although a push is put in
  front of an answer that may be longer than ListLimit. This is where the order of
  the two limits is used.
* `HistoryComplete`: the message a handler works on is the one its consumer holds,
  unless the connection was lost, and then the broker has taken it back (Hands); a
  handler about to acknowledge has recorded its message or failed to (SettlersKnow).
* `RepeatsAreRedelivered`: a message that never went back to the queue is in one place at
  a time: unsent, ready, in the hands of one handler that has not recorded it, or in
  the stream (OnePlace). So queue, stream, answer and list repeat only what was
  redelivered; for the list this needs the filter of `useNotifications`, whose lemmas
  are in `ListLemmas`.
* `FeedKept`: `Notifications` implements `FeedContract`. What is pending is what waits in the queue
  or is not acknowledged yet, the history is the stream, and a bell shows
  the page's list. A push or an answer on its way is no state of the contract, so the steps
  between are stutters; that they are, and that a list only ever takes what was accepted for the
  page's owner, needs two invariants more: OnlyAccepted (what is in the queue or in a
  hand was accepted) and OwnMail (inbox, answer, list and stream of a page or user
  hold that user's messages only).
* `MissesExplained`: from the moment its history is read, everything in the recent
  history is accounted for by a page: in its inbox, its answer, its list or `missed`
  (PageKnows). The invariant reaches into the bridge: what a handler is about to add is
  accounted for already, by the push that came first.
* `DraftsStayGone` (`JobDraft`): once the draft is over and nothing has failed, the
  transactions still queued end with a delete, or only read an empty store, and no
  timer is left that could save but that of a page that is leaving (Ending, DraftInv).

**EmailLogProofs.** `EmailTyped`, `OneRow`, `NothingLost`, `DeadLettersExact`. From: the
process has finitely many slots, at least one (their number is the prefetch). The rows
are those of well-formed messages, each once, since the INSERT adds a message's row or
finds it (InsertedRows). A handler works on a well-formed message, and one that is about
to acknowledge has its row or the database's failure on record (HandlersKnow), so the
ack lets nothing go; a closed channel gives back what it held (ReleaseKeeps). None of it
depends on the order of Nest's hooks, which may cut a handler off anywhere.
`LedgerKept`: the module implements `MailLedger`, which knows no channels, slots or
deliveries: a message is accepted, gets one row, fails to, or is buried as malformed, and
only then is released.

**ServingProofs**, rate limiter (`LimiterTyped`, `BurstBounded`, `RejectionsEarned`).
CountersAreOwn: a key's counter and what its own identity has used go up and are reset
together. For the burst, WindowInv ties the history to the counter's life: what was
admitted since its expiry was set is at most what `used` counts, what was admitted in
the whole window at most that and one budget more. When a counter ends, its expiry was
set a whole window ago, so everything in the window was its own: at most Limit.

**ServingProofs**, shutdown (`ShutdownTyped`, `ConsumersKeep`, `HandlersKeep`,
`LossesExplained`, `DeadlineBinds`). For any program with distinct servers whose cleanups stop a
consumer before they close what it uses (the two assumptions TLC evaluates on
the six programs). The invariant OrderInv has two halves: what is closed was the turn
of an earlier cleanup and the consumers of an earlier one are stopped
(CleanedInOrder); and before the deadline a server that is past holds no
request but WebSockets, nor does one that waits for an inner call (Drained,
CallersWait). `DeadlineBinds` goes through the stages: past the deadline a server's turn
can always end, and a cleanup's too, since by StopsAndCloses it closes clients that
give up or that are never wedged, unless it waits for a consumer. The property
says "the sequence cannot go on" as ~CanGoOn, since ENABLED is out of the provers' reach;
CanGoOn is the disjunction of the very guards of the steps, none of which has a condition
besides, and were it wider than the steps, ShutdownEnds would not follow from their fairness.

**ServingProofs**, gateway (`GatewayTyped`, `GaugeExact`, `AnswersExplained`). From: an
operation is a root field of the schema, `None` and the ids are told apart, the sockets
are finitely many and no HTTP requests. The gauge is inductive by itself. For the answers
GatewayInv follows each task from its root: the fields of a job are only resolved after
there is a job, a claimed skill only for an id in `claims` (TaskFits). What is lost has a
cause (HasCause), put so that no later step takes it away: a claimed id is none of the
taxonomy's, rather than not created yet. That an id called absent by a loader is such an
id (LoadersFit) holds because nobody knows an id of the taxonomy before it is created
(WorldKnown): with ids that can be guessed in advance a loader could keep an absence that is no
longer true. And an error stays in a loader only while its own operation has failed or,
in a socket, has been marked as the heir of one that did.

**ListLemmas** says what appending, taking the head, joining, removing a place and
filtering do to the members of a list, its length and the order of its places. The
filters are stated with `Lists`' places, because SelectSeq is defined by recursion
and the provers cannot look into it; the longest argument is that the
places of a finite set are counted without gaps (RanksCount, PlacesTaken).

Only model-checked: liveness (ConvergesToLastEvent, EveryDueMatchHappens,
StaleListExpires, BudgetsReturn, QueuedIsHandled, QueuedIsSettled, ShutdownEnds), which
is out of the prover's reach, and the three violated properties, which are false.

## 6. What is not modelled

* Roles beyond what the gateway asks of a token: an administrator is made by hand
  in SQL. The role of a repeated Google sign-in is looked up by its present
  address (`oauth.go:274`), a hazard no property covers.
* Messages that no publisher of the repository sends (a malformed realtime
  message, a message_id that is no UUID); malformed e-mail messages are in,
  because the consumer has a path of its own for them.
* Deadlines of single calls: a call takes any time, and the gateway sets none.
* A database that cannot be reached at the start: its service answers Unavailable
  until it is restarted, which is a call that fails in the other modules.
* CORS, converters, the generated protobuf code, argument parsing and introspection
  of the generated GraphQL code, health, logging, metrics, tracing, request ids,
  database plumbing, migrations other than the constraints the models use,
  deployment files, and the views of the front end: none holds state that
  outlives a call, or none that a property is about.
* In `JobDraft` the model has two behaviours no property is about, since no doc
  says what should happen: a draft restored late overwrites what was typed before
  it arrived, and the answer to a job posted from an earlier visit deletes the
  draft of the present one.
