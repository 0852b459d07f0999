-------------------------------- MODULE GraphQL --------------------------------
(***************************************************************************)
(* The schema as api-gateway executes it                                   *)
(* (backend/internal/gateway/graph/generated): the type of each field and  *)
(* whether it may be null, which fields have a resolver of their own, and  *)
(* what an answer loses when the value of a field cannot be had.  A place  *)
(* in an answer is the list of the fields that lead to it, from the data   *)
(* down; elements of a list share theirs, for none of the lists here may   *)
(* hold a null.                                                            *)
(***************************************************************************)
EXTENDS Naturals, Sequences, SequencesExt

NonNull(type) == [type |-> type, nullable |-> FALSE]
Nullable(type) == [type |-> type, nullable |-> TRUE]

Scalar == NonNull("scalar")

\* The fields of both.
Joined(some, others) ==
  [name \in DOMAIN some \cup DOMAIN others |->
     IF name \in DOMAIN some THEN some[name] ELSE others[name]]

--------------------------------------------------------------------------------
(* Fields *)

AuthPayload == [accessToken |-> Scalar, userId |-> Scalar]

Skill == [id |-> Scalar, name |-> Scalar, category |-> Scalar]

Job ==
  [id |-> Scalar, title |-> Scalar, description |-> Scalar,
   requiredSkills |-> NonNull("Skill"), matches |-> NonNull("JobMatch")]

JobMatch == [userId |-> Scalar, score |-> Scalar, matchedAt |-> Scalar, displayName |-> Scalar]

UserSkill == [skill |-> NonNull("Skill"), proficiency |-> Scalar]

Profile == [userId |-> Scalar, displayName |-> Scalar, bio |-> Scalar, skills |-> NonNull("UserSkill")]

Notification == [id |-> Scalar, type |-> Scalar, message |-> Scalar, createdAt |-> Scalar]

\* The two ways to sign in, and signing up.
Credentials ==
  [register |-> NonNull("AuthPayload"), login |-> NonNull("AuthPayload"),
   googleOAuthCallback |-> NonNull("AuthPayload")]

Mutation ==
  Joined(Credentials,
         [createSkill |-> NonNull("Skill"), createJob |-> NonNull("Job"),
          updateProfile |-> NonNull("Profile"), addUserSkill |-> Scalar])

\* What one sees without an account.
PublicQueries ==
  [ping |-> Scalar, googleAuthUrl |-> Scalar, skills |-> NonNull("Skill"),
   jobs |-> NonNull("Job"), job |-> Nullable("Job")]

Query ==
  Joined(PublicQueries,
         [myProfile |-> Nullable("Profile"), notificationHistory |-> NonNull("Notification")])

Subscription == [onNotification |-> NonNull("Notification")]

Types ==
  [AuthPayload |-> AuthPayload, Skill |-> Skill, Job |-> Job, JobMatch |-> JobMatch,
   UserSkill |-> UserSkill, Profile |-> Profile, Notification |-> Notification,
   Mutation |-> Mutation, Query |-> Query, Subscription |-> Subscription]

--------------------------------------------------------------------------------
(* Resolvers: fields that are not read off the object they belong to *)

JobResolvers == {"requiredSkills", "matches"}
ProfileResolvers == {"skills"}
UserSkillResolvers == {"skill"}
QueryResolvers == DOMAIN Query
MutationResolvers == DOMAIN Mutation

\* An object of one of these types is written at once.
AuthPayloadResolvers == {}
SkillResolvers == {}
JobMatchResolvers == {}
NotificationResolvers == {}

Resolvers ==
  [AuthPayload |-> AuthPayloadResolvers, Skill |-> SkillResolvers, Job |-> JobResolvers,
   JobMatch |-> JobMatchResolvers, UserSkill |-> UserSkillResolvers, Profile |-> ProfileResolvers,
   Notification |-> NotificationResolvers, Mutation |-> MutationResolvers,
   Query |-> QueryResolvers, scalar |-> {}]

--------------------------------------------------------------------------------
(* Execution *)

\* A field in an answer, and the value it may have.
Field(type, name) ==
  [name |-> name, type |-> Types[type][name].type, nullable |-> Types[type][name].nullable]

\* The data of an answer, which may be null as a whole.
Data(type) == [name |-> "data", type |-> type, nullable |-> TRUE]

\* An operation is its type and the root field it asks for.
Root(op) == <<Data(op[1]), Field(op[1], op[2])>>

\* The fields to resolve once the object at this place is there.
Below(place) ==
  {Append(place, Field(Last(place).type, name)) : name \in Resolvers[Last(place).type]}

\* A null where none may be makes a null of the object around it, and so on.
Nulled(place) == SubSeq(place, 1, Max({n \in DOMAIN place : place[n].nullable}))
================================================================================
