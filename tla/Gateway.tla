-------------------------------- MODULE Gateway --------------------------------
(***************************************************************************)
(* api-gateway between its clients and the services: a request's bearer    *)
(* token is verified (authctx), a set of data loaders is made for it       *)
(* (dataloader.Middleware), and its operation is executed                  *)
(* field by field (graph/schema.resolvers.go), each field with a resolver  *)
(* making its own calls.  A WebSocket goes through the first two steps     *)
(* once and then carries any number of operations.                         *)
(*                                                                         *)
(* The services are what the resolvers can tell of them: one user, at most *)
(* one job, and a few skill ids.  The rate limiter is the module RateLimit,*)
(* notifications are the module Notifications, and why a token is or is    *)
(* not accepted is the module Tokens.  An operation asks for every field   *)
(* there is.                                                               *)
(***************************************************************************)
EXTENDS GraphQL, FiniteSets

CONSTANTS
  HttpRequests, WebSockets,     \* one request or connection at a time each
  Taxonomy,     \* the skill ids skills-service will give out
  OtherIds,     \* ids that are no skill's: clients may send any
  Operations,   \* what clients ask for, each a type and a root field
  None

ASSUME IdsAreDistinct ==
  /\ Taxonomy \cap OtherIds = {}
  /\ \A ids \in SUBSET (Taxonomy \cup OtherIds) : None # ids
ASSUME SocketsAreSockets == IsFiniteSet(WebSockets) /\ HttpRequests \cap WebSockets = {}
ASSUME OperationsAreRoots ==
  \A op \in Operations :
    \E type \in {"Query", "Mutation"} : \E field \in Resolvers[type] : op = <<type, field>>

VARIABLES
  skills,       \* skills.skills
  claims,       \* users.user_skills of the user
  required,     \* the skills of the one job, None before it is posted
  session,      \* each request or connection, see NoRequest
  loaded,       \* what its loaders hold per id: unasked, present, absent or error
  sockets       \* websocket_connections_active

gatewayVars == <<skills, claims, required, session, loaded, sockets>>

Connections == HttpRequests \cup WebSockets
Ids == Taxonomy \cup OtherIds
User == "user"      \* the key of UserByID, for the user of a match

\* bearer:  the role its token carries, while it is verified
\* caller:  the role verified, None for nobody
\* pending: fields to resolve, each with the id its object is about
\* lost:    the places of the answer that are null for want of something
\* fault:   a call for this operation has failed, or for an earlier one of the
\*          socket that left an error in its loaders
NoRequest ==
  [pc |-> "idle", bearer |-> None, caller |-> None, op |-> None,
   pending |-> {}, lost |-> {}, fault |-> FALSE]

NothingLoaded == [id \in Ids \cup {User} |-> "unasked"]

GatewayInit ==
  /\ skills = {} /\ claims = {} /\ required = None
  /\ session = [r \in Connections |-> NoRequest]
  /\ loaded = [r \in Connections |-> NothingLoaded]
  /\ sockets = 0

world == <<skills, claims, required>>

--------------------------------------------------------------------------------
(* Before the operation *)

Answered(r) == session[r].pc = "running" /\ session[r].pending = {}
Free(r) == session[r].pc = "idle" \/ (Answered(r) /\ r \in HttpRequests)

Enter(r, new) ==
  /\ Free(r)
  /\ session' = [session EXCEPT ![r] = new]
  /\ UNCHANGED <<world, loaded, sockets>>

\* No bearer token: nobody calls.  A socket is turned away by wsInitFunc.
ArriveAnonymous(r) == Enter(r, [NoRequest EXCEPT !.pc = "ready"])

ArriveWithToken(r, role) == Enter(r, [NoRequest EXCEPT !.pc = "verifying", !.bearer = role])

\* VerifyToken.  Middleware goes on without a caller if it fails, wsInitFunc
\* closes the connection.
Verified(r, accepted) ==
  /\ session[r].pc = "verifying"
  /\ session' = [session EXCEPT ![r] =
       IF accepted \/ r \in HttpRequests
         THEN [@ EXCEPT !.pc = "ready", !.bearer = None,
                        !.caller = IF accepted THEN session[r].bearer ELSE None]
         ELSE NoRequest]
  /\ sockets' = IF accepted /\ r \in WebSockets THEN sockets + 1 ELSE sockets
  /\ UNCHANGED <<world, loaded>>

HasErrors(r) == \E id \in DOMAIN loaded[r] : loaded[r][id] = "error"

\* Bound: one job.
Posts(op) == op = <<"Mutation", "createJob">>

Begin(r, op) ==
  /\ session[r].pc = "ready" \/ (Answered(r) /\ r \in WebSockets)
  /\ Posts(op) => required = None
  /\ session' = [session EXCEPT ![r] =
       [@ EXCEPT !.pc = "running", !.op = op, !.pending = {[place |-> Root(op), id |-> None]},
          !.lost = {}, !.fault = r \in WebSockets /\ HasErrors(r)]]
  /\ UNCHANGED <<world, loaded, sockets>>

\* Mutant of Counted: every close is counted, of rejected connections too.
AnyClose(r) == TRUE

\* wsCountedKey is on the connections wsInitFunc has let in.
Counted(r) == session[r].pc # "verifying"

\* The client hangs up, or its connection breaks, at any moment.
CloseSocket(r) ==
  /\ session[r].pc # "idle"
  /\ sockets' = IF Counted(r) THEN sockets - 1 ELSE sockets
  /\ session' = [session EXCEPT ![r] = NoRequest]
  /\ loaded' = [loaded EXCEPT ![r] = NothingLoaded]
  /\ UNCHANGED world

--------------------------------------------------------------------------------
(* Resolvers *)

RequiresUser == {"myProfile", "updateProfile", "addUserSkill"}
RequiresAdmin == {"createSkill"}

\* requireUserID and requireAdmin
Permitted(r, field) ==
  /\ field \in RequiresUser => session[r].caller # None
  /\ field \in RequiresAdmin => session[r].caller = "admin"

Done(r, task) == [session[r] EXCEPT !.pending = @ \ {task}]
Fails(r, task, fault) ==
  [Done(r, task) EXCEPT !.lost = @ \cup {Nulled(task.place)}, !.fault = @ \/ fault]
\* The object is there, once for each of ids: its own resolvers are next.
Goes(r, task, ids) ==
  [Done(r, task) EXCEPT !.pending = @ \cup {[place |-> p, id |-> id] : p \in Below(task.place), id \in ids}]

\* Mutant of Loaders: one set of loaders for all requests.
SharedLoaders(r, result, values) == values

\* The loaders go with the HTTP request they were made for.
Loaders(r, result, values) ==
  IF result.pending = {} /\ r \in HttpRequests THEN NothingLoaded ELSE values

Resolved(r, result, values) ==
  /\ session' = [session EXCEPT ![r] = result]
  /\ loaded' = [loaded EXCEPT ![r] = Loaders(r, result, values)]
  /\ UNCHANGED sockets

Pending(r, task, field) ==
  session[r].pc = "running" /\ task \in session[r].pending /\ Last(task.place).name = field

Refuse(r, task) ==
  /\ session[r].pc = "running" /\ task \in session[r].pending
  /\ ~Permitted(r, Last(task.place).name)
  /\ Resolved(r, Fails(r, task, FALSE), loaded[r])
  /\ UNCHANGED world

\* These ask a loader, or nobody.
CallsNobody == {"requiredSkills", "skill", "ping"}

\* The call a resolver makes ends in an error that translateGRPCError passes on.
CallFails(r, task) ==
  /\ session[r].pc = "running" /\ task \in session[r].pending
  /\ Last(task.place).name \notin CallsNobody
  /\ Permitted(r, Last(task.place).name)
  /\ Resolved(r, Fails(r, task, TRUE), loaded[r])
  /\ UNCHANGED world

\* Fields that answer with what one call returns.
OneCall == {"register", "login", "googleOAuthCallback", "googleAuthUrl", "ping"}

PassThrough(r, task, field) ==
  /\ Pending(r, task, field) /\ field \in OneCall
  /\ Resolved(r, Done(r, task), loaded[r])
  /\ UNCHANGED world

\* The type of the object a field belongs to.
Owner(task) == task.place[Len(task.place) - 1].type

Skills(r, task) ==
  /\ Pending(r, task, "skills") /\ Owner(task) = "Query"
  /\ Resolved(r, Done(r, task), loaded[r])
  /\ UNCHANGED world

\* The list has the job or is empty; GetJob's NotFound is a null without an error.
Jobs(r, task, field) ==
  /\ Pending(r, task, field) /\ field \in {"jobs", "job"}
  /\ Resolved(r, Goes(r, task, IF required = None THEN {} ELSE {None}), loaded[r])
  /\ UNCHANGED world

MyProfile(r, task, field) ==
  /\ Pending(r, task, field) /\ field \in {"myProfile", "updateProfile"}
  /\ Permitted(r, field)
  /\ Resolved(r, Goes(r, task, {None}), loaded[r])
  /\ UNCHANGED world

\* A mutation takes effect; `unheard': its answer does not come back.
Writes(r, task, unheard) ==
  Resolved(r, IF unheard THEN Fails(r, task, TRUE) ELSE Goes(r, task, {None}), loaded[r])

CreateSkill(r, task, id, unheard) ==
  /\ Pending(r, task, "createSkill") /\ Permitted(r, "createSkill")
  /\ id \in Taxonomy \ skills
  /\ skills' = skills \cup {id}
  /\ Writes(r, task, unheard)
  /\ UNCHANGED <<claims, required>>

\* An id of the taxonomy is made by CreateSkill: nobody has it before.
Known == skills \cup OtherIds

\* Nobody checks requiredSkillIds, nor who posts.
CreateJob(r, task, ids, unheard) ==
  /\ Pending(r, task, "createJob") /\ ids \subseteq Known
  /\ required = None /\ required' = ids
  /\ Writes(r, task, unheard)
  /\ UNCHANGED <<skills, claims>>

\* Nor skillId.
AddUserSkill(r, task, id, unheard) ==
  /\ Pending(r, task, "addUserSkill") /\ Permitted(r, "addUserSkill") /\ id \in Known
  /\ claims' = claims \cup {id}
  /\ Writes(r, task, unheard)
  /\ UNCHANGED <<skills, required>>

ProfileSkills(r, task) ==
  /\ Pending(r, task, "skills") /\ Owner(task) = "Profile"
  /\ Resolved(r, Goes(r, task, claims), loaded[r])
  /\ UNCHANGED world

--------------------------------------------------------------------------------
(* Loaders *)

\* GetSkillsByIds and GetProfilesByIds leave out what there is no row of; a match
\* without a profile is shown by its id.
HasRow(id) == id = User \/ id \in skills

\* One batch asks for the ids not asked for yet; an id keeps what it got.
Load(r, ids, served) ==
  [id \in DOMAIN loaded[r] |->
     IF id \notin ids \/ loaded[r][id] # "unasked" THEN loaded[r][id]
     ELSE IF ~served THEN "error"
     ELSE IF HasRow(id) THEN "present" ELSE "absent"]

\* Mutant of MissingOf: a required skill that is not there is an error.
AbsentFails(field, absent) == absent

\* resolveSkillsViaLoader leaves out what is absent; UserSkill.skill then has
\* nothing to return.
MissingOf(field, absent) == IF field = "skill" THEN absent ELSE {}

LoadField(r, task, field, ids, served) ==
  LET after == Load(r, ids, served)
      With(value) == {id \in ids : after[id] = value}
      failing == With("error") \cup MissingOf(field, With("absent"))
      fault == \E id \in With("error") : loaded[r][id] = "unasked"
  IN  /\ Pending(r, task, field)
      /\ Resolved(r, IF failing = {} THEN Done(r, task) ELSE Fails(r, task, fault), after)
      /\ UNCHANGED world

RequiredSkills(r, task, served) == LoadField(r, task, "requiredSkills", required, served)

UserSkillSkill(r, task, served) == LoadField(r, task, "skill", {task.id}, served)

\* resolveDisplayNamesViaLoader asks nobody when there is no match.
NamesOf(found) == IF found THEN {User} ELSE {}

\* ListJobMatches may find the user, whose name is then looked up.
Matches(r, task, found, served) == LoadField(r, task, "matches", NamesOf(found), served)

Resolve(r, task) ==
  \/ Refuse(r, task) \/ CallFails(r, task)
  \/ \E field \in OneCall : PassThrough(r, task, field)
  \/ Skills(r, task) \/ ProfileSkills(r, task)
  \/ \E field \in {"jobs", "job"} : Jobs(r, task, field)
  \/ \E field \in {"myProfile", "updateProfile"} : MyProfile(r, task, field)
  \/ \E unheard \in BOOLEAN :
       \/ \E id \in Taxonomy : CreateSkill(r, task, id, unheard)
       \/ \E ids \in SUBSET Ids : CreateJob(r, task, ids, unheard)
       \/ \E id \in Ids : AddUserSkill(r, task, id, unheard)
  \/ \E served \in BOOLEAN :
       \/ RequiredSkills(r, task, served) \/ UserSkillSkill(r, task, served)
       \/ \E found \in BOOLEAN : Matches(r, task, found, served)

--------------------------------------------------------------------------------
GatewayNext ==
  \E r \in Connections :
    \/ r \in HttpRequests /\ ArriveAnonymous(r)
    \/ \E role \in {"user", "admin"} : ArriveWithToken(r, role)
    \/ \E accepted \in BOOLEAN : Verified(r, accepted)
    \/ \E op \in Operations : Begin(r, op)
    \/ r \in WebSockets /\ CloseSocket(r)
    \/ \E task \in session[r].pending : Resolve(r, task)

GatewaySpec == GatewayInit /\ [][GatewayNext]_gatewayVars

--------------------------------------------------------------------------------
(* Properties *)

GatewayTypeOK ==
  /\ skills \subseteq Taxonomy /\ claims \subseteq Ids /\ required \in (SUBSET Ids) \cup {None}
  /\ loaded \in [Connections -> [Ids \cup {User} -> {"unasked", "present", "absent", "error"}]]
  /\ sockets \in 0 .. Cardinality(WebSockets)

\* Something is missing from an answer only if the caller was not permitted what
\* he asked for, or a call made for this very operation failed, or it is a
\* profile with a claimed skill that does not exist.
AnswersLoseForACause ==
  \A r \in Connections :
    Answered(r) /\ session[r].lost # {}
      => \/ ~Permitted(r, session[r].op[2])
         \/ session[r].fault
         \/ session[r].op[2] \in {"myProfile", "updateProfile"} /\ claims \ skills # {}

\* The gauge of open connections is exact: rejected connections and those that
\* break while their token is verified are not counted, neither up nor down.
GaugeIsExact ==
  sockets = Cardinality({r \in WebSockets : session[r].pc \in {"ready", "running"}})
================================================================================
