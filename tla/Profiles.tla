-------------------------------- MODULE Profiles --------------------------------
(***************************************************************************)
(* The profiles of users-service (backend/internal/users/server.go): one   *)
(* row per user, made by whichever call touches it first, with two columns *)
(* that UpdateProfile writes as far as it is given them.  GetProfile and   *)
(* UpdateProfile begin with the same getOrCreateProfile; no transaction    *)
(* spans its statements or the UPDATE that follows.                        *)
(***************************************************************************)
EXTENDS Naturals

CONSTANTS
  ProfileCalls,     \* GetProfile and UpdateProfile calls for one user
  Texts,
  NoText            \* what a call does not supply, or a row that is not there

ASSUME NoTextIsNone == NoText \notin Texts \cup {""} /\ "" \notin Texts

Columns == {"displayName", "bio"}
Texts0 == Texts \cup {""}

VARIABLES
  profile,      \* users.profiles: the user's row, NoText in both columns before
  touch,        \* the calls
  \* History:
  written       \* per column, what the last UPDATE that named it has put there

profileVars == <<profile, touch, written>>

NoRow == [column \in Columns |-> NoText]
Fresh == [column \in Columns |-> ""]

\* given: what the request supplies per column; a GetProfile supplies nothing
\* row:   the profile as loaded, then the answer
NoTouch == [pc |-> "idle", given |-> NoRow, row |-> NoRow]

ProfilesInit ==
  /\ profile = NoRow
  /\ touch = [k \in ProfileCalls |-> NoTouch]
  /\ written = Fresh

--------------------------------------------------------------------------------
Begin(k, given) ==
  /\ touch[k].pc = "idle"
  /\ touch' = [touch EXCEPT ![k] = [NoTouch EXCEPT !.pc = "begun", !.given = given]]
  /\ UNCHANGED <<profile, written>>

\* The first SELECT: without a row it goes on to create one.
LoadProfile(k) ==
  /\ touch[k].pc = "begun"
  /\ touch' = [touch EXCEPT ![k] =
       IF profile = NoRow THEN [@ EXCEPT !.pc = "missing"] ELSE [@ EXCEPT !.pc = "loaded", !.row = profile]]
  /\ UNCHANGED <<profile, written>>

\* Mutant of Inserted: DO UPDATE where DO NOTHING is meant.
Overwritten(row) == Fresh

\* INSERT ... ON CONFLICT DO NOTHING
Inserted(row) == IF row = NoRow THEN Fresh ELSE row

CreateProfile(k) ==
  /\ touch[k].pc = "missing"
  /\ profile' = Inserted(profile)
  /\ touch' = [touch EXCEPT ![k].pc = "created"]
  /\ UNCHANGED written

Refetch(k) ==
  /\ touch[k].pc = "created"
  /\ touch' = [touch EXCEPT ![k].pc = "loaded", ![k].row = profile]
  /\ UNCHANGED <<profile, written>>

Merged(row, given) == [column \in Columns |-> IF given[column] = NoText THEN row[column] ELSE given[column]]

\* Mutant of Updated: the whole row as loaded is saved.
SavedWhole(row, k) == Merged(touch[k].row, touch[k].given)

\* Updates(updates) sets the columns supplied.
Updated(row, k) == Merged(row, touch[k].given)

\* The answer is the row as it was loaded, with the columns supplied.
UpdateColumns(k) ==
  /\ touch[k].pc = "loaded"
  /\ profile' = Updated(profile, k)
  /\ written' = Merged(written, touch[k].given)
  /\ touch' = [touch EXCEPT ![k].pc = "answered", ![k].row = Merged(touch[k].row, touch[k].given)]

\* Any statement fails, or the process dies: what was done stays done.
TouchFails(k) ==
  /\ touch[k].pc \in {"begun", "missing", "created", "loaded"}
  /\ touch' = [touch EXCEPT ![k].pc = "failed"]
  /\ UNCHANGED <<profile, written>>

ProfilesNext ==
  \E k \in ProfileCalls :
    \/ \E given \in [Columns -> Texts \cup {"", NoText}] : Begin(k, given)
    \/ LoadProfile(k) \/ CreateProfile(k) \/ Refetch(k) \/ UpdateColumns(k) \/ TouchFails(k)

ProfilesSpec == ProfilesInit /\ [][ProfilesNext]_profileVars

--------------------------------------------------------------------------------
(* Properties *)

ProfilesTypeOK ==
  /\ profile \in [Columns -> Texts0] \cup {NoRow}
  /\ touch \in [ProfileCalls -> [pc : {"idle", "begun", "missing", "created", "loaded", "answered", "failed"},
                                 given : [Columns -> Texts0 \cup {NoText}],
                                 row : [Columns -> Texts0 \cup {NoText}]]]
  /\ written \in [Columns -> Texts0]

\* server.go:101-104: "an unset field never clobbers the existing value".  Each
\* column holds what was last written to it on purpose: neither an update of the
\* other column nor a first touch that comes late undoes it, though both work on
\* a row read earlier.
UnsetColumnsSurvive == profile = NoRow \/ profile = written
================================================================================
