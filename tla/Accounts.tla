-------------------------------- MODULE Accounts --------------------------------
(***************************************************************************)
(* auth-service: Register, Login and GoogleOAuthCallback over              *)
(* auth.credentials and auth.oauth_identities.                             *)
(*                                                                         *)
(* Each call is a chain of single database statements; no transaction ties *)
(* two of them together, and what two calls may not both do is left to the *)
(* unique constraints on the e-mail and on the Google subject.  The id of  *)
(* an account is generated by the call that creates it, so the call stands *)
(* for it.  Roles are left out and a token is the account it names: the    *)
(* keys that tokens are signed and verified with are the module Tokens.    *)
(***************************************************************************)
EXTENDS Naturals, FiniteSets

CONSTANTS
  Calls,
  Spellings,        \* e-mail addresses as they are typed
  normalize,        \* trimmed and lower-cased, also a spelling
  Passwords,
  Subjects,         \* Google accounts
  Unusable,         \* the hash of a random value nobody knows
  None,
  MaxMoves          \* bound: Google accounts that change their e-mail

ASSUME Normalizes ==
  /\ normalize \in [Spellings -> Spellings]
  /\ \A s \in Spellings : normalize[normalize[s]] = normalize[s]
ASSUME NotAPassword == Unusable \notin Passwords /\ None \notin Calls \cup Subjects
ASSUME MovesAreBounded == MaxMoves \in Nat

VARIABLES
  credentials,  \* auth.credentials: the rows inserted, by id
  identities,   \* auth.oauth_identities: the user id per subject, or None
  address,      \* Google's side: the e-mail of each subject
  moves,
  call,
  welcomes,     \* welcome e-mails sent to notifications.email, per account
  \* History, read by properties only:
  signedIn,     \* the accounts each subject was given a token for
  registered    \* the accounts whose Register was answered with a token

vars == <<credentials, identities, address, moves, call, welcomes, signedIn, registered>>
googleVars == <<address, moves>>

Row == [email: Spellings, password: Passwords \cup {Unusable}]

Call == [pc: {"idle", "inserted", "exchanged", "unknown", "creating", "linking", "done"},
         subject: Subjects \cup {None},
         email: Spellings \cup {None},      \* of the credential, or what Google said
         user: Calls \cup {None},           \* the account found or created
         token: Calls \cup {None}]          \* the account the answer's token names

NoCall == [pc |-> "idle", subject |-> None, email |-> None, user |-> None, token |-> None]

Init ==
  /\ credentials = [k \in {} |-> 0]
  /\ identities = [g \in Subjects |-> None]
  /\ address \in [Subjects -> Spellings]
  /\ \A g, h \in Subjects : g # h => normalize[address[g]] # normalize[address[h]]
  /\ moves = 0
  /\ call = [k \in Calls |-> NoCall]
  /\ welcomes = [k \in Calls |-> 0]
  /\ signedIn = [g \in Subjects |-> {}]
  /\ registered = {}

At(k, pc) == call[k].pc = pc

\* The call is over: with a token for an account, or with an error.
Answered(k, user) == [call EXCEPT ![k].pc = "done", ![k].token = user]
Failed(k) == Answered(k, None)

Owners(email) == {id \in DOMAIN credentials : credentials[id].email = email}

Insert(k, email, password) ==
  credentials' = [id \in DOMAIN credentials \cup {k} |->
                    IF id = k THEN [email |-> email, password |-> password] ELSE credentials[id]]

\* Mutant of Normalized: the address is looked up as it was typed.
AsTyped(s) == s

Normalized(s) == normalize[s]

--------------------------------------------------------------------------------
(* Register and Login *)

\* The row is inserted unless the e-mail has one: the unique constraint decides
\* between two calls, and the loser is told so.
Register(k, s, p) ==
  LET email == Normalized(s)
  IN  /\ At(k, "idle")
      /\ IF Owners(email) = {}
           THEN /\ Insert(k, email, p)
                /\ call' = [call EXCEPT ![k].pc = "inserted", ![k].email = email, ![k].user = k]
           ELSE /\ call' = Failed(k)
                /\ UNCHANGED credentials
      /\ UNCHANGED <<identities, googleVars, welcomes, signedIn, registered>>

Welcomable(k) == At(k, "inserted")

\* The welcome e-mail, best effort, then the answer.  (The realtime ping that
\* goes with it is a Send of the module Notifications.)
Welcome(k, sent) ==
  /\ Welcomable(k)
  /\ welcomes' = [welcomes EXCEPT ![k] = IF sent THEN @ + 1 ELSE @]
  /\ call' = Answered(k, call[k].user)
  /\ registered' = registered \cup {k}
  /\ UNCHANGED <<credentials, identities, googleVars, signedIn>>

\* The row of the e-mail is fetched, and its password compared.
Login(k, s, p) ==
  LET owners == Owners(Normalized(s))
  IN  /\ At(k, "idle")
      /\ \/ owners = {} /\ call' = Failed(k)
         \/ \E id \in owners :
              call' = IF credentials[id].password = p THEN Answered(k, id) ELSE Failed(k)
      /\ UNCHANGED <<credentials, identities, googleVars, welcomes, signedIn, registered>>

--------------------------------------------------------------------------------
(* GoogleOAuthCallback *)

\* Google names the subject, and the e-mail it has now.
Exchange(k, g) ==
  /\ At(k, "idle")
  /\ call' = [call EXCEPT ![k].pc = "exchanged", ![k].subject = g,
                          ![k].email = Normalized(address[g])]
  /\ UNCHANGED <<credentials, identities, googleVars, welcomes, signedIn, registered>>

IdentityOf(g) == identities[g]

SignIn(k, user) ==
  /\ call' = Answered(k, user)
  /\ signedIn' = [signedIn EXCEPT ![call[k].subject] = @ \cup {user}]

\* findIdentity: a known subject is signed in, whatever its e-mail is now.
FindIdentity(k) ==
  LET user == IdentityOf(call[k].subject)
  IN  /\ At(k, "exchanged")
      /\ IF user # None
           THEN SignIn(k, user)
           ELSE /\ call' = [call EXCEPT ![k].pc = "unknown"]
                /\ UNCHANGED signedIn
      /\ UNCHANGED <<credentials, identities, googleVars, welcomes, registered>>

\* findCredentialByEmail.
FindCredential(k) ==
  LET owners == Owners(call[k].email)
  IN  /\ At(k, "unknown")
      /\ call' = IF owners = {}
                   THEN [call EXCEPT ![k].pc = "creating"]
                   ELSE [call EXCEPT ![k].pc = "linking", ![k].user = CHOOSE id \in owners : TRUE]
      /\ UNCHANGED <<credentials, identities, googleVars, welcomes, signedIn, registered>>

\* Mutant of Creatable: nothing keeps a second row with the e-mail out.
Unchecked(email) == TRUE

\* auth.credentials.email is UNIQUE.
Creatable(email) == Owners(email) = {}

\* createCredential, which fails if the e-mail has a row by now.
CreateCredential(k) ==
  /\ At(k, "creating")
  /\ IF Creatable(call[k].email)
       THEN /\ Insert(k, call[k].email, Unusable)
            /\ call' = [call EXCEPT ![k].pc = "linking", ![k].user = k]
       ELSE /\ call' = Failed(k)
            /\ UNCHANGED credentials
  /\ UNCHANGED <<identities, googleVars, welcomes, signedIn, registered>>

\* Mutant of Linkable: a later callback takes the identity over.
AlwaysLinkable(g) == TRUE

\* (provider, provider_subject) is UNIQUE.
Linkable(g) == identities[g] = None

\* createIdentity, which fails if the subject has an identity by now.
CreateIdentity(k) ==
  LET g == call[k].subject
  IN  /\ At(k, "linking")
      /\ IF Linkable(g)
           THEN /\ identities' = [identities EXCEPT ![g] = call[k].user]
                /\ SignIn(k, call[k].user)
           ELSE /\ call' = Failed(k)
                /\ UNCHANGED <<identities, signedIn>>
      /\ UNCHANGED <<credentials, googleVars, welcomes, registered>>

\* A statement failed, a field was blank, or the process died: what the earlier
\* statements did stays.
Abandon(k) ==
  /\ ~At(k, "done")
  /\ call' = Failed(k)
  /\ UNCHANGED <<credentials, identities, googleVars, welcomes, signedIn, registered>>

\* The owner of a Google account gives it another e-mail, which nobody else has.
MoveAddress(g, s) ==
  /\ moves < MaxMoves /\ moves' = moves + 1
  /\ \A h \in Subjects : normalize[address[h]] # normalize[s]
  /\ address' = [address EXCEPT ![g] = s]
  /\ UNCHANGED <<credentials, identities, call, welcomes, signedIn, registered>>

--------------------------------------------------------------------------------
Next ==
  \/ \E k \in Calls :
       \/ \E s \in Spellings, p \in Passwords : Register(k, s, p) \/ Login(k, s, p)
       \/ \E sent \in BOOLEAN : Welcome(k, sent)
       \/ \E g \in Subjects : Exchange(k, g)
       \/ FindIdentity(k) \/ FindCredential(k) \/ CreateCredential(k) \/ CreateIdentity(k)
       \/ Abandon(k)
  \/ \E g \in Subjects, s \in Spellings : MoveAddress(g, s)

Spec == Init /\ [][Next]_vars

--------------------------------------------------------------------------------
(* Properties *)

TypeOK ==
  /\ DOMAIN credentials \subseteq Calls
  /\ credentials \in [DOMAIN credentials -> Row]
  /\ identities \in [Subjects -> Calls \cup {None}]
  /\ address \in [Subjects -> Spellings]
  /\ moves \in 0 .. MaxMoves
  /\ call \in [Calls -> Call]
  /\ welcomes \in [Calls -> Nat]
  /\ signedIn \in [Subjects -> SUBSET Calls]
  /\ registered \subseteq Calls

\* One person, one account: two rows never have e-mails that differ only in the
\* way they are typed, whichever of Register and the callbacks inserted them.
OneAccountPerEmail ==
  \A id, other \in DOMAIN credentials :
    normalize[credentials[id].email] = normalize[credentials[other].email] => id = other

\* A Google account is always signed in to the same account of the platform,
\* though first logins race each other and the e-mail changes in between, and
\* that account is the one its identity row names (oauth.go, rule 1).
SubjectKeepsAccount ==
  \A g \in Subjects : signedIn[g] \subseteq {identities[g]} \ {None}

\* Whoever registered can log in: the e-mail leads to that account alone, and
\* linking a Google account to it leaves the password in force.
RegisteredCanLogIn ==
  \A k \in registered : Owners(call[k].email) = {k} /\ credentials[k].password \in Passwords

Directory == INSTANCE DirectoryContract
  WITH Accounts <- Calls,
       Emails <- {s \in Spellings : normalize[s] = s},
       Secrets <- Passwords \cup {Unusable},
       NoOne <- None,
       rows <- credentials,
       vouched <- [g \in Subjects |-> {call[k].email : k \in {c \in Calls : call[c].subject = g}}],
       links <- identities,
       granted <- signedIn

\* Step by step the calls keep the directory of DirectoryContract: none takes a row
\* or a link back, opens a second account for an e-mail, or links a Google account
\* to an account whose e-mail Google did not give for it (oauth.go, rules 1 to 3).
KeepsDirectory == Directory!Spec
================================================================================
