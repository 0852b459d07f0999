------------------------------ MODULE AuthProofs -------------------------------
(***************************************************************************)
(* Proofs about Accounts for any number of calls, addresses and Google     *)
(* accounts.  Whatever holds of the rows rests on the unique constraints   *)
(* and on addresses being normalized before they are looked up or stored;  *)
(* what has to be added is where a call stands: one that has not inserted  *)
(* its row has none, and one that has still finds it as it wrote it.       *)
(* Then about Tokens, and last about Platform, which puts the services     *)
(* together.                                                               *)
(***************************************************************************)
EXTENDS Accounts, Tokens, Platform, FiniteSetTheorems, TLAPS

--------------------------------------------------------------------------------
(* Accounts: where a call stands *)

\* Every stored address is in its normal form.
RowsAreNormal ==
  \A id \in DOMAIN credentials : normalize[credentials[id].email] = credentials[id].email

RowsDiffer ==
  \A id, other \in DOMAIN credentials : credentials[id].email = credentials[other].email => id = other

\* The row call k has inserted for its Register.
OwnRow(k) ==
  /\ k \in DOMAIN credentials
  /\ credentials[k].email = call[k].email
  /\ credentials[k].password \in Passwords

\* Where call k stands.
Standing(k) ==
  /\ call[k].pc \in {"idle", "exchanged", "unknown", "creating"} => k \notin DOMAIN credentials
  /\ call[k].pc \in {"exchanged", "unknown", "creating", "linking"}
       => /\ call[k].subject \in Subjects
          /\ call[k].email \in Spellings
          /\ normalize[call[k].email] = call[k].email
  /\ call[k].pc = "linking" => call[k].user \in Calls
  /\ call[k].pc = "inserted" => call[k].user = k /\ OwnRow(k)

RegisteredStand == \A k \in registered : call[k].pc = "done" /\ OwnRow(k)

AccountsInv ==
  /\ TypeOK
  /\ RowsAreNormal /\ RowsDiffer
  /\ \A k \in Calls : Standing(k)
  /\ SubjectKeepsAccount
  /\ RegisteredStand

--------------------------------------------------------------------------------
(* Lemmas *)

\* A new row leaves the others as they were.
LEMMA InsertAdds ==
  ASSUME NEW k, NEW email, NEW password, Insert(k, email, password)
  PROVE  /\ DOMAIN credentials' = DOMAIN credentials \cup {k}
         /\ credentials' \in [DOMAIN credentials' -> {credentials'[id] : id \in DOMAIN credentials'}]
         /\ credentials'[k] = [email |-> email, password |-> password]
         /\ \A id \in DOMAIN credentials \ {k} : credentials'[id] = credentials[id]
BY DEF Insert

\* An address in its normal form that no row has may be inserted.
LEMMA InsertKeepsRows ==
  ASSUME TypeOK, RowsAreNormal, RowsDiffer,
         NEW k \in Calls, k \notin DOMAIN credentials,
         NEW email \in Spellings, normalize[email] = email, Owners(email) = {},
         NEW password \in Passwords \cup {Unusable}, Insert(k, email, password)
  PROVE  /\ DOMAIN credentials' \subseteq Calls
         /\ credentials' \in [DOMAIN credentials' -> Row]
         /\ RowsAreNormal' /\ RowsDiffer'
<1>1. /\ DOMAIN credentials' = DOMAIN credentials \cup {k}
      /\ credentials' \in [DOMAIN credentials' -> {credentials'[id] : id \in DOMAIN credentials'}]
      /\ credentials'[k] = [email |-> email, password |-> password]
      /\ \A id \in DOMAIN credentials \ {k} : credentials'[id] = credentials[id]
  BY InsertAdds
<1>2. \A id \in DOMAIN credentials : credentials'[id] = credentials[id]
  BY <1>1
<1>3. credentials'[k].email = email
  BY <1>1
<1>4. \A id \in DOMAIN credentials : credentials[id].email # email
  BY DEF Owners
<1>5. \A id \in DOMAIN credentials' : credentials'[id] \in Row
  BY <1>1, <1>2 DEF TypeOK, Row
<1>6. RowsAreNormal'
  <2>1. ASSUME NEW id \in DOMAIN credentials'
        PROVE  normalize[credentials'[id].email] = credentials'[id].email
    <3>1. CASE id = k
      BY <1>3, <3>1
    <3>2. CASE id # k
      BY <1>1, <1>2, <3>2 DEF RowsAreNormal
    <3> QED BY <3>1, <3>2
  <2>2. normalize' = normalize
    OBVIOUS
  <2> QED BY <2>1, <2>2 DEF RowsAreNormal
<1>7. RowsDiffer'
  <2>1. ASSUME NEW id \in DOMAIN credentials', NEW other \in DOMAIN credentials',
               credentials'[id].email = credentials'[other].email
        PROVE  id = other
    <3>1. CASE id = k /\ other # k
      BY <1>1, <1>2, <1>3, <1>4, <2>1, <3>1
    <3>2. CASE id # k /\ other = k
      BY <1>1, <1>2, <1>3, <1>4, <2>1, <3>2
    <3>3. CASE id # k /\ other # k
      BY <1>1, <1>2, <2>1, <3>3 DEF RowsDiffer
    <3> QED BY <3>1, <3>2, <3>3
  <2> QED BY <2>1 DEF RowsDiffer
<1>8. DOMAIN credentials' \subseteq Calls
  BY <1>1 DEF TypeOK
<1>9. credentials' \in [DOMAIN credentials' -> Row]
  BY <1>1, <1>5
<1> QED BY <1>6, <1>7, <1>8, <1>9

\* Only call k moves, and the rows there are stay: the other calls stand where
\* they stood.
LEMMA OthersStand ==
  ASSUME AccountsInv, NEW k \in Calls, NEW new \in Call,
         call' = [call EXCEPT ![k] = new],
         DOMAIN credentials' \in {DOMAIN credentials, DOMAIN credentials \cup {k}},
         \A id \in DOMAIN credentials : credentials'[id] = credentials[id],
         call[k].pc # "done"
  PROVE  /\ call' \in [Calls -> Call] /\ call'[k] = new
         /\ \A other \in Calls \ {k} : Standing(other)'
         /\ \A other \in registered : call'[other].pc = "done" /\ OwnRow(other)'
<1>1. call \in [Calls -> Call]
  BY DEF AccountsInv, TypeOK
<1>2. call' \in [Calls -> Call] /\ call'[k] = new
  BY <1>1
<1>3. \A other \in Calls \ {k} : call'[other] = call[other]
  BY <1>1
<1>4. ASSUME NEW other \in Calls \ {k}, OwnRow(other)
      PROVE  OwnRow(other)'
  BY <1>3, <1>4 DEF OwnRow
<1>5. ASSUME NEW other \in Calls \ {k}
      PROVE  Standing(other)'
  <2>1. Standing(other)
    BY DEF AccountsInv
  <2>2. other \in DOMAIN credentials' <=> other \in DOMAIN credentials
    OBVIOUS
  <2>3. OwnRow(other) => OwnRow(other)'
    BY <1>4
  <2> QED BY <1>3, <2>1, <2>2, <2>3 DEF Standing
<1>6. ASSUME NEW other \in registered
      PROVE  call'[other].pc = "done" /\ OwnRow(other)'
  <2>1. other \in Calls /\ call[other].pc = "done" /\ OwnRow(other)
    BY DEF AccountsInv, TypeOK, RegisteredStand
  <2>2. other # k
    BY <2>1
  <2> QED BY <1>3, <1>4, <2>1, <2>2
<1> QED BY <1>2, <1>5, <1>6

--------------------------------------------------------------------------------
(* One lemma per action *)

LEMMA AnswerMoves ==
  ASSUME TypeOK, NEW k \in Calls, NEW user \in Calls \cup {None}, call' = Answered(k, user)
  PROVE  \E new \in Call : /\ call' = [call EXCEPT ![k] = new]
                           /\ new.pc = "done" /\ new.token = user
                           /\ new.email = call[k].email
<1> DEFINE new == [call[k] EXCEPT !.pc = "done", !.token = user]
<1>1. call[k] \in Call /\ call \in [Calls -> Call]
  BY DEF TypeOK
<1>2. new \in Call
  BY <1>1 DEF Call
<1>3. new.pc = "done" /\ new.token = user /\ new.email = call[k].email
  BY <1>1 DEF Call
<1>4. call' = [call EXCEPT ![k] = new]
  BY <1>1 DEF Answered
<1> QED BY <1>2, <1>3, <1>4

\* An answer that touches neither a row nor an identity.
LEMMA AnswerKeeps ==
  ASSUME AccountsInv, NEW k \in Calls, NEW user \in Calls \cup {None}, call' = Answered(k, user),
         ~At(k, "done"), UNCHANGED <<credentials, identities, googleVars, welcomes, signedIn, registered>>
  PROVE  AccountsInv'
<1>1. PICK new \in Call : /\ call' = [call EXCEPT ![k] = new]
                          /\ new.pc = "done" /\ new.token = user /\ new.email = call[k].email
  BY AnswerMoves DEF AccountsInv
<1>2. call[k].pc # "done"
  BY DEF At
<1>3. /\ call' \in [Calls -> Call] /\ call'[k] = new
      /\ \A other \in Calls \ {k} : Standing(other)'
      /\ \A other \in registered : call'[other].pc = "done" /\ OwnRow(other)'
  BY <1>1, <1>2, OthersStand
<1>4. Standing(k)'
  BY <1>1, <1>3 DEF Standing
<1>5. TypeOK'
  BY <1>3 DEF AccountsInv, TypeOK, googleVars
<1>6. RowsAreNormal' /\ RowsDiffer' /\ SubjectKeepsAccount' /\ RegisteredStand'
  BY <1>3 DEF AccountsInv, RowsAreNormal, RowsDiffer, SubjectKeepsAccount, RegisteredStand
<1> QED BY <1>3, <1>4, <1>5, <1>6 DEF AccountsInv

\* A step of call k alone that keeps its row if it has one.
LEMMA StepKeeps ==
  ASSUME AccountsInv, NEW k \in Calls, NEW new \in Call, call' = [call EXCEPT ![k] = new],
         call[k].pc # "done", Standing(k)',
         UNCHANGED <<credentials, identities, googleVars, welcomes, signedIn, registered>>
  PROVE  AccountsInv'
<1>1. /\ call' \in [Calls -> Call] /\ call'[k] = new
      /\ \A other \in Calls \ {k} : Standing(other)'
      /\ \A other \in registered : call'[other].pc = "done" /\ OwnRow(other)'
  BY OthersStand
<1>2. TypeOK'
  BY <1>1 DEF AccountsInv, TypeOK, googleVars
<1>3. RowsAreNormal' /\ RowsDiffer' /\ SubjectKeepsAccount' /\ RegisteredStand'
  BY <1>1 DEF AccountsInv, RowsAreNormal, RowsDiffer, SubjectKeepsAccount, RegisteredStand
<1> QED BY <1>1, <1>2, <1>3 DEF AccountsInv

\* A row is inserted for call k, which goes on as `new'.
LEMMA InsertKeeps ==
  ASSUME AccountsInv, NEW k \in Calls, k \notin DOMAIN credentials, call[k].pc # "done",
         NEW email \in Spellings, normalize[email] = email, Owners(email) = {},
         NEW password \in Passwords \cup {Unusable}, Insert(k, email, password),
         NEW new \in Call, call' = [call EXCEPT ![k] = new],
         \/ /\ new.pc = "inserted" /\ new.user = k /\ new.email = email /\ password \in Passwords
         \/ /\ new.pc = "linking" /\ new.user = k /\ new.email = email /\ new.subject \in Subjects,
         UNCHANGED <<identities, googleVars, welcomes, signedIn, registered>>
  PROVE  AccountsInv'
<1>1. /\ DOMAIN credentials' = DOMAIN credentials \cup {k}
      /\ credentials'[k] = [email |-> email, password |-> password]
      /\ \A id \in DOMAIN credentials \ {k} : credentials'[id] = credentials[id]
  BY DEF Insert
<1>2. /\ DOMAIN credentials' \subseteq Calls
      /\ credentials' \in [DOMAIN credentials' -> Row]
      /\ RowsAreNormal' /\ RowsDiffer'
  BY InsertKeepsRows DEF AccountsInv
<1>3. /\ call' \in [Calls -> Call] /\ call'[k] = new
      /\ \A other \in Calls \ {k} : Standing(other)'
      /\ \A other \in registered : call'[other].pc = "done" /\ OwnRow(other)'
  BY <1>1, OthersStand
<1>4. Standing(k)'
  BY <1>1, <1>3 DEF Standing, OwnRow
<1>5. TypeOK'
  BY <1>2, <1>3 DEF AccountsInv, TypeOK, googleVars
<1>6. SubjectKeepsAccount' /\ RegisteredStand'
  BY <1>3 DEF AccountsInv, SubjectKeepsAccount, RegisteredStand
<1> QED BY <1>2, <1>3, <1>4, <1>5, <1>6 DEF AccountsInv

LEMMA NormalForm ==
  ASSUME NEW s \in Spellings
  PROVE  Normalized(s) \in Spellings /\ normalize[Normalized(s)] = Normalized(s)
BY Normalizes DEF Normalized

LEMMA RegisterKeeps ==
  ASSUME AccountsInv, NEW k \in Calls, NEW s \in Spellings, NEW p \in Passwords, Register(k, s, p)
  PROVE  AccountsInv'
<1>1. call[k].pc = "idle" /\ k \notin DOMAIN credentials /\ call \in [Calls -> Call]
  BY DEF Register, At, AccountsInv, Standing, TypeOK
<1>2. CASE Owners(Normalized(s)) = {}
  <2> DEFINE new == [pc |-> "inserted", subject |-> call[k].subject, email |-> Normalized(s),
                     user |-> k, token |-> call[k].token]
  <2>1. new \in Call
    BY <1>1, NormalForm DEF Call
  <2>2. call' = [call EXCEPT ![k] = new]
    BY <1>1, <1>2 DEF Register, Call
  <2>3. Insert(k, Normalized(s), p)
    BY <1>2 DEF Register
  <2>4. UNCHANGED <<identities, googleVars, welcomes, signedIn, registered>>
    BY DEF Register
  <2>5. new.pc = "inserted" /\ new.user = k /\ new.email = Normalized(s)
    OBVIOUS
  <2> HIDE DEF new
  <2> QED BY <1>1, <1>2, <2>1, <2>2, <2>3, <2>4, <2>5, NormalForm, InsertKeeps
<1>3. CASE Owners(Normalized(s)) # {}
  <2>1. call' = Answered(k, None)
    BY <1>3 DEF Register, Failed
  <2>2. UNCHANGED <<credentials, identities, googleVars, welcomes, signedIn, registered>>
    BY <1>3 DEF Register
  <2> QED BY <1>1, <2>1, <2>2, AnswerKeeps DEF At
<1> QED BY <1>2, <1>3

LEMMA WelcomeKeeps ==
  ASSUME AccountsInv, NEW k \in Calls, NEW sent \in BOOLEAN, Welcome(k, sent)
  PROVE  AccountsInv'
<1>1. call[k].pc = "inserted" /\ call[k].user = k /\ OwnRow(k) /\ call \in [Calls -> Call]
  BY DEF Welcome, Welcomable, At, AccountsInv, Standing, TypeOK
<1>2. call' = Answered(k, k)
  BY <1>1 DEF Welcome
<1>3. PICK new \in Call : /\ call' = [call EXCEPT ![k] = new]
                          /\ new.pc = "done" /\ new.token = k /\ new.email = call[k].email
  BY <1>2, AnswerMoves DEF AccountsInv
<1>4. credentials' = credentials /\ registered' = registered \cup {k}
      /\ UNCHANGED <<identities, googleVars, signedIn>>
  BY DEF Welcome
<1>5. /\ call' \in [Calls -> Call] /\ call'[k] = new
      /\ \A other \in Calls \ {k} : Standing(other)'
      /\ \A other \in registered : call'[other].pc = "done" /\ OwnRow(other)'
  BY <1>1, <1>3, <1>4, OthersStand
<1>6. OwnRow(k)' /\ Standing(k)'
  BY <1>1, <1>3, <1>4, <1>5 DEF OwnRow, Standing
<1>7. welcomes' \in [Calls -> Nat]
  BY DEF Welcome, AccountsInv, TypeOK
<1>8. TypeOK'
  BY <1>4, <1>5, <1>7 DEF AccountsInv, TypeOK, googleVars
<1>9. RegisteredStand'
  BY <1>3, <1>4, <1>5, <1>6 DEF RegisteredStand
<1>10. RowsAreNormal' /\ RowsDiffer' /\ SubjectKeepsAccount'
  BY <1>4 DEF AccountsInv, RowsAreNormal, RowsDiffer, SubjectKeepsAccount
<1> QED BY <1>5, <1>6, <1>8, <1>9, <1>10 DEF AccountsInv

LEMMA LoginKeeps ==
  ASSUME AccountsInv, NEW k \in Calls, NEW s \in Spellings, NEW p \in Passwords, Login(k, s, p)
  PROVE  AccountsInv'
<1>1. ~At(k, "done")
  BY DEF Login, At
<1>2. Owners(Normalized(s)) \subseteq Calls
  BY DEF Owners, AccountsInv, TypeOK
<1>3. \E user \in Calls \cup {None} : call' = Answered(k, user)
  BY <1>2 DEF Login, Failed
<1>4. UNCHANGED <<credentials, identities, googleVars, welcomes, signedIn, registered>>
  BY DEF Login
<1> QED BY <1>1, <1>3, <1>4, AnswerKeeps

LEMMA ExchangeKeeps ==
  ASSUME AccountsInv, NEW k \in Calls, NEW g \in Subjects, Exchange(k, g)
  PROVE  AccountsInv'
<1> DEFINE email == Normalized(address[g])
<1> DEFINE new == [call[k] EXCEPT !.pc = "exchanged", !.subject = g, !.email = email]
<1>1. call[k].pc = "idle" /\ k \notin DOMAIN credentials /\ call \in [Calls -> Call]
      /\ address[g] \in Spellings
  BY DEF Exchange, At, AccountsInv, Standing, TypeOK
<1>2. email \in Spellings /\ normalize[email] = email
  BY <1>1, NormalForm
<1>3. call' = [call EXCEPT ![k] = new]
  BY <1>1 DEF Exchange
<1>4. UNCHANGED <<credentials, identities, googleVars, welcomes, signedIn, registered>>
  BY DEF Exchange
<1> HIDE DEF email
<1>5. new \in Call /\ new.pc = "exchanged" /\ new.subject = g /\ new.email = email
  BY <1>1, <1>2 DEF Call
<1> HIDE DEF new
<1>6. call'[k] = new
  BY <1>1, <1>3
<1>7. Standing(k)'
  BY <1>1, <1>2, <1>4, <1>5, <1>6 DEF Standing
<1> QED BY <1>1, <1>3, <1>4, <1>5, <1>7, StepKeeps

\* The subject of call k is signed in to the account its identity names.
LEMMA SignInKeeps ==
  ASSUME AccountsInv, NEW k \in Calls, NEW user \in Calls, SignIn(k, user),
         call[k].pc \in {"exchanged", "linking"},
         identities' \in [Subjects -> Calls \cup {None}],
         identities'[call[k].subject] = user,
         identities[call[k].subject] \in {None, user},
         \A g \in Subjects : g # call[k].subject => identities'[g] = identities[g],
         UNCHANGED <<credentials, googleVars, welcomes, registered>>
  PROVE  AccountsInv'
<1>1. call[k].subject \in Subjects /\ call \in [Calls -> Call] /\ call[k].pc # "done"
  BY DEF AccountsInv, Standing, TypeOK
<1>2. PICK new \in Call : /\ call' = [call EXCEPT ![k] = new]
                          /\ new.pc = "done" /\ new.token = user /\ new.email = call[k].email
  BY AnswerMoves DEF AccountsInv, SignIn
<1>3. /\ call' \in [Calls -> Call] /\ call'[k] = new
      /\ \A other \in Calls \ {k} : Standing(other)'
      /\ \A other \in registered : call'[other].pc = "done" /\ OwnRow(other)'
  BY <1>1, <1>2, OthersStand
<1>4. Standing(k)'
  BY <1>2, <1>3 DEF Standing
<1>5. /\ signedIn' \in [Subjects -> SUBSET Calls]
      /\ signedIn'[call[k].subject] = signedIn[call[k].subject] \cup {user}
      /\ \A g \in Subjects : g # call[k].subject => signedIn'[g] = signedIn[g]
  BY <1>1 DEF SignIn, AccountsInv, TypeOK
<1>6. TypeOK'
  BY <1>3, <1>5 DEF AccountsInv, TypeOK, googleVars
<1>7. user # None
  BY NotAPassword
<1>8. SubjectKeepsAccount'
  <2>1. ASSUME NEW g \in Subjects
        PROVE  signedIn'[g] \subseteq {identities'[g]} \ {None}
    <3>1. signedIn[g] \subseteq {identities[g]} \ {None}
      BY DEF AccountsInv, SubjectKeepsAccount
    <3>2. CASE g = call[k].subject
      BY <1>5, <1>7, <3>1, <3>2
    <3>3. CASE g # call[k].subject
      BY <1>5, <3>1, <3>3
    <3> QED BY <3>2, <3>3
  <2> QED BY <2>1 DEF SubjectKeepsAccount
<1>9. RowsAreNormal' /\ RowsDiffer' /\ RegisteredStand'
  BY <1>3 DEF AccountsInv, RowsAreNormal, RowsDiffer, RegisteredStand
<1> QED BY <1>3, <1>4, <1>6, <1>8, <1>9 DEF AccountsInv

LEMMA FindIdentityKeeps ==
  ASSUME AccountsInv, NEW k \in Calls, FindIdentity(k)
  PROVE  AccountsInv'
<1>1. /\ call[k].pc = "exchanged" /\ k \notin DOMAIN credentials /\ call \in [Calls -> Call]
      /\ call[k].subject \in Subjects /\ call[k].email \in Spellings
      /\ normalize[call[k].email] = call[k].email
      /\ identities \in [Subjects -> Calls \cup {None}]
  BY DEF FindIdentity, At, AccountsInv, Standing, TypeOK
<1>2. CASE identities[call[k].subject] # None
  <2>1. SignIn(k, identities[call[k].subject])
    BY <1>2 DEF FindIdentity, IdentityOf
  <2>2. UNCHANGED <<credentials, identities, googleVars, welcomes, registered>>
    BY DEF FindIdentity
  <2>3. identities[call[k].subject] \in Calls
    BY <1>1, <1>2
  <2> QED BY <1>1, <2>1, <2>2, <2>3, SignInKeeps
<1>3. CASE identities[call[k].subject] = None
  <2> DEFINE new == [pc |-> "unknown", subject |-> call[k].subject, email |-> call[k].email,
                     user |-> call[k].user, token |-> call[k].token]
  <2>1. new \in Call
    BY <1>1 DEF Call
  <2>2. call' = [call EXCEPT ![k] = new]
    BY <1>1, <1>3 DEF FindIdentity, IdentityOf, Call
  <2>3. UNCHANGED <<credentials, identities, googleVars, welcomes, signedIn, registered>>
    BY <1>3 DEF FindIdentity, IdentityOf
  <2>4. call'[k] = new
    BY <1>1, <2>2
  <2>5. Standing(k)'
    BY <1>1, <2>3, <2>4 DEF Standing
  <2> HIDE DEF new
  <2> QED BY <1>1, <2>1, <2>2, <2>3, <2>5, StepKeeps
<1> QED BY <1>2, <1>3

LEMMA FindCredentialKeeps ==
  ASSUME AccountsInv, NEW k \in Calls, FindCredential(k)
  PROVE  AccountsInv'
<1>1. /\ call[k].pc = "unknown" /\ k \notin DOMAIN credentials /\ call \in [Calls -> Call]
      /\ call[k].subject \in Subjects /\ call[k].email \in Spellings
      /\ normalize[call[k].email] = call[k].email
  BY DEF FindCredential, At, AccountsInv, Standing, TypeOK
<1>2. UNCHANGED <<credentials, identities, googleVars, welcomes, signedIn, registered>>
  BY DEF FindCredential
<1>3. CASE Owners(call[k].email) = {}
  <2> DEFINE new == [call[k] EXCEPT !.pc = "creating"]
  <2>1. call' = [call EXCEPT ![k] = new]
    BY <1>1, <1>3 DEF FindCredential
  <2>2. new \in Call /\ new.pc = "creating" /\ new.subject = call[k].subject /\ new.email = call[k].email
    BY <1>1 DEF Call
  <2> HIDE DEF new
  <2>3. call'[k] = new
    BY <1>1, <2>1
  <2>4. Standing(k)'
    BY <1>1, <1>2, <2>2, <2>3 DEF Standing
  <2> QED BY <1>1, <1>2, <2>1, <2>2, <2>4, StepKeeps
<1>4. CASE Owners(call[k].email) # {}
  <2> DEFINE user == CHOOSE id \in Owners(call[k].email) : TRUE
  <2> DEFINE new == [call[k] EXCEPT !.pc = "linking", !.user = user]
  <2>1. call' = [call EXCEPT ![k] = new]
    BY <1>1, <1>4 DEF FindCredential
  <2>2. user \in Calls
    BY <1>4 DEF Owners, AccountsInv, TypeOK
  <2> HIDE DEF user
  <2>3. /\ new \in Call /\ new.pc = "linking" /\ new.user = user
        /\ new.subject = call[k].subject /\ new.email = call[k].email
    BY <1>1, <2>2 DEF Call
  <2> HIDE DEF new
  <2>4. call'[k] = new
    BY <1>1, <2>1
  <2>5. Standing(k)'
    BY <1>1, <1>2, <2>2, <2>3, <2>4 DEF Standing
  <2> QED BY <1>1, <1>2, <2>1, <2>3, <2>5, StepKeeps
<1> QED BY <1>3, <1>4

LEMMA CreateCredentialKeeps ==
  ASSUME AccountsInv, NEW k \in Calls, CreateCredential(k)
  PROVE  AccountsInv'
<1>1. /\ call[k].pc = "creating" /\ k \notin DOMAIN credentials /\ call \in [Calls -> Call]
      /\ call[k].subject \in Subjects /\ call[k].email \in Spellings
      /\ normalize[call[k].email] = call[k].email
  BY DEF CreateCredential, At, AccountsInv, Standing, TypeOK
<1>2. UNCHANGED <<identities, googleVars, welcomes, signedIn, registered>>
  BY DEF CreateCredential
<1>3. CASE Owners(call[k].email) = {}
  <2> DEFINE new == [pc |-> "linking", subject |-> call[k].subject, email |-> call[k].email,
                     user |-> k, token |-> call[k].token]
  <2>1. new \in Call
    BY <1>1 DEF Call
  <2>2. call' = [call EXCEPT ![k] = new]
    BY <1>1, <1>3 DEF CreateCredential, Creatable, Call
  <2>3. Insert(k, call[k].email, Unusable)
    BY <1>3 DEF CreateCredential, Creatable
  <2>4. new.pc = "linking" /\ new.user = k /\ new.email = call[k].email /\ new.subject \in Subjects
    BY <1>1
  <2> HIDE DEF new
  <2> QED BY <1>1, <1>2, <1>3, <2>1, <2>2, <2>3, <2>4, InsertKeeps
<1>4. CASE Owners(call[k].email) # {}
  <2>1. call' = Answered(k, None)
    BY <1>4 DEF CreateCredential, Creatable, Failed
  <2>2. credentials' = credentials
    BY <1>4 DEF CreateCredential, Creatable
  <2> QED BY <1>1, <1>2, <2>1, <2>2, AnswerKeeps DEF At
<1> QED BY <1>3, <1>4

LEMMA CreateIdentityKeeps ==
  ASSUME AccountsInv, NEW k \in Calls, CreateIdentity(k)
  PROVE  AccountsInv'
<1>1. /\ call[k].pc = "linking" /\ call \in [Calls -> Call]
      /\ call[k].subject \in Subjects /\ call[k].user \in Calls
      /\ identities \in [Subjects -> Calls \cup {None}]
  BY DEF CreateIdentity, At, AccountsInv, Standing, TypeOK
<1>2. UNCHANGED <<credentials, googleVars, welcomes, registered>>
  BY DEF CreateIdentity
<1>3. CASE identities[call[k].subject] = None
  <2>1. identities' = [identities EXCEPT ![call[k].subject] = call[k].user] /\ SignIn(k, call[k].user)
    BY <1>3 DEF CreateIdentity, Linkable
  <2>2. /\ identities' \in [Subjects -> Calls \cup {None}]
        /\ identities'[call[k].subject] = call[k].user
        /\ \A g \in Subjects : g # call[k].subject => identities'[g] = identities[g]
    BY <1>1, <2>1
  <2> QED BY <1>1, <1>2, <1>3, <2>1, <2>2, SignInKeeps
<1>4. CASE identities[call[k].subject] # None
  <2>1. call' = Answered(k, None) /\ UNCHANGED <<identities, signedIn>>
    BY <1>4 DEF CreateIdentity, Linkable, Failed
  <2> QED BY <1>1, <1>2, <2>1, AnswerKeeps DEF At
<1> QED BY <1>3, <1>4

LEMMA MoveAddressKeeps ==
  ASSUME AccountsInv, NEW g \in Subjects, NEW s \in Spellings, MoveAddress(g, s)
  PROVE  AccountsInv'
<1>1. /\ address' \in [Subjects -> Spellings] /\ moves' \in 0 .. MaxMoves
      /\ UNCHANGED <<credentials, identities, call, welcomes, signedIn, registered>>
  BY MovesAreBounded DEF MoveAddress, AccountsInv, TypeOK
<1>2. TypeOK'
  BY <1>1 DEF AccountsInv, TypeOK
<1>3. RowsAreNormal' /\ RowsDiffer' /\ SubjectKeepsAccount' /\ RegisteredStand'
  BY <1>1 DEF AccountsInv, RowsAreNormal, RowsDiffer, SubjectKeepsAccount, RegisteredStand, OwnRow
<1>4. \A k \in Calls : Standing(k)'
  BY <1>1 DEF AccountsInv, Standing, OwnRow
<1> QED BY <1>2, <1>3, <1>4 DEF AccountsInv
--------------------------------------------------------------------------------
(* Theorems *)

LEMMA AccountsInitially == ASSUME Init PROVE AccountsInv
<1>1. NoCall \in Call
  BY DEF NoCall, Call
<1>2. DOMAIN credentials = {}
  BY DEF Init
<1>3. credentials \in [DOMAIN credentials -> Row]
  BY <1>2 DEF Init
<1>4. TypeOK
  BY <1>1, <1>2, <1>3, MovesAreBounded DEF Init, TypeOK
<1>5. RowsAreNormal /\ RowsDiffer
  BY <1>2 DEF RowsAreNormal, RowsDiffer
<1>6. \A k \in Calls : Standing(k)
  BY <1>2 DEF Init, Standing, NoCall
<1>7. SubjectKeepsAccount /\ RegisteredStand
  BY DEF Init, SubjectKeepsAccount, RegisteredStand
<1> QED BY <1>4, <1>5, <1>6, <1>7 DEF AccountsInv

LEMMA AccountsStep == ASSUME AccountsInv, [Next]_vars PROVE AccountsInv'
<1>1. ASSUME NEW k \in Calls, Abandon(k) PROVE AccountsInv'
  <2>1. call' = Answered(k, None) /\ ~At(k, "done")
        /\ UNCHANGED <<credentials, identities, googleVars, welcomes, signedIn, registered>>
    BY <1>1 DEF Abandon, Failed
  <2> QED BY <2>1, AnswerKeeps
<1>2. CASE UNCHANGED vars
  <2>1. TypeOK'
    BY <1>2 DEF vars, AccountsInv, TypeOK
  <2>2. RowsAreNormal' /\ RowsDiffer' /\ SubjectKeepsAccount' /\ RegisteredStand'
    BY <1>2 DEF vars, AccountsInv, RowsAreNormal, RowsDiffer, SubjectKeepsAccount, RegisteredStand, OwnRow
  <2>3. \A k \in Calls : Standing(k)'
    BY <1>2 DEF vars, AccountsInv, Standing, OwnRow
  <2> QED BY <2>1, <2>2, <2>3 DEF AccountsInv
<1>3. CASE Next
  <2>1. ASSUME NEW k \in Calls, NEW s \in Spellings, NEW p \in Passwords,
               Register(k, s, p) \/ Login(k, s, p)
        PROVE  AccountsInv'
    BY <2>1, RegisterKeeps, LoginKeeps
  <2>2. ASSUME NEW k \in Calls, NEW sent \in BOOLEAN, Welcome(k, sent) PROVE AccountsInv'
    BY <2>2, WelcomeKeeps
  <2>3. ASSUME NEW k \in Calls, NEW g \in Subjects, Exchange(k, g) PROVE AccountsInv'
    BY <2>3, ExchangeKeeps
  <2>4. ASSUME NEW k \in Calls,
               FindIdentity(k) \/ FindCredential(k) \/ CreateCredential(k) \/ CreateIdentity(k)
        PROVE  AccountsInv'
    BY <2>4, FindIdentityKeeps, FindCredentialKeeps, CreateCredentialKeeps, CreateIdentityKeeps
  <2>5. ASSUME NEW g \in Subjects, NEW s \in Spellings, MoveAddress(g, s) PROVE AccountsInv'
    BY <2>5, MoveAddressKeeps
  <2> QED BY <1>1, <1>3, <2>1, <2>2, <2>3, <2>4, <2>5 DEF Next
<1> QED BY <1>2, <1>3

\* The one statement the theorems are read off.
THEOREM AccountsHold == Spec => []AccountsInv
<1>1. Init => AccountsInv
  BY AccountsInitially
<1>2. AccountsInv /\ [Next]_vars => AccountsInv'
  BY AccountsStep
<1> QED BY <1>1, <1>2, PTL DEF Spec

\* OneAccountPerEmail: however many registrations and callbacks race, no two rows
\* have spellings of one address.
THEOREM OneAccount == Spec => []OneAccountPerEmail
<1>1. AccountsInv => OneAccountPerEmail
  BY DEF AccountsInv, RowsAreNormal, RowsDiffer, OneAccountPerEmail
<1> QED BY <1>1, AccountsHold, PTL

\* SubjectKeepsAccount: a Google account is only ever signed in to the account
\* its identity row names.
THEOREM SubjectKept == Spec => []SubjectKeepsAccount
<1>1. AccountsInv => SubjectKeepsAccount
  BY DEF AccountsInv
<1> QED BY <1>1, AccountsHold, PTL

\* RegisteredCanLogIn: whoever registered is found by his address, with the
\* password he chose.
THEOREM RegisteredLogIn == Spec => []RegisteredCanLogIn
<1>1. AccountsInv => RegisteredCanLogIn
  BY DEF AccountsInv, RegisteredStand, OwnRow, RowsDiffer, Owners, RegisteredCanLogIn
<1> QED BY <1>1, AccountsHold, PTL

--------------------------------------------------------------------------------
(***************************************************************************)
(* Accounts implements DirectoryContract.  Beyond AccountsInv it takes that*)
(* who is about to link holds an account with the e-mail Google gave, and  *)
(* that a call which has not begun has no Google account.                  *)
(***************************************************************************)

NormalForms == {s \in Spellings : normalize[s] = s}
VouchedBy(g) == {call[k].email : k \in {c \in Calls : call[c].subject = g}}
Vouched == [g \in Subjects |-> VouchedBy(g)]

LinkersKnow ==
  \A k \in Calls :
    call[k].pc = "linking" =>
      /\ call[k].user \in DOMAIN credentials
      /\ credentials[call[k].user].email = call[k].email

IdleIsBlank == \A k \in Calls : call[k].pc = "idle" => call[k].subject = None

DirectoryInv == AccountsInv /\ LinkersKnow /\ IdleIsBlank

\* What the actions of the contract say, with the mapping filled in.
LEMMA DirectoryOpen ==
  ASSUME NEW id \in Calls, NEW email \in NormalForms, NEW secret \in Passwords \cup {Unusable},
         id \notin DOMAIN credentials, Owners(email) = {}, Insert(id, email, secret),
         UNCHANGED <<Vouched, identities, signedIn>>
  PROVE  Directory!Next
<1>1. Directory!Open(id, email, secret)
  BY DEF Directory!Open, Owners, Insert, Vouched, VouchedBy
<1> QED
  BY <1>1 DEF Directory!Next, NormalForms

LEMMA DirectoryVouch ==
  ASSUME NEW g \in Subjects, NEW email \in NormalForms,
         Vouched' = [Vouched EXCEPT ![g] = Vouched[g] \cup {email}],
         UNCHANGED <<credentials, identities, signedIn>>
  PROVE  Directory!Next
<1>1. Directory!Vouch(g, email)
  BY DEF Directory!Vouch, Vouched, VouchedBy
<1> QED
  BY <1>1 DEF Directory!Next, NormalForms

LEMMA DirectoryLink ==
  ASSUME NEW g \in Subjects, NEW id \in Calls,
         identities[g] = None, id \in DOMAIN credentials, credentials[id].email \in Vouched[g],
         identities' = [identities EXCEPT ![g] = id],
         signedIn' = [signedIn EXCEPT ![g] = signedIn[g] \cup {id}],
         UNCHANGED <<credentials, Vouched>>
  PROVE  Directory!Next
<1>1. Directory!Link(g, id)
  BY DEF Directory!Link, Vouched, VouchedBy
<1> QED
  BY <1>1 DEF Directory!Next

LEMMA DirectorySignIn ==
  ASSUME NEW g \in Subjects, identities[g] # None,
         signedIn' = [signedIn EXCEPT ![g] = signedIn[g] \cup {identities[g]}],
         UNCHANGED <<credentials, Vouched, identities>>
  PROVE  Directory!Next
<1>1. Directory!SignIn(g)
  BY DEF Directory!SignIn, Vouched, VouchedBy
<1> QED
  BY <1>1 DEF Directory!Next

LEMMA DirectoryStutter ==
  ASSUME UNCHANGED <<credentials, Vouched, identities, signedIn>>
  PROVE  UNCHANGED Directory!directoryVars
BY DEF Directory!directoryVars, Vouched, VouchedBy

\* Only what a call with a Google account says of it vouches for anything.
LEMMA VouchedSame ==
  ASSUME \A c \in Calls :
           /\ call'[c].subject = call[c].subject
           /\ call[c].subject \in Subjects => call'[c].email = call[c].email
  PROVE  UNCHANGED Vouched
<1>1. ASSUME NEW g \in Subjects PROVE VouchedBy(g)' = VouchedBy(g)
  BY DEF VouchedBy
<1> QED
  BY <1>1 DEF Vouched

\* Rows stay, and only call k moves: what is known of the others stays true.
LEMMA OthersKnow ==
  ASSUME DirectoryInv, NEW k \in Calls,
         \A c \in Calls \ {k} : call'[c] = call[c],
         \A id \in DOMAIN credentials :
           id \in DOMAIN credentials' /\ credentials'[id] = credentials[id],
         call'[k].pc # "idle",
         call'[k].pc = "linking" =>
           /\ call'[k].user \in DOMAIN credentials'
           /\ credentials'[call'[k].user].email = call'[k].email
  PROVE  LinkersKnow' /\ IdleIsBlank'
<1>1. LinkersKnow'
  <2> SUFFICES ASSUME NEW c \in Calls, call'[c].pc = "linking"
               PROVE  /\ call'[c].user \in DOMAIN credentials'
                      /\ credentials'[call'[c].user].email = call'[c].email
    BY DEF LinkersKnow
  <2>1. CASE c = k
    BY <2>1
  <2>2. CASE c # k
    BY <2>2 DEF DirectoryInv, LinkersKnow
  <2> QED
    BY <2>1, <2>2
<1>2. IdleIsBlank'
  BY DEF DirectoryInv, IdleIsBlank
<1> QED
  BY <1>1, <1>2

\* An answer names an account and changes nothing else the contract sees.
LEMMA AnswerIsStill ==
  ASSUME DirectoryInv, NEW k \in Calls, NEW user, call' = Answered(k, user),
         UNCHANGED credentials
  PROVE  UNCHANGED Vouched /\ LinkersKnow' /\ IdleIsBlank'
<1>1. call \in [Calls -> Call]
  BY DEF DirectoryInv, AccountsInv, TypeOK
<1>2. \A c \in Calls \ {k} : call'[c] = call[c]
  BY <1>1 DEF Answered
<1>3. call'[k].pc = "done" /\ call'[k].subject = call[k].subject /\ call'[k].email = call[k].email
  BY <1>1 DEF Answered, Call
<1>4. UNCHANGED Vouched
  BY <1>2, <1>3, VouchedSame
<1>5. LinkersKnow' /\ IdleIsBlank'
  BY <1>2, <1>3, OthersKnow
<1> QED
  BY <1>4, <1>5

--------------------------------------------------------------------------------
(* One lemma per action *)

LEMMA RegisterListed ==
  ASSUME DirectoryInv, NEW k \in Calls, NEW s \in Spellings, NEW p \in Passwords, Register(k, s, p)
  PROVE  [Directory!Next]_(Directory!directoryVars) /\ LinkersKnow' /\ IdleIsBlank'
<1>1. PICK email \in NormalForms : email = Normalized(s)
  BY NormalForm DEF NormalForms
<1>2. /\ call[k].pc = "idle" /\ call[k].subject = None /\ call \in [Calls -> Call]
      /\ k \notin DOMAIN credentials
      /\ UNCHANGED <<identities, signedIn>>
  BY DEF Register, At, DirectoryInv, AccountsInv, TypeOK, Standing, IdleIsBlank
<1>3. CASE Owners(email) = {}
  <2>1. /\ Insert(k, email, p)
        /\ call' = [call EXCEPT ![k].pc = "inserted", ![k].email = email, ![k].user = k]
    BY <1>1, <1>3 DEF Register
  <2>2. /\ \A c \in Calls \ {k} : call'[c] = call[c]
        /\ call'[k].pc = "inserted" /\ call'[k].subject = None
    BY <1>2, <2>1 DEF Call
  <2>3. UNCHANGED Vouched
    BY <1>2, <2>2, NotAPassword, VouchedSame
  <2>4. \A id \in DOMAIN credentials : id \in DOMAIN credentials' /\ credentials'[id] = credentials[id]
    <3>1. /\ DOMAIN credentials' = DOMAIN credentials \cup {k}
          /\ \A id \in DOMAIN credentials \ {k} : credentials'[id] = credentials[id]
      BY <2>1, InsertAdds
    <3> QED
      BY <1>2, <3>1
  <2>5. LinkersKnow' /\ IdleIsBlank'
    BY <2>2, <2>4, OthersKnow
  <2> QED
    BY <1>2, <1>3, <2>1, <2>3, <2>5, DirectoryOpen
<1>4. CASE Owners(email) # {}
  <2>1. call' = Answered(k, None) /\ UNCHANGED credentials
    BY <1>1, <1>4 DEF Register, Failed
  <2> QED
    BY <1>2, <2>1, AnswerIsStill, DirectoryStutter
<1> QED
  BY <1>3, <1>4

LEMMA AnswersListed ==
  ASSUME DirectoryInv, NEW k \in Calls,
         \/ \E s \in Spellings, p \in Passwords : Login(k, s, p)
         \/ \E sent \in BOOLEAN : Welcome(k, sent)
         \/ Abandon(k)
  PROVE  [Directory!Next]_(Directory!directoryVars) /\ LinkersKnow' /\ IdleIsBlank'
<1>1. UNCHANGED <<credentials, identities, signedIn>>
  BY DEF Login, Welcome, Abandon
<1>2. \E user : call' = Answered(k, user)
  BY DEF Login, Welcome, Abandon, Failed
<1>3. PICK user : call' = Answered(k, user)
  BY <1>2
<1> QED
  BY <1>1, <1>3, AnswerIsStill, DirectoryStutter

LEMMA ExchangeListed ==
  ASSUME DirectoryInv, NEW k \in Calls, NEW g \in Subjects, Exchange(k, g)
  PROVE  [Directory!Next]_(Directory!directoryVars) /\ LinkersKnow' /\ IdleIsBlank'
<1>1. PICK email \in NormalForms : email = Normalized(address[g])
  BY NormalForm DEF NormalForms, DirectoryInv, AccountsInv, TypeOK
<1>2. /\ call[k].subject = None /\ call \in [Calls -> Call]
      /\ call' = [call EXCEPT ![k].pc = "exchanged", ![k].subject = g, ![k].email = email]
      /\ UNCHANGED <<credentials, identities, signedIn>>
  BY <1>1 DEF Exchange, At, DirectoryInv, AccountsInv, TypeOK, IdleIsBlank
<1>3. /\ \A c \in Calls \ {k} : call'[c] = call[c]
      /\ call'[k].pc = "exchanged" /\ call'[k].subject = g /\ call'[k].email = email
  BY <1>2 DEF Call
<1>4. VouchedBy(g)' = VouchedBy(g) \cup {email}
  BY <1>2, <1>3, NotAPassword DEF VouchedBy
<1>5. \A h \in Subjects \ {g} : VouchedBy(h)' = VouchedBy(h)
  BY <1>2, <1>3, NotAPassword DEF VouchedBy
<1>6. Vouched' = [Vouched EXCEPT ![g] = Vouched[g] \cup {email}]
  BY <1>4, <1>5 DEF Vouched
<1>7. LinkersKnow' /\ IdleIsBlank'
  BY <1>2, <1>3, OthersKnow
<1> QED
  BY <1>2, <1>6, <1>7, DirectoryVouch

LEMMA FindIdentityListed ==
  ASSUME DirectoryInv, NEW k \in Calls, FindIdentity(k)
  PROVE  [Directory!Next]_(Directory!directoryVars) /\ LinkersKnow' /\ IdleIsBlank'
<1>1. PICK g \in Subjects : g = call[k].subject
  BY DEF FindIdentity, At, DirectoryInv, AccountsInv, Standing
<1>2. call \in [Calls -> Call] /\ UNCHANGED <<credentials, identities>>
  BY DEF FindIdentity, DirectoryInv, AccountsInv, TypeOK
<1>3. CASE identities[g] # None
  <2>1. /\ call' = Answered(k, identities[g])
        /\ signedIn' = [signedIn EXCEPT ![g] = signedIn[g] \cup {identities[g]}]
    BY <1>1, <1>3 DEF FindIdentity, IdentityOf, SignIn
  <2>2. UNCHANGED Vouched /\ LinkersKnow' /\ IdleIsBlank'
    BY <1>2, <2>1, AnswerIsStill
  <2> QED
    BY <1>2, <1>3, <2>1, <2>2, DirectorySignIn
<1>4. CASE identities[g] = None
  <2>1. call' = [call EXCEPT ![k].pc = "unknown"] /\ UNCHANGED signedIn
    BY <1>1, <1>4 DEF FindIdentity, IdentityOf
  <2>2. /\ \A c \in Calls \ {k} : call'[c] = call[c]
        /\ call'[k].pc = "unknown" /\ call'[k].subject = g /\ call'[k].email = call[k].email
    BY <1>1, <1>2, <2>1 DEF Call
  <2>3. UNCHANGED Vouched
    BY <1>1, <2>2, VouchedSame
  <2>4. LinkersKnow' /\ IdleIsBlank'
    BY <1>2, <2>2, OthersKnow
  <2> QED
    BY <1>2, <2>1, <2>3, <2>4, DirectoryStutter
<1> QED
  BY <1>3, <1>4

LEMMA FindCredentialListed ==
  ASSUME DirectoryInv, NEW k \in Calls, FindCredential(k)
  PROVE  [Directory!Next]_(Directory!directoryVars) /\ LinkersKnow' /\ IdleIsBlank'
<1>1. call \in [Calls -> Call] /\ UNCHANGED <<credentials, identities, signedIn>>
  BY DEF FindCredential, DirectoryInv, AccountsInv, TypeOK
<1>2. CASE Owners(call[k].email) = {}
  <2>1. call' = [call EXCEPT ![k].pc = "creating"]
    BY <1>2 DEF FindCredential
  <2>2. /\ \A c \in Calls \ {k} : call'[c] = call[c]
        /\ call'[k].pc = "creating" /\ call'[k].subject = call[k].subject
        /\ call'[k].email = call[k].email
    BY <1>1, <2>1 DEF Call
  <2>3. UNCHANGED Vouched
    BY <2>2, VouchedSame
  <2>4. LinkersKnow' /\ IdleIsBlank'
    BY <1>1, <2>2, OthersKnow
  <2> QED
    BY <1>1, <2>3, <2>4, DirectoryStutter
<1>3. CASE Owners(call[k].email) # {}
  <2>1. PICK id \in Owners(call[k].email) :
          call' = [call EXCEPT ![k].pc = "linking", ![k].user = id]
    BY <1>3 DEF FindCredential
  <2>2. id \in DOMAIN credentials /\ credentials[id].email = call[k].email
    BY DEF Owners
  <2>3. /\ \A c \in Calls \ {k} : call'[c] = call[c]
        /\ call'[k].pc = "linking" /\ call'[k].user = id /\ call'[k].subject = call[k].subject
        /\ call'[k].email = call[k].email
    BY <1>1, <2>1 DEF Call
  <2>4. UNCHANGED Vouched
    BY <2>3, VouchedSame
  <2>5. LinkersKnow' /\ IdleIsBlank'
    BY <1>1, <2>2, <2>3, OthersKnow
  <2> QED
    BY <1>1, <2>4, <2>5, DirectoryStutter
<1> QED
  BY <1>2, <1>3

LEMMA CreateCredentialListed ==
  ASSUME DirectoryInv, NEW k \in Calls, CreateCredential(k)
  PROVE  [Directory!Next]_(Directory!directoryVars) /\ LinkersKnow' /\ IdleIsBlank'
<1>1. PICK email \in NormalForms : email = call[k].email
  BY DEF CreateCredential, At, DirectoryInv, AccountsInv, Standing, NormalForms
<1>2. /\ k \notin DOMAIN credentials /\ call \in [Calls -> Call]
      /\ UNCHANGED <<identities, signedIn>>
  BY DEF CreateCredential, At, DirectoryInv, AccountsInv, TypeOK, Standing
<1>3. CASE Owners(email) = {}
  <2>1. /\ Insert(k, email, Unusable)
        /\ call' = [call EXCEPT ![k].pc = "linking", ![k].user = k]
    BY <1>1, <1>3 DEF CreateCredential, Creatable
  <2>2. /\ \A c \in Calls \ {k} : call'[c] = call[c]
        /\ call'[k].pc = "linking" /\ call'[k].user = k /\ call'[k].subject = call[k].subject
        /\ call'[k].email = email
    BY <1>1, <1>2, <2>1 DEF Call
  <2>3. UNCHANGED Vouched
    BY <1>1, <2>2, VouchedSame
  <2>4. /\ \A id \in DOMAIN credentials : id \in DOMAIN credentials' /\ credentials'[id] = credentials[id]
        /\ k \in DOMAIN credentials' /\ credentials'[k].email = email
    <3>1. /\ DOMAIN credentials' = DOMAIN credentials \cup {k}
          /\ credentials'[k] = [email |-> email, password |-> Unusable]
          /\ \A id \in DOMAIN credentials \ {k} : credentials'[id] = credentials[id]
      BY <2>1 DEF Insert
    <3>2. credentials'[k].email = email
      BY <3>1
    <3>3. ASSUME NEW id \in DOMAIN credentials
          PROVE  id \in DOMAIN credentials' /\ credentials'[id] = credentials[id]
      BY <1>2, <3>1
    <3>4. k \in DOMAIN credentials'
      BY <3>1
    <3> QED
      BY <3>2, <3>3, <3>4
  <2>5. LinkersKnow' /\ IdleIsBlank'
    BY <2>2, <2>4, OthersKnow
  <2> QED
    BY <1>2, <1>3, <2>1, <2>3, <2>5, DirectoryOpen
<1>4. CASE Owners(email) # {}
  <2>1. call' = Answered(k, None) /\ UNCHANGED credentials
    BY <1>1, <1>4 DEF CreateCredential, Creatable, Failed
  <2> QED
    BY <1>2, <2>1, AnswerIsStill, DirectoryStutter
<1> QED
  BY <1>3, <1>4

LEMMA CreateIdentityListed ==
  ASSUME DirectoryInv, NEW k \in Calls, CreateIdentity(k)
  PROVE  [Directory!Next]_(Directory!directoryVars) /\ LinkersKnow' /\ IdleIsBlank'
<1>1. PICK g \in Subjects, id \in Calls : g = call[k].subject /\ id = call[k].user
  BY DEF CreateIdentity, At, DirectoryInv, AccountsInv, Standing
<1>2. UNCHANGED credentials
  BY DEF CreateIdentity
<1>3. id \in DOMAIN credentials /\ credentials[id].email = call[k].email
  BY <1>1 DEF CreateIdentity, At, DirectoryInv, LinkersKnow
<1>4. CASE identities[g] = None
  <2>1. /\ identities' = [identities EXCEPT ![g] = id]
        /\ signedIn' = [signedIn EXCEPT ![g] = signedIn[g] \cup {id}]
        /\ call' = Answered(k, id)
    BY <1>1, <1>4 DEF CreateIdentity, Linkable, SignIn
  <2>2. UNCHANGED Vouched /\ LinkersKnow' /\ IdleIsBlank'
    BY <1>2, <2>1, AnswerIsStill
  <2>3. credentials[id].email \in Vouched[g]
    BY <1>1, <1>3 DEF Vouched, VouchedBy
  <2> QED
    BY <1>2, <1>3, <1>4, <2>1, <2>2, <2>3, DirectoryLink
<1>5. CASE identities[g] # None
  <2>1. call' = Answered(k, None) /\ UNCHANGED <<identities, signedIn>>
    BY <1>1, <1>5 DEF CreateIdentity, Linkable, Failed
  <2> QED
    BY <1>2, <2>1, AnswerIsStill, DirectoryStutter
<1> QED
  BY <1>4, <1>5

\* What auth-service promises of its accounts (DirectoryContract), for any number of
\* calls, addresses and Google accounts: a Google account is only ever linked, once,
\* to an account whose e-mail Google gave for it, and rows and links stay.
THEOREM DirectoryKept == Spec => KeepsDirectory
<1>1. Init => Directory!Init /\ LinkersKnow /\ IdleIsBlank
  <2> SUFFICES ASSUME Init PROVE Directory!Init /\ LinkersKnow /\ IdleIsBlank
    OBVIOUS
  <2>1. \A k \in Calls : call[k].pc = "idle" /\ call[k].subject = None
    BY DEF Init, NoCall
  <2>2. \A g \in Subjects : VouchedBy(g) = {}
    BY <2>1, NotAPassword DEF VouchedBy
  <2>3. Vouched = [g \in Subjects |-> {}]
    BY <2>2 DEF Vouched
  <2>4. Directory!Init
    BY <2>3 DEF Directory!Init, Init, Vouched, VouchedBy
  <2> QED
    BY <2>1, <2>4 DEF LinkersKnow, IdleIsBlank
<1>2. DirectoryInv /\ [Next]_vars
        => [Directory!Next]_(Directory!directoryVars) /\ LinkersKnow' /\ IdleIsBlank'
  <2> SUFFICES ASSUME DirectoryInv, [Next]_vars
               PROVE  [Directory!Next]_(Directory!directoryVars) /\ LinkersKnow' /\ IdleIsBlank'
    OBVIOUS
  <2>1. CASE UNCHANGED <<credentials, identities, call, signedIn>>
    <3>1. UNCHANGED Vouched
      BY <2>1, VouchedSame
    <3>2. LinkersKnow' /\ IdleIsBlank'
      BY <2>1 DEF DirectoryInv, LinkersKnow, IdleIsBlank
    <3> QED
      BY <2>1, <3>1, <3>2, DirectoryStutter
  <2>2. UNCHANGED vars \/ (\E g \in Subjects, s \in Spellings : MoveAddress(g, s))
          => UNCHANGED <<credentials, identities, call, signedIn>>
    BY DEF vars, MoveAddress
  <2>3. ASSUME NEW k \in Calls, NEW s \in Spellings, NEW p \in Passwords, Register(k, s, p)
        PROVE  [Directory!Next]_(Directory!directoryVars) /\ LinkersKnow' /\ IdleIsBlank'
    BY <2>3, RegisterListed
  <2>4. ASSUME NEW k \in Calls,
               \/ \E s \in Spellings, p \in Passwords : Login(k, s, p)
               \/ \E sent \in BOOLEAN : Welcome(k, sent)
               \/ Abandon(k)
        PROVE  [Directory!Next]_(Directory!directoryVars) /\ LinkersKnow' /\ IdleIsBlank'
    BY <2>4, AnswersListed
  <2>5. ASSUME NEW k \in Calls,
               \/ \E g \in Subjects : Exchange(k, g)
               \/ FindIdentity(k) \/ FindCredential(k) \/ CreateCredential(k) \/ CreateIdentity(k)
        PROVE  [Directory!Next]_(Directory!directoryVars) /\ LinkersKnow' /\ IdleIsBlank'
    BY <2>5, ExchangeListed, FindIdentityListed, FindCredentialListed, CreateCredentialListed,
       CreateIdentityListed
  <2> QED
    BY <2>1, <2>2, <2>3, <2>4, <2>5 DEF Next
<1>3. Spec => [](AccountsInv /\ LinkersKnow /\ IdleIsBlank)
  <2>1. (AccountsInv /\ LinkersKnow /\ IdleIsBlank) /\ [Next]_vars
          => (LinkersKnow /\ IdleIsBlank)'
    BY <1>2 DEF DirectoryInv
  <2> QED
    BY <1>1, <2>1, AccountsHold, PTL DEF Spec
<1>4. AccountsInv /\ LinkersKnow /\ IdleIsBlank /\ [Next]_vars
        => [Directory!Next]_(Directory!directoryVars)
  BY <1>2 DEF DirectoryInv
<1> QED
  BY <1>1, <1>3, <1>4, PTL DEF Spec, KeepsDirectory, Directory!Spec

--------------------------------------------------------------------------------
(***************************************************************************)
(* Tokens: what a lookup of a key promises, for any number of keys and     *)
(* lookups and any interval.  The two action properties of the module      *)
(* follow from one inductive invariant.  Its heart is that the age of the  *)
(* cache bounds how long its key can have been out of use: a document is   *)
(* as old as the fetch that brought it, and the fetch is bounded by the    *)
(* HTTP client.                                                            *)
(***************************************************************************)

\* A key that was never retired has been so for no time at all.
RetiredOnce == signing \notin retired /\ \A key \in Keys \ retired : since[key] = 0

CacheIsRecent == cached \in retired /\ age <= Interval => since[cached] <= age + FetchTime

LookupIsSound(r) ==
  /\ InLookup(r) => look[r].token \in Issued
  /\ look[r].pc \in {"fetched", "stored"} =>
       /\ look[r].doc \in Keys
       /\ look[r].token = signing => look[r].doc = signing
  /\ look[r].pc = "fetched" /\ look[r].doc \in retired => since[look[r].doc] <= look[r].spent
  /\ look[r].pc = "stored" => age <= look[r].spent

Sound ==
  /\ TokensTypeOK
  /\ RetiredOnce
  /\ CacheIsRecent
  /\ \A r \in Requests : LookupIsSound(r)

Lookups == [pc : {"none", "fetching", "fetched", "stored", "done"},
            token : Keys \cup {NoKey}, found : Keys \cup {NoKey}, doc : Keys \cup {NoKey},
            spent : 0 .. FetchTime, result : Keys \cup {NoKey}]

--------------------------------------------------------------------------------
(* What the steps do to the lookups *)

LEMMA TickOfTyped == ASSUME NEW n \in 0 .. Never
                     PROVE  TickOf(n) \in 0 .. Never /\ TickOf(n) <= n + 1 /\ (n <= Interval => TickOf(n) = n + 1)
BY FetchesAreShort, SMT DEF TickOf, Never

LEMMA LookupTyped == ASSUME TokensTypeOK PROVE \A r \in Requests : look[r] \in Lookups
BY DEF TokensTypeOK, Lookups

\* A step of one lookup leaves the others alone.
LEMMA OneLookup ==
  ASSUME TokensTypeOK, NEW r \in Requests, NEW new \in Lookups, look' = [look EXCEPT ![r] = new]
  PROVE  /\ look' \in [Requests -> Lookups]
         /\ look'[r] = new
         /\ \A q \in Requests : q # r => look'[q] = look[q]
BY DEF TokensTypeOK, Lookups

LEMMA StartMoves ==
  ASSUME TokensTypeOK, NEW r \in Requests, NEW token \in Keys, StartLookup(r, token)
  PROVE  \E new \in Lookups :
           /\ look' = [look EXCEPT ![r] = new]
           /\ new.token = token /\ token \in Issued /\ ~InLookup(r) /\ new.spent = 0
           /\ Refetches(token) => new.pc = "fetching"
           /\ ~Refetches(token) => new.pc = "done" /\ new.result = Entry(token)
<1> DEFINE new == [pc |-> IF Refetches(token) THEN "fetching" ELSE "done",
                  token |-> token, found |-> Entry(token), doc |-> NoKey, spent |-> 0,
                  result |-> IF Refetches(token) THEN NoKey ELSE Entry(token)]
<1>1. Entry(token) \in Keys \cup {NoKey}
  BY DEF Entry, TokensTypeOK
<1>2. new \in Lookups
  <2>1. 0 \in 0 .. FetchTime
    BY FetchesAreShort
  <2> QED
    BY <1>1, <2>1 DEF Lookups
<1>3. look' = [look EXCEPT ![r] = new] /\ token \in Issued /\ ~InLookup(r)
  BY DEF StartLookup
<1>4. /\ new.token = token /\ new.spent = 0
      /\ Refetches(token) => new.pc = "fetching"
      /\ ~Refetches(token) => new.pc = "done" /\ new.result = Entry(token)
  OBVIOUS
<1> QED
  BY <1>2, <1>3, <1>4

\* The four steps of a lookup that is under way keep its token and its time.
LEMMA ReadDocMoves ==
  ASSUME TokensTypeOK, NEW r \in Requests, ReadDoc(r)
  PROVE  /\ look' \in [Requests -> Lookups]
         /\ look[r].pc = "fetching" /\ look'[r].pc = "fetched" /\ look'[r].doc = signing
         /\ look'[r].token = look[r].token /\ look'[r].spent = look[r].spent
         /\ \A q \in Requests : q # r => look'[q] = look[q]
<1> DEFINE new == [look[r] EXCEPT !.pc = "fetched", !.doc = signing]
<1>1. new \in Lookups /\ new.pc = "fetched" /\ new.doc = signing
      /\ new.token = look[r].token /\ new.spent = look[r].spent
  BY LookupTyped DEF TokensTypeOK, Lookups
<1>2. look' = [look EXCEPT ![r] = new] /\ look[r].pc = "fetching"
  BY DEF ReadDoc
<1> HIDE DEF new
<1> QED
  BY <1>1, <1>2, OneLookup

LEMMA FetchFailsMoves ==
  ASSUME TokensTypeOK, NEW r \in Requests, FetchFails(r)
  PROVE  /\ look' \in [Requests -> Lookups]
         /\ RefreshFails(r) /\ look'[r].pc = "done"
         /\ \A q \in Requests : q # r => look'[q] = look[q]
<1> DEFINE new == [look[r] EXCEPT !.pc = "done", !.result = look[r].found]
<1>1. new \in Lookups /\ new.pc = "done"
  BY LookupTyped DEF Lookups
<1>2. look' = [look EXCEPT ![r] = new] /\ RefreshFails(r)
  BY DEF FetchFails, RefreshFails
<1> HIDE DEF new
<1> QED
  BY <1>1, <1>2, OneLookup

LEMMA StoreMoves ==
  ASSUME TokensTypeOK, NEW r \in Requests, Store(r)
  PROVE  /\ look' \in [Requests -> Lookups]
         /\ look[r].pc = "fetched" /\ look'[r].pc = "stored" /\ look'[r].doc = look[r].doc
         /\ look'[r].token = look[r].token /\ look'[r].spent = look[r].spent
         /\ \A q \in Requests : q # r => look'[q] = look[q]
<1> DEFINE new == [look[r] EXCEPT !.pc = "stored"]
<1>1. new \in Lookups /\ new.pc = "stored" /\ new.doc = look[r].doc
      /\ new.token = look[r].token /\ new.spent = look[r].spent
  BY LookupTyped DEF Lookups
<1>2. look' = [look EXCEPT ![r] = new] /\ look[r].pc = "fetched"
  BY DEF Store
<1> HIDE DEF new
<1> QED
  BY <1>1, <1>2, OneLookup

LEMMA RereadMoves ==
  ASSUME TokensTypeOK, NEW r \in Requests, Reread(r)
  PROVE  /\ look' \in [Requests -> Lookups]
         /\ look[r].pc = "stored" /\ look'[r].pc = "done"
         /\ look'[r].token = look[r].token /\ look'[r].result = Entry(look[r].token)
         /\ \A q \in Requests : q # r => look'[q] = look[q]
<1>1. Entry(look[r].token) \in Keys \cup {NoKey}
  BY DEF Entry, TokensTypeOK
<1> DEFINE new == [look[r] EXCEPT !.pc = "done", !.result = Entry(look[r].token)]
<1>2. new \in Lookups /\ new.pc = "done" /\ new.token = look[r].token
      /\ new.result = Entry(look[r].token)
  BY <1>1, LookupTyped DEF Lookups
<1>3. look' = [look EXCEPT ![r] = new] /\ look[r].pc = "stored"
  BY DEF Reread
<1> HIDE DEF new
<1> QED
  BY <1>2, <1>3, OneLookup

LEMMA TickMoves ==
  ASSUME TokensTypeOK, Tick
  PROVE  /\ look' \in [Requests -> Lookups]
         /\ \A q \in Requests :
              /\ InLookup(q) => /\ look'[q].pc = look[q].pc /\ look'[q].token = look[q].token
                               /\ look'[q].doc = look[q].doc /\ look'[q].spent = look[q].spent + 1
              /\ ~InLookup(q) => look'[q] = look[q]
<1>1. \A q \in Requests : look[q] \in Lookups
  BY LookupTyped
<1>2. \A q \in Requests : InLookup(q) => look[q].spent + 1 \in 0 .. FetchTime
  BY <1>1, FetchesAreShort DEF Tick, Lookups
<1>3. \A q \in Requests : look'[q] = IF InLookup(q) THEN [look[q] EXCEPT !.spent = @ + 1] ELSE look[q]
  BY DEF Tick
<1>4. ASSUME NEW q \in Requests
      PROVE  /\ look'[q] \in Lookups
             /\ InLookup(q) => /\ look'[q].pc = look[q].pc /\ look'[q].token = look[q].token
                              /\ look'[q].doc = look[q].doc /\ look'[q].spent = look[q].spent + 1
             /\ ~InLookup(q) => look'[q] = look[q]
  BY <1>1, <1>2, <1>3 DEF Lookups
<1> QED
  BY <1>4 DEF Tick

--------------------------------------------------------------------------------
(* The invariant *)

LEMMA InitSound == TokensInit => Sound
BY FetchesAreShort, NoKeyIsNone
   DEF TokensInit, Sound, TokensTypeOK, RetiredOnce, CacheIsRecent, LookupIsSound, NoLookup, InLookup, Never

\* A lookup that is not under way has nothing to be sound about.
LEMMA IdleIsSound ==
  ASSUME NEW r \in Requests, look[r].pc \in {"none", "done"}
  PROVE  LookupIsSound(r)
BY DEF LookupIsSound, InLookup

\* What LookupIsSound says of r depends on these alone.
LEMMA StaysSound ==
  ASSUME NEW r \in Requests, LookupIsSound(r), look'[r] = look[r],
         UNCHANGED <<signing, retired, since>>, age' = age \/ age' = 0, Sound
  PROVE  LookupIsSound(r)'
<1>1. 0 <= look[r].spent /\ age >= 0
  BY DEF Sound, TokensTypeOK
<1> QED
  BY <1>1 DEF LookupIsSound, InLookup, Issued

LEMMA StartSound ==
  ASSUME Sound, NEW r \in Requests, NEW token \in Keys, StartLookup(r, token)
  PROVE  Sound'
<1>1. PICK new \in Lookups :
        /\ look' = [look EXCEPT ![r] = new]
        /\ new.token = token /\ token \in Issued
        /\ new.pc \in {"fetching", "done"}
  BY StartMoves DEF Sound
<1>2. /\ look' \in [Requests -> Lookups] /\ look'[r] = new
      /\ \A q \in Requests : q # r => look'[q] = look[q]
  BY <1>1, OneLookup DEF Sound
<1>3. UNCHANGED <<signing, retired, since, kids, cached, age>>
  BY DEF StartLookup
<1>4. TokensTypeOK' /\ RetiredOnce' /\ CacheIsRecent'
  BY <1>2, <1>3 DEF Sound, TokensTypeOK, RetiredOnce, CacheIsRecent, Lookups
<1>5. ASSUME NEW q \in Requests PROVE LookupIsSound(q)'
  <2>1. CASE q = r
    BY <2>1, <1>1, <1>2, <1>3 DEF LookupIsSound, InLookup, Issued
  <2>2. CASE q # r
    BY <2>2, <1>2, <1>3, StaysSound DEF Sound
  <2> QED
    BY <2>1, <2>2
<1> QED
  BY <1>4, <1>5 DEF Sound

LEMMA ReadDocSound == ASSUME Sound, NEW r \in Requests, ReadDoc(r) PROVE Sound'
<1>1. UNCHANGED <<signing, retired, since, kids, cached, age>>
  BY DEF ReadDoc
<1>2. /\ look' \in [Requests -> Lookups]
      /\ look[r].pc = "fetching" /\ look'[r].pc = "fetched" /\ look'[r].doc = signing
      /\ look'[r].token = look[r].token /\ look'[r].spent = look[r].spent
      /\ \A q \in Requests : q # r => look'[q] = look[q]
  BY ReadDocMoves DEF Sound
<1>3. TokensTypeOK' /\ RetiredOnce' /\ CacheIsRecent'
  BY <1>1, <1>2 DEF Sound, TokensTypeOK, RetiredOnce, CacheIsRecent, Lookups
<1>4. ASSUME NEW q \in Requests PROVE LookupIsSound(q)'
  <2>1. CASE q = r
    BY <2>1, <1>1, <1>2 DEF Sound, LookupIsSound, InLookup, Issued, RetiredOnce, TokensTypeOK
  <2>2. CASE q # r
    BY <2>2, <1>1, <1>2, StaysSound DEF Sound
  <2> QED
    BY <2>1, <2>2
<1> QED
  BY <1>3, <1>4 DEF Sound

LEMMA FetchFailsSound == ASSUME Sound, NEW r \in Requests, FetchFails(r) PROVE Sound'
<1>1. UNCHANGED <<signing, retired, since, kids, cached, age>>
  BY DEF FetchFails
<1>2. /\ look' \in [Requests -> Lookups] /\ look'[r].pc = "done"
      /\ \A q \in Requests : q # r => look'[q] = look[q]
  BY FetchFailsMoves DEF Sound
<1>3. TokensTypeOK' /\ RetiredOnce' /\ CacheIsRecent'
  BY <1>1, <1>2 DEF Sound, TokensTypeOK, RetiredOnce, CacheIsRecent, Lookups
<1>4. ASSUME NEW q \in Requests PROVE LookupIsSound(q)'
  <2>1. CASE q = r
    BY <2>1, <1>2 DEF LookupIsSound, InLookup
  <2>2. CASE q # r
    BY <2>2, <1>1, <1>2, StaysSound DEF Sound
  <2> QED
    BY <2>1, <2>2
<1> QED
  BY <1>3, <1>4 DEF Sound

\* The document is as old as its fetch, and the cache is new again.
LEMMA StoreSound == ASSUME Sound, NEW r \in Requests, Store(r) PROVE Sound'
<1>1. UNCHANGED <<signing, retired, since, kids>> /\ cached' = look[r].doc /\ age' = 0
  BY DEF Store
<1>2. /\ look' \in [Requests -> Lookups]
      /\ look[r].pc = "fetched" /\ look'[r].pc = "stored" /\ look'[r].doc = look[r].doc
      /\ look'[r].token = look[r].token /\ look'[r].spent = look[r].spent
      /\ \A q \in Requests : q # r => look'[q] = look[q]
  BY StoreMoves DEF Sound
<1>3. look[r].spent \in 0 .. FetchTime /\ look[r].doc \in Keys /\ since[look[r].doc] \in Nat
  BY <1>2, FetchesAreShort DEF Sound, LookupIsSound, TokensTypeOK, Never
<1>4. TokensTypeOK'
  BY <1>1, <1>2, <1>3, FetchesAreShort DEF Sound, TokensTypeOK, Lookups, Never
<1>5. RetiredOnce'
  BY <1>1 DEF Sound, RetiredOnce
<1>6. CacheIsRecent'
  <2>1. look[r].doc \in retired => since[look[r].doc] <= look[r].spent
    BY <1>2 DEF Sound, LookupIsSound
  <2> QED
    BY <2>1, <1>1, <1>3, FetchesAreShort DEF CacheIsRecent
<1>7. ASSUME NEW q \in Requests PROVE LookupIsSound(q)'
  <2>1. CASE q = r
    BY <2>1, <1>1, <1>2, <1>3 DEF Sound, LookupIsSound, InLookup, Issued
  <2>2. CASE q # r
    BY <2>2, <1>1, <1>2, StaysSound DEF Sound
  <2> QED
    BY <2>1, <2>2
<1> QED
  BY <1>4, <1>5, <1>6, <1>7 DEF Sound

LEMMA RereadSound == ASSUME Sound, NEW r \in Requests, Reread(r) PROVE Sound'
<1>1. UNCHANGED <<signing, retired, since, kids, cached, age>>
  BY DEF Reread
<1>2. /\ look' \in [Requests -> Lookups] /\ look'[r].pc = "done"
      /\ \A q \in Requests : q # r => look'[q] = look[q]
  BY RereadMoves DEF Sound
<1>3. TokensTypeOK' /\ RetiredOnce' /\ CacheIsRecent'
  BY <1>1, <1>2 DEF Sound, TokensTypeOK, RetiredOnce, CacheIsRecent, Lookups
<1>4. ASSUME NEW q \in Requests PROVE LookupIsSound(q)'
  <2>1. CASE q = r
    BY <2>1, <1>2 DEF LookupIsSound, InLookup
  <2>2. CASE q # r
    BY <2>2, <1>1, <1>2, StaysSound DEF Sound
  <2> QED
    BY <2>1, <2>2
<1> QED
  BY <1>3, <1>4 DEF Sound

\* The key that goes out of use has been so for no time yet.
LEMMA ChangeKeySound == ASSUME Sound, ChangeKey PROVE Sound'
<1>1. PICK key \in Keys \ Issued : signing' = key /\ retired' = retired \cup {signing}
  BY DEF ChangeKey
<1>2. UNCHANGED <<since, kids, cached, age, look>>
  BY DEF ChangeKey
<1>3. signing \in Keys /\ since[signing] = 0
  BY DEF Sound, TokensTypeOK, RetiredOnce
<1>4. TokensTypeOK' /\ RetiredOnce'
  BY <1>1, <1>2, <1>3 DEF Sound, TokensTypeOK, RetiredOnce, Issued
<1>5. CacheIsRecent'
  BY <1>1, <1>2, <1>3, FetchesAreShort DEF Sound, CacheIsRecent, TokensTypeOK, Never
<1>6. ASSUME NEW q \in Requests PROVE LookupIsSound(q)'
  <2>1. LookupIsSound(q) /\ look[q].spent \in 0 .. FetchTime
    BY DEF Sound, TokensTypeOK
  <2>2. InLookup(q) => look[q].token \in Issued /\ look[q].token # key
    BY <2>1, <1>1 DEF LookupIsSound
  <2>3. look[q].doc = signing => since[look[q].doc] <= look[q].spent
    BY <2>1, <1>3, FetchesAreShort
  <2> QED
    BY <2>1, <2>2, <2>3, <1>1, <1>2 DEF LookupIsSound, InLookup, Issued
<1> QED
  BY <1>4, <1>5, <1>6 DEF Sound

\* Everything that is compared grows older together.
LEMMA TickSound == ASSUME Sound, Tick PROVE Sound'
<1>1. UNCHANGED <<signing, retired, kids, cached>>
  BY DEF Tick
<1>2. /\ look' \in [Requests -> Lookups]
      /\ \A q \in Requests :
           /\ InLookup(q) => /\ look'[q].pc = look[q].pc /\ look'[q].token = look[q].token
                            /\ look'[q].doc = look[q].doc /\ look'[q].spent = look[q].spent + 1
           /\ ~InLookup(q) => look'[q] = look[q]
  BY TickMoves DEF Sound
<1>3. /\ age' \in 0 .. Never /\ age' <= age + 1
      /\ cached # NoKey /\ age <= Interval => age' = age + 1
  BY TickOfTyped, FetchesAreShort DEF Tick, Sound, TokensTypeOK, Never
<1>4. \A key \in Keys :
        /\ since'[key] \in 0 .. Never
        /\ since'[key] <= since[key] + 1
        /\ key \notin retired => since'[key] = 0
  BY TickOfTyped, FetchesAreShort DEF Tick, Sound, TokensTypeOK, Never
<1>5. TokensTypeOK'
  <2>1. since' \in [Keys -> 0 .. Never]
    BY <1>4 DEF Tick
  <2> QED
    BY <2>1, <1>1, <1>2, <1>3 DEF Sound, TokensTypeOK, Lookups
<1>6. RetiredOnce'
  BY <1>1, <1>4 DEF Sound, RetiredOnce
<1>7. CacheIsRecent'
  <2> SUFFICES ASSUME cached \in retired, age' <= Interval
               PROVE  since'[cached] <= age' + FetchTime
    BY <1>1 DEF CacheIsRecent
  <2>1. cached \in Keys /\ cached # NoKey
    BY NoKeyIsNone DEF Sound, TokensTypeOK
  <2>2. age <= Interval /\ age' = age + 1
    <3>1. age \in 0 .. Never /\ age' = TickOf(age)
      BY <2>1 DEF Tick, Sound, TokensTypeOK
    <3> QED
      BY <3>1, <1>3, <2>1, FetchesAreShort DEF TickOf, Never
  <2>3. since[cached] <= age + FetchTime
    BY <2>2 DEF Sound, CacheIsRecent
  <2>4. since[cached] \in Nat /\ since'[cached] \in Nat /\ since'[cached] <= since[cached] + 1 /\ age \in Nat
    BY <2>1, <1>4, FetchesAreShort DEF Sound, TokensTypeOK, Never
  <2> QED
    BY <2>2, <2>3, <2>4, FetchesAreShort
<1>8. ASSUME NEW q \in Requests PROVE LookupIsSound(q)'
  <2>1. CASE ~InLookup(q)
    BY <2>1, <1>2 DEF LookupIsSound, InLookup
  <2>2. CASE InLookup(q)
    <3>1. /\ look'[q].pc = look[q].pc /\ look'[q].token = look[q].token
          /\ look'[q].doc = look[q].doc /\ look'[q].spent = look[q].spent + 1
      BY <2>2, <1>2
    <3>2. LookupIsSound(q) /\ look[q].spent \in Nat /\ age \in Nat /\ age' \in Nat
      BY <1>3, FetchesAreShort DEF Sound, TokensTypeOK, Never
    <3>3. look[q].doc \in Keys => since[look[q].doc] \in Nat /\ since'[look[q].doc] \in Nat
      BY <1>4, FetchesAreShort DEF Sound, TokensTypeOK, Never
    <3>4. retired \subseteq Keys
      BY DEF Sound, TokensTypeOK
    <3>5. look[q].pc = "fetched" /\ look[q].doc \in retired => since'[look[q].doc] <= look[q].spent + 1
      BY <3>2, <3>3, <3>4, <1>4 DEF LookupIsSound
    <3>6. look[q].pc = "stored" => age' <= look[q].spent + 1
      BY <3>2, <1>3 DEF LookupIsSound
    <3> QED
      BY <2>2, <3>1, <3>2, <3>5, <3>6, <1>1 DEF LookupIsSound, InLookup, Issued
  <2> QED
    BY <2>1, <2>2
<1> QED
  BY <1>5, <1>6, <1>7, <1>8 DEF Sound

LEMMA NextSound == Sound /\ [TokensNext]_tokenVars => Sound'
<1> SUFFICES ASSUME Sound, [TokensNext]_tokenVars PROVE Sound'
  OBVIOUS
<1>1. ASSUME NEW r \in Requests, NEW token \in Keys, StartLookup(r, token) PROVE Sound'
  BY <1>1, StartSound
<1>2. ASSUME NEW r \in Requests, ReadDoc(r) \/ FetchFails(r) \/ Store(r) \/ Reread(r) PROVE Sound'
  BY <1>2, ReadDocSound, FetchFailsSound, StoreSound, RereadSound
<1>3. CASE ChangeKey
  BY <1>3, ChangeKeySound
<1>4. CASE Tick
  BY <1>4, TickSound
<1>5. CASE UNCHANGED tokenVars
  BY <1>5 DEF Sound, tokenVars, TokensTypeOK, RetiredOnce, CacheIsRecent, LookupIsSound, InLookup, Issued
<1> QED
  BY <1>1, <1>2, <1>3, <1>4, <1>5 DEF TokensNext

LEMMA AlwaysSound == TokensSpec => []Sound
BY InitSound, NextSound, PTL DEF TokensSpec

--------------------------------------------------------------------------------
(* What follows for a lookup that ends *)

LEMMA SameLookupDoesNotEnd == ASSUME NEW r \in Requests, look'[r] = look[r] PROVE ~Ends(r)
BY DEF Ends

\* A lookup that ends is answered from the cache, fails to refresh, or rereads.
LEMMA HowItEnds ==
  ASSUME Sound, [TokensNext]_tokenVars, NEW r \in Requests, Ends(r)
  PROVE  \/ /\ look'[r].result = Entry(look'[r].token) /\ look'[r].token \in Keys
            /\ ~Refetches(look'[r].token)
         \/ RefreshFails(r)
         \/ /\ look[r].pc = "stored" /\ look'[r].token = look[r].token
            /\ look'[r].result = Entry(look'[r].token)
<1>1. TokensTypeOK /\ look[r] # look'[r] /\ look'[r].pc = "done"
  BY DEF Sound, Ends
<1>2. ASSUME NEW q \in Requests, NEW token \in Keys, StartLookup(q, token)
      PROVE  q = r /\ look'[r].token \in Keys /\ ~Refetches(look'[r].token) /\ look'[r].result = Entry(look'[r].token)
  <2>1. PICK new \in Lookups :
          /\ look' = [look EXCEPT ![q] = new]
          /\ new.token = token
          /\ Refetches(token) => new.pc = "fetching"
          /\ ~Refetches(token) => new.result = Entry(token)
    BY <1>1, <1>2, StartMoves
  <2>2. q = r /\ look'[r] = new
    BY <1>1, <2>1, OneLookup
  <2> QED
    BY <2>1, <2>2, <1>1
<1>3. ASSUME NEW q \in Requests, ReadDoc(q) PROVE FALSE
  <2>1. q = r
    BY <1>1, <1>3, ReadDocMoves
  <2> QED
    BY <1>1, <1>3, <2>1, ReadDocMoves
<1>4. ASSUME NEW q \in Requests, FetchFails(q) PROVE RefreshFails(r)
  <2>1. q = r
    BY <1>1, <1>4, FetchFailsMoves
  <2> QED
    BY <1>1, <1>4, <2>1, FetchFailsMoves
<1>5. ASSUME NEW q \in Requests, Store(q) PROVE FALSE
  <2>1. q = r
    BY <1>1, <1>5, StoreMoves
  <2> QED
    BY <1>1, <1>5, <2>1, StoreMoves
<1>6. ASSUME NEW q \in Requests, Reread(q)
      PROVE  look[r].pc = "stored" /\ look'[r].token = look[r].token /\ look'[r].result = Entry(look'[r].token)
  <2>1. q = r
    BY <1>1, <1>6, RereadMoves
  <2> QED
    BY <1>1, <1>6, <2>1, RereadMoves
<1>7. CASE ChangeKey
  BY <1>1, <1>7 DEF ChangeKey
<1>8. CASE Tick
  BY <1>1, <1>8, TickMoves DEF InLookup
<1>9. CASE UNCHANGED tokenVars
  BY <1>1, <1>9 DEF tokenVars
<1> QED
  BY <1>2, <1>3, <1>4, <1>5, <1>6, <1>7, <1>8, <1>9 DEF TokensNext

\* A step in which a lookup ends with an answer leaves keys and cache alone.
LEMMA EndsChangesNothing ==
  ASSUME Sound, [TokensNext]_tokenVars, NEW r \in Requests, Ends(r)
  PROVE  UNCHANGED <<signing, since, cached, age>>
<1>1. TokensTypeOK /\ look[r] # look'[r] /\ look'[r].pc = "done"
  BY DEF Sound, Ends
<1>2. ASSUME NEW q \in Requests, Store(q) PROVE FALSE
  <2>1. q = r
    BY <1>1, <1>2, StoreMoves
  <2> QED
    BY <1>1, <1>2, <2>1, StoreMoves
<1>3. ~ChangeKey
  BY <1>1 DEF ChangeKey
<1>4. ~Tick
  BY <1>1, TickMoves DEF InLookup
<1> QED
  BY <1>1, <1>2, <1>3, <1>4 DEF TokensNext, StartLookup, ReadDoc, FetchFails, Reread, tokenVars

\* A token of a key out of use is accepted for a bounded time.  The answer is
\* what the cache holds; the cache is not stale, or was filled by this lookup.
LEMMA StepLapses ==
  ASSUME Sound, [TokensNext]_tokenVars, NEW r \in Requests,
         Ends(r), Accepted(look'[r]), look'[r].token # signing', ~RefreshFails(r)
  PROVE  since[look'[r].token] <= Interval + FetchTime
<1>1. look'[r].result = Entry(look'[r].token) /\ look'[r].token = look'[r].result /\ signing' = signing
  BY HowItEnds, EndsChangesNothing DEF Accepted
<1>2. look'[r].result \in Keys
  <2>1. CASE look[r].pc = "stored" /\ look'[r].token = look[r].token
    <3>1. look[r].token \in Issued
      BY <2>1 DEF Sound, LookupIsSound, InLookup
    <3> QED
      BY <3>1, <2>1, <1>1 DEF Sound, TokensTypeOK, Issued
  <2>2. CASE look'[r].token \in Keys
    BY <2>2, <1>1
  <2> QED
    BY <2>1, <2>2, HowItEnds
<1>3. cached = look'[r].token /\ cached \in Keys
  BY <1>1, <1>2, NoKeyIsNone DEF Entry
<1>4. since[cached] \in Nat /\ age \in Nat /\ Interval \in Nat /\ FetchTime \in Nat
  BY <1>3, FetchesAreShort DEF Sound, TokensTypeOK, Never
<1>5. cached \notin retired => since[cached] = 0
  BY <1>3 DEF Sound, RetiredOnce
<1>6. CASE ~Refetches(look'[r].token)
  <2>1. age <= Interval
    BY <1>6, <1>4 DEF Refetches, Stale
  <2> QED
    BY <2>1, <1>3, <1>4, <1>5 DEF Sound, CacheIsRecent
<1>7. CASE look[r].pc = "stored"
  <2>1. age <= FetchTime
    BY <1>7, <1>4, FetchesAreShort DEF Sound, LookupIsSound, TokensTypeOK
  <2> QED
    BY <2>1, <1>3, <1>4, <1>5, FetchesAreShort DEF Sound, CacheIsRecent
<1> QED
  BY <1>6, <1>7, HowItEnds

\* A token of the key in use is refused for one of three reasons.  A lookup that
\* rereads has fetched the key of its token, for keys do not come back.
LEMMA StepRefuses ==
  ASSUME Sound, [TokensNext]_tokenVars, NEW r \in Requests,
         Ends(r), look'[r].token = signing, ~Accepted(look'[r]), ~RefreshFails(r)
  PROVE  \/ look[r].pc = "stored" /\ cached # look[r].doc
         \/ kids = "fixed" /\ cached # signing /\ age <= Interval
<1>1. look'[r].pc = "done" /\ look'[r].result # signing /\ look'[r].result = Entry(signing)
  BY HowItEnds DEF Accepted, Ends
<1>2. cached # signing
  BY <1>1 DEF Entry
<1>3. CASE ~Refetches(signing)
  <2>1. Entry(signing) # NoKey /\ ~(age > Interval)
    BY <1>3 DEF Refetches, Stale
  <2>2. age \in Nat /\ Interval \in Nat
    BY FetchesAreShort DEF Sound, TokensTypeOK, Never
  <2> QED
    BY <2>1, <2>2, <1>2 DEF Entry
<1>4. CASE look[r].pc = "stored" /\ look'[r].token = look[r].token
  <2>1. look[r].doc = signing
    BY <1>4 DEF Sound, LookupIsSound
  <2> QED
    BY <2>1, <1>2, <1>4
<1> QED
  BY <1>3, <1>4, HowItEnds

--------------------------------------------------------------------------------
(* Theorems *)

\* Type correctness: the values of Tokens stay in their ranges.
THEOREM TokensTyped == TokensSpec => []TokensTypeOK
<1>1. Sound => TokensTypeOK
  BY DEF Sound
<1> QED
  BY <1>1, AlwaysSound, PTL

\* Rotation takes effect within the interval and the time of a fetch, for any
\* interval, number of keys and number of lookups at once.
THEOREM RotationTakesEffect == TokensSpec => RetiredKeysLapse
<1>1. Sound /\ [TokensNext]_tokenVars =>
        [\A r \in Requests :
           Ends(r) /\ Accepted(look'[r]) /\ look'[r].token # signing
             => since[look'[r].token] <= Interval + FetchTime \/ RefreshFails(r)]_tokenVars
  BY StepLapses, EndsChangesNothing
<1> QED
  BY <1>1, AlwaysSound, PTL DEF TokensSpec, RetiredKeysLapse

\* A good token is refused only for one of the three named causes.
THEOREM RefusalsExplained == TokensSpec => GoodTokensRefusedHaveACause
<1>1. Sound /\ [TokensNext]_tokenVars =>
        [\A r \in Requests :
           Ends(r) /\ look'[r].token = signing /\ ~Accepted(look'[r])
             => \/ RefreshFails(r)
                \/ look[r].pc = "stored" /\ cached # look[r].doc
                \/ kids = "fixed" /\ cached # signing /\ age <= Interval]_tokenVars
  BY StepRefuses
<1> QED
  BY <1>1, AlwaysSound, PTL DEF TokensSpec, GoodTokensRefusedHaveACause

--------------------------------------------------------------------------------
(***************************************************************************)
(* Platform, for any number of users, skills, jobs and pages.  What a bell *)
(* shows has come a long way; the invariant says for each station of it    *)
(* what the next one may rely on: a list the matcher has had is one of     *)
(* users-service, a row is the score of such a list, who was told has a    *)
(* row, what was offered was told, and a bell shows what was offered.      *)
(***************************************************************************)

\* Score of a profile for the list of a job.
ScoreOf(profile, j) == Cardinality(SkillsOf(profile) \cap ToSet(requires[j]))

PlatformTypeOK ==
  /\ profiles \in [Users -> SUBSET (Profiles \cup {NoProfile})]
  /\ had \in [Users -> SUBSET SUBSET SkillIds]
  /\ requires \in [JobIds -> Wanted \cup {<<>>}]
  /\ matches \in [JobIds -> [Users -> Nat]]
  /\ shown \in [Pages -> SUBSET Notifs]
  /\ offered \subseteq Notifs

HadIsTrue ==
  \A u \in Users : \A known \in had[u] : \E profile \in profiles[u] : known = SkillsOf(profile)

RowsAreTrue ==
  \A j \in JobIds, u \in Users :
    matches[j][u] > 0 =>
      /\ j \in posted
      /\ \E profile \in profiles[u] : matches[j][u] = ScoreOf(profile, j)

ToldHaveRows == \A j \in JobIds, u \in Users : <<j, u>> \in told => matches[j][u] > 0
OfferedWereTold == \A n \in offered : <<JobOf(n), UserOf(n)>> \in told
ShownWereOffered == \A p \in Pages : \A n \in shown[p] : n \in offered /\ UserOf(n) = LoggedIn[p]

PlatformInv ==
  /\ PlatformTypeOK
  /\ HadIsTrue /\ RowsAreTrue
  /\ ToldHaveRows /\ OfferedWereTold /\ ShownWereOffered

--------------------------------------------------------------------------------
(* One lemma per action of the platform *)

\* A contract counts and lists as this module does.
LEMMA MatchingOperators ==
  /\ \A s : Matching!ToSet(s) = ToSet(s)
  /\ \A s : Matching!Cardinality(s) = Cardinality(s)
<1>1. \A s : Matching!IsFiniteSet(s) <=> IsFiniteSet(s)
  BY DEF Matching!IsFiniteSet, IsFiniteSet
<1>2. \A s : Matching!Cardinality(s) = Cardinality(s)
  BY <1>1 DEF Matching!Cardinality, Cardinality
<1> QED
  BY <1>2 DEF Matching!ToSet, ToSet

LEMMA NotifParts == \A n \in Notifs : JobOf(n) \in JobIds /\ UserOf(n) \in Users
BY DEF Notifs, JobOf, UserOf

LEMMA SaveSkillHolds ==
  ASSUME PlatformInv, NEW u \in Users, NEW profile \in Profiles, SaveSkill(u, profile)
  PROVE  PlatformInv'
<1>1. /\ profiles' = [profiles EXCEPT ![u] = @ \cup {profile}]
      /\ UNCHANGED <<matchingVars, feedVars>>
  BY DEF SaveSkill, Projection!Write
<1>2. PlatformTypeOK'
  BY <1>1 DEF PlatformInv, PlatformTypeOK, matchingVars, feedVars
<1>3. \A v \in Users : profiles[v] \subseteq profiles'[v]
  BY <1>1 DEF PlatformInv, PlatformTypeOK
<1>4. HadIsTrue'
  BY <1>1, <1>3 DEF PlatformInv, HadIsTrue, matchingVars
<1>5. RowsAreTrue'
  BY <1>1, <1>3 DEF PlatformInv, RowsAreTrue, ScoreOf, matchingVars
<1>6. ToldHaveRows' /\ OfferedWereTold' /\ ShownWereOffered'
  BY <1>1 DEF PlatformInv, ToldHaveRows, OfferedWereTold, ShownWereOffered, matchingVars, feedVars
<1> QED
  BY <1>2, <1>4, <1>5, <1>6 DEF PlatformInv

LEMMA SnapshotSkillsHolds ==
  ASSUME PlatformInv, NEW u \in Users, NEW profile \in Profiles, SnapshotSkills(u, profile)
  PROVE  PlatformInv'
<1>1. /\ profile \in profiles[u]
      /\ had' = [had EXCEPT ![u] = @ \cup {SkillsOf(profile)}]
      /\ UNCHANGED <<profiles, posted, requires, matches, told, feedVars>>
  BY DEF SnapshotSkills, Projection!Project, Matching!Learn
<1>2. SkillsOf(profile) \subseteq SkillIds
  BY DEF SkillsOf
<1>3. PlatformTypeOK'
  BY <1>1, <1>2 DEF PlatformInv, PlatformTypeOK, feedVars
<1>4. HadIsTrue'
  <2> SUFFICES ASSUME NEW v \in Users, NEW known \in had'[v]
               PROVE  \E p \in profiles[v] : known = SkillsOf(p)
    BY <1>1 DEF HadIsTrue
  <2>1. CASE known \in had[v]
    BY <2>1 DEF PlatformInv, HadIsTrue
  <2>2. CASE v = u /\ known = SkillsOf(profile)
    BY <2>2, <1>1
  <2> QED
    BY <1>1, <2>1, <2>2 DEF PlatformInv, PlatformTypeOK
<1>5. RowsAreTrue'
  BY <1>1 DEF PlatformInv, RowsAreTrue, ScoreOf
<1>6. ToldHaveRows' /\ OfferedWereTold' /\ ShownWereOffered'
  BY <1>1 DEF PlatformInv, ToldHaveRows, OfferedWereTold, ShownWereOffered, feedVars
<1> QED
  BY <1>3, <1>4, <1>5, <1>6 DEF PlatformInv

\* A job's list is settled while the job is not posted: then there is no row.
LEMMA PostJobHolds ==
  ASSUME PlatformInv, NEW j \in JobIds, PostJob(j)
  PROVE  PlatformInv'
<1>1. /\ UNCHANGED <<profiles, had, matches, told, feedVars>>
      /\ \/ posted' = posted \cup {j} /\ requires' = requires
         \/ /\ j \notin posted /\ posted' = posted
            /\ \E list \in Wanted : requires' = [requires EXCEPT ![j] = list]
  BY DEF PostJob, Matching!Post, Matching!Require, projectionVars
<1>2. PlatformTypeOK'
  BY <1>1 DEF PlatformInv, PlatformTypeOK, feedVars
<1>3. HadIsTrue'
  BY <1>1 DEF PlatformInv, HadIsTrue
<1>4. posted \subseteq posted' /\ \A i \in posted \cap JobIds : requires'[i] = requires[i]
  BY <1>1 DEF PlatformInv, PlatformTypeOK
<1>5. RowsAreTrue'
  BY <1>1, <1>4 DEF PlatformInv, RowsAreTrue, ScoreOf
<1>6. ToldHaveRows' /\ OfferedWereTold' /\ ShownWereOffered'
  BY <1>1 DEF PlatformInv, ToldHaveRows, OfferedWereTold, ShownWereOffered, feedVars
<1> QED
  BY <1>2, <1>3, <1>5, <1>6 DEF PlatformInv

LEMMA RecordMatchHolds ==
  ASSUME PlatformInv, NEW j \in JobIds, NEW u \in Users, RecordMatch(j, u)
  PROVE  PlatformInv'
<1>1. PICK known \in SUBSET SkillIds : Matching!Match(j, u, known)
  BY DEF RecordMatch
<1>2. UNCHANGED <<profiles, feedVars>>
  BY DEF RecordMatch, projectionVars
<1>3. PICK score : score = Cardinality(known \cap ToSet(requires[j]))
  OBVIOUS
<1>4. /\ j \in posted /\ known \in had[u] /\ known \cap ToSet(requires[j]) # {}
      /\ matches' = [matches EXCEPT ![j][u] = score]
      /\ UNCHANGED <<posted, requires, had, told>>
  BY <1>1, <1>3, MatchingOperators DEF Matching!Match
<1>5. score \in Nat /\ score > 0
  <2>1. IsFiniteSet(known \cap ToSet(requires[j]))
    BY SkillsAreFinite, FS_Subset
  <2>2. score \in Nat
    BY <1>3, <2>1, FS_CardinalityType
  <2>3. score # 0
    BY <1>3, <1>4, <2>1, FS_EmptySet
  <2> QED
    BY <2>2, <2>3
<1>6. PlatformTypeOK'
  BY <1>2, <1>4, <1>5 DEF PlatformInv, PlatformTypeOK, feedVars
<1>7. \A i \in JobIds, v \in Users :
        matches'[i][v] = IF i = j /\ v = u THEN score ELSE matches[i][v]
  BY <1>4 DEF PlatformInv, PlatformTypeOK
<1>8. PICK profile \in profiles[u] : known = SkillsOf(profile)
  BY <1>4 DEF PlatformInv, HadIsTrue
<1>9. HadIsTrue'
  BY <1>2, <1>4 DEF PlatformInv, HadIsTrue
<1>10. RowsAreTrue'
  <2> SUFFICES ASSUME NEW i \in JobIds, NEW v \in Users, matches'[i][v] > 0
               PROVE  i \in posted /\ \E p \in profiles[v] : matches'[i][v] = ScoreOf(p, i)
    BY <1>2, <1>4 DEF RowsAreTrue, ScoreOf
  <2>1. CASE i = j /\ v = u
    BY <2>1, <1>3, <1>4, <1>7, <1>8 DEF ScoreOf
  <2>2. CASE ~(i = j /\ v = u)
    BY <2>2, <1>7 DEF PlatformInv, RowsAreTrue
  <2> QED
    BY <2>1, <2>2
<1>11. ToldHaveRows'
  BY <1>4, <1>5, <1>7 DEF PlatformInv, ToldHaveRows
<1>12. OfferedWereTold' /\ ShownWereOffered'
  BY <1>2, <1>4 DEF PlatformInv, OfferedWereTold, ShownWereOffered, feedVars
<1> QED
  BY <1>6, <1>9, <1>10, <1>11, <1>12 DEF PlatformInv

LEMMA TellUserHolds ==
  ASSUME PlatformInv, NEW j \in JobIds, NEW u \in Users, TellUser(j, u)
  PROVE  PlatformInv'
<1>1. /\ matches[j][u] > 0 /\ told' = told \cup {<<j, u>>}
      /\ UNCHANGED <<profiles, posted, requires, had, matches>>
  BY DEF TellUser, Matching!Tell, projectionVars
<1>2. /\ shown' = shown
      /\ offered' = offered \/ \E c \in Copies : offered' = offered \cup {<<j, u, c>>}
  BY DEF TellUser, feedVars, Feed!Offer
<1>3. PlatformTypeOK'
  BY <1>1, <1>2 DEF PlatformInv, PlatformTypeOK, Notifs
<1>4. HadIsTrue' /\ RowsAreTrue'
  BY <1>1 DEF PlatformInv, HadIsTrue, RowsAreTrue, ScoreOf
<1>5. ToldHaveRows'
  BY <1>1 DEF PlatformInv, ToldHaveRows
<1>6. OfferedWereTold'
  <2>1. ASSUME NEW n \in offered', n \notin offered
        PROVE  JobOf(n) = j /\ UserOf(n) = u
    <3>1. PICK c \in Copies : n = <<j, u, c>>
      BY <1>2, <2>1
    <3> QED
      BY <3>1 DEF JobOf, UserOf
  <2>2. \A n \in offered : <<JobOf(n), UserOf(n)>> \in told'
    BY <1>1 DEF PlatformInv, OfferedWereTold
  <2>3. <<j, u>> \in told'
    BY <1>1
  <2> QED
    BY <2>1, <2>2, <2>3 DEF OfferedWereTold
<1>7. ShownWereOffered'
  BY <1>2 DEF PlatformInv, ShownWereOffered
<1> QED
  BY <1>3, <1>4, <1>5, <1>6, <1>7 DEF PlatformInv

LEMMA BridgeHolds ==
  ASSUME PlatformInv, NEW n \in Notifs, Bridge(n)
  PROVE  PlatformInv'
<1>1. UNCHANGED <<profiles, posted, requires, had, matches, told, offered, shown>>
  BY DEF Bridge, projectionVars, matchingVars, Feed!Fail, Feed!Settle, Feed!Keep
<1> QED
  BY <1>1 DEF PlatformInv, PlatformTypeOK, HadIsTrue, RowsAreTrue, ScoreOf, ToldHaveRows,
              OfferedWereTold, ShownWereOffered

LEMMA RingBellHolds ==
  ASSUME PlatformInv, NEW p \in Pages, RingBell(p)
  PROVE  PlatformInv'
<1>1. PICK entries \in SUBSET Notifs : Feed!Show(p, entries)
  BY DEF RingBell
<1>2. /\ shown' = [shown EXCEPT ![p] = entries]
      /\ UNCHANGED <<profiles, posted, requires, had, matches, told, offered>>
  BY <1>1 DEF RingBell, projectionVars, matchingVars, Feed!Show
<1>3. \A n \in entries : n \in offered /\ UserOf(n) = LoggedIn[p]
  BY <1>1 DEF Feed!Show, Feed!Mail
<1>4. PlatformTypeOK'
  BY <1>2 DEF PlatformInv, PlatformTypeOK
<1>5. HadIsTrue' /\ RowsAreTrue' /\ ToldHaveRows' /\ OfferedWereTold'
  BY <1>2 DEF PlatformInv, HadIsTrue, RowsAreTrue, ScoreOf, ToldHaveRows, OfferedWereTold
<1>6. ShownWereOffered'
  BY <1>2, <1>3 DEF PlatformInv, PlatformTypeOK, ShownWereOffered
<1> QED
  BY <1>4, <1>5, <1>6 DEF PlatformInv

LEMMA PlatformStarts == PlatformInit => PlatformInv
<1> SUFFICES ASSUME PlatformInit PROVE PlatformInv
  OBVIOUS
<1>1. /\ profiles = [u \in Users |-> {NoProfile}]
      /\ had = [u \in Users |-> {{}}]
      /\ requires = [j \in JobIds |-> <<>>]
      /\ matches = [j \in JobIds |-> [u \in Users |-> 0]]
      /\ told = {} /\ offered = {}
      /\ shown = [p \in Pages |-> {}]
  BY DEF PlatformInit, Projection!Init, Matching!Init, Feed!Init
<1>2. SkillsOf(NoProfile) = {}
  BY DEF SkillsOf, NoProfile
<1>3. PlatformTypeOK
  BY <1>1 DEF PlatformTypeOK
<1>4. HadIsTrue
  BY <1>1, <1>2 DEF HadIsTrue
<1>5. RowsAreTrue /\ ToldHaveRows /\ OfferedWereTold /\ ShownWereOffered
  BY <1>1 DEF RowsAreTrue, ToldHaveRows, OfferedWereTold, ShownWereOffered
<1> QED
  BY <1>3, <1>4, <1>5 DEF PlatformInv

LEMMA PlatformStays == PlatformInv /\ [PlatformNext]_platformVars => PlatformInv'
<1> SUFFICES ASSUME PlatformInv, [PlatformNext]_platformVars PROVE PlatformInv'
  OBVIOUS
<1>1. CASE PlatformNext
  BY <1>1, SaveSkillHolds, SnapshotSkillsHolds, PostJobHolds, RecordMatchHolds, TellUserHolds,
     BridgeHolds, RingBellHolds DEF PlatformNext
<1>2. CASE UNCHANGED platformVars
  BY <1>2 DEF platformVars, projectionVars, matchingVars, feedVars, PlatformInv, PlatformTypeOK,
              HadIsTrue, RowsAreTrue, ScoreOf, ToldHaveRows, OfferedWereTold, ShownWereOffered
<1> QED
  BY <1>1, <1>2

--------------------------------------------------------------------------------
(* Theorems *)

\* What a bell shows of a job is true: the user on the page has a row for the posted
\* job, and its score is that of a profile users-service really held for the user
\* (matcher.go, snapshot_consumer.go, bridge.go), however far each service lags.
THEOREM BellsTrue == PlatformSpec => []BellsTellTheTruth
<1>1. PlatformInv => BellsTellTheTruth
  <2> SUFFICES ASSUME PlatformInv, NEW p \in Pages, NEW n \in shown[p]
               PROVE  /\ UserOf(n) = LoggedIn[p] /\ JobOf(n) \in posted
                      /\ matches[JobOf(n)][LoggedIn[p]] > 0
                      /\ \E profile \in profiles[LoggedIn[p]] :
                           matches[JobOf(n)][LoggedIn[p]]
                             = Cardinality(SkillsOf(profile) \cap ToSet(requires[JobOf(n)]))
    BY DEF BellsTellTheTruth
  <2>1. n \in offered /\ UserOf(n) = LoggedIn[p]
    BY DEF PlatformInv, ShownWereOffered
  <2>2. JobOf(n) \in JobIds /\ UserOf(n) \in Users
    BY <2>1, NotifParts DEF PlatformInv, PlatformTypeOK
  <2>3. matches[JobOf(n)][LoggedIn[p]] > 0
    BY <2>1, <2>2 DEF PlatformInv, OfferedWereTold, ToldHaveRows
  <2> QED
    BY <2>1, <2>2, <2>3 DEF PlatformInv, RowsAreTrue, ScoreOf
<1> QED
  BY <1>1, PlatformStarts, PlatformStays, PTL DEF PlatformSpec

\* The services keep their contracts when they run together and hand each other
\* lists and pings: what one of them takes from another, its contract lets it take.
THEOREM PlatformKeeps == PlatformSpec => Projection!Spec /\ Matching!Spec /\ Feed!Spec
<1>1. ASSUME NEW u \in Users, NEW profile \in Profiles, SaveSkill(u, profile)
      PROVE  Projection!Next /\ UNCHANGED <<matchingVars, feedVars>>
  BY <1>1 DEF SaveSkill, Projection!Next
<1>2. ASSUME NEW u \in Users, NEW profile \in Profiles, SnapshotSkills(u, profile)
      PROVE  Projection!Next /\ Matching!Next /\ UNCHANGED feedVars
  <2>1. PICK known \in SUBSET SkillIds : known = SkillsOf(profile)
    BY DEF SkillsOf
  <2>2. Projection!Project(u, profile) /\ Matching!Learn(u, known) /\ UNCHANGED feedVars
    BY <1>2, <2>1 DEF SnapshotSkills
  <2> QED
    BY <2>2 DEF Projection!Next, Matching!Next
<1>3. ASSUME NEW j \in JobIds, PostJob(j)
      PROVE  Matching!Next /\ UNCHANGED <<projectionVars, feedVars>>
  BY <1>3 DEF PostJob, Matching!Next
<1>4. ASSUME NEW j \in JobIds, NEW u \in Users, RecordMatch(j, u)
      PROVE  Matching!Next /\ UNCHANGED <<projectionVars, feedVars>>
  <2>1. PICK known \in SUBSET SkillIds : Matching!Match(j, u, known)
    BY <1>4 DEF RecordMatch
  <2> QED
    BY <1>4, <2>1 DEF RecordMatch, Matching!Next
<1>5. ASSUME NEW j \in JobIds, NEW u \in Users, TellUser(j, u)
      PROVE  Matching!Next /\ [Feed!Next]_feedVars /\ UNCHANGED projectionVars
  <2>1. Matching!Tell(j, u) /\ UNCHANGED projectionVars
    BY <1>5 DEF TellUser
  <2>2. CASE UNCHANGED feedVars
    BY <2>1, <2>2 DEF Matching!Next
  <2>3. CASE \E c \in Copies : Feed!Offer(<<j, u, c>>)
    <3>1. PICK n \in Notifs : Feed!Offer(n)
      BY <2>3 DEF Notifs
    <3> QED
      BY <2>1, <3>1 DEF Matching!Next, Feed!Next
  <2> QED
    BY <1>5, <2>2, <2>3 DEF TellUser
<1>6. ASSUME NEW n \in Notifs, Bridge(n)
      PROVE  Feed!Next /\ UNCHANGED <<projectionVars, matchingVars>>
  BY <1>6 DEF Bridge, Feed!Next
<1>7. ASSUME NEW p \in Pages, RingBell(p)
      PROVE  Feed!Next /\ UNCHANGED <<projectionVars, matchingVars>>
  BY <1>7 DEF RingBell, Feed!Next
<1>8. [PlatformNext]_platformVars
        => /\ [Projection!Next]_projectionVars
           /\ [Matching!Next]_matchingVars
           /\ [Feed!Next]_feedVars
  BY <1>1, <1>2, <1>3, <1>4, <1>5, <1>6, <1>7 DEF PlatformNext, platformVars
<1>9. [PlatformNext]_platformVars
        => /\ [Projection!Next]_(Projection!contractVars)
           /\ [Matching!Next]_(Matching!matchingVars)
           /\ [Feed!Next]_(Feed!feedVars)
  BY <1>8 DEF projectionVars, matchingVars, feedVars, Projection!contractVars,
              Matching!matchingVars, Feed!feedVars
<1>10. PlatformInit => Projection!Init /\ Matching!Init /\ Feed!Init
  BY DEF PlatformInit
<1> QED
  BY <1>9, <1>10, PTL DEF PlatformSpec, Projection!Spec, Matching!Spec, Feed!Spec
================================================================================
