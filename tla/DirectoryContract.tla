--------------------------- MODULE DirectoryContract ---------------------------
(***************************************************************************)
(* What auth-service promises of its accounts, however calls interleave,   *)
(* fail between two statements and addresses change hands: an e-mail opens *)
(* one account, whose row stays as it is; a Google account is linked once, *)
(* to an account whose e-mail Google has given as its own, and is signed in*)
(* to that account only.  How passwords are checked, it does not say.      *)
(***************************************************************************)
CONSTANTS
  Accounts,
  Emails,     \* in their normal form
  Secrets,    \* what a row can have for a password
  Subjects,   \* Google accounts
  NoOne

VARIABLES
  rows,       \* e-mail and password of each account there is
  vouched,    \* the e-mails Google has given for each subject
  links,      \* the account each subject is linked to, or NoOne
  granted     \* the accounts each subject was signed in to

directoryVars == <<rows, vouched, links, granted>>

Init ==
  /\ rows = [id \in {} |-> 0]
  /\ vouched = [g \in Subjects |-> {}]
  /\ links = [g \in Subjects |-> NoOne]
  /\ granted = [g \in Subjects |-> {}]

Open(id, email, secret) ==
  /\ \A other \in DOMAIN rows : other # id /\ rows[other].email # email
  /\ rows' = [other \in DOMAIN rows \cup {id} |->
                IF other = id THEN [email |-> email, password |-> secret] ELSE rows[other]]
  /\ UNCHANGED <<vouched, links, granted>>

Vouch(g, email) ==
  /\ vouched' = [vouched EXCEPT ![g] = @ \cup {email}]
  /\ UNCHANGED <<rows, links, granted>>

Link(g, id) ==
  /\ links[g] = NoOne
  /\ id \in DOMAIN rows /\ rows[id].email \in vouched[g]
  /\ links' = [links EXCEPT ![g] = id]
  /\ granted' = [granted EXCEPT ![g] = @ \cup {id}]
  /\ UNCHANGED <<rows, vouched>>

SignIn(g) ==
  /\ links[g] # NoOne
  /\ granted' = [granted EXCEPT ![g] = @ \cup {links[g]}]
  /\ UNCHANGED <<rows, vouched, links>>

Next ==
  \/ \E id \in Accounts, email \in Emails, secret \in Secrets : Open(id, email, secret)
  \/ \E g \in Subjects :
       \/ \E email \in Emails : Vouch(g, email)
       \/ \E id \in Accounts : Link(g, id)
       \/ SignIn(g)

Spec == Init /\ [][Next]_directoryVars
================================================================================
