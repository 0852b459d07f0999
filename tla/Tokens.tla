--------------------------------- MODULE Tokens ---------------------------------
(***************************************************************************)
(* Access tokens (backend/internal/platform/jwks): auth-service signs them *)
(* with one RSA key, new at each start unless JWT_PRIVATE_KEY_PEM gives    *)
(* one, and serves its public half; api-gateway fetches that document over *)
(* HTTP and keeps the key, by kid, for refreshInterval.  Any number of     *)
(* lookups run at once; the lock is held for single reads and writes only. *)
(* A token is the key that signed it: an expired one is refused whatever   *)
(* the lookup finds, and is left out.                                      *)
(***************************************************************************)
EXTENDS Naturals

CONSTANTS
  Keys,         \* the keys auth-service has, one after the other
  Requests,     \* what verifies a token: one lookup at a time each
  NoKey,
  Interval,     \* refreshInterval, in ticks of the clock
  FetchTime     \* bound of httpClient.Timeout: ticks a lookup may see

ASSUME NoKeyIsNone == NoKey \notin Keys
\* Five minutes, or what NewClient is given, and five seconds.
ASSUME FetchesAreShort == Interval \in Nat /\ FetchTime \in Nat /\ FetchTime <= Interval

VARIABLES
  signing,      \* the key auth-service signs with and serves
  retired,      \* the keys it had before
  since,        \* per key, the ticks since it was retired
  kids,         \* own: a kid is a hash of its key; fixed: JWT_KID names every key
  cached,       \* the key api-gateway holds, or NoKey
  age,          \* ticks since fetchedAt
  look          \* the GetKey of each request

tokenVars == <<signing, retired, since, kids, cached, age, look>>

Never == Interval + FetchTime + 1   \* counting stops here
TickOf(n) == IF n = Never THEN n ELSE n + 1

Issued == retired \cup {signing}

\* token:  the key that signed the token
\* found:  what the cache held for its kid when the lookup began
\* doc:    the document fetched
\* spent:  ticks since the lookup began
NoLookup == [pc |-> "none", token |-> NoKey, found |-> NoKey, doc |-> NoKey, spent |-> 0, result |-> NoKey]

TokensInit ==
  /\ signing \in Keys
  /\ retired = {} /\ since = [key \in Keys |-> 0]
  /\ kids \in {"own", "fixed"}
  /\ cached = NoKey /\ age = 0
  /\ look = [r \in Requests |-> NoLookup]

--------------------------------------------------------------------------------
(* auth-service *)

\* It starts again with another key, and forgets the one before.
ChangeKey ==
  \E key \in Keys \ Issued :
    /\ signing' = key
    /\ retired' = retired \cup {signing}
    /\ UNCHANGED <<since, kids, cached, age, look>>

--------------------------------------------------------------------------------
(* GetKey in api-gateway *)

\* c.keys[kid]
Entry(token) == IF cached = token \/ kids = "fixed" THEN cached ELSE NoKey

\* Mutant of Stale: what is cached is never fetched again.
NeverStale == FALSE

Stale == cached = NoKey \/ age > Interval

\* Mutant of Refetches: only a stale document is fetched again.
OnlyWhenStale(token) == Stale

Refetches(token) == Entry(token) = NoKey \/ Stale

InLookup(r) == look[r].pc \in {"fetching", "fetched", "stored"}

StartLookup(r, token) ==
  /\ ~InLookup(r) /\ token \in Issued
  /\ look' = [look EXCEPT ![r] =
       [pc |-> IF Refetches(token) THEN "fetching" ELSE "done",
        token |-> token, found |-> Entry(token), doc |-> NoKey, spent |-> 0,
        result |-> IF Refetches(token) THEN NoKey ELSE Entry(token)]]
  /\ UNCHANGED <<signing, retired, since, kids, cached, age>>

ReadDoc(r) ==
  /\ look[r].pc = "fetching"
  /\ look' = [look EXCEPT ![r].pc = "fetched", ![r].doc = signing]
  /\ UNCHANGED <<signing, retired, since, kids, cached, age>>

\* Refresh fails, here or on the way back: an entry that was there will do.
FetchFails(r) ==
  /\ look[r].pc \in {"fetching", "fetched"}
  /\ look' = [look EXCEPT ![r].pc = "done", ![r].result = look[r].found]
  /\ UNCHANGED <<signing, retired, since, kids, cached, age>>

\* The document replaces what the cache holds, even one that is newer.
Store(r) ==
  /\ look[r].pc = "fetched"
  /\ cached' = look[r].doc /\ age' = 0
  /\ look' = [look EXCEPT ![r].pc = "stored"]
  /\ UNCHANGED <<signing, retired, since, kids>>

Reread(r) ==
  /\ look[r].pc = "stored"
  /\ look' = [look EXCEPT ![r].pc = "done", ![r].result = Entry(look[r].token)]
  /\ UNCHANGED <<signing, retired, since, kids, cached, age>>

\* The signature is checked with the key found.
Accepted(l) == l.pc = "done" /\ l.result = l.token

\* The clock; the HTTP client ends a fetch that takes longer.
Tick ==
  /\ \A r \in Requests : InLookup(r) => look[r].spent < FetchTime
  /\ age' = IF cached = NoKey THEN 0 ELSE TickOf(age)
  /\ since' = [key \in Keys |-> IF key \in retired THEN TickOf(since[key]) ELSE 0]
  /\ look' = [r \in Requests |-> IF InLookup(r) THEN [look[r] EXCEPT !.spent = @ + 1] ELSE look[r]]
  /\ UNCHANGED <<signing, retired, kids, cached>>

TokensNext ==
  \/ \E r \in Requests :
       \/ \E token \in Keys : StartLookup(r, token)
       \/ ReadDoc(r) \/ FetchFails(r) \/ Store(r) \/ Reread(r)
  \/ ChangeKey \/ Tick

TokensSpec == TokensInit /\ [][TokensNext]_tokenVars

--------------------------------------------------------------------------------
(* Properties *)

TokensTypeOK ==
  /\ signing \in Keys
  /\ retired \subseteq Keys
  /\ since \in [Keys -> 0 .. Never]
  /\ kids \in {"own", "fixed"}
  /\ cached \in Keys \cup {NoKey}
  /\ age \in 0 .. Never
  /\ look \in [Requests -> [pc : {"none", "fetching", "fetched", "stored", "done"},
                            token : Keys \cup {NoKey}, found : Keys \cup {NoKey}, doc : Keys \cup {NoKey},
                            spent : 0 .. FetchTime, result : Keys \cup {NoKey}]]

\* A lookup that is answered from the cache ends with the step it begins with.
Ends(r) == look'[r].pc = "done" /\ look'[r] # look[r]

\* The refresh of r fails: no other lookup ends without its Reread.
RefreshFails(r) == look[r].pc \in {"fetching", "fetched"}

\* A token of the key in use is refused only if the refresh its lookup made
\* failed, if a slower lookup has put back an older document meanwhile, or, with
\* one JWT_KID for all keys, if the key before it is still cached.
GoodTokensRefusedHaveACause ==
  [][\A r \in Requests :
       Ends(r) /\ look'[r].token = signing /\ ~Accepted(look'[r])
         => \/ RefreshFails(r)
            \/ look[r].pc = "stored" /\ cached # look[r].doc
            \/ kids = "fixed" /\ cached # signing /\ age <= Interval
    ]_tokenVars

\* client.go: rotation takes effect "within bounded time".  A token of a key no
\* longer in use is accepted for the interval and the time of a fetch at most,
\* unless the refresh fails: then an entry serves on, however old.
RetiredKeysLapse ==
  [][\A r \in Requests :
       Ends(r) /\ Accepted(look'[r]) /\ look'[r].token # signing
         => since[look'[r].token] <= Interval + FetchTime \/ RefreshFails(r)
    ]_tokenVars
================================================================================
