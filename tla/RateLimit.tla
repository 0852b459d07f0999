------------------------------- MODULE RateLimit -------------------------------
(***************************************************************************)
(* api-gateway's fixed-window rate limiter: the middleware of              *)
(* gateway/ratelimit over cache.go's Incr, which is two Redis commands, an *)
(* INCR and, on the increment that creates the counter, an EXPIRE.  Time   *)
(* passes in ticks; a counter whose TTL runs out is gone.                  *)
(*                                                                         *)
(* Only whether a count is one and whether it exceeds the limit is asked,  *)
(* so counts saturate above it.                                            *)
(***************************************************************************)
EXTENDS Naturals

CONSTANTS
  ApiRequests,      \* requests the gateway can be in the middle of
  Users, Addresses,
  Anonymous,        \* no verified user id
  Limit,            \* requests per window and key
  Window,           \* length of a window in ticks
  MaxLost           \* bound: EXPIREs that are never applied

ASSUME LimitIsPositive == Limit \in Nat \ {0} /\ Window \in Nat \ {0} /\ MaxLost \in Nat
ASSUME NamesDiffer == Anonymous \notin Users /\ Users \cap Addresses = {}

VARIABLES
  count,      \* the counter of each key, 0 when there is none
  ttl,        \* the ticks it has left, 0 when it has no expiry
  progress,   \* what each request last did
  lost,
  \* History, read by properties only:
  recent,     \* per key and age, the requests admitted at most so many ticks ago
  used        \* per identity, the requests admitted in the life of its counter

limiterVars == <<count, ttl, progress, lost, recent, used>>

Keys == Users \cup Addresses
Ages == 0 .. Window - 1

Progress == [pc: {"idle", "created", "admitted", "rejected"}, key: Keys, identity: Keys]

LimiterInit ==
  /\ count = [key \in Keys |-> 0]
  /\ ttl = [key \in Keys |-> 0]
  /\ \E key \in Keys : progress = [r \in ApiRequests |-> [pc |-> "idle", key |-> key, identity |-> key]]
  /\ lost = 0
  /\ recent = [key \in Keys |-> [age \in Ages |-> 0]]
  /\ used = [key \in Keys |-> 0]

\* Whose budget a request ought to use.
Identity(user, address) == IF user = Anonymous THEN address ELSE user

\* Mutant of rateLimitKey: the address counts, whoever is signed in.
AddressOnly(user, address) == address

\* The verified user id if the request carries one, else its address.
rateLimitKey(user, address) == IF user # Anonymous THEN user ELSE address

\* Mutant of Exceeds: off by one.
ExceedsByOne(n) == n >= Limit + 2

Exceeds(n) == n > Limit

\* Mutant of Creates: every increment renews the expiry.
Renews(n) == TRUE

Creates(n) == n = 1

Idle(r) == progress[r].pc # "created"

\* INCR.  The count it returns decides the request, and whether an EXPIRE is due.
Incr(r, user, address) ==
  LET key == rateLimitKey(user, address)
      identity == Identity(user, address)
      n == count[key] + 1
      admit == ~Exceeds(n)
  IN  /\ Idle(r)
      /\ count' = [count EXCEPT ![key] = IF n > Limit + 2 THEN Limit + 2 ELSE n]
      /\ progress' = [progress EXCEPT ![r] =
                       [pc |-> IF Creates(n) THEN "created" ELSE IF admit THEN "admitted" ELSE "rejected",
                        key |-> key, identity |-> identity]]
      /\ recent' = [recent EXCEPT ![key] = [age \in Ages |-> IF admit THEN @[age] + 1 ELSE @[age]]]
      /\ used' = [used EXCEPT ![identity] = IF admit THEN @ + 1 ELSE @]
      /\ UNCHANGED <<ttl, lost>>

\* Redis does not answer the INCR: the request goes through uncounted.
FailOpen(r, user, address) ==
  /\ Idle(r)
  /\ progress' = [progress EXCEPT ![r] =
                   [pc |-> "admitted", key |-> rateLimitKey(user, address),
                    identity |-> Identity(user, address)]]
  /\ UNCHANGED <<count, ttl, lost, recent, used>>

Lifetime == Window

\* EXPIRE of the counter just created, then the request goes through.
SetExpiry(r) ==
  /\ progress[r].pc = "created"
  /\ ttl' = [ttl EXCEPT ![progress[r].key] = Lifetime]
  /\ progress' = [progress EXCEPT ![r].pc = "admitted"]
  /\ UNCHANGED <<count, lost, recent, used>>

\* The EXPIRE failed, the client went away between the two commands, or the
\* gateway died: nobody sets an expiry on this counter any more.
LoseExpiry(r) ==
  /\ progress[r].pc = "created"
  /\ lost < MaxLost /\ lost' = lost + 1
  /\ progress' = [progress EXCEPT ![r].pc = "admitted"]
  /\ UNCHANGED <<count, ttl, recent, used>>

Tick ==
  LET over == {key \in Keys : ttl[key] = 1}
  IN  /\ count' = [key \in Keys |-> IF key \in over THEN 0 ELSE count[key]]
      /\ ttl' = [key \in Keys |-> IF ttl[key] = 0 THEN 0 ELSE ttl[key] - 1]
      /\ recent' = [key \in Keys |-> [age \in Ages |-> IF age = 0 THEN 0 ELSE recent[key][age - 1]]]
      /\ used' = [key \in Keys |-> IF key \in over THEN 0 ELSE used[key]]
      /\ UNCHANGED <<progress, lost>>

LimiterNext ==
  \/ \E r \in ApiRequests :
       \/ \E user \in Users \cup {Anonymous}, address \in Addresses :
            Incr(r, user, address) \/ FailOpen(r, user, address)
       \/ SetExpiry(r)
       \/ LoseExpiry(r)
  \/ Tick

LimiterSpec == LimiterInit /\ [][LimiterNext]_limiterVars

\* Time passes, and a request the gateway has begun is carried on.
FairLimiterSpec ==
  /\ LimiterSpec
  /\ WF_limiterVars(Tick)
  /\ \A r \in ApiRequests : WF_limiterVars(SetExpiry(r))

--------------------------------------------------------------------------------
(* Properties *)

LimiterTypeOK ==
  /\ count \in [Keys -> 0 .. Limit + 2]
  /\ ttl \in [Keys -> 0 .. Window]
  /\ progress \in [ApiRequests -> Progress]
  /\ lost \in 0 .. MaxLost
  /\ recent \in [Keys -> [Ages -> Nat]]
  /\ used \in [Keys -> Nat]

\* A fixed window lets at most twice the limit through in any Window ticks, the
\* burst at the window boundary docs/DECISIONS.md accepts, however requests
\* interleave and however late an EXPIRE comes.
BurstAtMostTwice ==
  \A key \in Keys : recent[key][Window - 1] <= 2 * Limit

\* A caller is turned away only when its own identity has had the whole budget
\* of the window: not because of others behind its address.
RejectionsAreEarned ==
  [][\A r \in ApiRequests :
       progress'[r] # progress[r] /\ progress'[r].pc = "rejected"
         => used[progress'[r].identity] >= Limit]_limiterVars

\* docs/DECISIONS.md: the fixed window "actually recovers rather than latching
\* shut".  A key that is turned away gets a new budget, unless an EXPIRE was
\* lost: a counter whose EXPIRE is lost is never given one again.
BudgetsReturn == \A key \in Keys : count[key] > Limit ~> count[key] = 0 \/ lost > 0
================================================================================
