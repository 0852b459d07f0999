--------------------------------- MODULE Cache ---------------------------------
(***************************************************************************)
(* The response cache of backend/internal/platform/cache/cache.go over one *)
(* Redis: Get, Set and Del, each of which swallows its own failure, and    *)
(* the expiry of an entry once its TTL has passed.  `works' says whether   *)
(* Redis served the command; the caller of these operators bounds how      *)
(* often it does not.                                                      *)
(***************************************************************************)
CONSTANTS
  Keys,
  Values,
  Miss      \* what Get reports for an absent entry, and for an error

VARIABLE stored     \* the entry under each key, or Miss

Init == stored = [key \in Keys |-> Miss]

TypeOK == stored \in [Keys -> Values \cup {Miss}]

\* A miss and a failed command look the same to the caller.
Get(key, works) == IF works THEN stored[key] ELSE Miss

Put(key, value) == stored' = [stored EXCEPT ![key] = value]

Set(key, value, works) == IF works THEN Put(key, value) ELSE UNCHANGED stored

Del(key, works) == IF works THEN Put(key, Miss) ELSE UNCHANGED stored

\* Mutant of Expirable: an entry stored with a TTL of zero never expires.
NeverExpires(key) == FALSE

\* Set gave the entry a TTL.
Expirable(key) == stored[key] # Miss

Expire(key) == Expirable(key) /\ Put(key, Miss)
================================================================================
