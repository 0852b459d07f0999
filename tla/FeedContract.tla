------------------------------ MODULE FeedContract ------------------------------
(***************************************************************************)
(* What the realtime notifications promise, whatever gateways crash, Redis *)
(* commands fail and pages come and go: a notification the broker accepted *)
(* stays with it until it is in its addressee's history or its one attempt *)
(* to be written there has failed; a history loses an entry only once it is*)
(* full; and a bell shows only what was accepted for the user who is logged*)
(* in.  That a bell shows all of it, the feed does not promise.            *)
(***************************************************************************)
CONSTANTS Notifs, Users, Pages,
  To,         \* whom a notification is for
  Owner       \* who is logged in on a page

VARIABLES
  offered,    \* what the broker accepted
  pending,    \* what it still holds
  kept,       \* the history of each user
  full,       \* the users whose history may have been trimmed
  failed,     \* what could not be written once
  shown       \* what the bell of each page shows

feedVars == <<offered, pending, kept, full, failed, shown>>

Init ==
  /\ offered = {} /\ pending = {}
  /\ kept = [u \in Users |-> {}]
  /\ full = {} /\ failed = {}
  /\ shown = [p \in Pages |-> {}]

Offer(n) ==
  /\ n \notin offered
  /\ offered' = offered \cup {n}
  /\ pending' = pending \cup {n}
  /\ UNCHANGED <<kept, full, failed, shown>>

Keep(n, entries) ==
  /\ n \in offered
  /\ n \in entries /\ entries \subseteq kept[To[n]] \cup {n}
  /\ kept' = [kept EXCEPT ![To[n]] = entries]
  /\ full' \in {full, full \cup {To[n]}}
  /\ To[n] \in full' \/ kept[To[n]] \subseteq entries
  /\ UNCHANGED <<offered, pending, failed, shown>>

Fail(n) ==
  /\ n \in offered
  /\ failed' = failed \cup {n}
  /\ UNCHANGED <<offered, pending, kept, full, shown>>

Settle(n) ==
  /\ n \in kept[To[n]] \cup failed \/ To[n] \in full
  /\ pending' = pending \ {n}
  /\ UNCHANGED <<offered, kept, full, failed, shown>>

Mail(u) == {n \in offered : To[n] = u}

Show(p, entries) ==
  /\ entries \subseteq Mail(Owner[p])
  /\ shown' = [shown EXCEPT ![p] = entries]
  /\ UNCHANGED <<offered, pending, kept, full, failed>>

Next ==
  \/ \E n \in Notifs :
       Offer(n) \/ Fail(n) \/ Settle(n) \/ \E entries \in SUBSET Notifs : Keep(n, entries)
  \/ \E p \in Pages, entries \in SUBSET Notifs : Show(p, entries)

Spec == Init /\ [][Next]_feedVars
================================================================================
