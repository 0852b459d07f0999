---------------------------- MODULE MCNotifications ----------------------------
(***************************************************************************)
(* What the browser shows and keeps: the bell, on small instances with all *)
(* notifications for the page's user, and the draft of a job posting.  The *)
(* two share no state and are run one at a time: each moves only while the *)
(* other is in its initial state.                                          *)
(***************************************************************************)
EXTENDS Notifications, JobDraft, TLC

CONSTANT u1
MCTo == [n \in Notifs |-> u1]
MCOwner == [p \in Pages |-> u1]
MCSymmetry == Permutations(Notifs) \cup Permutations(Gateways)

MCNext ==
  \/ Next /\ DraftInit /\ UNCHANGED draftVars
  \/ DraftNext /\ Init /\ UNCHANGED vars

MCInit == Init /\ DraftInit
MCSpec == MCInit /\ [][MCNext]_<<vars, draftVars>> /\ Fairness
================================================================================
