-------------------------------- MODULE JobDraft --------------------------------
(***************************************************************************)
(* The draft of a job posting (frontend/src/features/jobs/NewJobPage.tsx   *)
(* over lib/storage/jobDraftDb.ts): what is typed is saved to IndexedDB    *)
(* after a pause, restored when the page is opened again, and removed when *)
(* it is discarded or posted.  None of these waits for another: they are   *)
(* transactions on one object store, which the browser runs in the order   *)
(* they were asked for, long after the page may have gone.                 *)
(***************************************************************************)
EXTENDS Naturals, Sequences

CONSTANTS
  Drafts,           \* contents of the form with something in them
  Blank,            \* the empty form
  NoDraft,
  MaxVisits,        \* bound: openings of the page
  MaxQueue,         \* bound: transactions under way
  MaxDraftFaults    \* bound: transactions that fail, and tabs closed over one

ASSUME DraftsDiffer == {Blank, NoDraft} \cap Drafts = {} /\ Blank # NoDraft

VARIABLES
  page,         \* away, open or leaving
  posting,      \* the visits whose createJob is under way
  form,
  restored,     \* the banner with the button Discard is shown
  saveTimer,    \* the values the pending timer will save, or NoDraft
  disk,         \* the record "current" of the store
  queue,        \* transactions not run yet: what they put, or a delete or a get
  visits, draftFaults,
  \* History:
  over,         \* nothing was typed since the draft was discarded or submitted
  overrun       \* the timer fired after createJob's answer, before the page went

draftVars == <<page, posting, form, restored, saveTimer, disk, queue, visits, draftFaults, over, overrun>>

Delete == [does |-> "delete"]
Get(visit) == [does |-> "get", visit |-> visit]
Put(draft) == [does |-> "put", draft |-> draft]

DraftInit ==
  /\ page = "away" /\ posting = {} /\ form = Blank /\ restored = FALSE /\ saveTimer = NoDraft
  /\ disk = NoDraft /\ queue = <<>>
  /\ visits = 0 /\ draftFaults = 0
  /\ over = FALSE /\ overrun = FALSE

Here == page # "away"

Ask(transaction) == Len(queue) < MaxQueue /\ queue' = Append(queue, transaction)

--------------------------------------------------------------------------------
(* The page *)

Mount ==
  /\ page = "away" /\ visits < MaxVisits
  /\ Ask(Get(visits + 1))
  /\ page' = "open" /\ form' = Blank /\ restored' = FALSE /\ visits' = visits + 1
  /\ UNCHANGED <<posting, saveTimer, disk, draftFaults, over, overrun>>

\* The callback of form.watch: the timer starts again with the values now.
\* form.reset notifies it as typing does.
Watch(values) == saveTimer' = values

Edit(values) ==
  /\ Here
  /\ form' = values /\ Watch(values)
  /\ over' = FALSE /\ overrun' = FALSE
  /\ UNCHANGED <<page, posting, restored, disk, queue, visits, draftFaults>>

Savable(values) == values # Blank

TimerFires ==
  /\ saveTimer # NoDraft /\ saveTimer' = NoDraft
  /\ IF Savable(saveTimer) THEN Ask(Put(saveTimer)) ELSE UNCHANGED queue
  /\ overrun' = (overrun \/ page = "leaving")
  /\ UNCHANGED <<page, posting, form, restored, disk, visits, draftFaults, over>>

\* Mutant of Reset: the watch callback is not told.
Silently(values) == form' = values /\ UNCHANGED saveTimer

Reset(values) == form' = values /\ Watch(values)

discardDraft ==
  /\ Here /\ restored
  /\ Ask(Delete)
  /\ Reset(Blank) /\ restored' = FALSE
  /\ over' = TRUE /\ overrun' = FALSE
  /\ UNCHANGED <<page, posting, disk, visits, draftFaults>>

Submit ==
  /\ page = "open" /\ form # Blank /\ visits \notin posting
  /\ posting' = posting \cup {visits} /\ over' = TRUE /\ overrun' = FALSE
  /\ UNCHANGED <<page, form, restored, saveTimer, disk, queue, visits, draftFaults>>

PostFails(visit) ==
  /\ visit \in posting
  /\ posting' = posting \ {visit} /\ over' = FALSE
  /\ UNCHANGED <<page, form, restored, saveTimer, disk, queue, visits, draftFaults, overrun>>

\* onSuccess, even if the page that submitted is gone or open again.
Posted(visit) ==
  /\ visit \in posting
  /\ posting' = posting \ {visit}
  /\ Ask(Delete)
  /\ page' = IF Here THEN "leaving" ELSE "away"
  /\ UNCHANGED <<form, restored, saveTimer, disk, visits, draftFaults, over, overrun>>

\* Mutant of TimerAfter: the cleanup forgets the timer.
TimerGoesOn == saveTimer

TimerAfter == NoDraft

\* navigate, or the user goes elsewhere: the cleanup clears the timer.
Unmount ==
  /\ Here
  /\ page' = "away" /\ saveTimer' = TimerAfter
  /\ UNCHANGED <<posting, form, restored, disk, queue, visits, draftFaults, over, overrun>>

\* The tab is closed or reloaded, and what was under way with it: a job may be
\* posted without its draft being removed.
CloseTab ==
  /\ Here
  /\ queue # <<>> => draftFaults < MaxDraftFaults
  /\ draftFaults' = IF queue = <<>> THEN draftFaults ELSE draftFaults + 1
  /\ page' = "away" /\ saveTimer' = NoDraft /\ queue' = <<>>
  /\ posting' = {} /\ over' = (over /\ posting = {})
  /\ UNCHANGED <<form, restored, disk, visits, overrun>>

--------------------------------------------------------------------------------
(* The store *)

\* The page that asked for the draft is still there, and there is one.
Restorable(transaction) == Here /\ transaction.visit = visits /\ disk # NoDraft

Restore ==
  /\ queue # <<>> /\ Head(queue).does = "get" /\ Restorable(Head(queue))
  /\ Reset(disk) /\ restored' = TRUE
  /\ queue' = Tail(queue)
  /\ over' = FALSE
  /\ UNCHANGED <<page, posting, disk, visits, draftFaults, overrun>>

Transact ==
  /\ queue # <<>>
  /\ Head(queue).does = "get" => ~Restorable(Head(queue))
  /\ disk' = CASE Head(queue).does = "put" -> Head(queue).draft
               [] Head(queue).does = "delete" -> NoDraft
               [] OTHER -> disk
  /\ queue' = Tail(queue)
  /\ UNCHANGED <<page, posting, form, restored, saveTimer, visits, draftFaults, over, overrun>>

\* Nobody looks at a promise that is rejected.
TransactionFails ==
  /\ queue # <<>> /\ draftFaults < MaxDraftFaults
  /\ draftFaults' = draftFaults + 1
  /\ queue' = Tail(queue)
  /\ UNCHANGED <<page, posting, form, restored, saveTimer, disk, visits, over, overrun>>

DraftNext ==
  \/ Mount \/ \E values \in Drafts \cup {Blank} : Edit(values)
  \/ TimerFires \/ discardDraft \/ Submit
  \/ \E visit \in posting : PostFails(visit) \/ Posted(visit)
  \/ Unmount \/ CloseTab
  \/ Restore \/ Transact \/ TransactionFails

DraftSpec == DraftInit /\ [][DraftNext]_draftVars

--------------------------------------------------------------------------------
(* Properties *)

\* Nothing of the draft is left to come: no transaction, no timer, no answer.
DraftSettled == page = "away" /\ posting = {} /\ queue = <<>>

\* jobDraftDb.ts:12-14: the draft is there "until you actually submit, at which
\* point clearDraft() removes it".  A draft discarded or posted is not there
\* again, though saves, timers and removals overlap, unless its own timer ran out
\* in the moment between the answer and the change of page, or a transaction
\* failed.
DraftsReturnForACause ==
  DraftSettled /\ over /\ ~overrun /\ draftFaults = 0 => disk = NoDraft
================================================================================
