----------------------------- MODULE Notifications -----------------------------
(***************************************************************************)
(* Realtime notifications from the queue notifications.realtime to the     *)
(* bell of a browser page:                                                 *)
(*   - every api-gateway consumes the queue with a prefetch of one         *)
(*     (backend/internal/platform/rabbitmq/consumer.go) and its bridge     *)
(*     (backend/internal/gateway/realtime/bridge.go) first PUBLISHes the   *)
(*     message on the addressee's Redis channel and then XADDs it to the   *)
(*     addressee's stream;                                                 *)
(*   - a page (frontend/src/features/notifications/useNotifications.ts)    *)
(*     asks for the stream's recent part once, when it is mounted, and     *)
(*     subscribes to the channel, in whatever order the two are answered.  *)
(*                                                                         *)
(* A notification carries an id made once by its producer, so it is its id *)
(* here.  Publishers are JobMatching (job_match) and Accounts (welcome).   *)
(***************************************************************************)
EXTENDS Lists

CONSTANTS
  Notifs, Users, Pages, Gateways,
  To,             \* whom each notification is for
  Owner,          \* who is logged in on each page
  NoOne,          \* no notification in hand, or no gateway
  StreamMaxLen,   \* streamMaxLen, 50 in the code
  HistoryLimit,   \* notificationHistoryLimit, 50 in the code
  ListLimit,      \* what a live push cuts the list to, 20 in the code
  MaxTroubles     \* bound: failed Redis commands, crashes, shutdowns, lost
                  \* broker connections and reloads of a page, all together

ASSUME Addressed == To \in [Notifs -> Users] /\ Owner \in [Pages -> Users]
ASSUME Limits ==
  /\ {StreamMaxLen, HistoryLimit, ListLimit} \subseteq Nat \ {0}
  /\ ListLimit <= HistoryLimit
ASSUME NoOneIsNobody == NoOne \notin Notifs \cup Gateways

VARIABLES
  ready, unacked, dead, redelivered,    \* the queue, see AmqpQueue
  sent,         \* notifications some service has tried to publish
  accepted,     \* those the broker has taken
  pc,           \* off:     no process          idle:   Run waits for a delivery
                \* publish, append, settle: the handler's next command
                \* deaf:    Run has returned because the deliveries were closed
  handling,     \* the message in the handler's hands
  stopping,     \* the consumer's context is cancelled
  cut,          \* the broker connection is lost, the process does not know yet
  stream,       \* the Redis stream of each user, oldest first
  via,          \* the gateway that holds the page's subscription
  inbox,        \* pushes on their way from Redis to the page
  history,      \* asked, answered, done or failed: the page's one query
  answer,       \* what the query was answered with
  list,         \* what the bell shows, newest first
  troubles,     \* how many of what MaxTroubles bounds have happened
  unwritten,    \* ghost: notifications whose XADD failed
  missed        \* ghost: what a page had a reason not to have been shown

Queue == INSTANCE AmqpQueue
  WITH Messages <- Notifs, Consumers <- Gateways, Prefetch <- 1

queueVars == <<ready, unacked, dead, redelivered>>
senderVars == <<sent, accepted>>
bridgeVars == <<pc, handling, stopping, cut>>
pageVars == <<via, inbox, history, answer, list, missed>>
vars == <<queueVars, senderVars, bridgeVars, stream, pageVars, troubles, unwritten>>

TypeOK ==
  /\ Queue!TypeOK
  /\ sent \subseteq Notifs /\ accepted \subseteq sent
  /\ pc \in [Gateways -> {"off", "idle", "publish", "append", "settle", "deaf"}]
  /\ handling \in [Gateways -> Notifs \cup {NoOne}]
  /\ stopping \in [Gateways -> BOOLEAN] /\ cut \in [Gateways -> BOOLEAN]
  /\ stream \in [Users -> Seq(Notifs)]
  /\ via \in [Pages -> Gateways \cup {NoOne}]
  /\ inbox \in [Pages -> Seq(Notifs)]
  /\ history \in [Pages -> {"asked", "answered", "done", "failed"}]
  /\ answer \in [Pages -> Seq(Notifs)]
  /\ list \in [Pages -> Seq(Notifs)]
  /\ \A p \in Pages : Len(list[p]) <= HistoryLimit
  /\ unwritten \subseteq Notifs
  /\ missed \in [Pages -> SUBSET Notifs]

Init ==
  /\ Queue!Init
  /\ sent = {} /\ accepted = {}
  /\ pc = [g \in Gateways |-> "idle"]
  /\ handling = [g \in Gateways |-> NoOne]
  /\ stopping = [g \in Gateways |-> FALSE]
  /\ cut = [g \in Gateways |-> FALSE]
  /\ stream = [u \in Users |-> <<>>]
  /\ via = [p \in Pages |-> NoOne]
  /\ inbox = [p \in Pages |-> <<>>]
  /\ history = [p \in Pages |-> "asked"]
  /\ answer = [p \in Pages |-> <<>>]
  /\ list = [p \in Pages |-> <<>>]
  /\ troubles = 0
  /\ unwritten = {}
  /\ missed = [p \in Pages |-> {}]

--------------------------------------------------------------------------------
(* Producers: one attempt, whose failure is logged and forgotten.            *)

Send(n) ==
  /\ n \notin sent
  /\ sent' = sent \cup {n}
  /\ \/ Queue!Enqueue(n) /\ accepted' = accepted \cup {n}
     \/ UNCHANGED <<queueVars, accepted>>
  /\ UNCHANGED <<bridgeVars, stream, pageVars, troubles, unwritten>>

--------------------------------------------------------------------------------
(* The gateway's consumer.  Run's select may still take a delivery after its *)
(* context is cancelled, as long as the broker hands one out.                *)

Take(g) ==
  /\ pc[g] = "idle" /\ ~cut[g]
  /\ \E n \in Notifs :
       /\ Queue!Dispatch(g, n)
       /\ handling' = [handling EXCEPT ![g] = n]
  /\ pc' = [pc EXCEPT ![g] = "publish"]
  /\ UNCHANGED <<senderVars, stopping, cut, stream, pageVars, troubles, unwritten>>

Trouble == troubles < MaxTroubles /\ troubles' = troubles + 1

\* A Redis command of the handler fails: Redis is at fault, or the context the
\* command runs under has been cancelled by the shutdown.
CommandFails(g) ==
  IF stopping[g] THEN UNCHANGED troubles ELSE Trouble

\* Mutant of AfterPublish: the history is only for users nobody could push to.
HistoryIfUnheard(n) ==
  IF \E p \in Pages : via[p] # NoOne /\ Owner[p] = To[n] THEN "settle" ELSE "append"

\* The command after PUBLISH, whether it worked or not.
AfterPublish(n) == "append"

Listening(n) == {p \in Pages : via[p] # NoOne /\ Owner[p] = To[n]}

\* PUBLISH reaches the pages subscribed at this moment, through any gateway.
Publish(g) ==
  LET n == handling[g] IN
  /\ pc[g] = "publish"
  /\ pc' = [pc EXCEPT ![g] = AfterPublish(handling[g])]
  /\ inbox' = [p \in Pages |->
                 IF p \in Listening(n) THEN Append(inbox[p], n) ELSE inbox[p]]
  /\ missed' = [p \in Pages |->
                  IF Owner[p] = To[n] /\ via[p] = NoOne
                  THEN missed[p] \cup {n} ELSE missed[p]]
  /\ UNCHANGED <<queueVars, senderVars, handling, stopping, cut, stream, via,
                 history, answer, list, troubles, unwritten>>

PublishFails(g) ==
  /\ pc[g] = "publish"
  /\ CommandFails(g)
  /\ pc' = [pc EXCEPT ![g] = AfterPublish(handling[g])]
  /\ missed' = [p \in Pages |->
                  IF Owner[p] = To[handling[g]]
                  THEN missed[p] \cup {handling[g]} ELSE missed[p]]
  /\ UNCHANGED <<queueVars, senderVars, handling, stopping, cut, stream, via, inbox,
                 history, answer, list, unwritten>>

\* XADD with approximate trimming: Redis may keep more than StreamMaxLen.
AppendEntry(g) ==
  LET n == handling[g]  longer == Append(stream[To[n]], n) IN
  /\ pc[g] = "append"
  /\ pc' = [pc EXCEPT ![g] = "settle"]
  /\ \E kept \in 1..Len(longer) :
       /\ kept = Len(longer) \/ kept >= StreamMaxLen
       /\ stream' = [stream EXCEPT ![To[n]] =
                       SubSeq(longer, Len(longer) - kept + 1, Len(longer))]
  /\ UNCHANGED <<queueVars, senderVars, handling, stopping, cut, pageVars,
                 troubles, unwritten>>

AppendFails(g) ==
  /\ pc[g] = "append"
  /\ CommandFails(g)
  /\ pc' = [pc EXCEPT ![g] = "settle"]
  /\ unwritten' = unwritten \cup {handling[g]}
  /\ UNCHANGED <<queueVars, senderVars, handling, stopping, cut, stream, pageVars>>

\* Mutant of Acknowledged: the handler's result is never acknowledged.
NeverAcknowledged(g) == FALSE

\* The ack of a delivery fails on a connection that is gone.
Acknowledged(g) == ~cut[g]

Settle(g) ==
  /\ pc[g] = "settle"
  /\ IF Acknowledged(g) THEN Queue!Ack(g, handling[g]) ELSE UNCHANGED queueVars
  /\ handling' = [handling EXCEPT ![g] = NoOne]
  /\ pc' = [pc EXCEPT ![g] = "idle"]
  /\ UNCHANGED <<senderVars, stopping, cut, stream, pageVars, troubles, unwritten>>

\* Run finds the delivery channel closed, returns, and nothing calls it again.
GoDeaf(g) ==
  /\ pc[g] = "idle" /\ cut[g]
  /\ pc' = [pc EXCEPT ![g] = "deaf"]
  /\ UNCHANGED <<queueVars, senderVars, handling, stopping, cut, stream, pageVars,
                 troubles, unwritten>>

--------------------------------------------------------------------------------
(* The gateway process and its broker connection.                            *)

Cut(g) ==
  /\ pc[g] # "off" /\ ~cut[g]
  /\ Trouble
  /\ Queue!Release(g)
  /\ cut' = [cut EXCEPT ![g] = TRUE]
  /\ UNCHANGED <<senderVars, pc, handling, stopping, stream, pageVars, unwritten>>

\* main's first cleanup: the HTTP server takes no more requests by now.
Stop(g) ==
  /\ pc[g] # "off" /\ ~stopping[g]
  /\ Trouble
  /\ stopping' = [stopping EXCEPT ![g] = TRUE]
  /\ UNCHANGED <<queueVars, senderVars, pc, handling, cut, stream, pageVars, unwritten>>

\* The process ends: its subscriptions end with it, and so does what Redis had
\* pushed to them.
Ended(g) ==
  /\ pc' = [pc EXCEPT ![g] = "off"]
  /\ handling' = [handling EXCEPT ![g] = NoOne]
  /\ stopping' = [stopping EXCEPT ![g] = FALSE]
  /\ cut' = [cut EXCEPT ![g] = FALSE]
  /\ via' = [p \in Pages |-> IF via[p] = g THEN NoOne ELSE via[p]]
  /\ inbox' = [p \in Pages |-> IF via[p] = g THEN <<>> ELSE inbox[p]]
  /\ missed' = [p \in Pages |->
                  missed[p] \cup IF via[p] = g THEN ToSet(inbox[p]) ELSE {}]
  /\ IF cut[g] THEN UNCHANGED queueVars ELSE Queue!Release(g)
  /\ UNCHANGED <<senderVars, stream, history, answer, list, unwritten>>

\* Run has returned, Close and the exit follow.
Exit(g) ==
  /\ stopping[g] /\ pc[g] \in {"idle", "deaf"}
  /\ Ended(g)
  /\ UNCHANGED troubles

Crash(g) == pc[g] # "off" /\ Trouble /\ Ended(g)

Start(g) ==
  /\ pc[g] = "off"
  /\ pc' = [pc EXCEPT ![g] = "idle"]
  /\ UNCHANGED <<queueVars, senderVars, handling, stopping, cut, stream, pageVars,
                 troubles, unwritten>>

Serving(g) == pc[g] # "off" /\ ~stopping[g]

--------------------------------------------------------------------------------
(* A page.                                                                   *)

\* connection_init and Redis SUBSCRIBE, the first time or after a lost socket:
\* what the previous connection was pushed is not asked for again.
Subscribe(p) ==
  /\ via[p] = NoOne
  /\ \E g \in Gateways : Serving(g) /\ via' = [via EXCEPT ![p] = g]
  /\ UNCHANGED <<queueVars, senderVars, bridgeVars, stream, inbox, history, answer,
                 list, missed, troubles, unwritten>>

\* XREVRANGE + - COUNT HistoryLimit.
Recent(entries) ==
  LET newestFirst == Reverse(entries)
  IN  SubSeq(newestFirst, 1, IF HistoryLimit < Len(entries)
                             THEN HistoryLimit ELSE Len(entries))

\* notificationHistory: a failed XREVRANGE is an empty history, not an error.
\* What it answers can no longer be missing because of an earlier push.
AnswerHistory(p) ==
  /\ history[p] = "asked"
  /\ \E g \in Gateways : Serving(g)
  /\ history' = [history EXCEPT ![p] = "answered"]
  /\ \/ /\ answer' = [answer EXCEPT ![p] = Recent(stream[Owner[p]])]
        /\ missed' = [missed EXCEPT ![p] = @ \ ToSet(Recent(stream[Owner[p]]))]
        /\ UNCHANGED troubles
     \/ /\ Trouble
        /\ missed' = [missed EXCEPT ![p] = @ \cup ToSet(stream[Owner[p]])]
        /\ UNCHANGED answer
  /\ UNCHANGED <<queueVars, senderVars, bridgeVars, stream, via, inbox, list, unwritten>>

\* The promise of the history query resolves: it REPLACES the list.
ShowHistory(p) ==
  /\ history[p] = "answered"
  /\ history' = [history EXCEPT ![p] = "done"]
  /\ list' = [list EXCEPT ![p] = answer[p]]
  /\ answer' = [answer EXCEPT ![p] = <<>>]
  /\ missed' = [missed EXCEPT ![p] = @ \cup (ToSet(list[p]) \ ToSet(answer[p]))]
  /\ UNCHANGED <<queueVars, senderVars, bridgeVars, stream, via, inbox, troubles,
                 unwritten>>

\* The request fails, or its answer is lost: logged, the list stays.
LoseHistory(p) ==
  /\ history[p] \in {"asked", "answered"}
  /\ \E g \in Gateways : ~Serving(g)
  /\ history' = [history EXCEPT ![p] = "failed"]
  /\ answer' = [answer EXCEPT ![p] = <<>>]
  /\ missed' = [missed EXCEPT ![p] = Notifs]
  /\ UNCHANGED <<queueVars, senderVars, bridgeVars, stream, via, inbox, list,
                 troubles, unwritten>>

\* Mutant of Pushed: the list is not searched for the id.
Prepended(n, shown) ==
  SubSeq(<<n>> \o shown, 1, IF ListLimit <= Len(shown) THEN ListLimit ELSE Len(shown) + 1)

\* Mutant of Pushed: no slice.
Unlimited(n, shown) == <<n>> \o SelectSeq(shown, LAMBDA other : other # n)

\* Mutant of Pushed: the push becomes the list.
Alone(n, shown) == <<n>>

\* [notif, ...prev.filter(other ids)].slice(0, ListLimit)
Pushed(n, shown) ==
  LET others == AtPlaces(shown, {i \in DOMAIN shown : shown[i] # n})
  IN  SubSeq(<<n>> \o others, 1,
             IF ListLimit <= Len(others) THEN ListLimit ELSE Len(others) + 1)

ShowPush(p) ==
  /\ inbox[p] # <<>>
  /\ inbox' = [inbox EXCEPT ![p] = Tail(@)]
  /\ list' = [list EXCEPT ![p] = Pushed(Head(inbox[p]), list[p])]
  /\ missed' = [missed EXCEPT ![p] =
                  @ \cup IF Len(list[p]) >= ListLimit THEN ToSet(list[p]) ELSE {}]
  /\ UNCHANGED <<queueVars, senderVars, bridgeVars, stream, via, history, answer,
                 troubles, unwritten>>

\* The page is reloaded: its effect is cleaned up, and the new one starts over,
\* too late for what a bridge has already pushed and not yet recorded.
Refresh(p) ==
  /\ Trouble
  /\ via' = [via EXCEPT ![p] = NoOne]
  /\ inbox' = [inbox EXCEPT ![p] = <<>>]
  /\ history' = [history EXCEPT ![p] = "asked"]
  /\ answer' = [answer EXCEPT ![p] = <<>>]
  /\ list' = [list EXCEPT ![p] = <<>>]
  /\ missed' = [missed EXCEPT ![p] = {handling[g] : g \in {b \in Gateways : pc[b] = "append"}}]
  /\ UNCHANGED <<queueVars, senderVars, bridgeVars, stream, unwritten>>

--------------------------------------------------------------------------------
HandlerStep(g) ==
  \/ Take(g) \/ Publish(g) \/ AppendEntry(g) \/ Settle(g) \/ GoDeaf(g)
  \/ PublishFails(g) \/ AppendFails(g)

GatewayStep(g) ==
  \/ HandlerStep(g)
  \/ Cut(g) \/ Stop(g) \/ Exit(g) \/ Crash(g) \/ Start(g)

PageStep(p) ==
  \/ Subscribe(p) \/ AnswerHistory(p) \/ ShowHistory(p) \/ LoseHistory(p)
  \/ ShowPush(p) \/ Refresh(p)

Next ==
  \/ \E n \in Notifs : Send(n)
  \/ \E g \in Gateways : GatewayStep(g)
  \/ \E p \in Pages : PageStep(p)

Spec == Init /\ [][Next]_vars

\* Goroutines run, the broker hands out what it holds, a stopped process exits,
\* and docker-compose's `restart: unless-stopped' starts it again.
Fairness ==
  \A g \in Gateways : WF_vars(HandlerStep(g)) /\ WF_vars(Exit(g)) /\ WF_vars(Start(g))

FairSpec == Spec /\ Fairness

--------------------------------------------------------------------------------
(* Safety.                                                                   *)

Recorded(n) ==
  \/ n \in ToSet(stream[To[n]])
  \/ Len(stream[To[n]]) >= StreamMaxLen     \* trimmed away by newer ones

\* Nothing the broker accepted leaves the queue without being in the history its
\* addressee can ask for, unless its XADD was tried and failed.  (The order of
\* bridge.go's two commands and consumer.go's ack, across crashes, lost
\* connections and the cancelled context of a shutdown.)
HistoryIsComplete ==
  \A n \in accepted : Recorded(n) \/ Queue!Waiting(n) \/ n \in unwritten

\* The bell never shows one notification twice, although the list is made of an
\* answer and of pushes that overlap, unless the broker delivered it twice.
RepeatsNeedRedelivery ==
  \A p \in Pages : \A i, j \in 1..Len(list[p]) :
    i # j /\ list[p][i] = list[p][j] => list[p][i] \in redelivered

\* Nothing is on its way to the page.
Settled(p) == inbox[p] = <<>> /\ history[p] = "done"

\* The notifications the history would show now and the bell does not.
Missing(p) == ToSet(Recent(stream[Owner[p]])) \ ToSet(list[p])

\* A settled page shows the whole recent history, except what was pushed while it
\* was not subscribed and its history had been read already, what the limit or its
\* own history answer has taken from it, and what a failed command or a lost
\* connection kept from it.
MissesHaveACause ==
  \A p \in Pages : Settled(p) => Missing(p) \subseteq missed[p]

\* A handler is between two commands.
Recording == \E g \in Gateways : pc[g] \in {"append", "settle"}

\* What useNotifications.ts says of itself: pushes go in front of the backfilled
\* list and cover the gap between history and subscription, so a page that is
\* subscribed and settled shows the whole recent history unless its list is full.
GapIsCovered ==
  \A p \in Pages :
    Settled(p) /\ via[p] # NoOne /\ Len(list[p]) < ListLimit /\ ~Recording => Missing(p) = {}

Feed == INSTANCE FeedContract
  WITH offered <- accepted,
       pending <- {n \in Notifs : Queue!Waiting(n)},
       kept <- [u \in Users |-> ToSet(stream[u])],
       full <- {u \in Users : Len(stream[u]) >= StreamMaxLen},
       failed <- unwritten,
       shown <- [p \in Pages |-> ToSet(list[p])]

\* The queue, the bridges, the streams and the pages together keep the promise of
\* FeedContract: through redelivery, lost connections, shutdowns and reloads, an
\* accepted notification is not let go before it is in the history, and none
\* reaches the bell of somebody else (bridge.go's channel and stream per user).
KeepsFeed == Feed!Spec

--------------------------------------------------------------------------------
(* Liveness.                                                                 *)

\* An accepted notification is handled, through crashes and restarts, unless
\* every gateway has gone deaf: its process is up but consumes no more.
QueuedIsHandled ==
  \A n \in Notifs :
    Queue!Waiting(n) ~> (~Queue!Waiting(n) \/ \A g \in Gateways : pc[g] = "deaf")
================================================================================
