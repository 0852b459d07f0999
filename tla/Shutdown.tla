-------------------------------- MODULE Shutdown --------------------------------
(***************************************************************************)
(* The end of a process of this platform: shutdown.Wait                    *)
(* (backend/internal/platform/shutdown), for any program built on it.  A   *)
(* program is its gRPC servers, its HTTP servers in the order they are     *)
(* shut down, its groups of consumers (one per broker, started only if the *)
(* broker is configured), which clients each of these uses, which server   *)
(* calls which within the process, and its cleanups in order.              *)
(* The six programs of the repository are in the module Services.          *)
(***************************************************************************)
EXTENDS Naturals, Sequences

CONSTANTS
  Binaries, Programs,   \* Programs[b]: the record of program b
  Requests, Nowhere

Outcomes == {"answered", "refused", "cut"}

Elements(list) == {list[i] : i \in DOMAIN list}

\* A server is of one kind and is shut down once; one calls another over gRPC.
ASSUME ServersAreDistinct ==
  \A b \in Binaries :
    LET p == Programs[b]
        http == Elements(p.http)
    IN  /\ p.http \in Seq(http) /\ \A i, j \in DOMAIN p.http : p.http[i] = p.http[j] => i = j
        /\ p.grpc \cap http = {}
        /\ (p.grpc \cup http) \cap (Outcomes \cup {Nowhere}) = {}
        /\ p.calls \subseteq http \X p.grpc
ASSUME NowhereIsNone == Nowhere \notin Outcomes

\* What a consumer uses is closed after it is stopped.
ASSUME StopsComeFirst ==
  \A b \in Binaries :
    LET p == Programs[b]
        list == p.cleanups
    IN  /\ list \in Seq(Elements(list))
        /\ \A c \in UNION p.groups, i \in DOMAIN list :
             list[i].does = "close" /\ p.uses[c] \cap list[i].what # {}
               => \E j \in 1 .. i - 1 : list[j].does = "stop" /\ c \in list[j].what

\* A cleanup stops consumers or closes clients, and those that shake hands are
\* not closed together with others.
ASSUME StopsAndCloses ==
  \A b \in Binaries :
    LET p == Programs[b]
    IN  \A i \in DOMAIN p.cleanups :
          LET cleanup == p.cleanups[i]
          IN  \/ cleanup.does = "stop" /\ cleanup.what \subseteq UNION p.groups
              \/ /\ cleanup.does = "close"
                 /\ cleanup.what \subseteq p.handshakes \/ cleanup.what \cap p.handshakes = {}

VARIABLES
  binary,       \* which program this process runs
  stage,        \* serving, grpc, http, cleanup or exited
  step,         \* the HTTP server being shut down, or the cleanup being run
  expired,      \* shutdownCtx is over
  request,      \* where each request is, see Request
  consumer,     \* absent, idle, handling or stopped
  closed,       \* the clients closed so far
  wedged        \* broker clients whose close handshake is never answered

vars == <<binary, stage, step, expired, request, consumer, closed, wedged>>

Grpc == Programs[binary].grpc
Http == Programs[binary].http
Cleanups == Programs[binary].cleanups
Uses(x) == Programs[binary].uses[x]
Calls == Programs[binary].calls

HttpServers == Elements(Http)
\* at:     the server whose handler runs, Nowhere before, an outcome after
\* within: the HTTP server that waits for it, for a call inside the process
\* socket: it is a WebSocket, which net/http forgets once it is hijacked
\* cut:    its connection was closed under the handler
NewRequest == [at |-> Nowhere, within |-> Nowhere, socket |-> FALSE, cut |-> FALSE]

Init ==
  /\ binary \in Binaries
  /\ stage = "serving" /\ step = 0 /\ expired = FALSE
  /\ request = [r \in Requests |-> NewRequest]
  /\ \E missing \in SUBSET Programs[binary].groups :
       consumer = [c \in UNION Programs[binary].groups |-> IF c \in UNION missing THEN "absent" ELSE "idle"]
  /\ closed = {}
  /\ wedged \in {{}, Programs[binary].handshakes}

--------------------------------------------------------------------------------
(* Requests and consumers *)

Running(r) == request[r].at \in Grpc \cup HttpServers

\* The servers whose handlers hold r: the one it is at, and its caller.
Holders(r) == {request[r].at, request[r].within} \ {Nowhere}

Accepting(s) ==
  \/ stage = "serving"
  \/ s \notin Grpc /\ stage = "grpc"
  \/ stage = "http" /\ \E i \in step + 1 .. Len(Http) : Http[i] = s

Arrive(r, s, socket) ==
  /\ request[r].at = Nowhere
  /\ Accepting(s)
  /\ socket => s \in Programs[binary].upgrades
  /\ request' = [request EXCEPT ![r].at = s, ![r].socket = socket]
  /\ UNCHANGED <<binary, stage, step, expired, consumer, closed, wedged>>

\* The handler at a calls server s of its own process.  A server that drains,
\* or a closed connection, answers Unavailable: a request then ends with an
\* error, a WebSocket goes on.
CallInside(r, s) ==
  LET caller == request[r].at
  IN  /\ Running(r) /\ <<caller, s>> \in Calls
      /\ IF Accepting(s) /\ Uses(caller) \cap closed = {}
           THEN request' = [request EXCEPT ![r].at = s, ![r].within = caller]
           ELSE /\ ~request[r].socket
                /\ request' = [request EXCEPT ![r].at = "refused"]
      /\ UNCHANGED <<binary, stage, step, expired, consumer, closed, wedged>>

\* The handler returns: to its caller, or to the client.
Reply(r) ==
  /\ Running(r) /\ stage # "exited"
  /\ request' = [request EXCEPT
       ![r].at = IF request[r].cut THEN "cut"
                 ELSE IF request[r].within # Nowhere THEN request[r].within ELSE "answered",
       ![r].within = Nowhere]
  /\ UNCHANGED <<binary, stage, step, expired, consumer, closed, wedged>>

StopsAt(i) == IF Cleanups[i].does = "stop" THEN Cleanups[i].what ELSE {}

\* The context of c is cancelled by the cleanup that waits for it.
Cancelled(c) == stage = "cleanup" /\ \E i \in DOMAIN Cleanups : i <= step /\ c \in StopsAt(i)

SetConsumer(c, from, to) ==
  /\ consumer[c] = from
  /\ consumer' = [consumer EXCEPT ![c] = to]
  /\ UNCHANGED <<binary, stage, step, expired, request, closed, wedged>>

Take(c) == stage # "exited" /\ ~Cancelled(c) /\ SetConsumer(c, "idle", "handling")
Handled(c) == stage # "exited" /\ SetConsumer(c, "handling", "idle")
RunReturns(c) == Cancelled(c) /\ SetConsumer(c, "idle", "stopped")

--------------------------------------------------------------------------------
(* Wait *)

Signal ==
  /\ stage = "serving"
  /\ stage' = "grpc"
  /\ UNCHANGED <<binary, step, expired, request, consumer, closed, wedged>>

Expire ==
  /\ stage \in {"grpc", "http", "cleanup"} /\ ~expired
  /\ expired' = TRUE
  /\ UNCHANGED <<binary, stage, step, request, consumer, closed, wedged>>

AtGrpc == {r \in Requests : request[r].at \in Grpc}

\* Mutant of GracefulStopDone: Stop where GracefulStop is meant.
StopDone == TRUE

\* Every server's GracefulStop has returned.
GracefulStopDone == AtGrpc = {}

\* Out of time: Stop closes the connections and does not wait for handlers.
ForceStop(r) == [request[r] EXCEPT !.cut = r \in AtGrpc]

GrpcCanStop == stage = "grpc" /\ (GracefulStopDone \/ expired)

GrpcStopped ==
  /\ GrpcCanStop
  /\ \/ GracefulStopDone /\ request' = request
     \/ expired /\ request' = [r \in Requests |-> ForceStop(r)]
  /\ stage' = "http" /\ step' = 1
  /\ UNCHANGED <<binary, expired, consumer, closed, wedged>>

\* Mutant of IsIdle: connections are closed without waiting.
IdleAtOnce(s) == TRUE

\* No connection of server s is active; hijacked ones are not looked at.
IsIdle(s) == \A r \in Requests : Running(r) /\ s \in Holders(r) => request[r].socket

\* Mutant of ContextOver: Shutdown is given a context of its own.
NeverOver == FALSE

ContextOver == expired

HttpCanShut == stage = "http" /\ step <= Len(Http) /\ (IsIdle(Http[step]) \/ ContextOver)

\* http.Server.Shutdown of the next server.
HttpShutdown ==
  /\ HttpCanShut
  /\ step' = step + 1
  /\ UNCHANGED <<binary, stage, expired, request, consumer, closed, wedged>>

HttpIsPast == stage = "http" /\ step > Len(Http)

HttpDone ==
  /\ HttpIsPast
  /\ stage' = "cleanup" /\ step' = 1
  /\ UNCHANGED <<binary, expired, request, consumer, closed, wedged>>

\* Mutant of Waited: cancels without waiting for Run to return.
CancelOnly(c) == TRUE

Waited(c) == consumer[c] \in {"stopped", "absent"}

Current == Cleanups[step]
Cleaning(does) == stage = "cleanup" /\ step <= Len(Cleanups) /\ Current.does = does

ConsumersReturned == Cleaning("stop") /\ \A c \in Current.what : Waited(c)

\* cancel(), then wg.Wait(): the context handed to the cleanup is not looked at.
StopConsumers ==
  /\ ConsumersReturned
  /\ step' = step + 1
  /\ UNCHANGED <<binary, stage, expired, request, consumer, closed, wedged>>

CloseIsAnswered == Cleaning("close") /\ Current.what \cap wedged = {}

CloseClients ==
  /\ CloseIsAnswered
  /\ closed' = closed \cup Current.what
  /\ step' = step + 1
  /\ UNCHANGED <<binary, stage, expired, request, consumer, wedged>>

\* Mutant of Bounded: without closeTimeout.
Unbounded == FALSE

\* closeWithTimeout gives up a close handshake after three seconds.
Bounded == Current.what \subseteq Programs[binary].handshakes

CloseTimesOut == Cleaning("close") /\ Bounded

AbandonClose ==
  /\ CloseTimesOut
  /\ step' = step + 1
  /\ UNCHANGED <<binary, stage, expired, request, consumer, closed, wedged>>

CleanupsArePast == stage = "cleanup" /\ step > Len(Cleanups)

\* Wait returns and main with it: what still runs is gone.
Exit ==
  /\ CleanupsArePast
  /\ stage' = "exited"
  /\ request' = [r \in Requests |-> IF Running(r) THEN [request[r] EXCEPT !.at = "cut"] ELSE request[r]]
  /\ UNCHANGED <<binary, step, expired, consumer, closed, wedged>>

Sequence ==
  \/ GrpcStopped \/ HttpShutdown \/ HttpDone
  \/ StopConsumers \/ CloseClients \/ AbandonClose \/ Exit

\* What the steps of the sequence wait for; the rest of each is assignments.
CanGoOn ==
  \/ GrpcCanStop \/ HttpCanShut \/ HttpIsPast
  \/ ConsumersReturned \/ CloseIsAnswered \/ CloseTimesOut \/ CleanupsArePast

Next ==
  \/ \E r \in Requests :
       \/ \E s \in Grpc \cup HttpServers, socket \in BOOLEAN : Arrive(r, s, socket)
       \/ \E s \in Grpc : CallInside(r, s)
       \/ Reply(r)
  \/ \E c \in DOMAIN consumer : Take(c) \/ Handled(c) \/ RunReturns(c)
  \/ Signal \/ Expire
  \/ Sequence

Spec == Init /\ [][Next]_vars

\* The clock runs, Wait goes on where it can, and a consumer's handler, whose
\* context is cancelled, returns.  Nothing is asked of request handlers.
FairSpec ==
  /\ Spec
  /\ WF_vars(Expire) /\ WF_vars(Sequence)
  /\ \A c \in UNION UNION {Programs[b].groups : b \in Binaries} :
       WF_vars(c \in DOMAIN consumer /\ (Handled(c) \/ RunReturns(c)))

--------------------------------------------------------------------------------
(* Properties *)

Places == {Nowhere} \cup Outcomes \cup Grpc \cup HttpServers

TypeOK ==
  /\ binary \in Binaries
  /\ stage \in {"serving", "grpc", "http", "cleanup", "exited"}
  /\ step \in Nat
  /\ expired \in BOOLEAN
  /\ request \in [Requests -> [at : Places, within : Places, socket : BOOLEAN, cut : BOOLEAN]]
  /\ consumer \in [UNION Programs[binary].groups -> {"absent", "idle", "handling", "stopped"}]

\* shutdown.go:22-25: cleanups run in order, "so a later step can assume an
\* earlier one already finished".  What a consumer works with is closed only
\* after its Run has returned, timeout or not.
ConsumersKeepTheirClients ==
  \A c \in DOMAIN consumer : consumer[c] \in {"idle", "handling"} => Uses(c) \cap closed = {}

\* What a handler works with is closed under it only when the deadline passed
\* while it ran, or when it is a WebSocket.
HandlersKeepTheirClients ==
  \A r \in Requests :
    Running(r) /\ ~request[r].socket /\ ~expired
      => \A s \in Holders(r) : Uses(s) \cap closed = {}

\* shutdown.go:3-4: without the sequence a signal "drops in-flight requests".
\* With it a request is cut off only past the deadline, or as a WebSocket; and
\* it is refused only where one process serves both sides of an inner call.
LossesHaveACause ==
  \A r \in Requests :
    /\ request[r].at = "cut" => expired \/ request[r].socket
    /\ request[r].at = "refused" => stage # "serving" /\ \E call \in Calls : call[1] \in HttpServers

\* The timeout "bounds the whole shutdown sequence" (shutdown.go:44-47) but for
\* one thing: past it, all that can hold the sequence up is a consumer that has
\* not returned from its handler or its Run.
OnlyConsumersOutlastTheDeadline ==
  expired /\ stage # "exited" /\ ~CanGoOn
    => \E c \in DOMAIN consumer : Cancelled(c) /\ consumer[c] \in {"idle", "handling"}

\* After a signal the process ends, even if no request handler ever returns and
\* a broker never answers a close.
ShutdownEnds == stage = "grpc" ~> stage = "exited"
================================================================================
