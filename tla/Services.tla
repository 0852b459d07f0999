-------------------------------- MODULE Services --------------------------------
(***************************************************************************)
(* The six programs under backend/cmd as the module Shutdown sees them:    *)
(* what each main builds, who uses what, and the order of its cleanups.    *)
(***************************************************************************)
EXTENDS Naturals, Sequences, SequencesExt, Functions

Stop(consumers) == [does |-> "stop", what |-> consumers]
Close(client) == [does |-> "close", what |-> {client}]

\* cancel and wait for the consumers, then close each one's own client.
StopThenClose(consumers) == <<Stop(Range(consumers))>> \o [i \in DOMAIN consumers |-> Close(consumers[i])]

CloseAll(clients) == [i \in DOMAIN clients |-> Close(clients[i])]

--------------------------------------------------------------------------------
(* Who uses which client *)

AuthUses == [auth |-> {"authDB", "authRabbit"}, authHTTP |-> {"authDB"}]
SkillsUses == [skills |-> {"skillsDB", "skillsCache", "skillsKafka"}, skillsHTTP |-> {"skillsDB"}]
UsersUses == [users |-> {"usersDB", "usersKafka"}, usersHTTP |-> {"usersDB"}]

\* A consumer also uses its own client, named like it.
JobsUses ==
  [jobs |-> {"jobsDB", "jobsCache", "jobsKafka"}, jobsHTTP |-> {"jobsDB"},
   snapshot |-> {"snapshot", "jobsDB"},
   matcher |-> {"matcher", "jobsDB", "jobsKafka", "jobsRabbit"},
   cacheInvalidator |-> {"cacheInvalidator", "jobsCache"}]

GatewayUses ==
  [public |-> {"authConn", "skillsConn", "usersConn", "jobsConn", "gatewayRedis"},
   realtime |-> {"realtime", "gatewayRedis"}]

JobsConsumers == <<"snapshot", "matcher", "cacheInvalidator">>

--------------------------------------------------------------------------------
(* The programs *)

AuthService ==
  [grpc |-> {"auth"}, http |-> <<"authHTTP">>, groups |-> {}, uses |-> AuthUses,
   cleanups |-> CloseAll(<<"authDB", "authRabbit">>)]

SkillsService ==
  [grpc |-> {"skills"}, http |-> <<"skillsHTTP">>, groups |-> {}, uses |-> SkillsUses,
   cleanups |-> CloseAll(<<"skillsDB", "skillsCache", "skillsKafka">>)]

UsersService ==
  [grpc |-> {"users"}, http |-> <<"usersHTTP">>, groups |-> {}, uses |-> UsersUses,
   cleanups |-> CloseAll(<<"usersDB", "usersKafka">>)]

JobsCleanups ==
  StopThenClose(JobsConsumers) \o CloseAll(<<"jobsDB", "jobsCache", "jobsKafka", "jobsRabbit">>)

JobsService ==
  [grpc |-> {"jobs"}, http |-> <<"jobsHTTP">>, groups |-> {Range(JobsConsumers)}, uses |-> JobsUses,
   cleanups |-> JobsCleanups]

ApiGateway ==
  [grpc |-> {}, http |-> <<"public">>, groups |-> {{"realtime"}}, uses |-> GatewayUses,
   cleanups |-> StopThenClose(<<"realtime">>)
                  \o CloseAll(<<"authConn", "skillsConn", "usersConn", "jobsConn", "gatewayRedis">>)]

\* Each service is made there as its own main makes it.
AllInOneUses == AuthUses @@ SkillsUses @@ UsersUses @@ JobsUses @@ GatewayUses

AllInOne ==
  [grpc |-> {"auth", "skills", "users", "jobs"},
   http |-> <<"public", "authHTTP", "skillsHTTP", "usersHTTP", "jobsHTTP">>,
   groups |-> {{"realtime"}, Range(JobsConsumers)},
   uses |-> AllInOneUses,
   cleanups |-> StopThenClose(<<"realtime">>) \o StopThenClose(JobsConsumers)
                  \o CloseAll(<<"authConn", "skillsConn", "usersConn", "jobsConn",
                                "authDB", "skillsDB", "usersDB", "jobsDB",
                                "gatewayRedis", "skillsCache", "jobsCache",
                                "authRabbit", "jobsRabbit",
                                "skillsKafka", "usersKafka", "jobsKafka">>)]

--------------------------------------------------------------------------------
(* What follows from the parts *)

\* The gateway's calls stay inside the process in the all-in-one binary only.
CallsOf(program) == (Range(program.http) \cap {"public"}) \X program.grpc

\* Closed by closeWithTimeout: the RabbitMQ producers and consumer.
Handshakes == {"authRabbit", "jobsRabbit", "realtime"}

\* Only the GraphQL endpoint is upgraded to WebSockets.
Complete(program) ==
  program @@ [calls |-> CallsOf(program), upgrades |-> {"public"}, handshakes |-> Handshakes]

AllPrograms ==
  [allinone |-> Complete(AllInOne), gateway |-> Complete(ApiGateway), auth |-> Complete(AuthService),
   skills |-> Complete(SkillsService), users |-> Complete(UsersService), jobs |-> Complete(JobsService)]
================================================================================
