------------------------------- MODULE MCGateway -------------------------------
(***************************************************************************)
(* What users see: the answers of the api-gateway, with every operation but*)
(* those that are like another one here, and what the services together let*)
(* a bell say.  The two share no state and are run one at a time: each     *)
(* moves only while the other is in its initial state.                     *)
(***************************************************************************)
EXTENDS Gateway, Platform, TLC

MCOperations ==
  {<<"Query", field>> : field \in {"skills", "jobs", "myProfile"}}
    \cup {<<"Mutation", field>> : field \in {"login", "createSkill", "createJob", "addUserSkill"}}

CONSTANTS u1, skill1, skill2

\* One user has a page; each may have either skill, and nobody both at once.
MCLoggedIn == [p \in Pages |-> u1]
MCWanted == {<<skill1, skill2>>}
MCProfiles ==
  {NoProfile} \cup {[s \in SkillIds |-> IF s = t THEN "known" ELSE NoLevel] : t \in SkillIds}

MCInit == GatewayInit /\ PlatformInit

MCNext ==
  \/ PlatformInit /\ GatewayNext /\ UNCHANGED platformVars
  \/ GatewayInit /\ PlatformNext /\ UNCHANGED gatewayVars

MCSpec == MCInit /\ [][MCNext]_<<gatewayVars, platformVars>>
================================================================================
