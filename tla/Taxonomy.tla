-------------------------------- MODULE Taxonomy --------------------------------
(***************************************************************************)
(* skills-service (backend/internal/skills/server.go): CreateSkill inserts *)
(* a skill and evicts skills:all, ListSkills answers from that entry or    *)
(* fills it from the database.  GetSkillsByIds, which is not cached, is a  *)
(* read of the rows; api-gateway's use of it is in the module Gateway.     *)
(***************************************************************************)
EXTENDS Naturals

CONSTANTS
  SkillIds,     \* CreateSkill calls, each with the id it generates
  Names,
  Listers,      \* callers of ListSkills, one call at a time each
  NoList,       \* no list: the entry is absent, or the call failed
  MaxSkillFaults    \* bound: commands Redis fails to serve

ASSUME NoListIsNone == \A ids \in SUBSET SkillIds : ids # NoList
ASSUME FaultsAreBounded == MaxSkillFaults \in Nat

VARIABLES
  skillName,    \* skills.skills: the name under each id, the ids its domain
  adding,       \* idle, inserted, evicted, created or refused
  lister,       \* the ListSkills each caller is in, or has had answered last
  skillsAll,    \* the entry skills:all: ids, in the order of names when read
  skillFaults,
  \* History:
  unseen        \* skills a fill of skills:all may have missed, or whose Del failed

taxonomyVars == <<skillName, adding, lister, skillsAll, skillFaults, unseen>>

Entry == INSTANCE Cache WITH Keys <- {"skills:all"}, Values <- SUBSET SkillIds,
                             Miss <- NoList, stored <- skillsAll
skillsAllCacheKey == "skills:all"

Rows == DOMAIN skillName

TaxonomyInit ==
  /\ skillName = [id \in {} |-> NoList]
  /\ adding = [id \in SkillIds |-> "idle"]
  /\ lister = [l \in Listers |-> [pc |-> "idle", rows |-> NoList]]
  /\ Entry!Init
  /\ skillFaults = 0 /\ unseen = {}

CacheServes(works) ==
  \/ works /\ UNCHANGED skillFaults
  \/ ~works /\ skillFaults < MaxSkillFaults /\ skillFaults' = skillFaults + 1

--------------------------------------------------------------------------------
(* CreateSkill *)

\* UNIQUE (name)
NameTaken(name) == \E id \in Rows : skillName[id] = name

InsertSkill(id, name) ==
  /\ adding[id] = "idle"
  /\ IF NameTaken(name)
       THEN adding' = [adding EXCEPT ![id] = "refused"] /\ UNCHANGED skillName
       ELSE /\ adding' = [adding EXCEPT ![id] = "inserted"]
            /\ skillName' = [i \in Rows \cup {id} |-> IF i = id THEN name ELSE skillName[i]]
  /\ UNCHANGED <<lister, skillsAll, skillFaults, unseen>>

\* A list query in flight has not seen the skill.
PassesBy(l, id) == lister[l].pc = "filling" /\ id \notin lister[l].rows

\* Mutant of Evict: the write path leaves the entry to its TTL.
LeaveIt(works) == UNCHANGED skillsAll

Evict(works) == Entry!Del(skillsAllCacheKey, works)

EvictSkills(id, works) ==
  /\ adding[id] = "inserted"
  /\ CacheServes(works)
  /\ Evict(works)
  /\ adding' = [adding EXCEPT ![id] = "evicted"]
  /\ unseen' = IF works /\ ~ \E l \in Listers : PassesBy(l, id) THEN unseen ELSE unseen \cup {id}
  /\ UNCHANGED <<skillName, lister>>

\* skill.updated is published, or dropped by the producer; then the answer.
PublishSkill(id) ==
  /\ adding[id] = "evicted"
  /\ adding' = [adding EXCEPT ![id] = "created"]
  /\ UNCHANGED <<skillName, lister, skillsAll, skillFaults, unseen>>

\* The request is malformed, the insert fails, or the process dies on the way.
CreateSkillFails(id) ==
  /\ adding[id] \in {"idle", "inserted", "evicted"}
  /\ adding' = [adding EXCEPT ![id] = "refused"]
  /\ UNCHANGED <<skillName, lister, skillsAll, skillFaults, unseen>>

--------------------------------------------------------------------------------
(* ListSkills *)

SetLister(l, pc, rows) == lister' = [lister EXCEPT ![l] = [pc |-> pc, rows |-> rows]]

LookupSkills(l, works) ==
  /\ lister[l].pc \in {"idle", "answered"}
  /\ CacheServes(works)
  /\ LET entry == Entry!Get(skillsAllCacheKey, works)
     IN  SetLister(l, IF entry = NoList THEN "missed" ELSE "answered", entry)
  /\ UNCHANGED <<skillName, adding, skillsAll, unseen>>

\* fetchAllSkills
FetchSkills(l, ok) ==
  /\ lister[l].pc = "missed"
  /\ IF ok THEN SetLister(l, "filling", Rows) ELSE SetLister(l, "answered", NoList)
  /\ UNCHANGED <<skillName, adding, skillsAll, skillFaults, unseen>>

FillSkills(l, works) ==
  /\ lister[l].pc = "filling"
  /\ CacheServes(works)
  /\ Entry!Set(skillsAllCacheKey, lister[l].rows, works)
  /\ SetLister(l, "answered", lister[l].rows)
  /\ UNCHANGED <<skillName, adding, unseen>>

\* The hour of skillsCacheTTL is over.
ExpireSkills ==
  /\ Entry!Expire(skillsAllCacheKey)
  /\ UNCHANGED <<skillName, adding, lister, skillFaults, unseen>>

TaxonomyNext ==
  \/ \E id \in SkillIds :
       \/ \E name \in Names : InsertSkill(id, name)
       \/ \E works \in BOOLEAN : EvictSkills(id, works)
       \/ PublishSkill(id) \/ CreateSkillFails(id)
  \/ \E l \in Listers, ok \in BOOLEAN : LookupSkills(l, ok) \/ FetchSkills(l, ok) \/ FillSkills(l, ok)
  \/ ExpireSkills

TaxonomySpec == TaxonomyInit /\ [][TaxonomyNext]_taxonomyVars

--------------------------------------------------------------------------------
(* Properties *)

TaxonomyTypeOK ==
  /\ Rows \subseteq SkillIds /\ \A id \in Rows : skillName[id] \in Names
  /\ adding \in [SkillIds -> {"idle", "inserted", "evicted", "created", "refused"}]
  /\ lister \in [Listers -> [pc : {"idle", "missed", "filling", "answered"},
                             rows : (SUBSET SkillIds) \cup {NoList}]]
  /\ Entry!TypeOK
  /\ skillFaults \in 0 .. MaxSkillFaults /\ unseen \subseteq SkillIds

\* server.go:99-101: evicting in the write path is for "ListSkills never serves a
\* stale taxonomy after this returns".  A list read from the cache lacks a skill
\* whose CreateSkill has got past its Del only if a fill was between its query
\* and its Set at that moment, or the Del failed.
StaleTaxonomyHasACause ==
  \A id \in SkillIds \ unseen :
    adding[id] \in {"evicted", "created"} /\ skillsAll[skillsAllCacheKey] # NoList => id \in skillsAll[skillsAllCacheKey]
================================================================================
