------------------------ MODULE ListsAndProfilesProofs -------------------------
(***************************************************************************)
(* Proofs about the two cached lists, skills:all and jobs:all, for any     *)
(* number of readers and writers.  In both a list that is stored, or about *)
(* to be, has whatever no history variable excuses it from having: a fill  *)
(* whose query came after the insert has read it, and one whose query came *)
(* before is caught by the Del that follows the insert.                    *)
(***************************************************************************)
EXTENDS JobsListing, Taxonomy, Profiles, TLAPS

--------------------------------------------------------------------------------
(* The taxonomy *)

Adding == {"idle", "inserted", "evicted", "created", "refused"}

\* A list that may be stored or answered has skill id.
ListsHave(id) ==
  /\ skillsAll[skillsAllCacheKey] # NoList => id \in skillsAll[skillsAllCacheKey]
  /\ \A l \in Listers : lister[l].pc = "filling" => id \in lister[l].rows

TaxonomyInv ==
  /\ TaxonomyTypeOK
  /\ \A l \in Listers : lister[l].pc = "filling" => lister[l].rows \in SUBSET SkillIds
  /\ \A id \in SkillIds : adding[id] \in {"inserted", "evicted", "created"} => id \in Rows
  /\ \A id \in SkillIds \ unseen : adding[id] \in {"evicted", "created"} => ListsHave(id)

Listed == [pc : {"idle", "missed", "filling", "answered"}, rows : (SUBSET SkillIds) \cup {NoList}]

LEMMA SetListerMoves ==
  ASSUME TaxonomyTypeOK, NEW l \in Listers, NEW pc \in {"idle", "missed", "filling", "answered"},
         NEW rows \in (SUBSET SkillIds) \cup {NoList}, SetLister(l, pc, rows)
  PROVE  /\ lister' \in [Listers -> Listed]
         /\ lister'[l].pc = pc /\ lister'[l].rows = rows
         /\ \A m \in Listers : m # l => lister'[m] = lister[m]
BY DEF TaxonomyTypeOK, SetLister, Listed

LEMMA TaxonomyInitially == ASSUME TaxonomyInit PROVE TaxonomyInv
<1>1. DOMAIN skillName = {}
  BY DEF TaxonomyInit
<1>2. TaxonomyTypeOK
  BY <1>1, FaultsAreBounded DEF TaxonomyInit, TaxonomyTypeOK, Rows, Entry!Init, Entry!TypeOK
<1> QED BY <1>1, <1>2 DEF TaxonomyInit, TaxonomyInv

LEMMA InsertSkillKeeps ==
  ASSUME TaxonomyInv, NEW id \in SkillIds, NEW name \in Names, InsertSkill(id, name)
  PROVE  TaxonomyInv'
<1>1. UNCHANGED <<lister, skillsAll, skillFaults, unseen>> /\ adding[id] = "idle"
      /\ adding \in [SkillIds -> Adding]
  BY DEF InsertSkill, TaxonomyInv, TaxonomyTypeOK, Adding
<1>2. CASE NameTaken(name)
  <2>1. adding' = [adding EXCEPT ![id] = "refused"] /\ skillName' = skillName
    BY <1>2 DEF InsertSkill
  <2>2. TaxonomyTypeOK'
    BY <1>1, <2>1 DEF TaxonomyInv, TaxonomyTypeOK, Rows, Adding, Entry!TypeOK
  <2> QED BY <1>1, <2>1, <2>2 DEF TaxonomyInv, Rows, ListsHave, skillsAllCacheKey
<1>3. CASE ~NameTaken(name)
  <2>1. /\ adding' = [adding EXCEPT ![id] = "inserted"]
        /\ skillName' = [i \in Rows \cup {id} |-> IF i = id THEN name ELSE skillName[i]]
    BY <1>3 DEF InsertSkill
  <2>2. DOMAIN skillName' = Rows \cup {id} /\ \A i \in Rows \cup {id} : skillName'[i] \in Names
    BY <2>1 DEF TaxonomyInv, TaxonomyTypeOK
  <2>3. TaxonomyTypeOK'
    BY <1>1, <2>1, <2>2 DEF TaxonomyInv, TaxonomyTypeOK, Rows, Adding, Entry!TypeOK
  <2> QED BY <1>1, <2>1, <2>2, <2>3 DEF TaxonomyInv, Rows, ListsHave, skillsAllCacheKey
<1> QED BY <1>2, <1>3

LEMMA EvictSkillsKeeps ==
  ASSUME TaxonomyInv, NEW id \in SkillIds, NEW works \in BOOLEAN, EvictSkills(id, works)
  PROVE  TaxonomyInv'
<1>1. /\ UNCHANGED <<skillName, lister>> /\ adding[id] = "inserted"
      /\ adding' = [adding EXCEPT ![id] = "evicted"] /\ adding \in [SkillIds -> Adding]
      /\ skillFaults' \in 0 .. MaxSkillFaults
      /\ unseen' \in {unseen, unseen \cup {id}}
  BY FaultsAreBounded DEF EvictSkills, CacheServes, TaxonomyInv, TaxonomyTypeOK, Adding
<1>2. /\ skillsAll' \in [{"skills:all"} -> (SUBSET SkillIds) \cup {NoList}]
      /\ skillsAll'[skillsAllCacheKey] \in {skillsAll[skillsAllCacheKey], NoList}
      /\ works => skillsAll'[skillsAllCacheKey] = NoList
  BY DEF EvictSkills, Evict, Entry!Del, Entry!Put, TaxonomyInv, TaxonomyTypeOK, Entry!TypeOK, skillsAllCacheKey
<1>3. TaxonomyTypeOK'
  BY <1>1, <1>2 DEF TaxonomyInv, TaxonomyTypeOK, Rows, Adding, Entry!TypeOK
<1>4. id \notin unseen' => works /\ \A l \in Listers : ~PassesBy(l, id)
  BY DEF EvictSkills
<1>5. ASSUME NEW i \in SkillIds \ unseen', adding'[i] \in {"evicted", "created"}
      PROVE  ListsHave(i)'
  <2>1. CASE i = id
    BY <1>1, <1>2, <1>4, <1>5, <2>1 DEF ListsHave, PassesBy, skillsAllCacheKey
  <2>2. CASE i # id
    <3>1. i \in SkillIds \ unseen /\ adding[i] \in {"evicted", "created"}
      BY <1>1, <1>5, <2>2
    <3>2. ListsHave(i)
      BY <3>1 DEF TaxonomyInv
    <3> QED BY <1>1, <1>2, <3>2 DEF ListsHave, skillsAllCacheKey
  <2> QED BY <2>1, <2>2
<1> QED BY <1>1, <1>3, <1>5 DEF TaxonomyInv, Rows

\* A CreateSkill that goes on without touching the lists.
LEMMA AddingKeeps ==
  ASSUME TaxonomyInv, NEW id \in SkillIds, PublishSkill(id) \/ CreateSkillFails(id)
  PROVE  TaxonomyInv'
<1>1. /\ UNCHANGED <<skillName, lister, skillsAll, skillFaults, unseen>>
      /\ adding \in [SkillIds -> Adding]
      /\ \/ adding[id] = "evicted" /\ adding' = [adding EXCEPT ![id] = "created"]
         \/ adding' = [adding EXCEPT ![id] = "refused"]
  BY DEF PublishSkill, CreateSkillFails, TaxonomyInv, TaxonomyTypeOK, Adding
<1>2. TaxonomyTypeOK'
  BY <1>1 DEF TaxonomyInv, TaxonomyTypeOK, Rows, Adding, Entry!TypeOK
<1>3. ASSUME NEW i \in SkillIds \ unseen', adding'[i] \in {"evicted", "created"}
      PROVE  ListsHave(i)'
  <2>1. adding[i] \in {"evicted", "created"}
    BY <1>1, <1>3
  <2>2. ListsHave(i)
    BY <1>1, <1>3, <2>1 DEF TaxonomyInv
  <2> QED BY <1>1, <2>2 DEF ListsHave, skillsAllCacheKey
<1> QED BY <1>1, <1>2, <1>3 DEF TaxonomyInv, Rows

\* A step of one lister that stores nothing.
LEMMA ListerKeeps ==
  ASSUME TaxonomyInv, NEW l \in Listers, NEW pc \in {"idle", "missed", "filling", "answered"},
         NEW rows \in (SUBSET SkillIds) \cup {NoList}, SetLister(l, pc, rows),
         pc = "filling" => rows = Rows,
         skillFaults' \in 0 .. MaxSkillFaults,
         UNCHANGED <<skillName, adding, skillsAll, unseen>>
  PROVE  TaxonomyInv'
<1>1. /\ lister' \in [Listers -> Listed]
      /\ lister'[l].pc = pc /\ lister'[l].rows = rows
      /\ \A m \in Listers : m # l => lister'[m] = lister[m]
  BY SetListerMoves DEF TaxonomyInv
<1>2. TaxonomyTypeOK'
  BY <1>1 DEF TaxonomyInv, TaxonomyTypeOK, Rows, Listed, Entry!TypeOK
<1>3. Rows \subseteq SkillIds
  BY DEF TaxonomyInv, TaxonomyTypeOK
<1>4. ASSUME NEW i \in SkillIds \ unseen, adding[i] \in {"evicted", "created"}
      PROVE  ListsHave(i)'
  <2>1. ListsHave(i) /\ i \in Rows
    BY <1>4 DEF TaxonomyInv
  <2> QED BY <1>1, <2>1 DEF ListsHave, skillsAllCacheKey
<1> QED BY <1>1, <1>2, <1>3, <1>4 DEF TaxonomyInv, Rows

LEMMA FillSkillsKeeps ==
  ASSUME TaxonomyInv, NEW l \in Listers, NEW works \in BOOLEAN, FillSkills(l, works)
  PROVE  TaxonomyInv'
<1>1. /\ lister[l].pc = "filling" /\ lister[l].rows \in SUBSET SkillIds
      /\ UNCHANGED <<skillName, adding, unseen>>
      /\ skillFaults' \in 0 .. MaxSkillFaults
      /\ SetLister(l, "answered", lister[l].rows)
  BY FaultsAreBounded DEF FillSkills, CacheServes, TaxonomyInv, TaxonomyTypeOK
<1>2. /\ lister' \in [Listers -> Listed]
      /\ lister'[l].pc = "answered"
      /\ \A m \in Listers : m # l => lister'[m] = lister[m]
  BY <1>1, SetListerMoves DEF TaxonomyInv
<1>3. skillsAll' \in [{"skills:all"} -> (SUBSET SkillIds) \cup {NoList}]
      /\ skillsAll'[skillsAllCacheKey] \in {skillsAll[skillsAllCacheKey], lister[l].rows}
  BY <1>1 DEF FillSkills, Entry!Set, Entry!Put, TaxonomyInv, TaxonomyTypeOK, Entry!TypeOK, skillsAllCacheKey
<1>4. TaxonomyTypeOK'
  BY <1>1, <1>2, <1>3 DEF TaxonomyInv, TaxonomyTypeOK, Rows, Listed, Entry!TypeOK
<1>5. ASSUME NEW i \in SkillIds \ unseen, adding[i] \in {"evicted", "created"}
      PROVE  ListsHave(i)'
  <2>1. ListsHave(i)
    BY <1>5 DEF TaxonomyInv
  <2> QED BY <1>1, <1>2, <1>3, <2>1 DEF ListsHave, skillsAllCacheKey
<1> QED BY <1>1, <1>2, <1>4, <1>5 DEF TaxonomyInv, Rows

LEMMA ListersKeep ==
  ASSUME TaxonomyInv, NEW l \in Listers, NEW ok \in BOOLEAN,
         LookupSkills(l, ok) \/ FetchSkills(l, ok)
  PROVE  TaxonomyInv'
<1>1. UNCHANGED <<skillName, adding, skillsAll, unseen>>
  BY DEF LookupSkills, FetchSkills
<1>2. CASE LookupSkills(l, ok)
  <2> DEFINE entry == Entry!Get(skillsAllCacheKey, ok)
             pc == IF entry = NoList THEN "missed" ELSE "answered"
  <2>1. entry \in (SUBSET SkillIds) \cup {NoList}
    BY DEF Entry!Get, TaxonomyInv, TaxonomyTypeOK, Entry!TypeOK, skillsAllCacheKey
  <2>2. SetLister(l, pc, entry) /\ pc \in {"missed", "answered"}
    BY <1>2 DEF LookupSkills
  <2>3. skillFaults' \in 0 .. MaxSkillFaults
    BY <1>2, FaultsAreBounded DEF LookupSkills, CacheServes, TaxonomyInv, TaxonomyTypeOK
  <2> HIDE DEF entry, pc
  <2> QED BY <1>1, <2>1, <2>2, <2>3, ListerKeeps
<1>3. CASE FetchSkills(l, ok)
  <2>1. skillFaults' \in 0 .. MaxSkillFaults /\ Rows \in SUBSET SkillIds
    BY <1>3 DEF FetchSkills, TaxonomyInv, TaxonomyTypeOK
  <2>2. CASE ok
    BY <1>1, <1>3, <2>1, <2>2, ListerKeeps DEF FetchSkills
  <2>3. CASE ~ok
    BY <1>1, <1>3, <2>1, <2>3, ListerKeeps DEF FetchSkills
  <2> QED BY <2>2, <2>3
<1> QED BY <1>2, <1>3

LEMMA ExpireSkillsKeeps == ASSUME TaxonomyInv, ExpireSkills PROVE TaxonomyInv'
<1>1. /\ skillsAll' \in [{"skills:all"} -> (SUBSET SkillIds) \cup {NoList}]
      /\ skillsAll'[skillsAllCacheKey] = NoList
      /\ UNCHANGED <<skillName, adding, lister, skillFaults, unseen>>
  BY DEF ExpireSkills, Entry!Expire, Entry!Put, TaxonomyInv, TaxonomyTypeOK, Entry!TypeOK, skillsAllCacheKey
<1>2. TaxonomyTypeOK'
  BY <1>1 DEF TaxonomyInv, TaxonomyTypeOK, Rows, Entry!TypeOK
<1> QED BY <1>1, <1>2 DEF TaxonomyInv, Rows, ListsHave, skillsAllCacheKey

LEMMA TaxonomySteps == ASSUME TaxonomyInv, [TaxonomyNext]_taxonomyVars PROVE TaxonomyInv'
<1>1. CASE UNCHANGED taxonomyVars
  <2>1. TaxonomyTypeOK'
    BY <1>1 DEF taxonomyVars, TaxonomyInv, TaxonomyTypeOK, Rows, Entry!TypeOK
  <2> QED BY <1>1, <2>1 DEF taxonomyVars, TaxonomyInv, Rows, ListsHave, skillsAllCacheKey
<1>2. CASE TaxonomyNext
  BY <1>2, InsertSkillKeeps, EvictSkillsKeeps, AddingKeeps, ListersKeep, FillSkillsKeeps, ExpireSkillsKeeps
     DEF TaxonomyNext
<1> QED BY <1>1, <1>2

\* The type invariant of Taxonomy, for any number of skills, names and callers.
THEOREM TaxonomyTyped == TaxonomySpec => []TaxonomyTypeOK
<1>1. TaxonomyInit => TaxonomyInv
  BY TaxonomyInitially
<1>2. TaxonomyInv /\ [TaxonomyNext]_taxonomyVars => TaxonomyInv'
  BY TaxonomySteps
<1>3. TaxonomyInv => TaxonomyTypeOK
  BY DEF TaxonomyInv
<1> QED BY <1>1, <1>2, <1>3, PTL DEF TaxonomySpec

\* StaleTaxonomyHasACause: but for a fill that CreateSkill's Del overtook, or a
\* Del that failed, the cached taxonomy has every skill made before.
THEOREM TaxonomyComplete == TaxonomySpec => []StaleTaxonomyHasACause
<1>1. TaxonomyInit => TaxonomyInv
  BY TaxonomyInitially
<1>2. TaxonomyInv /\ [TaxonomyNext]_taxonomyVars => TaxonomyInv'
  BY TaxonomySteps
<1>3. TaxonomyInv => StaleTaxonomyHasACause
  BY DEF TaxonomyInv, StaleTaxonomyHasACause, ListsHave
<1> QED BY <1>1, <1>2, <1>3, PTL DEF TaxonomySpec

--------------------------------------------------------------------------------
(* The jobs *)

\* Each job of a list is there, with all its skills.
Whole(listing) == \A j \in DOMAIN listing : j \in DOMAIN jobs /\ listing[j] = jobs[j]

\* What reader r is about to store is what the rows it has read say.
ReaderIsTrue(r) ==
  /\ call[r].listing # None => Whole(call[r].listing)
  /\ call[r].pc \in {"read", "filling"} => call[r].rows \subseteq DOMAIN jobs
  /\ call[r].pc = "filling" =>
       /\ call[r].listing \in Listings /\ DOMAIN call[r].listing = call[r].rows
       /\ Whole(call[r].listing)

\* A list of all jobs that is stored, or about to be, has job j.
ListsInclude(j) ==
  /\ stored[All] # None => j \in DOMAIN stored[All]
  /\ \A r \in Readers : call[r].key = All /\ call[r].pc \in {"read", "filling"} => j \in call[r].rows

PostingIsTrue(j) ==
  /\ posting[j] = "idle" => j \notin DOMAIN jobs
  /\ posting[j] \in {"inserted", "created"} => j \in DOMAIN jobs

StoredIsTrue == \A key \in Keys : stored[key] # None => Whole(stored[key])

ListingInv ==
  /\ TypeOK
  /\ \A j \in Jobs : PostingIsTrue(j)
  /\ \A r \in Readers : ReaderIsTrue(r)
  /\ StoredIsTrue
  /\ \A j \in Jobs \ overtaken : posting[j] = "created" => ListsInclude(j)

Postings == {"idle", "inserted", "created", "failed"}

LEMMA ListingsAre ==
  /\ \A js \in SUBSET Jobs : \A listing \in [js -> SUBSET Skills] : listing \in Listings
  /\ \A listing \in Listings : DOMAIN listing \subseteq Jobs /\ listing \in [DOMAIN listing -> SUBSET Skills]
BY DEF Listings

LEMMA ListingInitially == ASSUME Init PROVE ListingInv
<1>1. jobs = Empty /\ DOMAIN jobs = {} /\ Empty \in Listings
  BY ListingsAre DEF Init, Empty
<1>2. NoCall \in Call /\ NoCall.pc = "idle" /\ NoCall.listing = None
  BY DEF NoCall, Call, Keys
<1>3. call \in [Readers -> Call]
  BY <1>2 DEF Init
<1>4. Entries!TypeOK /\ \A key \in Keys : stored[key] = None
  BY DEF Init, Entries!Init, Entries!TypeOK
<1>5. TypeOK
  BY <1>1, <1>3, <1>4, ErrorsAreBounded DEF Init, TypeOK
<1>6. \A r \in Readers : ReaderIsTrue(r)
  BY <1>2 DEF Init, ReaderIsTrue
<1> QED BY <1>1, <1>4, <1>5, <1>6 DEF Init, ListingInv, PostingIsTrue, StoredIsTrue

\* A step that moves no job, no posting and no entry keeps what is said of them.
LEMMA ReaderKeeps ==
  ASSUME ListingInv, NEW r \in Readers, NEW new \in Call, call' = [call EXCEPT ![r] = new],
         ReaderIsTrue(r)',
         new.pc \in {"read", "filling"} => new.rows = DOMAIN jobs \cap Wanted(new.key)
                                        \/ (call[r].pc = "read" /\ new.key = call[r].key /\ new.rows = call[r].rows),
         redisErrors' \in 0 .. MaxRedisErrors,
         UNCHANGED <<jobs, posting, stored, overtaken>>
  PROVE  ListingInv'
<1>1. call' \in [Readers -> Call] /\ call'[r] = new /\ \A q \in Readers : q # r => call'[q] = call[q]
  BY DEF ListingInv, TypeOK
<1>2. TypeOK'
  BY <1>1 DEF ListingInv, TypeOK, Entries!TypeOK
<1>3. \A q \in Readers : ReaderIsTrue(q)'
  BY <1>1 DEF ListingInv, ReaderIsTrue, Whole
<1>4. (\A j \in Jobs : PostingIsTrue(j)') /\ StoredIsTrue'
  BY DEF ListingInv, PostingIsTrue, StoredIsTrue, Whole
<1>5. ASSUME NEW j \in Jobs \ overtaken, posting[j] = "created"
      PROVE  ListsInclude(j)'
  <2>1. ListsInclude(j) /\ j \in DOMAIN jobs
    BY <1>5 DEF ListingInv, PostingIsTrue
  <2>2. call'[r].key = All /\ call'[r].pc \in {"read", "filling"} => j \in call'[r].rows
    BY <1>1, <2>1 DEF ListsInclude, Wanted
  <2> QED BY <1>1, <2>1, <2>2 DEF ListsInclude
<1> QED BY <1>2, <1>3, <1>4, <1>5 DEF ListingInv

LEMMA InsertJobKeeps ==
  ASSUME ListingInv, NEW j \in Jobs, NEW skills \in SUBSET Skills, InsertJob(j, skills)
  PROVE  ListingInv'
<1>1. /\ posting[j] = "idle" /\ j \notin DOMAIN jobs
      /\ posting' = [posting EXCEPT ![j] = "inserted"] /\ posting \in [Jobs -> Postings]
      /\ UNCHANGED <<call, stored, redisErrors, overtaken>>
  BY DEF InsertJob, ListingInv, PostingIsTrue, TypeOK, Postings
<1>2. DOMAIN jobs \subseteq Jobs /\ jobs \in [DOMAIN jobs -> SUBSET Skills]
  BY ListingsAre DEF ListingInv, TypeOK
<1>3. /\ DOMAIN jobs' = DOMAIN jobs \cup {j}
      /\ jobs' \in [DOMAIN jobs \cup {j} -> SUBSET Skills]
      /\ \A i \in DOMAIN jobs : jobs'[i] = jobs[i]
  BY <1>1, <1>2 DEF InsertJob
<1>4. jobs' \in Listings
  BY <1>2, <1>3, ListingsAre
<1>5. TypeOK'
  BY <1>1, <1>4 DEF ListingInv, TypeOK, Postings, Entries!TypeOK
<1>6. \A i \in Jobs : PostingIsTrue(i)'
  BY <1>1, <1>3 DEF ListingInv, PostingIsTrue
<1>7. ASSUME NEW r \in Readers PROVE ReaderIsTrue(r)'
  <2>1. ReaderIsTrue(r)
    BY DEF ListingInv
  <2>2. Whole(call[r].listing) => Whole(call[r].listing)'
    BY <1>1, <1>3 DEF Whole
  <2> QED BY <1>1, <1>3, <2>1, <2>2 DEF ReaderIsTrue
<1>8. StoredIsTrue'
  BY <1>1, <1>3 DEF ListingInv, StoredIsTrue, Whole
<1>9. ASSUME NEW i \in Jobs \ overtaken, posting'[i] = "created"
      PROVE  ListsInclude(i)'
  <2>1. posting[i] = "created"
    BY <1>1, <1>9
  <2> QED BY <1>1, <2>1 DEF ListingInv, ListsInclude
<1> QED BY <1>1, <1>5, <1>6, <1>7, <1>8, <1>9 DEF ListingInv

\* An entry is replaced by something true, or dropped.
LEMMA PutIsTyped ==
  ASSUME TypeOK, NEW key \in Keys, NEW value \in Listings \cup {None}, Entries!Put(key, value)
  PROVE  /\ stored' \in [Keys -> Listings \cup {None}]
         /\ stored'[key] = value
         /\ \A other \in Keys : other # key => stored'[other] = stored[other]
BY DEF TypeOK, Entries!TypeOK, Entries!Put

\* An entry is dropped, or the command that should drop it fails.
LEMMA DropKeeps ==
  ASSUME ListingInv, NEW key \in Keys, Entries!Put(key, None) \/ UNCHANGED stored,
         redisErrors' \in 0 .. MaxRedisErrors,
         UNCHANGED <<jobs, posting, call, overtaken>>
  PROVE  ListingInv'
<1>1. /\ stored' \in [Keys -> Listings \cup {None}]
      /\ \A other \in Keys : stored'[other] \in {stored[other], None}
  BY PutIsTyped DEF ListingInv, TypeOK, Entries!TypeOK
<1>2. TypeOK'
  BY <1>1 DEF ListingInv, TypeOK, Entries!TypeOK
<1>3. (\A j \in Jobs : PostingIsTrue(j)') /\ (\A r \in Readers : ReaderIsTrue(r)')
  BY DEF ListingInv, PostingIsTrue, ReaderIsTrue, Whole
<1>4. StoredIsTrue'
  BY <1>1 DEF ListingInv, StoredIsTrue, Whole
<1>5. ASSUME NEW j \in Jobs \ overtaken, posting[j] = "created"
      PROVE  ListsInclude(j)'
  BY <1>1, <1>5 DEF ListingInv, ListsInclude, Keys
<1> QED BY <1>2, <1>3, <1>4, <1>5 DEF ListingInv

LEMMA EvictListKeeps ==
  ASSUME ListingInv, NEW j \in Jobs, NEW works \in BOOLEAN, EvictList(j, works)
  PROVE  ListingInv'
<1>1. /\ posting[j] = "inserted" /\ posting \in [Jobs -> Postings]
      /\ posting' = [posting EXCEPT ![j] = "created"]
      /\ redisErrors' \in 0 .. MaxRedisErrors
      /\ overtaken' \in {overtaken, overtaken \cup {j}}
      /\ UNCHANGED <<jobs, call>>
  BY ErrorsAreBounded DEF EvictList, RedisServes, ListingInv, TypeOK, Postings
<1>2. /\ stored' \in [Keys -> Listings \cup {None}]
      /\ \A key \in Keys : stored'[key] \in {stored[key], None}
      /\ works => stored'[All] = None
  BY DEF EvictList, EvictedKey, Entries!Del, Entries!Put, ListingInv, TypeOK, Entries!TypeOK, Keys
<1>3. TypeOK'
  BY <1>1, <1>2 DEF ListingInv, TypeOK, Postings, Entries!TypeOK
<1>4. \A i \in Jobs : PostingIsTrue(i)'
  BY <1>1 DEF ListingInv, PostingIsTrue
<1>5. (\A r \in Readers : ReaderIsTrue(r)') /\ StoredIsTrue'
  BY <1>1, <1>2 DEF ListingInv, ReaderIsTrue, StoredIsTrue, Whole
<1>6. j \notin overtaken' => works /\ \A r \in Readers : ~Overlooks(r, j)
  BY DEF EvictList
<1>7. ASSUME NEW i \in Jobs \ overtaken', posting'[i] = "created"
      PROVE  ListsInclude(i)'
  <2>1. CASE i = j
    BY <1>1, <1>2, <1>6, <1>7, <2>1 DEF ListsInclude, Overlooks
  <2>2. CASE i # j
    <3>1. i \in Jobs \ overtaken /\ posting[i] = "created"
      BY <1>1, <1>7, <2>2
    <3>2. ListsInclude(i)
      BY <3>1 DEF ListingInv
    <3> QED BY <1>1, <1>2, <3>2 DEF ListsInclude, Keys
  <2> QED BY <2>1, <2>2
<1> QED BY <1>3, <1>4, <1>5, <1>7 DEF ListingInv

LEMMA FailKeeps == ASSUME ListingInv, NEW j \in Jobs, Fail(j) PROVE ListingInv'
<1>1. /\ posting' = [posting EXCEPT ![j] = "failed"] /\ posting \in [Jobs -> Postings]
      /\ UNCHANGED <<jobs, call, stored, redisErrors, overtaken>>
  BY DEF Fail, ListingInv, TypeOK, Postings
<1>2. TypeOK'
  BY <1>1 DEF ListingInv, TypeOK, Postings, Entries!TypeOK
<1>3. \A i \in Jobs : PostingIsTrue(i)'
  BY <1>1 DEF ListingInv, PostingIsTrue
<1>4. (\A r \in Readers : ReaderIsTrue(r)') /\ StoredIsTrue'
  BY <1>1 DEF ListingInv, ReaderIsTrue, StoredIsTrue, Whole
<1>5. ASSUME NEW i \in Jobs \ overtaken, posting'[i] = "created"
      PROVE  ListsInclude(i)'
  <2>1. posting[i] = "created"
    BY <1>1, <1>5
  <2> QED BY <1>1, <2>1 DEF ListingInv, ListsInclude
<1> QED BY <1>1, <1>2, <1>3, <1>4, <1>5 DEF ListingInv

LEMMA HandleSkillUpdatedKeeps ==
  ASSUME ListingInv, NEW works \in BOOLEAN, HandleSkillUpdated(works)
  PROVE  ListingInv'
<1>1. Entries!Put(All, None) \/ UNCHANGED stored
  BY DEF HandleSkillUpdated, Entries!Del
<1>2. redisErrors' \in 0 .. MaxRedisErrors /\ UNCHANGED <<jobs, posting, call, overtaken>>
  BY ErrorsAreBounded DEF HandleSkillUpdated, RedisServes, ListingInv, TypeOK
<1> QED BY <1>1, <1>2, DropKeeps DEF Keys

LEMMA ExpireKeeps == ASSUME ListingInv, NEW key \in Keys, Expire(key) PROVE ListingInv'
<1>1. Entries!Put(key, None) /\ UNCHANGED <<jobs, posting, call, redisErrors, overtaken>>
  BY DEF Expire, Entries!Expire
<1>2. redisErrors' \in 0 .. MaxRedisErrors
  BY <1>1 DEF ListingInv, TypeOK
<1> QED BY <1>1, <1>2, DropKeeps

LEMMA LookupKeeps ==
  ASSUME ListingInv, NEW r \in Readers, NEW key \in Keys, NEW works \in BOOLEAN, Lookup(r, key, works)
  PROVE  ListingInv'
<1> DEFINE entry == Entries!Get(key, works)
           new == [pc |-> IF entry = None THEN "missed" ELSE "answered",
                   key |-> key, rows |-> {}, listing |-> entry, made |-> Created]
<1>1. entry \in {None, stored[key]} /\ entry \in Listings \cup {None}
  BY DEF Entries!Get, ListingInv, TypeOK, Entries!TypeOK
<1>2. new \in Call /\ new.pc \in {"missed", "answered"} /\ new.listing = entry
  BY <1>1 DEF Call, Created
<1>3. call' = [call EXCEPT ![r] = new]
  BY DEF Lookup
<1>4. UNCHANGED <<jobs, posting, stored, overtaken>> /\ redisErrors' \in 0 .. MaxRedisErrors
  BY ErrorsAreBounded DEF Lookup, RedisServes, ListingInv, TypeOK
<1> HIDE DEF new, entry
<1>5. call'[r] = new
  BY <1>3 DEF ListingInv, TypeOK
<1>6. ReaderIsTrue(r)'
  BY <1>1, <1>2, <1>4, <1>5 DEF ReaderIsTrue, ListingInv, StoredIsTrue, Whole
<1> QED BY <1>2, <1>3, <1>4, <1>6, ReaderKeeps

LEMMA ReadJobsKeeps == ASSUME ListingInv, NEW r \in Readers, ReadJobs(r) PROVE ListingInv'
<1> DEFINE rows == DOMAIN jobs \cap Wanted(call[r].key)
<1>1. call \in [Readers -> Call] /\ DOMAIN jobs \subseteq Jobs /\ call[r].pc = "missed"
  BY ListingsAre DEF ReadJobs, ListingInv, TypeOK
<1>2. UNCHANGED <<jobs, posting, stored, overtaken>> /\ redisErrors' \in 0 .. MaxRedisErrors
  BY DEF ReadJobs, ListingInv, TypeOK
<1>3. CASE IsError(call[r].key, rows)
  <2> DEFINE new == [call[r] EXCEPT !.pc = "answered", !.listing = NotFound]
  <2>1. call' = [call EXCEPT ![r] = new]
    BY <1>1, <1>3 DEF ReadJobs, Answer
  <2>2. NotFound \in Listings /\ DOMAIN NotFound = {}
    BY ListingsAre DEF NotFound, Empty
  <2>3. new \in Call /\ new.pc = "answered" /\ new.listing = NotFound
    BY <1>1, <2>2 DEF Call
  <2> HIDE DEF new
  <2>4. call'[r] = new
    BY <1>1, <2>1
  <2>5. ReaderIsTrue(r)'
    BY <2>2, <2>3, <2>4 DEF ReaderIsTrue, Whole
  <2> QED BY <1>2, <2>1, <2>3, <2>5, ReaderKeeps
<1>4. CASE ~IsError(call[r].key, rows)
  <2> DEFINE new == [call[r] EXCEPT !.pc = "read", !.rows = rows]
  <2>1. call' = [call EXCEPT ![r] = new]
    BY <1>1, <1>4 DEF ReadJobs
  <2>2. rows \subseteq Jobs
    BY <1>1
  <2>3. /\ new \in Call /\ new.pc = "read" /\ new.rows = rows
        /\ new.key = call[r].key /\ new.listing = call[r].listing
    BY <1>1, <2>2 DEF Call
  <2> HIDE DEF new
  <2>4. call'[r] = new
    BY <1>1, <2>1
  <2>5. ReaderIsTrue(r)'
    BY <1>2, <2>3, <2>4 DEF ReaderIsTrue, ListingInv, Whole
  <2> QED BY <1>2, <2>1, <2>3, <2>5, ReaderKeeps
<1> QED BY <1>3, <1>4

LEMMA ReadSkillsKeeps == ASSUME ListingInv, NEW r \in Readers, ReadSkills(r) PROVE ListingInv'
<1> DEFINE listing == WithSkills(r)
           new == [call[r] EXCEPT !.pc = "filling", !.listing = listing]
<1>1. /\ call \in [Readers -> Call] /\ call[r].pc = "read" /\ call[r].rows \subseteq DOMAIN jobs
      /\ DOMAIN jobs \subseteq Jobs /\ jobs \in [DOMAIN jobs -> SUBSET Skills]
  BY ListingsAre DEF ReadSkills, ListingInv, ReaderIsTrue, TypeOK
<1>2. /\ DOMAIN listing = call[r].rows /\ listing \in [call[r].rows -> SUBSET Skills]
      /\ \A j \in call[r].rows : listing[j] = jobs[j]
  BY <1>1 DEF WithSkills
<1>3. listing \in Listings
  BY <1>1, <1>2, ListingsAre
<1>4. call' = [call EXCEPT ![r] = new]
  BY <1>1 DEF ReadSkills
<1>5. UNCHANGED <<jobs, posting, stored, overtaken>> /\ redisErrors' \in 0 .. MaxRedisErrors
  BY DEF ReadSkills, ListingInv, TypeOK
<1> HIDE DEF listing
<1>6. /\ new \in Call /\ new.pc = "filling" /\ new.rows = call[r].rows
      /\ new.key = call[r].key /\ new.listing = listing
  BY <1>1, <1>3 DEF Call
<1> HIDE DEF new
<1>7. call'[r] = new
  BY <1>1, <1>4
<1>8. ReaderIsTrue(r)'
  BY <1>1, <1>2, <1>3, <1>5, <1>6, <1>7 DEF ReaderIsTrue, Whole
<1> QED BY <1>1, <1>4, <1>5, <1>6, <1>8, ReaderKeeps

LEMMA ReadFailsKeeps == ASSUME ListingInv, NEW r \in Readers, ReadFails(r) PROVE ListingInv'
<1> DEFINE new == [call[r] EXCEPT !.pc = "answered", !.listing = Failed]
<1>1. call \in [Readers -> Call]
  BY DEF ListingInv, TypeOK
<1>2. call' = [call EXCEPT ![r] = new]
  BY <1>1 DEF ReadFails, Answer
<1>3. UNCHANGED <<jobs, posting, stored, overtaken>> /\ redisErrors' \in 0 .. MaxRedisErrors
  BY DEF ReadFails, ListingInv, TypeOK
<1>4. new \in Call /\ new.pc = "answered" /\ new.listing = None
  BY <1>1 DEF Call, Failed
<1> HIDE DEF new
<1>5. call'[r] = new
  BY <1>1, <1>2
<1>6. ReaderIsTrue(r)'
  BY <1>4, <1>5 DEF ReaderIsTrue
<1> QED BY <1>2, <1>3, <1>4, <1>6, ReaderKeeps

LEMMA FillKeeps ==
  ASSUME ListingInv, NEW r \in Readers, NEW works \in BOOLEAN, Fill(r, works)
  PROVE  ListingInv'
<1> DEFINE new == [call[r] EXCEPT !.pc = "answered", !.listing = call[r].listing]
<1>1. /\ call \in [Readers -> Call] /\ call[r].pc = "filling" /\ call[r].key \in Keys
      /\ call[r].listing \in Listings /\ DOMAIN call[r].listing = call[r].rows
      /\ Whole(call[r].listing)
  BY DEF Fill, ListingInv, ReaderIsTrue, TypeOK, Call
<1>2. /\ UNCHANGED <<jobs, posting, overtaken>>
      /\ redisErrors' \in 0 .. MaxRedisErrors
  BY ErrorsAreBounded DEF Fill, RedisServes, ListingInv, TypeOK
<1>3. call' = [call EXCEPT ![r] = new]
  BY <1>1 DEF Fill, Answer
<1>4. new \in Call /\ new.pc = "answered" /\ new.listing = call[r].listing
  BY <1>1 DEF Call
<1>5. Entries!Put(call[r].key, call[r].listing) \/ UNCHANGED stored
  BY DEF Fill, Entries!Set
<1>6. /\ stored' \in [Keys -> Listings \cup {None}]
      /\ stored'[call[r].key] \in {stored[call[r].key], call[r].listing}
      /\ \A key \in Keys : key # call[r].key => stored'[key] = stored[key]
  BY <1>1, <1>5, PutIsTyped DEF ListingInv, TypeOK, Entries!TypeOK
<1> HIDE DEF new
<1>7. call'[r] = new /\ call' \in [Readers -> Call] /\ \A q \in Readers : q # r => call'[q] = call[q]
  BY <1>1, <1>3, <1>4
<1>8. TypeOK'
  BY <1>2, <1>6, <1>7 DEF ListingInv, TypeOK, Entries!TypeOK
<1>9. \A q \in Readers : ReaderIsTrue(q)'
  BY <1>1, <1>2, <1>4, <1>7 DEF ListingInv, ReaderIsTrue, Whole
<1>10. StoredIsTrue'
  <2>1. ASSUME NEW key \in Keys, stored'[key] # None PROVE Whole(stored[key])'
    <3>1. stored'[key] = call[r].listing \/ stored'[key] = stored[key]
      BY <1>6
    <3> QED BY <1>1, <1>2, <2>1, <3>1 DEF ListingInv, StoredIsTrue, Whole
  <2> QED BY <2>1 DEF StoredIsTrue
<1>11. \A j \in Jobs : PostingIsTrue(j)'
  BY <1>2 DEF ListingInv, PostingIsTrue
<1>12. ASSUME NEW j \in Jobs \ overtaken, posting[j] = "created"
       PROVE  ListsInclude(j)'
  <2>1. ListsInclude(j)
    BY <1>12 DEF ListingInv
  <2>2. stored'[All] # None => j \in DOMAIN stored'[All]
    <3>1. CASE call[r].key = All
      BY <1>1, <1>6, <2>1, <3>1 DEF ListsInclude
    <3>2. CASE call[r].key # All
      BY <1>6, <2>1, <3>2 DEF ListsInclude, Keys
    <3> QED BY <3>1, <3>2
  <2> QED BY <1>4, <1>7, <2>1, <2>2 DEF ListsInclude
<1> QED BY <1>2, <1>8, <1>9, <1>10, <1>11, <1>12 DEF ListingInv

LEMMA ListingSteps == ASSUME ListingInv, [Next]_vars PROVE ListingInv'
<1>1. CASE UNCHANGED vars
  <2>1. TypeOK'
    BY <1>1 DEF vars, ListingInv, TypeOK, Entries!TypeOK
  <2>2. (\A j \in Jobs : PostingIsTrue(j)') /\ (\A r \in Readers : ReaderIsTrue(r)') /\ StoredIsTrue'
    BY <1>1 DEF vars, ListingInv, PostingIsTrue, ReaderIsTrue, StoredIsTrue, Whole
  <2>3. \A j \in Jobs \ overtaken' : posting'[j] = "created" => ListsInclude(j)'
    BY <1>1 DEF vars, ListingInv, ListsInclude
  <2> QED BY <2>1, <2>2, <2>3 DEF ListingInv
<1>2. CASE Next
  <2>1. ASSUME NEW r \in Readers, Serve(r) PROVE ListingInv'
    BY <2>1, ReadJobsKeeps, ReadSkillsKeeps, ReadFailsKeeps, FillKeeps DEF Serve
  <2> QED BY <1>2, <2>1, InsertJobKeeps, EvictListKeeps, FailKeeps, HandleSkillUpdatedKeeps,
             LookupKeeps, ExpireKeeps DEF Next
<1> QED BY <1>1, <1>2

THEOREM ListingHolds == Spec => []ListingInv
BY ListingInitially, ListingSteps, PTL DEF Spec

\* The type invariant of JobsListing.
THEOREM ListingTyped == Spec => []TypeOK
<1>1. ListingInv => TypeOK
  BY DEF ListingInv
<1> QED BY <1>1, ListingHolds, PTL

\* ShownJobsAreWhole: no reader is shown a job without its skills, and no entry
\* holds one, however the two queries and CreateJob interleave.
THEOREM WholeJobs == Spec => []ShownJobsAreWhole
<1>1. ListingInv => ShownJobsAreWhole
  BY DEF ListingInv, ReaderIsTrue, StoredIsTrue, Whole, ShownJobsAreWhole
<1> QED BY <1>1, ListingHolds, PTL

\* StaleListHasACause: jobs:all lacks a created job only if a fill was between its
\* query and its Set when that job's Del came, or the Del failed.
THEOREM ListComplete == Spec => []StaleListHasACause
<1>1. ListingInv => StaleListHasACause
  BY DEF ListingInv, ListsInclude, StaleListHasACause
<1> QED BY <1>1, ListingHolds, PTL

--------------------------------------------------------------------------------
(***************************************************************************)
(* Profiles: no call undoes what another has written to one, for any       *)
(* number of calls.  Every statement but the SELECTs changes only the      *)
(* columns it is given, or makes the row where there is none.              *)
(***************************************************************************)

\* Nothing is written to a row that is not there, and whoever has got past
\* getOrCreateProfile has seen to it that it is.
RowComesFirst ==
  /\ profile = NoRow => written = Fresh
  /\ profile # NoRow => profile = written
  /\ \A k \in ProfileCalls : touch[k].pc \in {"created", "loaded"} => profile # NoRow

ProfilesInv == ProfilesTypeOK /\ RowComesFirst

Touches == [pc : {"idle", "begun", "missing", "created", "loaded", "answered", "failed"},
            given : [Columns -> Texts0 \cup {NoText}], row : [Columns -> Texts0 \cup {NoText}]]

--------------------------------------------------------------------------------
(* Rows *)

LEMMA RowsTyped ==
  /\ NoRow \in [Columns -> Texts0 \cup {NoText}]
  /\ Fresh \in [Columns -> Texts0]
  /\ NoRow \notin [Columns -> Texts0]
<1>1. NoText \notin Texts0 /\ "bio" \in Columns
  BY NoTextIsNone DEF Texts0, Columns
<1>2. NoRow["bio"] = NoText /\ NoRow \in [Columns -> Texts0 \cup {NoText}]
  BY <1>1 DEF NoRow
<1> QED
  BY <1>1, <1>2 DEF Fresh, Texts0

\* What is supplied replaces a column, and only that column.
LEMMA MergedTyped ==
  ASSUME NEW row \in [Columns -> Texts0 \cup {NoText}], NEW given \in [Columns -> Texts0 \cup {NoText}]
  PROVE  /\ Merged(row, given) \in [Columns -> Texts0 \cup {NoText}]
         /\ row \in [Columns -> Texts0] => Merged(row, given) \in [Columns -> Texts0]
BY DEF Merged

--------------------------------------------------------------------------------
(* The steps *)

LEMMA ProfilesInitInv == ProfilesInit => ProfilesInv
<1> SUFFICES ASSUME ProfilesInit PROVE ProfilesInv
  OBVIOUS
<1>1. NoTouch \in Touches /\ NoTouch.pc = "idle"
  BY RowsTyped DEF NoTouch, Touches
<1>2. touch \in [ProfileCalls -> Touches] /\ \A k \in ProfileCalls : touch[k].pc = "idle"
  BY <1>1 DEF ProfilesInit
<1>3. profile = NoRow /\ written = Fresh
  BY DEF ProfilesInit
<1> QED
  BY <1>2, <1>3, RowsTyped DEF ProfilesInv, ProfilesTypeOK, RowComesFirst, Touches

\* A step of call k to state pc, with the row it has then.
LEMMA OneTouch ==
  ASSUME ProfilesTypeOK, NEW k \in ProfileCalls, NEW new \in Touches, touch' = [touch EXCEPT ![k] = new]
  PROVE  /\ touch' \in [ProfileCalls -> Touches] /\ touch'[k] = new
         /\ \A q \in ProfileCalls : q # k => touch'[q] = touch[q]
BY DEF ProfilesTypeOK, Touches

LEMMA BeginInv ==
  ASSUME ProfilesInv, NEW k \in ProfileCalls, NEW given \in [Columns -> Texts \cup {"", NoText}], Begin(k, given)
  PROVE  ProfilesInv'
<1>1. [NoTouch EXCEPT !.pc = "begun", !.given = given] \in Touches
  BY RowsTyped DEF NoTouch, Touches, Texts0
<1>2. touch' = [touch EXCEPT ![k] = [NoTouch EXCEPT !.pc = "begun", !.given = given]]
  BY DEF Begin
<1>3. /\ touch' \in [ProfileCalls -> Touches] /\ touch'[k].pc = "begun"
      /\ \A q \in ProfileCalls : q # k => touch'[q] = touch[q]
  BY <1>1, <1>2, OneTouch DEF ProfilesInv, NoTouch
<1> QED
  BY <1>3 DEF Begin, ProfilesInv, ProfilesTypeOK, RowComesFirst, Touches

LEMMA LoadProfileInv == ASSUME ProfilesInv, NEW k \in ProfileCalls, LoadProfile(k) PROVE ProfilesInv'
<1>1. profile \in [Columns -> Texts0 \cup {NoText}]
  BY RowsTyped DEF ProfilesInv, ProfilesTypeOK
<1>2. /\ touch' \in [ProfileCalls -> Touches]
      /\ touch'[k].pc = IF profile = NoRow THEN "missing" ELSE "loaded"
      /\ \A q \in ProfileCalls : q # k => touch'[q] = touch[q]
  <2> DEFINE missing == [touch[k] EXCEPT !.pc = "missing"]
             loaded == [touch[k] EXCEPT !.pc = "loaded", !.row = profile]
  <2>0. /\ touch \in [ProfileCalls -> Touches] /\ ProfilesTypeOK
        /\ touch' = [touch EXCEPT ![k] = IF profile = NoRow THEN missing ELSE loaded]
    BY DEF LoadProfile, ProfilesInv, ProfilesTypeOK, Touches
  <2>1. CASE profile = NoRow
    <3>1. missing \in Touches /\ missing.pc = "missing"
      BY <2>0 DEF Touches
    <3> HIDE DEF missing, loaded
    <3> QED
      BY <2>0, <2>1, <3>1, OneTouch
  <2>2. CASE profile # NoRow
    <3>1. loaded \in Touches /\ loaded.pc = "loaded"
      BY <1>1, <2>0 DEF Touches
    <3> HIDE DEF missing, loaded
    <3> QED
      BY <2>0, <2>2, <3>1, OneTouch
  <2> QED
    BY <2>1, <2>2
<1> QED
  BY <1>2 DEF LoadProfile, ProfilesInv, ProfilesTypeOK, RowComesFirst, Touches

LEMMA CreateProfileInv == ASSUME ProfilesInv, NEW k \in ProfileCalls, CreateProfile(k) PROVE ProfilesInv'
<1>1. /\ touch' \in [ProfileCalls -> Touches]
      /\ \A q \in ProfileCalls : q # k => touch'[q] = touch[q]
  BY DEF CreateProfile, ProfilesInv, ProfilesTypeOK, Touches
<1>2. profile' = written /\ profile' \in [Columns -> Texts0]
  BY RowsTyped DEF CreateProfile, Inserted, ProfilesInv, ProfilesTypeOK, RowComesFirst
<1> QED
  BY <1>1, <1>2, RowsTyped DEF CreateProfile, ProfilesInv, ProfilesTypeOK, RowComesFirst, Touches

LEMMA RefetchInv == ASSUME ProfilesInv, NEW k \in ProfileCalls, Refetch(k) PROVE ProfilesInv'
<1>1. profile \in [Columns -> Texts0 \cup {NoText}]
  BY RowsTyped DEF ProfilesInv, ProfilesTypeOK
<1>2. /\ touch' \in [ProfileCalls -> Touches]
      /\ \A q \in ProfileCalls : q # k => touch'[q] = touch[q]
  <2> DEFINE loaded == [touch[k] EXCEPT !.pc = "loaded", !.row = profile]
  <2>1. touch \in [ProfileCalls -> Touches] /\ ProfilesTypeOK
    BY DEF ProfilesInv, ProfilesTypeOK, Touches
  <2>2. touch' = [touch EXCEPT ![k] = loaded]
    BY <2>1 DEF Refetch
  <2>3. loaded \in Touches
    BY <1>1, <2>1 DEF Touches
  <2> HIDE DEF loaded
  <2> QED
    BY <2>1, <2>2, <2>3, OneTouch
<1> QED
  BY <1>2 DEF Refetch, ProfilesInv, ProfilesTypeOK, RowComesFirst, Touches

\* The row and the record of what was written to it take the same columns.
LEMMA UpdateColumnsInv == ASSUME ProfilesInv, NEW k \in ProfileCalls, UpdateColumns(k) PROVE ProfilesInv'
<1>1. touch[k] \in Touches /\ touch[k].pc = "loaded"
  BY DEF ProfilesInv, ProfilesTypeOK, Touches, UpdateColumns
<1>2. profile = written /\ written \in [Columns -> Texts0]
  BY <1>1 DEF ProfilesInv, ProfilesTypeOK, RowComesFirst
<1>3. touch[k].given \in [Columns -> Texts0 \cup {NoText}] /\ touch[k].row \in [Columns -> Texts0 \cup {NoText}]
  BY <1>1 DEF Touches
<1>4. Merged(touch[k].row, touch[k].given) \in [Columns -> Texts0 \cup {NoText}]
  BY <1>3, MergedTyped
<1>5. Merged(written, touch[k].given) \in [Columns -> Texts0]
  BY <1>2, <1>3, MergedTyped
<1>6. profile' = written' /\ written' \in [Columns -> Texts0]
  BY <1>2, <1>5 DEF UpdateColumns, Updated
<1>7. touch' \in [ProfileCalls -> Touches]
  <2> DEFINE answered == [touch[k] EXCEPT !.pc = "answered", !.row = Merged(touch[k].row, touch[k].given)]
  <2>1. touch' = [touch EXCEPT ![k] = answered]
    BY DEF UpdateColumns, ProfilesInv, ProfilesTypeOK
  <2>2. answered \in Touches
    BY <1>1, <1>4 DEF Touches
  <2> HIDE DEF answered
  <2> QED
    BY <2>1, <2>2, OneTouch DEF ProfilesInv
<1> QED
  BY <1>6, <1>7, RowsTyped DEF ProfilesInv, ProfilesTypeOK, RowComesFirst, Touches

LEMMA TouchFailsInv == ASSUME ProfilesInv, NEW k \in ProfileCalls, TouchFails(k) PROVE ProfilesInv'
BY DEF TouchFails, ProfilesInv, ProfilesTypeOK, RowComesFirst

LEMMA ProfilesNextInv == ProfilesInv /\ [ProfilesNext]_profileVars => ProfilesInv'
<1> SUFFICES ASSUME ProfilesInv, [ProfilesNext]_profileVars PROVE ProfilesInv'
  OBVIOUS
<1>1. ASSUME NEW k \in ProfileCalls, NEW given \in [Columns -> Texts \cup {"", NoText}], Begin(k, given)
      PROVE  ProfilesInv'
  BY <1>1, BeginInv
<1>2. ASSUME NEW k \in ProfileCalls,
             LoadProfile(k) \/ CreateProfile(k) \/ Refetch(k) \/ UpdateColumns(k) \/ TouchFails(k)
      PROVE  ProfilesInv'
  BY <1>2, LoadProfileInv, CreateProfileInv, RefetchInv, UpdateColumnsInv, TouchFailsInv
<1>3. CASE UNCHANGED profileVars
  BY <1>3 DEF profileVars, ProfilesInv, ProfilesTypeOK, RowComesFirst
<1> QED
  BY <1>1, <1>2, <1>3 DEF ProfilesNext

--------------------------------------------------------------------------------
(* Theorems *)

\* Type correctness: rows, requests and answers have a text or nothing in each
\* column, and a row in the table has two texts.
THEOREM ProfilesTyped == ProfilesSpec => []ProfilesTypeOK
<1>1. ProfilesInv => ProfilesTypeOK
  BY DEF ProfilesInv
<1> QED
  BY <1>1, ProfilesInitInv, ProfilesNextInv, PTL DEF ProfilesSpec

\* A column holds what was last written to it on purpose, whichever calls race.
THEOREM ColumnsSurvive == ProfilesSpec => []UnsetColumnsSurvive
<1>1. ProfilesInv => UnsetColumnsSurvive
  BY DEF ProfilesInv, RowComesFirst, UnsetColumnsSurvive
<1> QED
  BY <1>1, ProfilesInitInv, ProfilesNextInv, PTL DEF ProfilesSpec
================================================================================
