------------------------------ MODULE ServingProofs ------------------------------
(***************************************************************************)
(* Proofs about serving a request: the rate limiter that admits it, for    *)
(* any limit, window and number of overlapping requests; the gateway that  *)
(* answers it, for any clients, ids and operations of the schema; and the  *)
(* shutdown that must not cut it off, for every program with its cleanups  *)
(* in order and its servers distinct and any number of requests.           *)
(***************************************************************************)
EXTENDS RateLimit, Shutdown, Gateway, FiniteSetTheorems, TLAPS

--------------------------------------------------------------------------------
(* The rate limiter: a counter and the budget its own identity has used go   *)
(* up and are reset together, and what a window has admitted was admitted in *)
(* the life of this counter or of the one before.                            *)

\* The counter of a key counts what its identity has used, and no one else.
CountersAreOwn ==
  \A key \in Keys : used[key] = IF count[key] <= Limit THEN count[key] ELSE Limit

BudgetInv == LimiterTypeOK /\ CountersAreOwn

Callers == Users \cup {Anonymous}

--------------------------------------------------------------------------------
LEMMA KeyIsIdentity ==
  ASSUME NEW user \in Callers, NEW address \in Addresses
  PROVE  rateLimitKey(user, address) = Identity(user, address) /\ rateLimitKey(user, address) \in Keys
BY DEF rateLimitKey, Identity, Keys, Callers

LEMMA AgesTyped == 0 \in Ages /\ \A age \in Ages : age # 0 => age - 1 \in Ages
BY LimitIsPositive DEF Ages

LEMMA BudgetInit == LimiterInit => BudgetInv
<1> SUFFICES ASSUME LimiterInit PROVE BudgetInv
  OBVIOUS
<1>1. recent \in [Keys -> [Ages -> Nat]]
  BY DEF LimiterInit
<1>2. progress \in [ApiRequests -> Progress]
  BY DEF LimiterInit, Progress
<1> QED
  BY <1>1, <1>2, LimitIsPositive DEF LimiterInit, BudgetInv, LimiterTypeOK, CountersAreOwn

LEMMA IncrBudget ==
  ASSUME BudgetInv, NEW r \in ApiRequests, NEW user \in Callers, NEW address \in Addresses, Incr(r, user, address)
  PROVE  BudgetInv'
<1> DEFINE key == rateLimitKey(user, address)
           n == count[key] + 1
<1>1. key \in Keys /\ key = Identity(user, address)
  BY KeyIsIdentity
<1>2. count[key] \in 0 .. Limit + 2 /\ n \in Nat
  BY <1>1, LimitIsPositive DEF BudgetInv, LimiterTypeOK
<1>3. /\ count' = [count EXCEPT ![key] = IF n > Limit + 2 THEN Limit + 2 ELSE n]
      /\ used' = [used EXCEPT ![key] = IF n <= Limit THEN @ + 1 ELSE @]
      /\ UNCHANGED <<ttl, lost>>
  <2>1. /\ count' = [count EXCEPT ![key] = IF n > Limit + 2 THEN Limit + 2 ELSE n]
        /\ used' = [used EXCEPT ![Identity(user, address)] = IF ~Exceeds(n) THEN @ + 1 ELSE @]
        /\ UNCHANGED <<ttl, lost>>
    BY DEF Incr
  <2>2. ~Exceeds(n) <=> n <= Limit
    BY <1>2, LimitIsPositive DEF Exceeds
  <2> QED
    BY <2>1, <2>2, <1>1
<1>4. count' \in [Keys -> 0 .. Limit + 2] /\ used' \in [Keys -> Nat]
  BY <1>1, <1>2, <1>3, LimitIsPositive DEF BudgetInv, LimiterTypeOK
<1>5. progress' \in [ApiRequests -> Progress]
  <2> DEFINE pc == IF Creates(n) THEN "created" ELSE IF ~Exceeds(n) THEN "admitted" ELSE "rejected"
  <2>1. progress' = [progress EXCEPT ![r] = [pc |-> pc, key |-> key, identity |-> Identity(user, address)]]
    BY DEF Incr
  <2>2. pc \in {"idle", "created", "admitted", "rejected"}
    OBVIOUS
  <2> HIDE DEF pc
  <2> QED
    BY <2>1, <2>2, <1>1 DEF BudgetInv, LimiterTypeOK, Progress
<1>6. recent' \in [Keys -> [Ages -> Nat]]
  <2>1. recent' = [recent EXCEPT ![key] =
                     [age \in Ages |-> IF ~Exceeds(n) THEN recent[key][age] + 1 ELSE recent[key][age]]]
    BY DEF Incr
  <2>2. recent \in [Keys -> [Ages -> Nat]] /\ \A age \in Ages : recent[key][age] \in Nat
    BY <1>1 DEF BudgetInv, LimiterTypeOK
  <2> DEFINE row == [age \in Ages |-> IF ~Exceeds(n) THEN recent[key][age] + 1 ELSE recent[key][age]]
  <2>3. row \in [Ages -> Nat]
    BY <2>2
  <2> HIDE DEF row
  <2>4. recent' = [recent EXCEPT ![key] = row]
    BY <2>1 DEF row
  <2> QED
    BY <2>2, <2>3, <2>4
<1>7. ASSUME NEW k \in Keys
      PROVE  used'[k] = IF count'[k] <= Limit THEN count'[k] ELSE Limit
  <2>1. /\ count \in [Keys -> 0 .. Limit + 2] /\ used \in [Keys -> Nat] /\ Limit \in Nat
        /\ used[k] = IF count[k] <= Limit THEN count[k] ELSE Limit
    BY LimitIsPositive DEF BudgetInv, LimiterTypeOK, CountersAreOwn
  <2>2. CASE k # key
    <3>1. count'[k] = count[k] /\ used'[k] = used[k]
      BY <1>3, <2>1, <2>2
    <3> QED
      BY <2>1, <3>1
  <2>3. CASE k = key
    <3>1. /\ count'[k] = (IF n > Limit + 2 THEN Limit + 2 ELSE n)
          /\ used'[k] = (IF n <= Limit THEN used[k] + 1 ELSE used[k])
      BY <1>3, <2>1, <2>3
    <3>2. count[k] \in 0 .. Limit + 2 /\ n = count[k] + 1
      BY <1>2, <2>3
    <3> HIDE DEF n, key
    <3> QED
      BY <2>1, <3>1, <3>2
  <2> QED
    BY <2>2, <2>3
<1> QED
  BY <1>3, <1>4, <1>5, <1>6, <1>7 DEF BudgetInv, LimiterTypeOK, CountersAreOwn

LEMMA FailOpenBudget ==
  ASSUME BudgetInv, NEW r \in ApiRequests, NEW user \in Callers, NEW address \in Addresses, FailOpen(r, user, address)
  PROVE  BudgetInv'
<1>1. progress' \in [ApiRequests -> Progress]
  <2>1. [pc |-> "admitted", key |-> rateLimitKey(user, address), identity |-> Identity(user, address)]
          \in Progress
    BY KeyIsIdentity DEF Progress
  <2>2. progress \in [ApiRequests -> Progress]
    BY DEF BudgetInv, LimiterTypeOK
  <2> QED
    BY <2>1, <2>2 DEF FailOpen
<1> QED
  BY <1>1 DEF FailOpen, BudgetInv, LimiterTypeOK, CountersAreOwn

LEMMA ExpiryBudget ==
  ASSUME BudgetInv, NEW r \in ApiRequests, SetExpiry(r) \/ LoseExpiry(r)
  PROVE  BudgetInv'
<1>1. progress' \in [ApiRequests -> Progress]
  <2>1. progress \in [ApiRequests -> Progress]
    BY DEF BudgetInv, LimiterTypeOK
  <2>2. progress' = [progress EXCEPT ![r].pc = "admitted"]
    BY DEF SetExpiry, LoseExpiry
  <2>3. [progress[r] EXCEPT !.pc = "admitted"] \in Progress
    BY <2>1 DEF Progress
  <2>4. progress' = [progress EXCEPT ![r] = [progress[r] EXCEPT !.pc = "admitted"]]
    BY <2>1, <2>2
  <2> QED
    BY <2>1, <2>3, <2>4
<1>2. ttl' \in [Keys -> 0 .. Window]
  <2>1. ttl \in [Keys -> 0 .. Window] /\ Window \in 0 .. Window
    BY LimitIsPositive DEF BudgetInv, LimiterTypeOK
  <2>2. ttl' = ttl \/ ttl' = [ttl EXCEPT ![progress[r].key] = Window]
    BY DEF SetExpiry, LoseExpiry, Lifetime
  <2> QED
    BY <2>1, <2>2
<1>3. lost' \in 0 .. MaxLost
  BY LimitIsPositive DEF SetExpiry, LoseExpiry, BudgetInv, LimiterTypeOK
<1> QED
  BY <1>1, <1>2, <1>3 DEF SetExpiry, LoseExpiry, BudgetInv, LimiterTypeOK, CountersAreOwn

\* Counter and budget are reset by the same expiry.
LEMMA TickBudget == ASSUME BudgetInv, Tick PROVE BudgetInv'
<1> DEFINE over == {key \in Keys : ttl[key] = 1}
<1>1. count' \in [Keys -> 0 .. Limit + 2] /\ used' \in [Keys -> Nat]
  BY LimitIsPositive DEF Tick, BudgetInv, LimiterTypeOK
<1>2. ttl' \in [Keys -> 0 .. Window]
  <2>1. \A key \in Keys : ttl[key] # 0 => ttl[key] - 1 \in 0 .. Window
    <3>1. ttl \in [Keys -> 0 .. Window]
      BY DEF BudgetInv, LimiterTypeOK
    <3> QED
      BY <3>1, LimitIsPositive
  <2> QED
    BY <2>1, LimitIsPositive DEF Tick, BudgetInv, LimiterTypeOK
<1>3. recent' \in [Keys -> [Ages -> Nat]]
  <2>1. \A key \in Keys, age \in Ages : age # 0 => recent[key][age - 1] \in Nat
    BY AgesTyped DEF BudgetInv, LimiterTypeOK
  <2> QED
    BY <2>1 DEF Tick
<1>4. CountersAreOwn'
  BY LimitIsPositive DEF Tick, BudgetInv, LimiterTypeOK, CountersAreOwn
<1> QED
  BY <1>1, <1>2, <1>3, <1>4 DEF Tick, BudgetInv, LimiterTypeOK

LEMMA BudgetNext == BudgetInv /\ [LimiterNext]_limiterVars => BudgetInv'
<1> SUFFICES ASSUME BudgetInv, [LimiterNext]_limiterVars PROVE BudgetInv'
  OBVIOUS
<1>1. ASSUME NEW r \in ApiRequests, NEW user \in Callers, NEW address \in Addresses,
             Incr(r, user, address) \/ FailOpen(r, user, address)
      PROVE  BudgetInv'
  BY <1>1, IncrBudget, FailOpenBudget
<1>2. ASSUME NEW r \in ApiRequests, SetExpiry(r) \/ LoseExpiry(r) PROVE BudgetInv'
  BY <1>2, ExpiryBudget
<1>3. CASE Tick
  BY <1>3, TickBudget
<1>4. CASE UNCHANGED limiterVars
  BY <1>4 DEF limiterVars, BudgetInv, LimiterTypeOK, CountersAreOwn
<1> QED
  BY <1>1, <1>2, <1>3, <1>4 DEF LimiterNext, Callers

LEMMA AlwaysBudget == LimiterSpec => []BudgetInv
BY BudgetInit, BudgetNext, PTL DEF LimiterSpec

--------------------------------------------------------------------------------
(* The window.  A counter with an expiry has admitted whatever was admitted  *)
(* since that was set; one that ends has admitted all of its window.         *)

WindowInv ==
  \A key \in Keys :
    /\ \A older, newer \in Ages : newer <= older => recent[key][newer] <= recent[key][older]
    /\ recent[key][0] <= used[key]
    /\ ttl[key] > 0 => recent[key][Window - ttl[key]] <= used[key]
    /\ recent[key][Window - 1] <= Limit + used[key]

LEMMA LastAge ==
  /\ Window \in Nat \ {0} /\ Window - 1 \in Ages /\ 0 \in Ages /\ Ages = 0 .. Window - 1
  /\ \A left \in 0 .. Window : left > 0 => Window - left \in Ages
BY LimitIsPositive DEF Ages

LEMMA BudgetTypes ==
  ASSUME BudgetInv, NEW key \in Keys
  PROVE  /\ \A age \in Ages : recent[key][age] \in Nat
         /\ used[key] \in 0 .. Limit /\ ttl[key] \in 0 .. Window
<1>1. used[key] \in Nat /\ count[key] \in 0 .. Limit + 2 /\ ttl[key] \in 0 .. Window
      /\ \A age \in Ages : recent[key][age] \in Nat
  BY DEF BudgetInv, LimiterTypeOK
<1>2. used[key] <= Limit
  BY <1>1, LimitIsPositive DEF BudgetInv, CountersAreOwn
<1> QED
  BY <1>1, <1>2, LimitIsPositive

LEMMA WindowInit == LimiterInit => WindowInv
<1> SUFFICES ASSUME LimiterInit, NEW key \in Keys
             PROVE  /\ \A older, newer \in Ages : newer <= older => recent[key][newer] <= recent[key][older]
                    /\ recent[key][0] <= used[key]
                    /\ ttl[key] > 0 => recent[key][Window - ttl[key]] <= used[key]
                    /\ recent[key][Window - 1] <= Limit + used[key]
  BY DEF WindowInv
<1>1. ttl[key] = 0 /\ used[key] = 0 /\ \A age \in Ages : recent[key][age] = 0
  BY DEF LimiterInit
<1> QED
  BY <1>1, LastAge, LimitIsPositive

\* An admitted request counts for the counter and for every age alike.
LEMMA IncrWindow ==
  ASSUME BudgetInv, WindowInv,
         NEW r \in ApiRequests, NEW user \in Callers, NEW address \in Addresses, Incr(r, user, address)
  PROVE  WindowInv'
<1> DEFINE key == rateLimitKey(user, address)
<1>1. key \in Keys /\ key = Identity(user, address)
  BY KeyIsIdentity
<1>2. PICK admit \in BOOLEAN :
        /\ recent' = [recent EXCEPT ![key] =
                        [age \in Ages |-> IF admit THEN recent[key][age] + 1 ELSE recent[key][age]]]
        /\ used' = [used EXCEPT ![key] = IF admit THEN @ + 1 ELSE @]
        /\ UNCHANGED ttl
  BY <1>1 DEF Incr
<1> HIDE DEF key
<1>3. ASSUME NEW k \in Keys
      PROVE  \E more \in {0, 1} : /\ \A age \in Ages : recent'[k][age] = recent[k][age] + more
                                 /\ used'[k] = used[k] + more /\ ttl'[k] = ttl[k]
  <2>1. recent \in [Keys -> [Ages -> Nat]] /\ used \in [Keys -> Nat]
    BY DEF BudgetInv, LimiterTypeOK
  <2>2. /\ used'[k] = IF k = key /\ admit THEN used[k] + 1 ELSE used[k]
        /\ \A age \in Ages :
             recent'[k][age] = IF k = key /\ admit THEN recent[k][age] + 1 ELSE recent[k][age]
    BY <1>1, <1>2, <2>1
  <2>3. CASE k = key /\ admit
    <3>1. /\ \A age \in Ages : recent'[k][age] = recent[k][age] + 1
          /\ used'[k] = used[k] + 1 /\ ttl'[k] = ttl[k]
      BY <1>2, <2>2, <2>3
    <3> QED
      BY <3>1
  <2>4. CASE ~(k = key /\ admit)
    <3>1. /\ \A age \in Ages : recent'[k][age] = recent[k][age] + 0
          /\ used'[k] = used[k] + 0 /\ ttl'[k] = ttl[k]
      BY <1>2, <2>1, <2>2, <2>4
    <3> QED
      BY <3>1
  <2> QED
    BY <2>3, <2>4
<1>4. ASSUME NEW k \in Keys
      PROVE  /\ \A older, newer \in Ages : newer <= older => recent'[k][newer] <= recent'[k][older]
             /\ recent'[k][0] <= used'[k]
             /\ ttl'[k] > 0 => recent'[k][Window - ttl'[k]] <= used'[k]
             /\ recent'[k][Window - 1] <= Limit + used'[k]
  <2>1. PICK more \in {0, 1} :
          /\ \A age \in Ages : recent'[k][age] = recent[k][age] + more
          /\ used'[k] = used[k] + more /\ ttl'[k] = ttl[k]
    BY <1>3
  <2>2. /\ \A age \in Ages : recent[k][age] \in Nat
        /\ used[k] \in Nat /\ ttl[k] \in 0 .. Window
    BY BudgetTypes
  <2>3. /\ \A older, newer \in Ages : newer <= older => recent[k][newer] <= recent[k][older]
        /\ recent[k][0] <= used[k]
        /\ ttl[k] > 0 => recent[k][Window - ttl[k]] <= used[k]
        /\ recent[k][Window - 1] <= Limit + used[k]
    BY DEF WindowInv
  <2>4. \A older, newer \in Ages : newer <= older => recent'[k][newer] <= recent'[k][older]
    BY <2>1, <2>2, <2>3
  <2>5. recent'[k][0] <= used'[k] /\ recent'[k][Window - 1] <= Limit + used'[k]
    <3>1. PICK last \in Ages : last = Window - 1
      BY LastAge
    <3>2. 0 \in Ages /\ Limit \in Nat
      BY LastAge, LimitIsPositive
    <3>3. /\ recent'[k][0] = recent[k][0] + more /\ recent'[k][last] = recent[k][last] + more
          /\ recent[k][0] \in Nat /\ recent[k][last] \in Nat
      BY <2>1, <2>2, <3>2
    <3>4. recent[k][0] <= used[k] /\ recent[k][last] <= Limit + used[k]
      BY <2>3, <3>1
    <3>5. recent'[k][0] <= used'[k] /\ recent'[k][last] <= Limit + used'[k]
      BY <2>1, <2>2, <3>2, <3>3, <3>4
    <3> QED
      BY <3>1, <3>5
  <2>6. ASSUME ttl'[k] > 0 PROVE recent'[k][Window - ttl'[k]] <= used'[k]
    <3>1. PICK age \in Ages : age = Window - ttl[k] /\ age = Window - ttl'[k]
      BY <2>1, <2>2, <2>6, LastAge
    <3>2. recent[k][age] <= used[k] /\ recent[k][age] \in Nat
      BY <2>1, <2>2, <2>3, <2>6, <3>1
    <3> QED
      BY <2>1, <2>2, <3>1, <3>2
  <2> QED
    BY <2>4, <2>5, <2>6
<1> QED
  BY <1>4 DEF WindowInv

\* An expiry that is set only now leaves out none of what was admitted this tick.
LEMMA ExpiryWindow ==
  ASSUME BudgetInv, WindowInv, NEW r \in ApiRequests, SetExpiry(r)
  PROVE  WindowInv'
<1>1. ttl' = [ttl EXCEPT ![progress[r].key] = Window] /\ UNCHANGED <<recent, used>>
  BY DEF SetExpiry, Lifetime
<1>2. ASSUME NEW key \in Keys, ttl'[key] > 0 PROVE recent[key][Window - ttl'[key]] <= used[key]
  <2>1. ttl'[key] = ttl[key] \/ ttl'[key] = Window
    BY <1>1 DEF BudgetInv, LimiterTypeOK
  <2>2. Window - Window = 0
    BY LimitIsPositive
  <2> QED
    BY <1>2, <2>1, <2>2 DEF WindowInv
<1> QED
  BY <1>1, <1>2 DEF WindowInv

\* A tick that ends a counter leaves, of the window, only what it admitted.
LEMMA TickWindow == ASSUME BudgetInv, WindowInv, Tick PROVE WindowInv'
<1> SUFFICES ASSUME NEW key \in Keys
             PROVE  /\ \A older, newer \in Ages : newer <= older => recent'[key][newer] <= recent'[key][older]
                    /\ recent'[key][0] <= used'[key]
                    /\ ttl'[key] > 0 => recent'[key][Window - ttl'[key]] <= used'[key]
                    /\ recent'[key][Window - 1] <= Limit + used'[key]
  BY DEF WindowInv
<1>1. /\ ttl'[key] = IF ttl[key] = 0 THEN 0 ELSE ttl[key] - 1
      /\ \A age \in Ages : recent'[key][age] = IF age = 0 THEN 0 ELSE recent[key][age - 1]
      /\ used'[key] = IF ttl[key] = 1 THEN 0 ELSE used[key]
  BY DEF Tick
<1>2. /\ \A age \in Ages : recent[key][age] \in Nat
      /\ used[key] \in 0 .. Limit /\ ttl[key] \in 0 .. Window
  BY BudgetTypes
<1>3. /\ \A older, newer \in Ages : newer <= older => recent[key][newer] <= recent[key][older]
      /\ recent[key][0] <= used[key]
      /\ ttl[key] > 0 => recent[key][Window - ttl[key]] <= used[key]
      /\ recent[key][Window - 1] <= Limit + used[key]
  BY DEF WindowInv
<1>4. \A older, newer \in Ages : newer <= older => recent'[key][newer] <= recent'[key][older]
  <2> SUFFICES ASSUME NEW older \in Ages, NEW newer \in Ages, newer <= older
               PROVE  recent'[key][newer] <= recent'[key][older]
    OBVIOUS
  <2>1. CASE newer = 0
    <3>1. recent'[key][newer] = 0 /\ recent'[key][older] \in Nat
      BY <1>1, <1>2, <2>1, AgesTyped
    <3> QED
      BY <3>1
  <2>2. CASE newer # 0
    <3>1. older # 0 /\ newer - 1 \in Ages /\ older - 1 \in Ages /\ newer - 1 <= older - 1
      BY <2>2, AgesTyped, LastAge
    <3> QED
      BY <1>1, <1>3, <2>2, <3>1
  <2> QED
    BY <2>1, <2>2
<1>5. recent'[key][0] <= used'[key]
  BY <1>1, <1>2, LastAge, LimitIsPositive
<1>6. ASSUME ttl'[key] > 0 PROVE recent'[key][Window - ttl'[key]] <= used'[key]
  <2>1. ttl[key] >= 2 /\ ttl'[key] = ttl[key] - 1 /\ used'[key] = used[key]
    BY <1>1, <1>2, <1>6, LastAge
  <2>2. /\ Window - ttl'[key] \in Ages /\ Window - ttl'[key] # 0
        /\ Window - ttl'[key] - 1 = Window - ttl[key]
    <3>1. ttl[key] \in 2 .. Window /\ Window \in Nat
      BY <1>2, <2>1, LastAge
    <3> QED
      BY <2>1, <3>1 DEF Ages
  <2> QED
    BY <1>1, <1>3, <1>2, <2>1, <2>2
<1>7. recent'[key][Window - 1] <= Limit + used'[key]
  <2>1. recent'[key][Window - 1] \in Nat /\ recent'[key][Window - 1] <= recent[key][Window - 1]
    <3>1. CASE Window - 1 = 0
      BY <1>1, <1>2, <3>1, LastAge
    <3>2. CASE Window - 1 # 0
      <4>1. Window - 1 - 1 \in Ages /\ Window - 1 - 1 <= Window - 1 /\ Window - 1 \in Ages
        BY <3>2, AgesTyped, LastAge
      <4> QED
        BY <1>1, <1>2, <1>3, <3>2, <4>1
    <3> QED
      BY <3>1, <3>2
  <2>2. recent[key][Window - 1] \in Nat
    BY <1>2, LastAge
  <2>3. CASE ttl[key] = 1
    <3>1. recent[key][Window - 1] <= used[key] /\ used'[key] = 0
      BY <1>1, <1>3, <2>3
    <3> QED
      BY <1>2, <2>1, <2>2, <3>1, LimitIsPositive
  <2>4. CASE ttl[key] # 1
    <3>1. used'[key] = used[key]
      BY <1>1, <2>4
    <3> QED
      BY <1>2, <1>3, <2>1, <2>2, <3>1, LimitIsPositive
  <2> QED
    BY <2>3, <2>4
<1> QED
  BY <1>4, <1>5, <1>6, <1>7

LEMMA WindowNext == BudgetInv /\ WindowInv /\ [LimiterNext]_limiterVars => WindowInv'
<1> SUFFICES ASSUME BudgetInv, WindowInv, [LimiterNext]_limiterVars PROVE WindowInv'
  OBVIOUS
<1>1. ASSUME NEW r \in ApiRequests, NEW user \in Callers, NEW address \in Addresses,
             Incr(r, user, address) \/ FailOpen(r, user, address)
      PROVE  WindowInv'
  <2>1. CASE FailOpen(r, user, address)
    BY <2>1 DEF FailOpen, WindowInv
  <2> QED
    BY <1>1, <2>1, IncrWindow
<1>2. ASSUME NEW r \in ApiRequests, SetExpiry(r) \/ LoseExpiry(r) PROVE WindowInv'
  <2>1. CASE LoseExpiry(r)
    BY <2>1 DEF LoseExpiry, WindowInv
  <2> QED
    BY <1>2, <2>1, ExpiryWindow
<1>3. CASE Tick
  BY <1>3, TickWindow
<1>4. CASE UNCHANGED limiterVars
  BY <1>4 DEF limiterVars, WindowInv
<1> QED
  BY <1>1, <1>2, <1>3, <1>4 DEF LimiterNext, Callers

--------------------------------------------------------------------------------
(* Theorems about the rate limiter *)

\* Type correctness: counters, times to live and budgets stay in their ranges.
THEOREM LimiterTyped == LimiterSpec => []LimiterTypeOK
<1>1. BudgetInv => LimiterTypeOK
  BY DEF BudgetInv
<1> QED
  BY <1>1, AlwaysBudget, PTL

\* The burst at a window's end that docs/DECISIONS.md accepts is never more than twice
\* the limit, for any limit and window, with any number of requests between their
\* INCR and their EXPIRE, and whichever of these is lost.
THEOREM BurstBounded == LimiterSpec => []BurstAtMostTwice
<1>1. BudgetInv /\ WindowInv => BurstAtMostTwice
  <2> SUFFICES ASSUME BudgetInv, WindowInv, NEW key \in Keys PROVE recent[key][Window - 1] <= 2 * Limit
    BY DEF BurstAtMostTwice
  <2>1. recent[key][Window - 1] <= Limit + used[key] /\ recent[key][Window - 1] \in Nat
        /\ used[key] \in 0 .. Limit
    BY BudgetTypes, LastAge DEF WindowInv
  <2> QED
    BY <2>1, LimitIsPositive
<1>2. LimiterSpec => []WindowInv
  BY WindowInit, WindowNext, AlwaysBudget, PTL DEF LimiterSpec
<1> QED
  BY <1>1, <1>2, AlwaysBudget, PTL

\* Only an Incr turns anyone away, and only one whose counter is at the limit.
LEMMA StepRejects ==
  ASSUME BudgetInv, [LimiterNext]_limiterVars, NEW r \in ApiRequests, progress'[r] # progress[r], progress'[r].pc = "rejected"
  PROVE  used[progress'[r].identity] >= Limit
<1>1. ASSUME NEW q \in ApiRequests, NEW user \in Callers, NEW address \in Addresses, Incr(q, user, address)
      PROVE  used[progress'[r].identity] >= Limit
  <2> DEFINE key == rateLimitKey(user, address)
             n == count[key] + 1
  <2>1. key \in Keys /\ key = Identity(user, address) /\ count[key] \in 0 .. Limit + 2
    BY KeyIsIdentity DEF BudgetInv, LimiterTypeOK
  <2>2. progress'[r] = [pc |-> IF Creates(n) THEN "created" ELSE IF ~Exceeds(n) THEN "admitted" ELSE "rejected",
                       key |-> key, identity |-> key]
    BY <1>1, <2>1 DEF Incr, BudgetInv, LimiterTypeOK
  <2>3. n > Limit /\ progress'[r].identity = key
    BY <2>2 DEF Exceeds
  <2> QED
    BY <2>1, <2>3, LimitIsPositive DEF BudgetInv, CountersAreOwn
<1>2. ASSUME NEW q \in ApiRequests, NEW user \in Callers, NEW address \in Addresses, FailOpen(q, user, address)
      PROVE  FALSE
  BY <1>2 DEF FailOpen, BudgetInv, LimiterTypeOK
<1>3. ASSUME NEW q \in ApiRequests, SetExpiry(q) \/ LoseExpiry(q) PROVE FALSE
  BY <1>3 DEF SetExpiry, LoseExpiry, BudgetInv, LimiterTypeOK, Progress
<1>4. ~Tick /\ ~UNCHANGED limiterVars
  BY DEF Tick, limiterVars
<1> QED
  BY <1>1, <1>2, <1>3, <1>4 DEF LimiterNext, Callers

\* A caller is turned away only when its own identity has had its whole budget.
THEOREM RejectionsEarned == LimiterSpec => RejectionsAreEarned
<1>1. BudgetInv /\ [LimiterNext]_limiterVars =>
        [\A r \in ApiRequests :
           progress'[r] # progress[r] /\ progress'[r].pc = "rejected"
             => used[progress'[r].identity] >= Limit]_limiterVars
  BY StepRejects
<1> QED
  BY <1>1, AlwaysBudget, PTL DEF LimiterSpec, RejectionsAreEarned

--------------------------------------------------------------------------------
(* Shutdown: no consumer has its clients closed under it, no handler before  *)
(* the deadline, and what is cut off is cut off for a reason.  The inductive *)
(* invariant has two halves that share no steps: what is closed and stopped  *)
(* by now, and which requests there can still be.                            *)

\* Cleanups run in order: what is closed was the turn of an earlier one, and the
\* consumers of an earlier one are stopped.
CleanedInOrder ==
  /\ stage \in {"serving", "grpc", "http"} => closed = {}
  /\ stage \in {"cleanup", "exited"} => step >= 1
  /\ \A x \in closed : \E i \in DOMAIN Cleanups :
       i < step /\ Cleanups[i].does = "close" /\ x \in Cleanups[i].what
  /\ stage \in {"cleanup", "exited"} =>
       \A i \in DOMAIN Cleanups, c \in DOMAIN consumer :
         i < step /\ Cleanups[i].does = "stop" /\ c \in Cleanups[i].what => Waited(c)

\* Until the deadline a server that is past is empty, but for WebSockets.
Drained ==
  ~expired =>
    /\ stage \notin {"serving", "grpc"} => \A r \in Requests : request[r].at \notin Grpc
    /\ stage = "http" =>
         \A r \in Requests, i \in DOMAIN Http :
           i < step /\ request[r].at = Http[i] => request[r].socket
    /\ stage \in {"cleanup", "exited"} =>
         \A r \in Requests : Running(r) => request[r].socket

\* An inner call is at a gRPC server, and only a forced stop cuts one off.
CallersWait ==
  \A r \in Requests :
    /\ request[r].at \notin Grpc \cup {"cut"} => request[r].within = Nowhere
    /\ request[r].within \in HttpServers \cup {Nowhere}
    /\ request[r].cut => expired

OrderInv == TypeOK /\ CleanedInOrder /\ Drained /\ CallersWait /\ LossesHaveACause

--------------------------------------------------------------------------------
(* The program *)

\* What the assumptions say of the program that runs.
LEMMA Layout ==
  ASSUME binary \in Binaries
  PROVE  /\ DOMAIN Http = 1 .. Len(Http) /\ Len(Http) \in Nat
         /\ \A i, j \in DOMAIN Http : Http[i] = Http[j] => i = j
         /\ Grpc \cap HttpServers = {}
         /\ (Grpc \cup HttpServers) \cap {"answered", "refused", "cut", Nowhere} = {}
         /\ \A call \in Calls : call[1] \in HttpServers /\ call[2] \in Grpc
         /\ DOMAIN Cleanups = 1 .. Len(Cleanups) /\ Len(Cleanups) \in Nat
         /\ \A c \in UNION Programs[binary].groups, i \in DOMAIN Cleanups :
              Cleanups[i].does = "close" /\ Uses(c) \cap Cleanups[i].what # {}
                => \E j \in 1 .. i - 1 : Cleanups[j].does = "stop" /\ c \in Cleanups[j].what
<1>1. Http \in Seq(HttpServers) /\ \A i, j \in DOMAIN Http : Http[i] = Http[j] => i = j
  BY ServersAreDistinct DEF Http, HttpServers
<1>2. Grpc \cap HttpServers = {} /\ (Grpc \cup HttpServers) \cap {"answered", "refused", "cut", Nowhere} = {}
  BY ServersAreDistinct DEF Http, HttpServers, Grpc, Outcomes
<1>3. \A call \in Calls : call[1] \in HttpServers /\ call[2] \in Grpc
  BY ServersAreDistinct DEF Http, HttpServers, Grpc, Calls
<1>4. Cleanups \in Seq(Elements(Cleanups))
  BY StopsComeFirst DEF Cleanups
<1>5. \A c \in UNION Programs[binary].groups, i \in DOMAIN Cleanups :
        Cleanups[i].does = "close" /\ Uses(c) \cap Cleanups[i].what # {}
          => \E j \in 1 .. i - 1 : Cleanups[j].does = "stop" /\ c \in Cleanups[j].what
  BY StopsComeFirst DEF Cleanups, Uses
<1> QED
  BY <1>1, <1>2, <1>3, <1>4, <1>5

Request == [at : Places, within : Places, socket : BOOLEAN, cut : BOOLEAN]

LEMMA OrderInit == Init => OrderInv
<1> SUFFICES ASSUME Init PROVE OrderInv
  OBVIOUS
<1>1. request \in [Requests -> Request] /\ \A r \in Requests : request[r] = NewRequest
  BY DEF Init, NewRequest, Request, Places
<1>2. consumer \in [UNION Programs[binary].groups -> {"absent", "idle", "handling", "stopped"}]
  BY DEF Init
<1>3. binary \in Binaries /\ stage = "serving" /\ step = 0 /\ expired = FALSE /\ closed = {}
  BY DEF Init
<1>4. Nowhere \notin {"cut", "refused"}
  BY NowhereIsNone DEF Outcomes
<1>5. TypeOK
  BY <1>1, <1>2, <1>3 DEF TypeOK, Request
<1>6. CleanedInOrder
  BY <1>3 DEF CleanedInOrder
<1>7. Drained
  BY <1>3 DEF Drained
<1>8. CallersWait /\ LossesHaveACause
  BY <1>1, <1>4 DEF CallersWait, LossesHaveACause, NewRequest
<1> QED
  BY <1>5, <1>6, <1>7, <1>8 DEF OrderInv

--------------------------------------------------------------------------------
(* Requests *)

LEMMA SameProgram ==
  ASSUME UNCHANGED binary
  PROVE  /\ Grpc' = Grpc /\ Http' = Http /\ HttpServers' = HttpServers /\ Cleanups' = Cleanups
         /\ Calls' = Calls /\ Places' = Places
BY DEF Grpc, Http, HttpServers, Cleanups, Calls, Places

\* The half of the invariant that requests do not touch.
LEMMA RequestStepCleans ==
  ASSUME CleanedInOrder, UNCHANGED <<binary, stage, step, consumer, closed>>
  PROVE  CleanedInOrder'
BY SameProgram DEF CleanedInOrder, Waited

LEMMA ArriveOrder ==
  ASSUME OrderInv, NEW r \in Requests, NEW s \in Grpc \cup HttpServers, NEW socket \in BOOLEAN, Arrive(r, s, socket)
  PROVE  OrderInv'
<1>1. UNCHANGED <<binary, stage, step, expired, consumer, closed, wedged>> /\ binary \in Binaries
  BY DEF Arrive, OrderInv, TypeOK
<1>2. s \in Places /\ request \in [Requests -> Request]
  BY DEF OrderInv, TypeOK, Request, Places
<1>3. /\ request' \in [Requests -> Request]
      /\ request'[r].at = s /\ request'[r].within = request[r].within /\ request'[r].cut = request[r].cut
      /\ \A q \in Requests : q # r => request'[q] = request[q]
  BY <1>2 DEF Arrive, Request
<1>4. request[r].within = Nowhere /\ s \notin {"answered", "refused", "cut", Nowhere}
  BY <1>1, Layout, NowhereIsNone DEF Arrive, OrderInv, CallersWait, Outcomes
<1>5. TypeOK'
  BY <1>1, <1>3, SameProgram DEF OrderInv, TypeOK, Request
<1>6. CleanedInOrder'
  BY <1>1, RequestStepCleans DEF OrderInv
<1>7. Drained'
  <2> SUFFICES ASSUME ~expired
               PROVE  /\ stage \notin {"serving", "grpc"} => \A q \in Requests : request'[q].at \notin Grpc
                      /\ stage = "http" =>
                           \A q \in Requests, i \in DOMAIN Http :
                             i < step /\ request'[q].at = Http[i] => request'[q].socket
                      /\ stage \in {"cleanup", "exited"} =>
                           \A q \in Requests : request'[q].at \in Grpc \cup HttpServers => request'[q].socket
    BY <1>1, SameProgram DEF Drained, Running
  <2>1. CASE stage = "http"
    <3>1. \E i \in step + 1 .. Len(Http) : Http[i] = s
      BY <2>1 DEF Arrive, Accepting
    <3>2. s \notin Grpc /\ \A i \in DOMAIN Http : i < step => Http[i] # s
      BY <3>1, <1>1, Layout DEF OrderInv, TypeOK, HttpServers, Elements
    <3> QED
      BY <3>2, <2>1, <1>3 DEF OrderInv, Drained
  <2>2. CASE stage # "http"
    BY <2>2, <1>1 DEF Arrive, Accepting, OrderInv, TypeOK
  <2> QED
    BY <2>1, <2>2
<1>8. CallersWait'
  BY <1>1, <1>3, <1>4, SameProgram DEF OrderInv, CallersWait
<1>9. LossesHaveACause'
  BY <1>1, <1>3, <1>4, SameProgram DEF OrderInv, LossesHaveACause
<1> QED
  BY <1>5, <1>6, <1>7, <1>8, <1>9 DEF OrderInv

\* While everything serves the call goes through; later the server refuses it.
LEMMA CallInsideOrder ==
  ASSUME OrderInv, NEW r \in Requests, NEW s \in Grpc, CallInside(r, s)
  PROVE  OrderInv'
<1>1. UNCHANGED <<binary, stage, step, expired, consumer, closed, wedged>> /\ binary \in Binaries
  BY DEF CallInside, OrderInv, TypeOK
<1>2. request[r].at \in HttpServers /\ request[r].at \notin {Nowhere, "cut"} /\ s \notin HttpServers
  BY <1>1, Layout DEF CallInside
<1>3. \/ /\ stage = "serving"
         /\ request' = [request EXCEPT ![r].at = s, ![r].within = request[r].at]
      \/ /\ stage # "serving" /\ request' = [request EXCEPT ![r].at = "refused"]
  <2>1. Accepting(s) <=> stage = "serving"
    <3>1. ~ \E i \in step + 1 .. Len(Http) : Http[i] = s
      BY <1>1, <1>2, Layout DEF OrderInv, TypeOK, HttpServers, Elements
    <3> QED
      BY <3>1 DEF Accepting
  <2>2. stage = "serving" => closed = {}
    BY DEF OrderInv, CleanedInOrder
  <2> QED
    BY <2>1, <2>2 DEF CallInside
<1>4. {s, "refused", request[r].at} \subseteq Places /\ request \in [Requests -> Request]
  BY <1>2 DEF OrderInv, TypeOK, Request, Places, Outcomes
<1>5. /\ request' \in [Requests -> Request] /\ request'[r].cut = request[r].cut
      /\ \/ request'[r].at = s /\ request'[r].within = request[r].at /\ stage = "serving"
         \/ request'[r].at = "refused" /\ request'[r].within = request[r].within /\ stage # "serving"
      /\ \A q \in Requests : q # r => request'[q] = request[q]
  <2>1. CASE stage = "serving" /\ request' = [request EXCEPT ![r].at = s, ![r].within = request[r].at]
    BY <2>1, <1>4 DEF Request
  <2>2. CASE stage # "serving" /\ request' = [request EXCEPT ![r].at = "refused"]
    BY <2>2, <1>4 DEF Request
  <2> QED
    BY <2>1, <2>2, <1>3
<1>6. TypeOK'
  BY <1>1, <1>5, SameProgram DEF OrderInv, TypeOK, Request
<1>7. CleanedInOrder'
  BY <1>1, RequestStepCleans DEF OrderInv
<1>8. Drained'
  <2>1. "refused" \notin Grpc \cup HttpServers /\ \A i \in DOMAIN Http : Http[i] \in HttpServers
    BY <1>1, Layout DEF HttpServers, Elements
  <2> QED
    BY <2>1, <1>1, <1>5, SameProgram DEF OrderInv, Drained, Running
<1>9. CallersWait'
  <2>1. request[r].within = Nowhere
    BY <1>1, <1>2, Layout DEF OrderInv, CallersWait
  <2> QED
    BY <2>1, <1>1, <1>2, <1>5, SameProgram DEF OrderInv, CallersWait
<1>10. LossesHaveACause'
  <2>1. \E call \in Calls : call[1] \in HttpServers
    BY <1>1, <1>2, Layout DEF CallInside
  <2>2. s # "cut" /\ s # "refused"
    BY <1>1, Layout
  <2> QED
    BY <2>1, <2>2, <1>1, <1>5, SameProgram DEF OrderInv, LossesHaveACause
<1> QED
  BY <1>6, <1>7, <1>8, <1>9, <1>10 DEF OrderInv

LEMMA ReplyOrder == ASSUME OrderInv, NEW r \in Requests, Reply(r) PROVE OrderInv'
<1>1. UNCHANGED <<binary, stage, step, expired, consumer, closed, wedged>> /\ binary \in Binaries
  BY DEF Reply, OrderInv, TypeOK
<1>2. request \in [Requests -> Request] /\ {"cut", "answered", Nowhere} \subseteq Places
  BY DEF OrderInv, TypeOK, Request, Places, Outcomes
<1>3. /\ request' \in [Requests -> Request]
      /\ request'[r].within = Nowhere /\ request'[r].cut = request[r].cut
      /\ request'[r].socket = request[r].socket
      /\ request'[r].at = IF request[r].cut THEN "cut"
                          ELSE IF request[r].within # Nowhere THEN request[r].within ELSE "answered"
      /\ \A q \in Requests : q # r => request'[q] = request[q]
  <2> DEFINE at == IF request[r].cut THEN "cut"
                   ELSE IF request[r].within # Nowhere THEN request[r].within ELSE "answered"
             replied == [request[r] EXCEPT !.at = at, !.within = Nowhere]
  <2>1. at \in Places /\ Nowhere \in Places /\ request[r] \in Request
    BY <1>2 DEF Request
  <2>2. request' = [request EXCEPT ![r] = replied]
    BY <1>2 DEF Reply
  <2> HIDE DEF at
  <2>3. /\ replied \in Request /\ replied.within = Nowhere /\ replied.cut = request[r].cut
        /\ replied.socket = request[r].socket /\ replied.at = at
    BY <2>1 DEF Request
  <2> HIDE DEF replied
  <2> QED
    BY <1>2, <2>2, <2>3 DEF at
<1>4. /\ request[r].within # Nowhere => request[r].at \in Grpc
      /\ request[r].within \in HttpServers \cup {Nowhere}
      /\ request[r].cut => expired
  BY <1>1, Layout DEF Reply, Running, OrderInv, CallersWait
<1>5. TypeOK'
  BY <1>1, <1>3, SameProgram DEF OrderInv, TypeOK, Request
<1>6. CleanedInOrder'
  BY <1>1, RequestStepCleans DEF OrderInv
<1>7. Drained'
  <2> SUFFICES ASSUME ~expired
               PROVE  /\ stage \notin {"serving", "grpc"} => \A q \in Requests : request'[q].at \notin Grpc
                      /\ stage = "http" =>
                           \A q \in Requests, i \in DOMAIN Http :
                             i < step /\ request'[q].at = Http[i] => request'[q].socket
                      /\ stage \in {"cleanup", "exited"} =>
                           \A q \in Requests : request'[q].at \in Grpc \cup HttpServers => request'[q].socket
    BY <1>1, SameProgram DEF Drained, Running
  <2>1. CASE stage \in {"serving", "grpc"}
    BY <2>1
  <2>2. CASE stage \notin {"serving", "grpc"}
    <3>1. request[r].within = Nowhere
      BY <2>2, <1>4 DEF OrderInv, Drained
    <3>2. request'[r].at \in {"answered", "cut"}
      BY <3>1, <1>3
    <3>3. request'[r].at \notin Grpc \cup HttpServers /\ \A i \in DOMAIN Http : Http[i] \in HttpServers
      BY <3>2, <1>1, Layout DEF HttpServers, Elements
    <3> QED
      BY <3>3, <2>2, <1>3 DEF OrderInv, Drained, Running
  <2> QED
    BY <2>1, <2>2
<1>8. CallersWait'
  BY <1>1, <1>3, <1>4, SameProgram DEF OrderInv, CallersWait
<1>9. LossesHaveACause'
  <2>1. request'[r].at = "cut" => expired
    BY <1>1, <1>3, <1>4, Layout
  <2>2. request'[r].at # "refused"
    BY <1>1, <1>3, <1>4, Layout
  <2> QED
    BY <2>1, <2>2, <1>1, <1>3, SameProgram DEF OrderInv, LossesHaveACause
<1> QED
  BY <1>5, <1>6, <1>7, <1>8, <1>9 DEF OrderInv

--------------------------------------------------------------------------------
(* Consumers *)

\* The half that consumers and clients do not touch.
LEMMA SameRequests ==
  ASSUME OrderInv, UNCHANGED <<binary, stage, step, expired, request>>
  PROVE  Drained' /\ CallersWait' /\ LossesHaveACause'
BY SameProgram DEF OrderInv, Drained, CallersWait, LossesHaveACause, Running

\* A consumer that has stopped, or was never there, stays so.
LEMMA ConsumerOrder ==
  ASSUME OrderInv, NEW c \in DOMAIN consumer, Take(c) \/ Handled(c) \/ RunReturns(c)
  PROVE  OrderInv'
<1>1. UNCHANGED <<binary, stage, step, expired, request, closed, wedged>>
  BY DEF Take, Handled, RunReturns, SetConsumer
<1>2. PICK to \in {"idle", "handling", "stopped"} :
        consumer' = [consumer EXCEPT ![c] = to] /\ consumer[c] \in {"idle", "handling"}
  BY DEF Take, Handled, RunReturns, SetConsumer
<1>3. /\ consumer' \in [UNION Programs[binary].groups -> {"absent", "idle", "handling", "stopped"}]
      /\ DOMAIN consumer' = DOMAIN consumer
      /\ \A d \in DOMAIN consumer : consumer[d] \in {"stopped", "absent"} => consumer'[d] = consumer[d]
  BY <1>2 DEF OrderInv, TypeOK
<1>4. TypeOK'
  BY <1>1, <1>3, SameProgram DEF OrderInv, TypeOK
<1>5. CleanedInOrder'
  BY <1>1, <1>3, SameProgram DEF OrderInv, CleanedInOrder, Waited
<1> QED
  BY <1>1, <1>4, <1>5, SameRequests DEF OrderInv

--------------------------------------------------------------------------------
(* Wait *)

LEMMA SignalOrder == ASSUME OrderInv, Signal PROVE OrderInv'
<1>1. UNCHANGED <<binary, step, expired, request, consumer, closed, wedged>> /\ stage = "serving" /\ stage' = "grpc"
  BY DEF Signal
<1> QED
  BY <1>1, SameProgram
     DEF OrderInv, TypeOK, CleanedInOrder, Waited, Drained, CallersWait, LossesHaveACause, Running

LEMMA ExpireOrder == ASSUME OrderInv, Expire PROVE OrderInv'
<1>1. UNCHANGED <<binary, stage, step, request, consumer, closed, wedged>> /\ expired' = TRUE
  BY DEF Expire
<1> QED
  BY <1>1, SameProgram
     DEF OrderInv, TypeOK, CleanedInOrder, Waited, Drained, CallersWait, LossesHaveACause, Running

\* The gRPC servers are past: they are empty, or the deadline is over.
LEMMA GrpcStoppedOrder == ASSUME OrderInv, GrpcStopped PROVE OrderInv'
<1>1. /\ UNCHANGED <<binary, expired, consumer, closed, wedged>>
      /\ stage = "grpc" /\ stage' = "http" /\ step' = 1
  BY DEF GrpcStopped, GrpcCanStop
<1>2. \A r \in Requests : request[r] \in Request
  BY DEF OrderInv, TypeOK, Request
<1>3. /\ request' \in [Requests -> Request]
      /\ \A r \in Requests : /\ request'[r].at = request[r].at /\ request'[r].within = request[r].within
                             /\ request'[r].socket = request[r].socket
                             /\ request'[r].cut => request[r].cut \/ expired
  <2>1. CASE GracefulStopDone /\ request' = request
    BY <2>1, <1>2 DEF OrderInv, TypeOK, Request
  <2>2. CASE expired /\ request' = [r \in Requests |-> ForceStop(r)]
    <3>1. \A r \in Requests : request'[r] = [request[r] EXCEPT !.cut = r \in AtGrpc]
      BY <2>2 DEF ForceStop
    <3>2. ASSUME NEW r \in Requests
          PROVE  /\ request'[r] \in Request
                 /\ request'[r].at = request[r].at /\ request'[r].within = request[r].within
                 /\ request'[r].socket = request[r].socket
      <4>1. request[r] \in Request /\ request'[r] = [request[r] EXCEPT !.cut = r \in AtGrpc]
        BY <3>1, <1>2
      <4>2. (r \in AtGrpc) \in BOOLEAN
        OBVIOUS
      <4> QED
        BY <4>1, <4>2 DEF Request
    <3>3. request' \in [Requests -> Request]
      <4>1. request' = [r \in Requests |-> request'[r]]
        BY <2>2
      <4> QED
        BY <4>1, <3>2
    <3> QED
      BY <3>2, <3>3, <2>2
  <2> QED
    BY <2>1, <2>2 DEF GrpcStopped
<1>4. ~expired => \A r \in Requests : request[r].at \notin Grpc
  BY DEF GrpcStopped, GracefulStopDone, AtGrpc
<1>5. TypeOK'
  BY <1>1, <1>3, SameProgram DEF OrderInv, TypeOK, Request
<1>6. CleanedInOrder'
  BY <1>1, SameProgram DEF OrderInv, CleanedInOrder
<1>7. Drained'
  <2>1. binary \in Binaries
    BY DEF OrderInv, TypeOK
  <2>2. \A i \in DOMAIN Http : ~(i < 1)
    BY <2>1, Layout
  <2> QED
    BY <2>2, <1>1, <1>3, <1>4, SameProgram DEF Drained
<1>8. CallersWait' /\ LossesHaveACause'
  BY <1>1, <1>3, SameProgram DEF OrderInv, CallersWait, LossesHaveACause
<1> QED
  BY <1>5, <1>6, <1>7, <1>8 DEF OrderInv

LEMMA HttpShutdownOrder == ASSUME OrderInv, HttpShutdown PROVE OrderInv'
<1>1. /\ UNCHANGED <<binary, stage, expired, request, consumer, closed, wedged>>
      /\ stage = "http" /\ step' = step + 1 /\ step \in Nat /\ binary \in Binaries
  BY DEF HttpShutdown, HttpCanShut, OrderInv, TypeOK
<1>2. TypeOK'
  BY <1>1, SameProgram DEF OrderInv, TypeOK
<1>3. CleanedInOrder'
  BY <1>1, SameProgram DEF OrderInv, CleanedInOrder
<1>4. Drained'
  <2> SUFFICES ASSUME ~expired, NEW r \in Requests, NEW i \in DOMAIN Http, i < step + 1, request[r].at = Http[i]
               PROVE  request[r].socket
    BY <1>1, SameProgram DEF OrderInv, Drained
  <2>1. CASE i < step
    BY <2>1, <1>1 DEF OrderInv, Drained
  <2>2. CASE i = step
    <3>1. Http[i] \in HttpServers /\ Http[i] # Nowhere
      BY <1>1, Layout DEF HttpServers, Elements
    <3> QED
      BY <3>1, <2>2 DEF HttpShutdown, HttpCanShut, ContextOver, IsIdle, Running, Holders
  <2> QED
    BY <2>1, <2>2, <1>1, Layout
<1>5. CallersWait' /\ LossesHaveACause'
  BY <1>1, SameProgram DEF OrderInv, CallersWait, LossesHaveACause
<1> QED
  BY <1>2, <1>3, <1>4, <1>5 DEF OrderInv

\* Every server is past: what still runs is a WebSocket, or past the deadline.
LEMMA HttpDoneOrder == ASSUME OrderInv, HttpDone PROVE OrderInv'
<1>1. /\ UNCHANGED <<binary, expired, request, consumer, closed, wedged>>
      /\ stage = "http" /\ stage' = "cleanup" /\ step' = 1 /\ step > Len(Http)
      /\ step \in Nat /\ binary \in Binaries
  BY DEF HttpDone, HttpIsPast, OrderInv, TypeOK
<1>2. TypeOK'
  BY <1>1, SameProgram DEF OrderInv, TypeOK
<1>3. CleanedInOrder'
  <2>1. closed = {}
    BY <1>1 DEF OrderInv, CleanedInOrder
  <2>2. \A i \in DOMAIN Cleanups : ~(i < 1)
    BY <1>1, Layout
  <2> QED
    BY <2>1, <2>2, <1>1, SameProgram DEF CleanedInOrder
<1>4. Drained'
  <2> SUFFICES ASSUME ~expired
               PROVE  \A r \in Requests :
                        request[r].at \notin Grpc /\ (request[r].at \in HttpServers => request[r].socket)
    BY <1>1, SameProgram DEF Drained, Running
  <2>1. ASSUME NEW r \in Requests, request[r].at \in HttpServers PROVE request[r].socket
    <3>1. PICK i \in DOMAIN Http : request[r].at = Http[i]
      BY <2>1 DEF HttpServers, Elements
    <3>2. i < step
      BY <3>1, <1>1, Layout
    <3> QED
      BY <3>1, <3>2, <1>1 DEF OrderInv, Drained
  <2> QED
    BY <2>1, <1>1 DEF OrderInv, Drained
<1>5. CallersWait' /\ LossesHaveACause'
  BY <1>1, SameProgram DEF OrderInv, CallersWait, LossesHaveACause
<1> QED
  BY <1>2, <1>3, <1>4, <1>5 DEF OrderInv

\* The requests of a step from one cleanup to the next.
LEMMA NextCleanupRequests ==
  ASSUME OrderInv, stage = "cleanup", step' = step + 1, UNCHANGED <<binary, stage, expired, request>>
  PROVE  Drained' /\ CallersWait' /\ LossesHaveACause'
BY SameProgram DEF OrderInv, Drained, CallersWait, LossesHaveACause, Running

LEMMA StopConsumersOrder == ASSUME OrderInv, StopConsumers PROVE OrderInv'
<1>1. /\ UNCHANGED <<binary, stage, expired, request, consumer, closed, wedged>>
      /\ stage = "cleanup" /\ step' = step + 1 /\ step \in Nat /\ binary \in Binaries
      /\ \A c \in Cleanups[step].what : Waited(c)
  BY DEF StopConsumers, ConsumersReturned, Cleaning, Current, OrderInv, TypeOK
<1>2. TypeOK'
  BY <1>1, SameProgram DEF OrderInv, TypeOK
<1>3. CleanedInOrder'
  <2>1. \A i \in DOMAIN Cleanups : i \in Nat /\ (i < step + 1 <=> i < step \/ i = step)
    BY <1>1, Layout
  <2> QED
    BY <2>1, <1>1, SameProgram DEF OrderInv, CleanedInOrder, Waited
<1> QED
  BY <1>1, <1>2, <1>3, NextCleanupRequests DEF OrderInv

LEMMA CloseOrder == ASSUME OrderInv, CloseClients \/ AbandonClose PROVE OrderInv'
<1>1. /\ UNCHANGED <<binary, stage, expired, request, consumer, wedged>>
      /\ stage = "cleanup" /\ step' = step + 1 /\ step \in Nat /\ binary \in Binaries
      /\ step <= Len(Cleanups) /\ Cleanups[step].does = "close"
  BY DEF CloseClients, AbandonClose, CloseIsAnswered, CloseTimesOut, Cleaning, Current, OrderInv, TypeOK
<1>2. closed' \subseteq closed \cup Cleanups[step].what
  BY DEF CloseClients, AbandonClose, Current
<1>3. TypeOK'
  BY <1>1, SameProgram DEF OrderInv, TypeOK
<1>4. CleanedInOrder'
  <2>1. /\ \A i \in DOMAIN Cleanups : i \in Nat /\ (i < step + 1 <=> i < step \/ i = step)
        /\ step < step + 1
    BY <1>1, Layout
  <2>2. step \in DOMAIN Cleanups
    BY <1>1, Layout DEF OrderInv, CleanedInOrder
  <2> QED
    BY <2>1, <2>2, <1>1, <1>2, SameProgram DEF OrderInv, CleanedInOrder, Waited
<1> QED
  BY <1>1, <1>3, <1>4, NextCleanupRequests DEF OrderInv

\* Exit cuts off what still runs, and that is excused.
LEMMA ExitOrder == ASSUME OrderInv, Exit PROVE OrderInv'
<1>1. /\ UNCHANGED <<binary, step, expired, consumer, closed, wedged>>
      /\ stage = "cleanup" /\ stage' = "exited" /\ binary \in Binaries
      /\ request' = [r \in Requests |-> IF Running(r) THEN [request[r] EXCEPT !.at = "cut"] ELSE request[r]]
  BY DEF Exit, CleanupsArePast, OrderInv, TypeOK
<1>2. request \in [Requests -> Request] /\ "cut" \in Places
  BY DEF OrderInv, TypeOK, Request, Places, Outcomes
<1>3. /\ request' \in [Requests -> Request]
      /\ \A r \in Requests :
           /\ request'[r].at = IF Running(r) THEN "cut" ELSE request[r].at
           /\ request'[r].within = request[r].within /\ request'[r].socket = request[r].socket
           /\ request'[r].cut = request[r].cut
  BY <1>1, <1>2 DEF Request
<1>4. "cut" \notin Grpc \cup HttpServers
  BY <1>1, Layout
<1>5. \A r \in Requests : Running(r) => expired \/ request[r].socket
  BY <1>1 DEF OrderInv, Drained
<1>6. TypeOK'
  BY <1>1, <1>3, SameProgram DEF OrderInv, TypeOK, Request
<1>7. CleanedInOrder'
  BY <1>1, SameProgram DEF OrderInv, CleanedInOrder, Waited
<1>8. Drained'
  BY <1>1, <1>3, <1>4, SameProgram DEF OrderInv, Drained, Running
<1>9. CallersWait'
  BY <1>1, <1>3, SameProgram DEF OrderInv, CallersWait
<1>10. LossesHaveACause'
  BY <1>1, <1>3, <1>5, SameProgram DEF OrderInv, LossesHaveACause
<1> QED
  BY <1>6, <1>7, <1>8, <1>9, <1>10 DEF OrderInv

LEMMA OrderNext == OrderInv /\ [Next]_vars => OrderInv'
<1> SUFFICES ASSUME OrderInv, [Next]_vars PROVE OrderInv'
  OBVIOUS
<1>1. ASSUME NEW r \in Requests, NEW s \in Grpc \cup HttpServers, NEW socket \in BOOLEAN, Arrive(r, s, socket)
      PROVE  OrderInv'
  BY <1>1, ArriveOrder
<1>2. ASSUME NEW r \in Requests, NEW s \in Grpc, CallInside(r, s) PROVE OrderInv'
  BY <1>2, CallInsideOrder
<1>3. ASSUME NEW r \in Requests, Reply(r) PROVE OrderInv'
  BY <1>3, ReplyOrder
<1>4. ASSUME NEW c \in DOMAIN consumer, Take(c) \/ Handled(c) \/ RunReturns(c) PROVE OrderInv'
  BY <1>4, ConsumerOrder
<1>5. CASE Signal \/ Expire
  BY <1>5, SignalOrder, ExpireOrder
<1>6. CASE Sequence
  BY <1>6, GrpcStoppedOrder, HttpShutdownOrder, HttpDoneOrder, StopConsumersOrder, CloseOrder, ExitOrder DEF Sequence
<1>7. CASE UNCHANGED vars
  <2>1. UNCHANGED <<binary, stage, step, expired, request, consumer, closed, wedged>>
    BY <1>7 DEF vars
  <2> QED
    BY <2>1, SameProgram, SameRequests DEF OrderInv, TypeOK, CleanedInOrder, Waited
<1> QED
  BY <1>1, <1>2, <1>3, <1>4, <1>5, <1>6, <1>7 DEF Next

LEMMA AlwaysInOrder == Spec => []OrderInv
BY OrderInit, OrderNext, PTL DEF Spec

--------------------------------------------------------------------------------
(* Theorems about shutdown *)

\* Type correctness, for every program.
THEOREM ShutdownTyped == Spec => []TypeOK
<1>1. OrderInv => TypeOK
  BY DEF OrderInv
<1> QED
  BY <1>1, AlwaysInOrder, PTL

\* A client is closed only after every consumer that uses it has stopped.
THEOREM ConsumersKeep == Spec => []ConsumersKeepTheirClients
<1>1. OrderInv => ConsumersKeepTheirClients
  <2> SUFFICES ASSUME OrderInv, NEW c \in DOMAIN consumer, consumer[c] \in {"idle", "handling"},
                      NEW x \in Uses(c) \cap closed
               PROVE  FALSE
    BY DEF ConsumersKeepTheirClients
  <2>1. binary \in Binaries /\ c \in UNION Programs[binary].groups /\ step \in Nat
    BY DEF OrderInv, TypeOK
  <2>2. PICK i \in DOMAIN Cleanups : i < step /\ Cleanups[i].does = "close" /\ x \in Cleanups[i].what
    BY DEF OrderInv, CleanedInOrder
  <2>3. PICK j \in 1 .. i - 1 : Cleanups[j].does = "stop" /\ c \in Cleanups[j].what
    BY <2>1, <2>2, Layout
  <2>4. j \in DOMAIN Cleanups /\ j < step
    BY <2>1, <2>2, <2>3, Layout
  <2>5. stage \in {"cleanup", "exited"}
    BY DEF OrderInv, TypeOK, CleanedInOrder
  <2> QED
    BY <2>3, <2>4, <2>5 DEF OrderInv, CleanedInOrder, Waited
<1> QED
  BY <1>1, AlwaysInOrder, PTL

\* Before the deadline a client is closed only when no handler is left.
THEOREM HandlersKeep == Spec => []HandlersKeepTheirClients
<1>1. OrderInv => HandlersKeepTheirClients
  BY DEF OrderInv, TypeOK, CleanedInOrder, Drained, HandlersKeepTheirClients
<1> QED
  BY <1>1, AlwaysInOrder, PTL

\* Requests are lost only past the deadline, as WebSockets, or between the two
\* sides of a call within the process.
THEOREM LossesExplained == Spec => []LossesHaveACause
<1>1. OrderInv => LossesHaveACause
  BY DEF OrderInv
<1> QED
  BY <1>1, AlwaysInOrder, PTL

\* Which clients never answer a close is settled when the process starts, and the
\* deadline is set by the signal.
DeadlineInv ==
  /\ wedged \in {{}, Programs[binary].handshakes}
  /\ expired => stage # "serving"

LEMMA AlwaysDeadline == Spec => []DeadlineInv
<1>1. Init => DeadlineInv
  BY DEF Init, DeadlineInv
<1>2. ASSUME [Next]_vars PROVE UNCHANGED <<binary, wedged>> /\ (stage' = "serving" => stage = "serving")
  BY <1>2 DEF Next, vars, Arrive, CallInside, Reply, Take, Handled, RunReturns, SetConsumer, Signal,
              Expire, Sequence, GrpcStopped, HttpShutdown, HttpDone, StopConsumers, CloseClients,
              AbandonClose, Exit
<1>3. ASSUME [Next]_vars, stage' = "serving" PROVE UNCHANGED expired
  BY <1>3 DEF Next, vars, Arrive, CallInside, Reply, Take, Handled, RunReturns, SetConsumer, Signal,
              Expire, Sequence, GrpcStopped, HttpShutdown, HttpDone, StopConsumers, CloseClients,
              AbandonClose, Exit
<1>4. DeadlineInv /\ [Next]_vars => DeadlineInv'
  BY <1>2, <1>3 DEF DeadlineInv
<1> QED
  BY <1>1, <1>4, PTL DEF Spec

\* Past the deadline every step but the wait for consumers has what it waits
\* for: gRPC servers are stopped by force, Shutdown's context is over, and a
\* close that is not answered is given up.
THEOREM DeadlineBinds == Spec => []OnlyConsumersOutlastTheDeadline
<1>1. OrderInv /\ DeadlineInv => OnlyConsumersOutlastTheDeadline
  <2> SUFFICES ASSUME OrderInv, DeadlineInv, expired, stage # "exited", ~CanGoOn
               PROVE  \E c \in DOMAIN consumer : Cancelled(c) /\ consumer[c] \in {"idle", "handling"}
    BY DEF OnlyConsumersOutlastTheDeadline
  <2>1. /\ binary \in Binaries /\ step \in Nat
        /\ stage \in {"serving", "grpc", "http", "cleanup", "exited"}
        /\ consumer \in [UNION Programs[binary].groups -> {"absent", "idle", "handling", "stopped"}]
    BY DEF OrderInv, TypeOK
  <2>2. stage # "serving" /\ wedged \in {{}, Programs[binary].handshakes}
    BY DEF DeadlineInv
  <2>3. stage # "grpc"
    BY DEF CanGoOn, GrpcCanStop
  <2>4. stage # "http"
    BY <2>1, Layout DEF CanGoOn, HttpCanShut, HttpIsPast, ContextOver
  <2>5. stage = "cleanup" /\ step >= 1 /\ step <= Len(Cleanups)
    BY <2>1, <2>2, <2>3, <2>4, Layout DEF CanGoOn, CleanupsArePast, OrderInv, CleanedInOrder
  <2>6. step \in DOMAIN Cleanups
    BY <2>1, <2>5, Layout
  <2>7. CASE Current.does = "close" /\ Current.what \subseteq Programs[binary].handshakes
    BY <2>5, <2>7 DEF CanGoOn, CloseTimesOut, Cleaning, Bounded
  <2>8. CASE Current.does = "close" /\ Current.what \cap Programs[binary].handshakes = {}
    <3>1. Current.what \cap wedged = {}
      BY <2>2, <2>8
    <3> QED
      BY <3>1, <2>5, <2>8 DEF CanGoOn, CloseIsAnswered, Cleaning
  <2>9. CASE Current.does = "stop" /\ Current.what \subseteq UNION Programs[binary].groups
    <3>1. PICK c \in Current.what : ~Waited(c)
      BY <2>5, <2>9 DEF CanGoOn, ConsumersReturned, Cleaning
    <3>2. c \in DOMAIN consumer /\ consumer[c] \in {"idle", "handling"}
      BY <3>1, <2>1, <2>9 DEF Waited
    <3>3. Cancelled(c)
      BY <3>1, <2>1, <2>5, <2>6, <2>9 DEF Cancelled, StopsAt, Current
    <3> QED
      BY <3>2, <3>3
  <2> QED
    BY <2>1, <2>6, <2>7, <2>8, <2>9, StopsAndCloses DEF Current, Cleanups
<1> QED
  BY <1>1, AlwaysInOrder, AlwaysDeadline, PTL

--------------------------------------------------------------------------------
(* The gateway: what is left to resolve of an operation lies where its root  *)
(* leads, with an id the services know; what its answer has lost has a cause;*)
(* and the loaders hold an error only while their request has failed, and    *)
(* nothing for want of a row that could still be made.                       *)

JobFields == {"jobs", "job", "createJob"}
ProfileFields == {"myProfile", "updateProfile"}

ProfileSkillsAt(op) == Append(Root(op), Field("Profile", "skills"))

\* Where a field to resolve stands, and what its id is.
TaskFits(r, task) ==
  LET op == session[r].op
      field == Last(task.place).name
  IN  \/ task.place = Root(op)
      \/ /\ op[2] \in JobFields /\ required # None
         /\ field \in JobResolvers
      \/ op[2] \in ProfileFields /\ task.place = ProfileSkillsAt(op)
      \/ /\ op[2] \in ProfileFields
         /\ field = "skill" /\ task.id \in claims

\* The cause, kept in a form that a skill created later does not take away.
HasCause(r) ==
  LET op == session[r].op
  IN  \/ ~Permitted(r, op[2])
      \/ session[r].fault
      \/ op[2] \in ProfileFields /\ claims \cap OtherIds # {}

WorldKnown ==
  /\ skills \subseteq Taxonomy /\ claims \subseteq Known
  /\ required = None \/ required \in SUBSET Known

LoadersFit(r) ==
  /\ \A id \in DOMAIN loaded[r] : loaded[r][id] = "absent" => id \in OtherIds
  /\ HasErrors(r) => session[r].pc = "running" /\ session[r].fault
  /\ HasErrors(r) /\ r \in HttpRequests => session[r].pending # {}

OperationFits(r) ==
  session[r].pc = "running" =>
    /\ session[r].op \in Operations
    /\ \A task \in session[r].pending : TaskFits(r, task)
    /\ session[r].lost # {} => HasCause(r)

SessionFits(r) == LoadersFit(r) /\ OperationFits(r)

Roles == {None, "user", "admin"}

\* What a session is, for some set of tasks and of places.
Session(tasks, places) ==
  [pc : {"idle", "verifying", "ready", "running"}, bearer : Roles, caller : Roles,
   op : Operations \cup {None}, pending : SUBSET tasks, lost : SUBSET places, fault : BOOLEAN]

SessionsShaped == \E tasks, places : session \in [Connections -> Session(tasks, places)]

Values == {"unasked", "present", "absent", "error"}

LoadersTyped == loaded \in [Connections -> [Ids \cup {User} -> Values]]

SessionsFit ==
  /\ SessionsShaped /\ LoadersTyped /\ GaugeIsExact
  /\ \A r \in Connections : SessionFits(r)

GatewayInv == WorldKnown /\ SessionsFit

--------------------------------------------------------------------------------
(* The schema *)

LEMMA OperationNames ==
  ASSUME NEW op \in Operations
  PROVE  \/ /\ op[1] = "Query"
            /\ op[2] \in {"ping", "googleAuthUrl", "skills", "jobs", "job", "myProfile", "notificationHistory"}
         \/ /\ op[1] = "Mutation"
            /\ op[2] \in {"register", "login", "googleOAuthCallback", "createSkill", "createJob",
                          "updateProfile", "addUserSkill"}
<1>1. DOMAIN Query = {"ping", "googleAuthUrl", "skills", "jobs", "job", "myProfile", "notificationHistory"}
  BY DEF Query, PublicQueries, Joined
<1>2. DOMAIN Mutation = {"register", "login", "googleOAuthCallback", "createSkill", "createJob",
                          "updateProfile", "addUserSkill"}
  BY DEF Mutation, Credentials, Joined
<1>3. Resolvers["Query"] = DOMAIN Query /\ Resolvers["Mutation"] = DOMAIN Mutation
  BY DEF Resolvers, QueryResolvers, MutationResolvers
<1>4. PICK type \in {"Query", "Mutation"} : \E field \in Resolvers[type] : op = <<type, field>>
  BY OperationsAreRoots
<1>5. PICK field \in Resolvers[type] : op = <<type, field>>
  BY <1>4
<1>6. op[1] = type /\ op[2] = field
  BY <1>5
<1> QED
  BY <1>1, <1>2, <1>3, <1>4, <1>5, <1>6

LEMMA RootsKnown ==
  ASSUME NEW op \in Operations
  PROVE  /\ Len(Root(op)) = 2 /\ Root(op)[1].type = op[1]
         /\ Last(Root(op)).name = op[2]
         /\ op[2] \in JobFields => Last(Root(op)).type = "Job"
         /\ op[2] \in ProfileFields => Last(Root(op)).type = "Profile"
         /\ op[2] = "createSkill" => Last(Root(op)).type = "Skill"
         /\ op[2] = "addUserSkill" => Last(Root(op)).type = "scalar"
<1>1. Len(Root(op)) = 2 /\ Root(op)[1] = Data(op[1]) /\ Last(Root(op)) = Field(op[1], op[2])
  BY DEF Root, Last
<1>2. Root(op)[1].type = op[1] /\ Last(Root(op)).name = op[2]
      /\ Last(Root(op)).type = Types[op[1]][op[2]].type
  BY <1>1 DEF Data, Field
<1>3. Types["Query"] = Query /\ Types["Mutation"] = Mutation
  BY DEF Types
<1>4. /\ Query["jobs"].type = "Job" /\ Query["job"].type = "Job" /\ Query["myProfile"].type = "Profile"
  BY DEF Query, PublicQueries, NonNull, Nullable, Joined
<1>5. /\ Mutation["createJob"].type = "Job" /\ Mutation["updateProfile"].type = "Profile"
      /\ Mutation["createSkill"].type = "Skill" /\ Mutation["addUserSkill"].type = "scalar"
  BY DEF Mutation, Credentials, NonNull, Scalar, Joined
<1>6. CASE op[1] = "Query"
  BY <1>1, <1>2, <1>3, <1>4, <1>6, OperationNames DEF JobFields, ProfileFields
<1>7. CASE op[1] = "Mutation"
  BY <1>1, <1>2, <1>3, <1>5, <1>7, OperationNames DEF JobFields, ProfileFields
<1> QED
  BY <1>6, <1>7, OperationNames

LEMMA NextFields ==
  /\ Resolvers["Job"] = JobResolvers /\ Resolvers["Profile"] = {"skills"}
  /\ Resolvers["UserSkill"] = {"skill"} /\ Resolvers["Skill"] = {} /\ Resolvers["scalar"] = {}
  /\ Field("Profile", "skills").type = "UserSkill" /\ Field("UserSkill", "skill").type = "Skill"
  /\ \A type, name : Field(type, name).name = name
<1>1. Types["Profile"] = Profile /\ Types["UserSkill"] = UserSkill
  BY DEF Types
<1>2. Profile["skills"].type = "UserSkill" /\ UserSkill["skill"].type = "Skill"
  BY DEF Profile, UserSkill, NonNull
<1> QED
  BY <1>1, <1>2 DEF Resolvers, ProfileResolvers, UserSkillResolvers, SkillResolvers, Field

LEMMA LastAppended ==
  ASSUME NEW T, NEW list \in Seq(T), NEW more
  PROVE  Last(Append(list, more)) = more /\ Append(list, more) \in Seq(T \cup {more})
<1>1. PICK S : S = T \cup {more}
  OBVIOUS
<1>2. list \in Seq(S) /\ more \in S
  BY <1>1
<1>3. \A s \in Seq(S) : \A e \in S :
        /\ Append(s, e) \in Seq(S)
        /\ Len(Append(s, e)) = Len(s) + 1 /\ Append(s, e)[Len(s) + 1] = e
  OBVIOUS
<1>4. /\ Append(list, more) \in Seq(S)
      /\ Len(Append(list, more)) = Len(list) + 1 /\ Append(list, more)[Len(list) + 1] = more
  BY <1>2, <1>3
<1> QED
  BY <1>1, <1>4 DEF Last

LEMMA RootIsList ==
  ASSUME NEW op \in Operations
  PROVE  \E T : Root(op) \in Seq(T)
<1>1. PICK data, root, T : data = Data(op[1]) /\ root = Field(op[1], op[2]) /\ T = {data, root}
  OBVIOUS
<1>2. data \in T /\ root \in T /\ Root(op) = <<data, root>>
  BY <1>1 DEF Root
<1> QED
  BY <1>2

\* The two lists below a profile.
LEMMA ProfileSkillsPlace ==
  ASSUME NEW op \in Operations, NEW place, place = ProfileSkillsAt(op)
  PROVE  /\ Last(place).name = "skills" /\ Last(place).type = "UserSkill"
         /\ Last(Append(place, Field("UserSkill", "skill"))).name = "skill"
<1>1. PICK more : more = Field("Profile", "skills") /\ more.name = "skills" /\ more.type = "UserSkill"
  BY NextFields
<1>2. PICK last : last = Field("UserSkill", "skill") /\ last.name = "skill"
  BY NextFields
<1>3. PICK T : Root(op) \in Seq(T)
  BY RootIsList
<1>4. Last(place) = more /\ place \in Seq(T \cup {more})
  BY <1>1, <1>3, LastAppended DEF ProfileSkillsAt
<1>5. PICK S : place \in Seq(S)
  BY <1>4
<1>6. Last(Append(place, last)) = last
  BY <1>5, LastAppended
<1> QED
  BY <1>1, <1>2, <1>4, <1>6

--------------------------------------------------------------------------------
(* The results of resolving a field *)

\* Resolving leaves all of a session but its tasks, its losses and its faults.
Follows(r, result) ==
  /\ result.pc = session[r].pc /\ result.op = session[r].op /\ result.caller = session[r].caller
  /\ \E tasks, places : result \in Session(tasks, places)

LEMMA DoneFollows ==
  ASSUME SessionsShaped, NEW r \in Connections, NEW task
  PROVE  /\ Follows(r, Done(r, task))
         /\ Done(r, task).pending = session[r].pending \ {task}
         /\ Done(r, task).lost = session[r].lost /\ Done(r, task).fault = session[r].fault
<1>1. PICK tasks, places : session[r] \in Session(tasks, places)
  BY DEF SessionsShaped
<1>2. /\ Done(r, task) \in Session(tasks, places)
      /\ Done(r, task).pending = session[r].pending \ {task}
      /\ Done(r, task).lost = session[r].lost /\ Done(r, task).fault = session[r].fault
      /\ Done(r, task).pc = session[r].pc /\ Done(r, task).op = session[r].op
      /\ Done(r, task).caller = session[r].caller
  BY <1>1 DEF Done, Session
<1> QED
  BY <1>2 DEF Follows

LEMMA FailsFollows ==
  ASSUME SessionsShaped, NEW r \in Connections, NEW task, NEW fault \in BOOLEAN
  PROVE  /\ Follows(r, Fails(r, task, fault))
         /\ Fails(r, task, fault).pending = session[r].pending \ {task}
         /\ Fails(r, task, fault).fault = (session[r].fault \/ fault)
<1>1. PICK tasks, places : session[r] \in Session(tasks, places)
  BY DEF SessionsShaped
<1> DEFINE result == Done(r, task)  place == Nulled(task.place)
<1>2. /\ result \in Session(tasks, places)
      /\ result.pending = session[r].pending \ {task} /\ result.fault = session[r].fault
      /\ result.pc = session[r].pc /\ result.op = session[r].op /\ result.caller = session[r].caller
  BY <1>1 DEF Done, Session
<1>3. Fails(r, task, fault) = [result EXCEPT !.lost = @ \cup {place}, !.fault = @ \/ fault]
  BY DEF Fails
<1> HIDE DEF result, place
<1>4. /\ Fails(r, task, fault) \in Session(tasks, places \cup {place})
      /\ Fails(r, task, fault).pending = result.pending
      /\ Fails(r, task, fault).pc = result.pc /\ Fails(r, task, fault).op = result.op
      /\ Fails(r, task, fault).caller = result.caller
  <2>1. (result.fault \/ fault) \in BOOLEAN
    OBVIOUS
  <2>2. result.lost \cup {place} \in SUBSET (places \cup {place})
    BY <1>2 DEF Session
  <2>3. Fails(r, task, fault) \in Session(tasks, places \cup {place})
    BY <1>2, <1>3, <2>1, <2>2 DEF Session
  <2> QED
    BY <1>2, <1>3, <2>3 DEF Session
<1>5. Fails(r, task, fault).fault = (result.fault \/ fault)
  BY <1>2, <1>3 DEF Session
<1> QED
  BY <1>2, <1>4, <1>5 DEF Follows

LEMMA GoesFollows ==
  ASSUME SessionsShaped, NEW r \in Connections, NEW task, NEW ids
  PROVE  /\ Follows(r, Goes(r, task, ids))
         /\ Goes(r, task, ids).pending =
              (session[r].pending \ {task})
                \cup {[place |-> p, id |-> id] : p \in Below(task.place), id \in ids}
         /\ Goes(r, task, ids).lost = session[r].lost /\ Goes(r, task, ids).fault = session[r].fault
<1>1. PICK tasks, places : session[r] \in Session(tasks, places)
  BY DEF SessionsShaped
<1> DEFINE result == Done(r, task)
           new == {[place |-> p, id |-> id] : p \in Below(task.place), id \in ids}
<1>2. /\ result \in Session(tasks, places)
      /\ result.pending = session[r].pending \ {task}
      /\ result.lost = session[r].lost /\ result.fault = session[r].fault
      /\ result.pc = session[r].pc /\ result.op = session[r].op /\ result.caller = session[r].caller
  BY <1>1 DEF Done, Session
<1>3. Goes(r, task, ids) = [result EXCEPT !.pending = @ \cup new]
  BY DEF Goes
<1> HIDE DEF result, new
<1>4. /\ Goes(r, task, ids) \in Session(tasks \cup new, places)
      /\ Goes(r, task, ids).pending = result.pending \cup new
      /\ Goes(r, task, ids).lost = result.lost /\ Goes(r, task, ids).fault = result.fault
      /\ Goes(r, task, ids).pc = result.pc /\ Goes(r, task, ids).op = result.op
      /\ Goes(r, task, ids).caller = result.caller
  BY <1>2, <1>3 DEF Session
<1> QED
  BY <1>2, <1>4 DEF Follows, new

LEMMA SessionSet ==
  ASSUME SessionsShaped, NEW r \in Connections, NEW tasks, NEW places,
         NEW result \in Session(tasks, places), session' = [session EXCEPT ![r] = result]
  PROVE  /\ SessionsShaped' /\ session'[r] = result
         /\ \A q \in Connections : q # r => session'[q] = session[q]
<1>1. PICK T, P : session \in [Connections -> Session(T, P)]
  BY DEF SessionsShaped
<1>2. Session(T, P) \subseteq Session(T \cup tasks, P \cup places)
      /\ Session(tasks, places) \subseteq Session(T \cup tasks, P \cup places)
  BY DEF Session
<1>3. session' \in [Connections -> Session(T \cup tasks, P \cup places)]
  BY <1>1, <1>2
<1>4. SessionsShaped'
  <2>1. PICK all, nulls : session' \in [Connections -> Session(all, nulls)]
    BY <1>3
  <2> QED
    BY <2>1 DEF SessionsShaped, Session, Connections, Roles
<1> QED
  BY <1>1, <1>4

--------------------------------------------------------------------------------
(* What a step of one session leaves to the others, and to itself *)

Grown == claims \subseteq claims' /\ (required # None => required' = required)

LEMMA TaskStays ==
  ASSUME Grown, NEW r, NEW task, session'[r].op = session[r].op, TaskFits(r, task)
  PROVE  TaskFits(r, task)'
BY DEF Grown, TaskFits

LEMMA CauseStays ==
  ASSUME Grown, NEW r, HasCause(r),
         session'[r].op = session[r].op, session'[r].caller = session[r].caller,
         session[r].fault => session'[r].fault
  PROVE  HasCause(r)'
BY DEF Grown, HasCause, Permitted

LEMMA OthersFit ==
  ASSUME Grown, NEW q \in Connections, SessionFits(q),
         session'[q] = session[q], loaded'[q] = loaded[q]
  PROVE  SessionFits(q)'
<1>1. LoadersFit(q)'
  BY DEF SessionFits, LoadersFit, HasErrors
<1>2. OperationFits(q)'
  BY TaskStays, CauseStays DEF SessionFits, OperationFits
<1> QED
  BY <1>1, <1>2 DEF SessionFits

LEMMA FreshLoaders ==
  NothingLoaded \in [Ids \cup {User} -> Values] /\ \A id \in DOMAIN NothingLoaded : NothingLoaded[id] = "unasked"
BY DEF NothingLoaded, Values

\* A resolver leaves its session in order if the tasks it adds are in place, what
\* it loses has a cause, and an error in the loaders is a fault.
LEMMA ResolvedFits ==
  ASSUME GatewayInv, Grown, NEW r \in Connections, session[r].pc = "running",
         NEW result, NEW values, Resolved(r, result, values), Follows(r, result),
         values \in [Ids \cup {User} -> Values],
         \A id \in DOMAIN values : values[id] = "absent" => id \in OtherIds,
         \A id \in DOMAIN values : values[id] = "error" => result.fault,
         \A t \in result.pending : t \in session[r].pending \/ TaskFits(r, t)',
         result.lost # {} => HasCause(r) \/ result.fault,
         session[r].fault => result.fault
  PROVE  SessionsFit'
<1>1. /\ session' = [session EXCEPT ![r] = result]
      /\ loaded' = [loaded EXCEPT ![r] = Loaders(r, result, values)]
      /\ sockets' = sockets
  BY DEF Resolved
<1>2. /\ SessionsShaped' /\ session'[r] = result
      /\ \A q \in Connections : q # r => session'[q] = session[q]
  BY <1>1, SessionSet DEF Follows, GatewayInv, SessionsFit
<1>3. /\ Loaders(r, result, values) \in [Ids \cup {User} -> Values]
      /\ \/ Loaders(r, result, values) = NothingLoaded
         \/ /\ Loaders(r, result, values) = values
            /\ result.pending # {} \/ r \notin HttpRequests
  BY FreshLoaders DEF Loaders
<1>4. /\ LoadersTyped' /\ loaded'[r] = Loaders(r, result, values)
      /\ \A q \in Connections : q # r => loaded'[q] = loaded[q]
  <2> DEFINE mine == Loaders(r, result, values)
  <2>1. loaded \in [Connections -> [Ids \cup {User} -> Values]]
    BY DEF GatewayInv, SessionsFit, LoadersTyped
  <2>2. mine \in [Ids \cup {User} -> Values] /\ loaded' = [loaded EXCEPT ![r] = mine]
    BY <1>1, <1>3
  <2> HIDE DEF mine
  <2>3. /\ loaded' \in [Connections -> [Ids \cup {User} -> Values]] /\ loaded'[r] = mine
        /\ \A q \in Connections : q # r => loaded'[q] = loaded[q]
    BY <2>1, <2>2
  <2> QED
    BY <2>3 DEF mine, LoadersTyped, Connections, Ids, User, Values
<1>5. ASSUME NEW q \in Connections, q # r PROVE SessionFits(q)'
  BY <1>2, <1>4, <1>5, OthersFit DEF GatewayInv, SessionsFit
<1>6. LoadersFit(r)'
  <2>1. CASE loaded'[r] = NothingLoaded
    BY <2>1, FreshLoaders DEF LoadersFit, HasErrors
  <2>2. CASE loaded'[r] = values /\ (result.pending # {} \/ r \notin HttpRequests)
    <3>1. session'[r].pc = "running" /\ session'[r].pending = result.pending /\ session'[r].fault = result.fault
      BY <1>2 DEF Follows
    <3> QED
      BY <2>2, <3>1 DEF LoadersFit, HasErrors
  <2> QED
    BY <2>1, <2>2, <1>3, <1>4
<1>7. OperationFits(r)'
  <2>1. session[r].op \in Operations /\ session'[r].op = session[r].op /\ session'[r].caller = session[r].caller
    BY <1>2 DEF Follows, GatewayInv, SessionsFit, SessionFits, OperationFits
  <2>2. ASSUME NEW t \in session'[r].pending PROVE TaskFits(r, t)'
    <3>1. CASE t \in session[r].pending
      BY <3>1, <2>1, TaskStays DEF GatewayInv, SessionsFit, SessionFits, OperationFits
    <3> QED
      BY <3>1, <1>2, <2>2
  <2>3. session'[r].lost # {} => HasCause(r)'
    <3>1. result.fault => HasCause(r)'
      BY <1>2 DEF HasCause
    <3>2. HasCause(r) => HasCause(r)'
      BY <1>2, <2>1, CauseStays
    <3> QED
      BY <1>2, <3>1, <3>2
  <2> QED
    BY <2>1, <2>2, <2>3 DEF OperationFits
<1>8. GaugeIsExact'
  <2>1. \A q \in Connections : session'[q].pc = session[q].pc
    BY <1>2 DEF Follows
  <2>2. {q \in WebSockets : session'[q].pc \in {"ready", "running"}}
          = {q \in WebSockets : session[q].pc \in {"ready", "running"}}
    BY <2>1 DEF Connections
  <2> QED
    BY <1>1, <2>2 DEF GatewayInv, SessionsFit, GaugeIsExact
<1> QED
  BY <1>2, <1>4, <1>5, <1>6, <1>7, <1>8 DEF SessionsFit, SessionFits

--------------------------------------------------------------------------------
(* Resolvers *)

\* A session that resolves a task, and what its task is.
LEMMA TaskKinds ==
  ASSUME GatewayInv, NEW r \in Connections, session[r].pc = "running",
         NEW task \in session[r].pending, NEW field, field = Last(task.place).name,
         NEW op, op = session[r].op
  PROVE  /\ op \in Operations
         /\ field = "requiredSkills" => required # None
         /\ field = "skill" => op[2] \in ProfileFields /\ task.id \in claims
         /\ field \notin {"requiredSkills", "matches", "skills", "skill"}
              => task.place = Root(op) /\ op[2] = field
         /\ field = "skills" /\ Owner(task) = "Profile"
              => op[2] \in ProfileFields /\ task.place = ProfileSkillsAt(op)
<1>1. op \in Operations /\ TaskFits(r, task)
  BY DEF GatewayInv, SessionsFit, SessionFits, OperationFits
<1>2. CASE task.place = Root(op)
  <2>1. field = op[2] /\ Len(task.place) = 2 /\ task.place[1].type = op[1]
    BY <1>1, <1>2, RootsKnown
  <2>2. field \notin {"requiredSkills", "matches", "skill"} /\ op[1] # "Profile"
    BY <1>1, <2>1, OperationNames
  <2>3. Owner(task) # "Profile"
    BY <2>1, <2>2 DEF Owner
  <2> QED
    BY <1>1, <1>2, <2>1, <2>2, <2>3
<1>3. CASE task.place = ProfileSkillsAt(op) /\ op[2] \in ProfileFields
  BY <1>1, <1>3, ProfileSkillsPlace
<1>4. CASE field \in JobResolvers /\ op[2] \in JobFields /\ required # None
  BY <1>1, <1>4 DEF JobResolvers
<1>5. CASE field = "skill" /\ op[2] \in ProfileFields /\ task.id \in claims
  BY <1>1, <1>5
<1> QED
  BY <1>1, <1>2, <1>3, <1>4, <1>5 DEF TaskFits

LEMMA ValuesHeld ==
  ASSUME GatewayInv, NEW r \in Connections
  PROVE  /\ loaded[r] \in [Ids \cup {User} -> Values]
         /\ \A id \in DOMAIN loaded[r] : loaded[r][id] = "absent" => id \in OtherIds
         /\ \A id \in DOMAIN loaded[r] : loaded[r][id] = "error" => session[r].fault
         /\ session[r].pc = "running" /\ session[r].lost # {} => HasCause(r)
         /\ SessionsShaped
BY DEF GatewayInv, SessionsFit, LoadersTyped, SessionFits, LoadersFit, HasErrors, OperationFits

LEMMA DoneFits ==
  ASSUME GatewayInv, Grown, NEW r \in Connections, session[r].pc = "running", NEW task,
         Resolved(r, Done(r, task), loaded[r])
  PROVE  SessionsFit'
<1>1. PICK result, values : result = Done(r, task) /\ values = loaded[r]
  OBVIOUS
<1>2. /\ Resolved(r, result, values) /\ Follows(r, result)
      /\ result.pending = session[r].pending \ {task}
      /\ result.lost = session[r].lost /\ result.fault = session[r].fault
  BY <1>1, DoneFollows, ValuesHeld
<1>3. /\ values \in [Ids \cup {User} -> Values]
      /\ \A id \in DOMAIN values : values[id] = "absent" => id \in OtherIds
      /\ \A id \in DOMAIN values : values[id] = "error" => result.fault
      /\ result.lost # {} => HasCause(r)
  BY <1>1, <1>2, ValuesHeld
<1>4. \A t \in result.pending : t \in session[r].pending \/ TaskFits(r, t)'
  BY <1>2
<1> QED
  BY <1>2, <1>3, <1>4, ResolvedFits

LEMMA FailsFits ==
  ASSUME GatewayInv, Grown, NEW r \in Connections, session[r].pc = "running", NEW task,
         NEW fault \in BOOLEAN, NEW values, Resolved(r, Fails(r, task, fault), values),
         values \in [Ids \cup {User} -> Values],
         \A id \in DOMAIN values : values[id] = "absent" => id \in OtherIds,
         \A id \in DOMAIN values : values[id] = "error" => session[r].fault \/ fault,
         HasCause(r) \/ fault
  PROVE  SessionsFit'
<1>1. PICK result : result = Fails(r, task, fault)
  OBVIOUS
<1>2. /\ Resolved(r, result, values) /\ Follows(r, result)
      /\ result.pending = session[r].pending \ {task}
      /\ result.fault = (session[r].fault \/ fault)
  BY <1>1, FailsFollows, ValuesHeld
<1>3. /\ \A id \in DOMAIN values : values[id] = "error" => result.fault
      /\ HasCause(r) \/ result.fault
      /\ session[r].fault => result.fault
  BY <1>2
<1>4. \A t \in result.pending : t \in session[r].pending \/ TaskFits(r, t)'
  BY <1>2
<1> QED
  BY <1>2, <1>3, <1>4, ResolvedFits

LEMMA GoesFits ==
  ASSUME GatewayInv, Grown, NEW r \in Connections, session[r].pc = "running", NEW task, NEW ids,
         Resolved(r, Goes(r, task, ids), loaded[r]),
         \A p \in Below(task.place), id \in ids : TaskFits(r, [place |-> p, id |-> id])'
  PROVE  SessionsFit'
<1>1. PICK result, values : result = Goes(r, task, ids) /\ values = loaded[r]
  OBVIOUS
<1>2. /\ Resolved(r, result, values) /\ Follows(r, result)
      /\ result.pending = (session[r].pending \ {task})
                            \cup {[place |-> p, id |-> id] : p \in Below(task.place), id \in ids}
      /\ result.lost = session[r].lost /\ result.fault = session[r].fault
  BY <1>1, GoesFollows, ValuesHeld
<1>3. /\ values \in [Ids \cup {User} -> Values]
      /\ \A id \in DOMAIN values : values[id] = "absent" => id \in OtherIds
      /\ \A id \in DOMAIN values : values[id] = "error" => result.fault
      /\ result.lost # {} => HasCause(r)
  BY <1>1, <1>2, ValuesHeld
<1>4. \A t \in result.pending : t \in session[r].pending \/ TaskFits(r, t)'
  <2> SUFFICES ASSUME NEW t \in result.pending, t \notin session[r].pending PROVE TaskFits(r, t)'
    OBVIOUS
  <2>1. PICK p \in Below(task.place), id \in ids : t = [place |-> p, id |-> id]
    BY <1>2
  <2> QED
    BY <2>1
<1> QED
  BY <1>2, <1>3, <1>4, ResolvedFits

LEMMA RefuseFits ==
  ASSUME GatewayInv, NEW r \in Connections, NEW task \in session[r].pending, Refuse(r, task)
  PROVE  SessionsFit'
<1>1. PICK field, op : field = Last(task.place).name /\ op = session[r].op
  OBVIOUS
<1>2. /\ session[r].pc = "running" /\ ~Permitted(r, field)
      /\ Resolved(r, Fails(r, task, FALSE), loaded[r])
  BY <1>1 DEF Refuse
<1>3. field \in RequiresUser \cup RequiresAdmin
  BY <1>2 DEF Permitted
<1>4. op[2] = field
  BY <1>1, <1>2, <1>3, TaskKinds DEF RequiresUser, RequiresAdmin
<1>5. HasCause(r)
  BY <1>1, <1>2, <1>4 DEF HasCause
<1>6. Grown
  BY DEF Refuse, world, Grown
<1>7. PICK values : values = loaded[r]
  OBVIOUS
<1>8. /\ Resolved(r, Fails(r, task, FALSE), values) /\ values \in [Ids \cup {User} -> Values]
      /\ \A id \in DOMAIN values : values[id] = "absent" => id \in OtherIds
      /\ \A id \in DOMAIN values : values[id] = "error" => session[r].fault \/ FALSE
  BY <1>2, <1>7, ValuesHeld
<1> QED
  BY <1>2, <1>5, <1>6, <1>8, FailsFits

LEMMA CallFailsFits ==
  ASSUME GatewayInv, Grown, NEW r \in Connections, NEW task, session[r].pc = "running",
         Resolved(r, Fails(r, task, TRUE), loaded[r])
  PROVE  SessionsFit'
<1>1. PICK values : values = loaded[r]
  OBVIOUS
<1>2. /\ Resolved(r, Fails(r, task, TRUE), values) /\ values \in [Ids \cup {User} -> Values]
      /\ \A id \in DOMAIN values : values[id] = "absent" => id \in OtherIds
      /\ \A id \in DOMAIN values : values[id] = "error" => session[r].fault \/ TRUE
  BY <1>1, ValuesHeld
<1> QED
  BY <1>2, FailsFits

LEMMA GoesOn ==
  ASSUME GatewayInv, NEW r \in Connections, NEW task, NEW ids, NEW values,
         Resolved(r, Goes(r, task, ids), values)
  PROVE  session'[r].op = session[r].op
<1>1. PICK result : result = Goes(r, task, ids)
  OBVIOUS
<1>2. Follows(r, result) /\ session' = [session EXCEPT ![r] = result]
  BY <1>1, GoesFollows, ValuesHeld DEF Resolved
<1>3. PICK tasks, places : result \in Session(tasks, places)
  BY <1>2 DEF Follows
<1> QED
  BY <1>2, <1>3, SessionSet, ValuesHeld DEF Follows

\* The fields of a job, of a profile and of its skills come after their objects.
LEMMA JobFieldsFit ==
  ASSUME GatewayInv, Grown, NEW r \in Connections, NEW task \in session[r].pending, NEW ids,
         session[r].pc = "running", Last(task.place).name \in JobFields,
         required' # None \/ ids = {},
         Resolved(r, Goes(r, task, ids), loaded[r])
  PROVE  SessionsFit'
<1>1. PICK field, op : field = Last(task.place).name /\ op = session[r].op
  OBVIOUS
<1>2. op \in Operations /\ task.place = Root(op) /\ op[2] = field
  BY <1>1, TaskKinds DEF JobFields
<1>3. Last(task.place).type = "Job"
  BY <1>1, <1>2, RootsKnown
<1>4. PICK T : task.place \in Seq(T)
  BY <1>2, RootIsList
<1>5. ASSUME NEW p \in Below(task.place), NEW id \in ids PROVE TaskFits(r, [place |-> p, id |-> id])'
  <2>1. PICK name \in JobResolvers : p = Append(task.place, Field("Job", name))
    BY <1>3, NextFields DEF Below
  <2>2. PICK more : more = Field("Job", name) /\ more.name = name
    BY NextFields
  <2>3. Last(p).name = name
    BY <1>4, <2>1, <2>2, LastAppended
  <2>4. session'[r].op = op /\ required' # None
    BY <1>1, <1>5, GoesOn
  <2> QED
    BY <1>1, <1>2, <2>3, <2>4 DEF TaskFits
<1> QED
  BY <1>5, GoesFits

LEMMA JobsFits ==
  ASSUME GatewayInv, NEW r \in Connections, NEW task \in session[r].pending,
         NEW field \in {"jobs", "job"}, Jobs(r, task, field)
  PROVE  SessionsFit'
<1>1. PICK ids : ids = IF required = None THEN {} ELSE {None}
  OBVIOUS
<1>2. /\ session[r].pc = "running" /\ Last(task.place).name \in JobFields
      /\ Resolved(r, Goes(r, task, ids), loaded[r])
  BY <1>1 DEF Jobs, Pending, JobFields
<1>3. Grown /\ required' = required
  BY DEF Jobs, world, Grown
<1> QED
  BY <1>1, <1>2, <1>3, JobFieldsFit

LEMMA CreateJobFits ==
  ASSUME GatewayInv, NEW r \in Connections, NEW task \in session[r].pending,
         NEW ids \in SUBSET Ids, NEW unheard \in BOOLEAN, CreateJob(r, task, ids, unheard)
  PROVE  SessionsFit'
<1>1. /\ session[r].pc = "running" /\ Last(task.place).name \in JobFields
      /\ required = None /\ required' = ids /\ claims' = claims /\ Writes(r, task, unheard)
  BY DEF CreateJob, Pending, JobFields
<1>2. Grown /\ required' # None
  BY <1>1, IdsAreDistinct DEF Grown, Ids
<1>3. CASE unheard
  BY <1>1, <1>2, <1>3, CallFailsFits DEF Writes
<1>4. CASE ~unheard
  BY <1>1, <1>2, <1>4, JobFieldsFit DEF Writes
<1> QED
  BY <1>3, <1>4

\* An object that has no fields of its own to resolve.
LEMMA LeafFits ==
  ASSUME GatewayInv, Grown, NEW r \in Connections, NEW task \in session[r].pending,
         session[r].pc = "running", Last(task.place).name \in {"createSkill", "addUserSkill"},
         NEW unheard \in BOOLEAN, Writes(r, task, unheard)
  PROVE  SessionsFit'
<1>1. CASE unheard
  BY <1>1, CallFailsFits DEF Writes
<1>2. CASE ~unheard
  <2>1. PICK field, op : field = Last(task.place).name /\ op = session[r].op
    OBVIOUS
  <2>2. op \in Operations /\ task.place = Root(op) /\ op[2] = field
    BY <2>1, TaskKinds
  <2>3. Resolvers[Last(task.place).type] = {}
    BY <2>1, <2>2, RootsKnown, NextFields
  <2>4. Below(task.place) = {}
    BY <2>3 DEF Below
  <2>5. PICK ids : ids = {None}
    OBVIOUS
  <2>6. Resolved(r, Goes(r, task, ids), loaded[r])
    BY <1>2, <2>5 DEF Writes
  <2> QED
    BY <2>4, <2>6, GoesFits
<1> QED
  BY <1>1, <1>2

LEMMA MyProfileFits ==
  ASSUME GatewayInv, NEW r \in Connections, NEW task \in session[r].pending,
         NEW field \in {"myProfile", "updateProfile"}, MyProfile(r, task, field)
  PROVE  SessionsFit'
<1>1. PICK ids, op : ids = {None} /\ op = session[r].op
  OBVIOUS
<1>2. /\ session[r].pc = "running" /\ Last(task.place).name = field
      /\ Resolved(r, Goes(r, task, ids), loaded[r])
  BY <1>1 DEF MyProfile, Pending
<1>3. Grown
  BY DEF MyProfile, world, Grown
<1>4. op \in Operations /\ task.place = Root(op) /\ op[2] \in ProfileFields
  BY <1>1, <1>2, TaskKinds DEF ProfileFields
<1>5. Resolvers[Last(task.place).type] = {"skills"} /\ Last(task.place).type = "Profile"
  BY <1>4, RootsKnown, NextFields
<1>6. ASSUME NEW p \in Below(task.place), NEW id \in ids PROVE TaskFits(r, [place |-> p, id |-> id])'
  <2>1. p = ProfileSkillsAt(op)
    BY <1>4, <1>5 DEF Below, ProfileSkillsAt
  <2>2. session'[r].op = op
    BY <1>1, <1>2, GoesOn
  <2> QED
    BY <1>4, <2>1, <2>2 DEF TaskFits
<1> QED
  BY <1>2, <1>3, <1>6, GoesFits

LEMMA ProfileSkillsFits ==
  ASSUME GatewayInv, NEW r \in Connections, NEW task \in session[r].pending, ProfileSkills(r, task)
  PROVE  SessionsFit'
<1>1. PICK field, op, ids : field = Last(task.place).name /\ op = session[r].op /\ ids = claims
  OBVIOUS
<1>2. /\ session[r].pc = "running" /\ field = "skills"
      /\ Owner(task) = "Profile"
      /\ Resolved(r, Goes(r, task, ids), loaded[r])
  BY <1>1 DEF ProfileSkills, Pending
<1>3. Grown /\ claims' = claims
  BY DEF ProfileSkills, world, Grown
<1>4. op \in Operations /\ op[2] \in ProfileFields /\ task.place = ProfileSkillsAt(op)
  <2>0. field = Last(task.place).name /\ op = session[r].op /\ session[r].pc = "running"
    BY <1>1, <1>2
  <2>1. op \in Operations
    BY <2>0, TaskKinds
  <2>2. field = "skills" /\ Owner(task) = "Profile" => op[2] \in ProfileFields
    BY <2>0, TaskKinds
  <2>3. field = "skills" /\ Owner(task) = "Profile" => task.place = ProfileSkillsAt(op)
    BY <2>0, TaskKinds
  <2> QED
    BY <1>2, <2>1, <2>2, <2>3
<1>5. Last(task.place).type = "UserSkill"
  BY <1>4, ProfileSkillsPlace
<1>6. ASSUME NEW p \in Below(task.place), NEW id \in ids PROVE TaskFits(r, [place |-> p, id |-> id])'
  <2>1. p = Append(task.place, Field("UserSkill", "skill"))
    BY <1>5, <1>6, NextFields DEF Below
  <2>2. Last(p).name = "skill"
    BY <1>4, <2>1, ProfileSkillsPlace
  <2>3. session'[r].op = op /\ id \in claims'
    BY <1>1, <1>2, <1>3, <1>6, GoesOn
  <2> QED
    BY <1>4, <2>2, <2>3 DEF TaskFits
<1> QED
  BY <1>2, <1>3, <1>6, GoesFits

--------------------------------------------------------------------------------
(* Loaders *)

\* What a loader holds after a batch: a new error is a failed call, and what is
\* newly absent is no skill.
LEMMA LoadedValues ==
  ASSUME GatewayInv, NEW r \in Connections, NEW ids, ids \subseteq Known \cup {User},
         NEW served \in BOOLEAN, NEW values, values = Load(r, ids, served)
  PROVE  /\ values \in [Ids \cup {User} -> Values]
         /\ \A id \in DOMAIN values : values[id] = "absent" => id \in OtherIds
         /\ \A id \in DOMAIN values : values[id] = "error" =>
              session[r].fault \/ (id \in ids /\ loaded[r][id] = "unasked")
<1>1. loaded[r] \in [Ids \cup {User} -> Values]
  BY ValuesHeld
<1>2. DOMAIN values = Ids \cup {User}
  BY <1>1 DEF Load
<1>3. ASSUME NEW id \in Ids \cup {User}
      PROVE  /\ values[id] \in Values
             /\ values[id] = "absent" => id \in OtherIds
             /\ values[id] = "error" => session[r].fault \/ (id \in ids /\ loaded[r][id] = "unasked")
  <2>1. values[id] = IF id \notin ids \/ loaded[r][id] # "unasked" THEN loaded[r][id]
                     ELSE IF ~served THEN "error"
                     ELSE IF HasRow(id) THEN "present" ELSE "absent"
    BY <1>1, <1>3 DEF Load
  <2>2. CASE id \notin ids \/ loaded[r][id] # "unasked"
    BY <1>1, <1>3, <2>1, <2>2, ValuesHeld
  <2>3. CASE id \in ids /\ loaded[r][id] = "unasked"
    <3>1. ~HasRow(id) => id \in OtherIds
      BY <2>3 DEF HasRow, Known
    <3> QED
      BY <2>1, <2>3, <3>1 DEF Values
  <2> QED
    BY <2>2, <2>3
<1>4. values = [id \in Ids \cup {User} |-> values[id]]
  BY <1>1 DEF Load
<1> QED
  BY <1>2, <1>3, <1>4

LEMMA LoadFits ==
  ASSUME GatewayInv, NEW r \in Connections, NEW task \in session[r].pending, NEW field,
         NEW ids, ids \subseteq Known \cup {User},
         field = "skill" => ids \subseteq claims /\ session[r].op[2] \in ProfileFields,
         NEW served \in BOOLEAN, LoadField(r, task, field, ids, served)
  PROVE  SessionsFit'
<1>1. PICK after : after = Load(r, ids, served)
  OBVIOUS
<1>2. PICK errors, missing :
        /\ errors = {id \in ids : after[id] = "error"}
        /\ missing = MissingOf(field, {id \in ids : after[id] = "absent"})
  OBVIOUS
<1>3. PICK fault \in BOOLEAN : fault = (\E id \in errors : loaded[r][id] = "unasked")
  OBVIOUS
<1>4. /\ session[r].pc = "running"
      /\ Resolved(r, IF errors \cup missing = {} THEN Done(r, task) ELSE Fails(r, task, fault), after)
      /\ UNCHANGED world
  BY <1>1, <1>2, <1>3 DEF LoadField, Pending
<1>5. Grown
  BY <1>4 DEF world, Grown
<1>6. /\ after \in [Ids \cup {User} -> Values]
      /\ \A id \in DOMAIN after : after[id] = "absent" => id \in OtherIds
      /\ \A id \in DOMAIN after : after[id] = "error" =>
           session[r].fault \/ (id \in ids /\ loaded[r][id] = "unasked")
  BY <1>1, LoadedValues
<1>7. ids \subseteq DOMAIN after
  BY <1>6 DEF Known, GatewayInv, WorldKnown, Ids
<1>8. CASE errors \cup missing = {}
  <2>1. PICK result : result = Done(r, task)
    OBVIOUS
  <2>2. /\ Resolved(r, result, after) /\ Follows(r, result)
        /\ result.pending = session[r].pending \ {task}
        /\ result.lost = session[r].lost /\ result.fault = session[r].fault
    BY <1>4, <1>8, <2>1, DoneFollows, ValuesHeld
  <2>3. \A id \in DOMAIN after : after[id] = "error" => result.fault
    BY <1>2, <1>6, <1>8, <2>2
  <2>4. /\ \A t \in result.pending : t \in session[r].pending \/ TaskFits(r, t)'
        /\ result.lost # {} => HasCause(r)
    BY <1>4, <2>2, ValuesHeld
  <2> QED
    BY <1>4, <1>5, <1>6, <2>2, <2>3, <2>4, ResolvedFits
<1>9. CASE errors \cup missing # {}
  <2>1. Resolved(r, Fails(r, task, fault), after)
    BY <1>4, <1>9
  <2>2. \A id \in DOMAIN after : after[id] = "error" => session[r].fault \/ fault
    BY <1>2, <1>3, <1>6
  <2>3. ASSUME NEW id \in errors PROVE HasCause(r) \/ fault
    BY <1>2, <1>7, <2>2, <2>3 DEF HasCause
  <2>4. ASSUME NEW id \in missing PROVE HasCause(r)
    <3>1. field = "skill" /\ id \in ids /\ after[id] = "absent"
      BY <1>2, <2>4 DEF MissingOf
    <3>2. id \in OtherIds /\ id \in claims /\ session[r].op[2] \in ProfileFields
      BY <1>6, <1>7, <3>1
    <3> QED
      BY <3>2 DEF HasCause
  <2> QED
    BY <1>4, <1>5, <1>6, <1>9, <2>1, <2>2, <2>3, <2>4, FailsFits
<1> QED
  BY <1>8, <1>9

LEMMA RequiredSkillsFits ==
  ASSUME GatewayInv, NEW r \in Connections, NEW task \in session[r].pending,
         NEW served \in BOOLEAN, RequiredSkills(r, task, served)
  PROVE  SessionsFit'
<1>1. PICK field, op, ids : field = "requiredSkills" /\ op = session[r].op /\ ids = required
  OBVIOUS
<1>2. LoadField(r, task, field, ids, served)
  BY <1>1 DEF RequiredSkills
<1>3. session[r].pc = "running" /\ field = Last(task.place).name
  BY <1>2 DEF LoadField, Pending
<1>4. required # None
  BY <1>1, <1>3, TaskKinds
<1>5. ids \subseteq Known \cup {User} /\ field # "skill"
  BY <1>1, <1>4 DEF GatewayInv, WorldKnown
<1> QED
  BY <1>2, <1>5, LoadFits

LEMMA UserSkillSkillFits ==
  ASSUME GatewayInv, NEW r \in Connections, NEW task \in session[r].pending,
         NEW served \in BOOLEAN, UserSkillSkill(r, task, served)
  PROVE  SessionsFit'
<1>1. PICK field, op, ids : field = "skill" /\ op = session[r].op /\ ids = {task.id}
  OBVIOUS
<1>2. LoadField(r, task, field, ids, served)
  BY <1>1 DEF UserSkillSkill
<1>3. session[r].pc = "running" /\ field = Last(task.place).name
  BY <1>2 DEF LoadField, Pending
<1>4. op[2] \in ProfileFields /\ task.id \in claims
  BY <1>1, <1>3, TaskKinds
<1>5. /\ ids \subseteq Known \cup {User} /\ ids \subseteq claims
      /\ session[r].op[2] \in ProfileFields
  BY <1>1, <1>4 DEF GatewayInv, WorldKnown
<1> QED
  BY <1>2, <1>5, LoadFits

LEMMA MatchesFits ==
  ASSUME GatewayInv, NEW r \in Connections, NEW task \in session[r].pending,
         NEW found \in BOOLEAN, NEW served \in BOOLEAN, Matches(r, task, found, served)
  PROVE  SessionsFit'
<1>1. PICK field, ids : field = "matches" /\ ids = NamesOf(found)
  OBVIOUS
<1>2. LoadField(r, task, field, ids, served)
  BY <1>1 DEF Matches
<1>3. ids \subseteq Known \cup {User} /\ field # "skill"
  BY <1>1 DEF NamesOf
<1> QED
  BY <1>2, <1>3, LoadFits

--------------------------------------------------------------------------------
(* Before the operation, and after it *)

\* The sockets the gauge counts.
Open == {q \in WebSockets : session[q].pc \in {"ready", "running"}}

LEMMA OpenCounted ==
  /\ IsFiniteSet(Open) /\ Cardinality(Open) \in Nat
  /\ Cardinality(WebSockets) \in Nat /\ Cardinality(Open) <= Cardinality(WebSockets)
<1>1. IsFiniteSet(WebSockets) /\ Open \subseteq WebSockets
  BY SocketsAreSockets DEF Open
<1>2. IsFiniteSet(Open) /\ Cardinality(Open) <= Cardinality(WebSockets)
  BY <1>1, FS_Subset
<1> QED
  BY <1>1, <1>2, FS_CardinalityType

\* The gauge goes up by one as a connection comes to be counted, and down by one
\* as it ceases to be.
LEMMA GaugeFollows ==
  ASSUME GaugeIsExact, NEW r,
         \A q \in WebSockets : q # r => session'[q] = session[q],
         \/ sockets' = sockets /\ (r \in Open <=> r \in Open')
         \/ sockets' = sockets + 1 /\ r \notin Open /\ r \in Open'
         \/ sockets' = sockets - 1 /\ r \in Open /\ r \notin Open'
  PROVE  GaugeIsExact'
<1>1. PICK before, after : before = Open /\ after = Open'
  OBVIOUS
<1>2. sockets = Cardinality(before) /\ IsFiniteSet(before) /\ Cardinality(before) \in Nat
  BY <1>1, OpenCounted DEF GaugeIsExact, Open
<1>3. \A q : q # r => (q \in before <=> q \in after)
  BY <1>1 DEF Open
<1>4. ASSUME sockets' = sockets, r \in before <=> r \in after PROVE sockets' = Cardinality(after)
  <2>1. after = before
    BY <1>3, <1>4
  <2> QED
    BY <1>2, <1>4, <2>1
<1>5. ASSUME sockets' = sockets + 1, r \notin before, r \in after PROVE sockets' = Cardinality(after)
  <2>1. after = before \cup {r}
    BY <1>3, <1>5
  <2>2. Cardinality(after) = Cardinality(before) + 1
    BY <1>2, <1>5, <2>1, FS_AddElement
  <2> QED
    BY <1>2, <1>5, <2>2
<1>6. ASSUME sockets' = sockets - 1, r \in before, r \notin after PROVE sockets' = Cardinality(after)
  <2>1. after = before \ {r}
    BY <1>3, <1>6
  <2>2. Cardinality(after) = Cardinality(before) - 1
    BY <1>2, <1>6, <2>1, FS_RemoveElement
  <2> QED
    BY <1>2, <1>6, <2>2
<1>7. sockets' = Cardinality(after)
  BY <1>1, <1>4, <1>5, <1>6
<1> QED
  BY <1>1, <1>7 DEF GaugeIsExact, Open

LEMMA SessionMoves ==
  ASSUME GatewayInv, Grown, NEW r \in Connections, NEW result,
         \E tasks, places : result \in Session(tasks, places),
         session' = [session EXCEPT ![r] = result],
         LoadersTyped', \A q \in Connections : q # r => loaded'[q] = loaded[q],
         session'[r] = result => SessionFits(r)',
         \/ sockets' = sockets /\ (r \in Open <=> r \in WebSockets /\ result.pc \in {"ready", "running"})
         \/ sockets' = sockets + 1 /\ r \notin Open /\ r \in WebSockets /\ result.pc \in {"ready", "running"}
         \/ sockets' = sockets - 1 /\ r \in Open /\ result.pc \notin {"ready", "running"}
  PROVE  SessionsFit'
<1>1. PICK tasks, places : result \in Session(tasks, places)
  OBVIOUS
<1>2. /\ SessionsShaped' /\ session'[r] = result
      /\ \A q \in Connections : q # r => session'[q] = session[q]
  BY <1>1, SessionSet DEF GatewayInv, SessionsFit
<1>3. \A q \in WebSockets : q # r => session'[q] = session[q]
  BY <1>2 DEF Connections
<1>4. r \in Open' <=> r \in WebSockets /\ result.pc \in {"ready", "running"}
  BY <1>2 DEF Open
<1>5. GaugeIsExact
  BY DEF GatewayInv, SessionsFit
<1>6. GaugeIsExact'
  BY <1>3, <1>4, <1>5, GaugeFollows
<1>7. ASSUME NEW q \in Connections, q # r PROVE SessionFits(q)'
  BY <1>2, <1>7, OthersFit DEF GatewayInv, SessionsFit
<1> QED
  BY <1>2, <1>6, <1>7 DEF SessionsFit, Connections

\* A session that holds no operation holds no error either.
LEMMA Resting ==
  ASSUME GatewayInv, NEW r \in Connections,
         session[r].pc # "running" \/ (r \in HttpRequests /\ session[r].pending = {})
  PROVE  ~HasErrors(r)
BY DEF GatewayInv, SessionsFit, SessionFits, LoadersFit

LEMMA LoadersStay ==
  ASSUME GatewayInv, loaded' = loaded
  PROVE  /\ LoadersTyped'
         /\ \A q \in Connections : loaded'[q] = loaded[q]
BY DEF GatewayInv, SessionsFit, LoadersTyped, Connections, Ids, User, Values

\* A session that is not in an operation is in order if its loaders hold no error.
LEMMA AtRest ==
  ASSUME GatewayInv, NEW r \in Connections, session'[r].pc # "running",
         (loaded'[r] = loaded[r] /\ ~HasErrors(r)) \/ loaded'[r] = NothingLoaded
  PROVE  SessionFits(r)'
<1>1. OperationFits(r)'
  BY DEF OperationFits
<1>2. LoadersFit(r)'
  <2>1. CASE loaded'[r] = loaded[r] /\ ~HasErrors(r)
    BY <2>1, ValuesHeld DEF LoadersFit, HasErrors
  <2>2. CASE loaded'[r] = NothingLoaded
    BY <2>2, FreshLoaders DEF LoadersFit, HasErrors
  <2> QED
    BY <2>1, <2>2
<1> QED
  BY <1>1, <1>2 DEF SessionFits

LEMMA EnterFits ==
  ASSUME GatewayInv, NEW r \in Connections, NEW result, Enter(r, result),
         result \in Session({}, {}), result.pc # "running",
         r \in WebSockets => result.pc # "ready"
  PROVE  SessionsFit'
<1>1. /\ session' = [session EXCEPT ![r] = result] /\ sockets' = sockets /\ loaded' = loaded
      /\ claims' = claims /\ required' = required
  BY DEF Enter, world
<1>2. Grown
  BY <1>1 DEF Grown
<1>3. ~HasErrors(r)
  BY Resting DEF Enter, Free, Answered
<1>4. r \notin Open
  BY SocketsAreSockets DEF Enter, Free, Open
<1>5. session'[r] = result => SessionFits(r)'
  BY <1>1, <1>3, AtRest
<1> QED
  BY <1>1, <1>2, <1>4, <1>5, LoadersStay, SessionMoves

LEMMA ArriveFits ==
  ASSUME GatewayInv, NEW r \in Connections,
         \/ r \in HttpRequests /\ ArriveAnonymous(r)
         \/ \E role \in {"user", "admin"} : ArriveWithToken(r, role)
  PROVE  SessionsFit'
<1>1. CASE r \in HttpRequests /\ ArriveAnonymous(r)
  <2>1. PICK result : result = [NoRequest EXCEPT !.pc = "ready"]
    OBVIOUS
  <2>2. result \in Session({}, {}) /\ result.pc = "ready"
    BY <2>1 DEF NoRequest, Session, Roles
  <2>3. Enter(r, result) /\ r \notin WebSockets
    BY <1>1, <2>1, SocketsAreSockets DEF ArriveAnonymous
  <2> QED
    BY <2>2, <2>3, EnterFits
<1>2. ASSUME NEW role \in {"user", "admin"}, ArriveWithToken(r, role) PROVE SessionsFit'
  <2>1. PICK result : result = [NoRequest EXCEPT !.pc = "verifying", !.bearer = role]
    OBVIOUS
  <2>2. result \in Session({}, {}) /\ result.pc = "verifying"
    BY <2>1 DEF NoRequest, Session, Roles
  <2>3. Enter(r, result)
    BY <1>2, <2>1 DEF ArriveWithToken
  <2> QED
    BY <2>2, <2>3, EnterFits
<1> QED
  BY <1>1, <1>2

LEMMA VerifiedFits ==
  ASSUME GatewayInv, NEW r \in Connections, NEW accepted \in BOOLEAN, Verified(r, accepted)
  PROVE  SessionsFit'
<1>1. PICK result : result =
        IF accepted \/ r \in HttpRequests
          THEN [session[r] EXCEPT !.pc = "ready", !.bearer = None,
                                  !.caller = IF accepted THEN session[r].bearer ELSE None]
          ELSE NoRequest
  OBVIOUS
<1>2. /\ session[r].pc = "verifying" /\ session' = [session EXCEPT ![r] = result]
      /\ sockets' = IF accepted /\ r \in WebSockets THEN sockets + 1 ELSE sockets
      /\ loaded' = loaded /\ claims' = claims /\ required' = required
  <2>1. PICK tasks, places : session \in [Connections -> Session(tasks, places)]
    BY DEF GatewayInv, SessionsFit, SessionsShaped
  <2> QED
    BY <1>1, <2>1 DEF Verified, world
<1>3. (\E tasks, places : result \in Session(tasks, places))
      /\ result.pc = IF accepted \/ r \in HttpRequests THEN "ready" ELSE "idle"
  <2>1. PICK tasks, places : session[r] \in Session(tasks, places)
    BY DEF GatewayInv, SessionsFit, SessionsShaped
  <2>2. CASE accepted \/ r \in HttpRequests
    <3>1. PICK caller \in Roles : caller = IF accepted THEN session[r].bearer ELSE None
      BY <2>1 DEF Session, Roles
    <3>2. result = [session[r] EXCEPT !.pc = "ready", !.bearer = None, !.caller = caller]
      BY <1>1, <2>2, <3>1
    <3>3. result \in Session(tasks, places) /\ result.pc = "ready"
      BY <2>1, <3>2 DEF Session, Roles
    <3> QED
      BY <2>2, <3>3
  <2>3. CASE ~(accepted \/ r \in HttpRequests)
    <3>1. result \in Session({}, {}) /\ result.pc = "idle"
      BY <1>1, <2>3 DEF NoRequest, Session, Roles
    <3> QED
      BY <2>3, <3>1
  <2> QED
    BY <2>2, <2>3
<1>4. r \notin Open /\ (r \in WebSockets => r \notin HttpRequests) /\ (r \in HttpRequests \/ r \in WebSockets)
  BY <1>2, SocketsAreSockets DEF Open, Connections
<1>5. \/ sockets' = sockets /\ (r \in Open <=> r \in WebSockets /\ result.pc \in {"ready", "running"})
      \/ sockets' = sockets + 1 /\ r \notin Open /\ r \in WebSockets /\ result.pc \in {"ready", "running"}
  BY <1>2, <1>3, <1>4
<1>6. session'[r] = result => SessionFits(r)'
  BY <1>2, <1>3, Resting, AtRest
<1>7. Grown
  BY <1>2 DEF Grown
<1> QED
  BY <1>2, <1>3, <1>5, <1>6, <1>7, LoadersStay, SessionMoves

LEMMA CloseFits ==
  ASSUME GatewayInv, NEW r \in Connections, r \in WebSockets, CloseSocket(r)
  PROVE  SessionsFit'
<1>1. PICK result : result = NoRequest
  OBVIOUS
<1>2. result \in Session({}, {}) /\ result.pc = "idle"
  BY <1>1 DEF NoRequest, Session, Roles
<1>3. /\ session' = [session EXCEPT ![r] = result] /\ loaded' = [loaded EXCEPT ![r] = NothingLoaded]
      /\ sockets' = IF Counted(r) THEN sockets - 1 ELSE sockets
      /\ session[r].pc # "idle" /\ claims' = claims /\ required' = required
  BY <1>1 DEF CloseSocket, world
<1>4. session[r].pc \in {"idle", "verifying", "ready", "running"}
  BY DEF GatewayInv, SessionsFit, SessionsShaped, Session
<1>5. \/ sockets' = sockets /\ (r \in Open <=> r \in WebSockets /\ result.pc \in {"ready", "running"})
      \/ sockets' = sockets - 1 /\ r \in Open /\ result.pc \notin {"ready", "running"}
  BY <1>2, <1>3, <1>4 DEF Counted, Open
<1>6. /\ LoadersTyped' /\ loaded'[r] = NothingLoaded
      /\ \A q \in Connections : q # r => loaded'[q] = loaded[q]
  <2>1. PICK mine : mine = NothingLoaded
    OBVIOUS
  <2>2. loaded \in [Connections -> [Ids \cup {User} -> Values]]
    BY DEF GatewayInv, SessionsFit, LoadersTyped
  <2>3. mine \in [Ids \cup {User} -> Values] /\ loaded' = [loaded EXCEPT ![r] = mine]
    BY <1>3, <2>1, FreshLoaders
  <2>4. /\ loaded' \in [Connections -> [Ids \cup {User} -> Values]] /\ loaded'[r] = mine
        /\ \A q \in Connections : q # r => loaded'[q] = loaded[q]
    BY <2>2, <2>3
  <2> QED
    BY <2>1, <2>4 DEF LoadersTyped, Connections, Ids, User, Values
<1>7. session'[r] = result => SessionFits(r)'
  BY <1>2, <1>6, AtRest
<1>8. Grown
  BY <1>3 DEF Grown
<1> QED
  BY <1>2, <1>3, <1>5, <1>6, <1>7, <1>8, SessionMoves

LEMMA BeginFits ==
  ASSUME GatewayInv, NEW r \in Connections, NEW op \in Operations, Begin(r, op)
  PROVE  SessionsFit'
<1>1. PICK first : first = [place |-> Root(op), id |-> None]
  OBVIOUS
<1>2. PICK fault \in BOOLEAN : fault = (r \in WebSockets /\ HasErrors(r))
  OBVIOUS
<1>3. PICK result : result = [session[r] EXCEPT !.pc = "running", !.op = op, !.pending = {first},
                                                !.lost = {}, !.fault = fault]
  OBVIOUS
<1>4. /\ session[r].pc = "ready" \/ (Answered(r) /\ r \in WebSockets)
      /\ session' = [session EXCEPT ![r] = result]
      /\ sockets' = sockets /\ loaded' = loaded /\ claims' = claims /\ required' = required
  <2>1. PICK tasks, places : session \in [Connections -> Session(tasks, places)]
    BY DEF GatewayInv, SessionsFit, SessionsShaped
  <2> QED
    BY <1>1, <1>2, <1>3, <2>1 DEF Begin, world
<1>5. /\ \E tasks, places : result \in Session(tasks, places)
      /\ result.pc = "running" /\ result.op = op /\ result.pending = {first} /\ result.lost = {}
  <2>1. PICK tasks, places : session[r] \in Session(tasks, places)
    BY DEF GatewayInv, SessionsFit, SessionsShaped
  <2>2. /\ result \in Session(tasks \cup {first}, places)
        /\ result.pc = "running" /\ result.op = op /\ result.pending = {first} /\ result.lost = {}
    BY <1>3, <2>1 DEF Session
  <2> QED
    BY <2>2
<1>6. result.fault = fault
  <2>1. PICK tasks, places : session[r] \in Session(tasks, places)
    BY DEF GatewayInv, SessionsFit, SessionsShaped
  <2> QED
    BY <1>3, <2>1 DEF Session
<1>7. sockets' = sockets /\ (r \in Open <=> r \in WebSockets /\ result.pc \in {"ready", "running"})
  BY <1>4, <1>5 DEF Answered, Open
<1>8. ASSUME session'[r] = result PROVE SessionFits(r)'
  <2>1. OperationFits(r)'
    BY <1>1, <1>5, <1>8 DEF OperationFits, TaskFits
  <2>2. HasErrors(r) => result.fault /\ r \notin HttpRequests
    BY <1>2, <1>4, <1>6, Resting, SocketsAreSockets DEF Answered
  <2>3. LoadersFit(r)'
    BY <1>4, <1>5, <1>8, <2>2, ValuesHeld DEF LoadersFit, HasErrors
  <2> QED
    BY <2>1, <2>3 DEF SessionFits
<1>9. Grown
  BY <1>4 DEF Grown
<1> QED
  BY <1>4, <1>5, <1>7, <1>8, <1>9, LoadersStay, SessionMoves

LEMMA MutationsFit ==
  ASSUME GatewayInv, NEW r \in Connections, NEW task \in session[r].pending, NEW unheard \in BOOLEAN,
         NEW id, CreateSkill(r, task, id, unheard) \/ AddUserSkill(r, task, id, unheard)
  PROVE  SessionsFit'
<1>1. /\ session[r].pc = "running" /\ Last(task.place).name \in {"createSkill", "addUserSkill"}
      /\ Writes(r, task, unheard)
  BY DEF CreateSkill, AddUserSkill, Pending
<1>2. Grown
  BY DEF CreateSkill, AddUserSkill, Grown
<1> QED
  BY <1>1, <1>2, LeafFits

LEMMA ReadsFit ==
  ASSUME GatewayInv, NEW r \in Connections, NEW task, NEW field,
         PassThrough(r, task, field) \/ Skills(r, task)
  PROVE  SessionsFit'
<1>1. session[r].pc = "running" /\ Resolved(r, Done(r, task), loaded[r])
  BY DEF PassThrough, Skills, Pending
<1>2. Grown
  BY DEF PassThrough, Skills, world, Grown
<1> QED
  BY <1>1, <1>2, DoneFits

LEMMA ResolveFits ==
  ASSUME GatewayInv, NEW r \in Connections, NEW task \in session[r].pending, Resolve(r, task)
  PROVE  SessionsFit'
<1>1. CASE Refuse(r, task)
  BY <1>1, RefuseFits
<1>2. CASE CallFails(r, task)
  <2>1. session[r].pc = "running" /\ Resolved(r, Fails(r, task, TRUE), loaded[r])
    BY <1>2 DEF CallFails
  <2>2. Grown
    BY <1>2 DEF CallFails, world, Grown
  <2> QED
    BY <2>1, <2>2, CallFailsFits
<1>3. ASSUME NEW field \in OneCall, PassThrough(r, task, field) PROVE SessionsFit'
  BY <1>3, ReadsFit
<1>4. CASE Skills(r, task)
  BY <1>4, ReadsFit
<1>5. CASE ProfileSkills(r, task)
  BY <1>5, ProfileSkillsFits
<1>6. ASSUME NEW field \in {"jobs", "job"}, Jobs(r, task, field) PROVE SessionsFit'
  BY <1>6, JobsFits
<1>7. ASSUME NEW field \in {"myProfile", "updateProfile"}, MyProfile(r, task, field) PROVE SessionsFit'
  BY <1>7, MyProfileFits
<1>8. ASSUME NEW unheard \in BOOLEAN, NEW id \in Taxonomy, CreateSkill(r, task, id, unheard) PROVE SessionsFit'
  BY <1>8, MutationsFit
<1>9. ASSUME NEW unheard \in BOOLEAN, NEW ids \in SUBSET Ids, CreateJob(r, task, ids, unheard) PROVE SessionsFit'
  BY <1>9, CreateJobFits
<1>10. ASSUME NEW unheard \in BOOLEAN, NEW id \in Ids, AddUserSkill(r, task, id, unheard) PROVE SessionsFit'
  BY <1>10, MutationsFit
<1>11. ASSUME NEW served \in BOOLEAN, RequiredSkills(r, task, served) PROVE SessionsFit'
  BY <1>11, RequiredSkillsFits
<1>12. ASSUME NEW served \in BOOLEAN, UserSkillSkill(r, task, served) PROVE SessionsFit'
  BY <1>12, UserSkillSkillFits
<1>13. ASSUME NEW served \in BOOLEAN, NEW found \in BOOLEAN, Matches(r, task, found, served) PROVE SessionsFit'
  BY <1>13, MatchesFits
<1> QED
  BY <1>1, <1>2, <1>3, <1>4, <1>5, <1>6, <1>7, <1>8, <1>9, <1>10, <1>11, <1>12, <1>13 DEF Resolve

\* No id is known before it is there, and none is forgotten.
LEMMA WorldStaysKnown ==
  ASSUME WorldKnown, GatewayNext
  PROVE  WorldKnown'
<1>1. CASE UNCHANGED world
  BY <1>1 DEF world, WorldKnown, Known
<1>2. ASSUME NEW r, NEW task, NEW id, NEW unheard, CreateSkill(r, task, id, unheard) PROVE WorldKnown'
  BY <1>2 DEF CreateSkill, WorldKnown, Known
<1>3. ASSUME NEW r, NEW task, NEW ids, NEW unheard, CreateJob(r, task, ids, unheard) PROVE WorldKnown'
  BY <1>3 DEF CreateJob, WorldKnown, Known
<1>4. ASSUME NEW r, NEW task, NEW id, NEW unheard, AddUserSkill(r, task, id, unheard) PROVE WorldKnown'
  BY <1>4 DEF AddUserSkill, WorldKnown, Known
<1>5. ASSUME NEW r, NEW task, Resolve(r, task) PROVE WorldKnown'
  <2>1. \/ UNCHANGED world
        \/ \E unheard \in BOOLEAN :
             \/ \E id \in Taxonomy : CreateSkill(r, task, id, unheard)
             \/ \E ids \in SUBSET Ids : CreateJob(r, task, ids, unheard)
             \/ \E id \in Ids : AddUserSkill(r, task, id, unheard)
    BY <1>5 DEF Resolve, Refuse, CallFails, PassThrough, Skills, ProfileSkills, Jobs, MyProfile,
                RequiredSkills, UserSkillSkill, Matches, LoadField
  <2> QED
    BY <1>1, <1>2, <1>3, <1>4, <2>1
<1>6. UNCHANGED world \/ \E r \in Connections : \E task \in session[r].pending : Resolve(r, task)
  BY DEF GatewayNext, ArriveAnonymous, ArriveWithToken, Enter, Verified, Begin, CloseSocket
<1> QED
  BY <1>1, <1>5, <1>6

--------------------------------------------------------------------------------
(* Theorems *)

LEMMA GatewayInvInit == GatewayInit => GatewayInv
<1> SUFFICES ASSUME GatewayInit PROVE GatewayInv
  OBVIOUS
<1>1. PICK fresh, nothing : fresh = NoRequest /\ nothing = NothingLoaded
  OBVIOUS
<1>2. /\ skills = {} /\ claims = {} /\ required = None /\ sockets = 0
      /\ session = [r \in Connections |-> fresh] /\ loaded = [r \in Connections |-> nothing]
  BY <1>1 DEF GatewayInit
<1>3. /\ fresh \in Session({}, {}) /\ fresh.pc = "idle"
      /\ nothing \in [Ids \cup {User} -> Values] /\ \A id \in DOMAIN nothing : nothing[id] = "unasked"
  BY <1>1, FreshLoaders DEF NoRequest, Session, Roles
<1>4. WorldKnown
  BY <1>2 DEF WorldKnown
<1>5. SessionsShaped
  <2>1. session \in [Connections -> Session({}, {})]
    BY <1>2, <1>3
  <2> QED
    BY <2>1 DEF SessionsShaped
<1>6. LoadersTyped
  BY <1>2, <1>3 DEF LoadersTyped
<1>7. GaugeIsExact
  <2>1. {r \in WebSockets : session[r].pc \in {"ready", "running"}} = {}
    BY <1>2, <1>3 DEF Connections
  <2> QED
    BY <1>2, <2>1, FS_EmptySet DEF GaugeIsExact
<1>8. ASSUME NEW r \in Connections PROVE SessionFits(r)
  BY <1>2, <1>3 DEF SessionFits, LoadersFit, OperationFits, HasErrors
<1> QED
  BY <1>4, <1>5, <1>6, <1>7, <1>8 DEF GatewayInv, SessionsFit

LEMMA GatewayInvNext == GatewayInv /\ [GatewayNext]_gatewayVars => GatewayInv'
<1> SUFFICES ASSUME GatewayInv, [GatewayNext]_gatewayVars PROVE GatewayInv'
  OBVIOUS
<1>1. CASE UNCHANGED gatewayVars
  <2>1. WorldKnown'
    BY <1>1 DEF gatewayVars, GatewayInv, WorldKnown, Known
  <2>2. /\ session' = session /\ loaded' = loaded /\ sockets' = sockets
        /\ Grown
    BY <1>1 DEF gatewayVars, Grown
  <2>3. \A r \in Connections : SessionFits(r)'
    BY <2>2, OthersFit DEF GatewayInv, SessionsFit
  <2>4. SessionsShaped'
    BY <2>2 DEF GatewayInv, SessionsFit, SessionsShaped, Session, Connections, Roles
  <2>5. GaugeIsExact' /\ LoadersTyped'
    BY <2>2, LoadersStay DEF GatewayInv, SessionsFit, GaugeIsExact
  <2> QED
    BY <2>1, <2>3, <2>4, <2>5 DEF GatewayInv, SessionsFit, Connections
<1>2. CASE GatewayNext
  <2>1. WorldKnown'
    BY <1>2, WorldStaysKnown DEF GatewayInv
  <2>2. PICK r \in Connections :
          \/ r \in HttpRequests /\ ArriveAnonymous(r)
          \/ \E role \in {"user", "admin"} : ArriveWithToken(r, role)
          \/ \E accepted \in BOOLEAN : Verified(r, accepted)
          \/ \E op \in Operations : Begin(r, op)
          \/ r \in WebSockets /\ CloseSocket(r)
          \/ \E task \in session[r].pending : Resolve(r, task)
    BY <1>2 DEF GatewayNext
  <2>3. ASSUME r \in HttpRequests /\ ArriveAnonymous(r) PROVE SessionsFit'
    BY <2>3, ArriveFits
  <2>4. ASSUME \E role \in {"user", "admin"} : ArriveWithToken(r, role) PROVE SessionsFit'
    BY <2>4, ArriveFits
  <2>5. ASSUME \E accepted \in BOOLEAN : Verified(r, accepted) PROVE SessionsFit'
    BY <2>5, VerifiedFits
  <2>6. ASSUME \E op \in Operations : Begin(r, op) PROVE SessionsFit'
    BY <2>6, BeginFits
  <2>7. ASSUME r \in WebSockets /\ CloseSocket(r) PROVE SessionsFit'
    BY <2>7, CloseFits
  <2>8. ASSUME \E task \in session[r].pending : Resolve(r, task) PROVE SessionsFit'
    BY <2>8, ResolveFits
  <2>9. SessionsFit'
    BY <2>2, <2>3, <2>4, <2>5, <2>6, <2>7, <2>8
  <2> QED
    BY <2>1, <2>9 DEF GatewayInv
<1> QED
  BY <1>1, <1>2

LEMMA GatewayReached == GatewaySpec => []GatewayInv
BY GatewayInvInit, GatewayInvNext, PTL DEF GatewaySpec

\* The gauge counts the connections let in, however many of them break while
\* their token is verified or after.
THEOREM GaugeExact == GatewaySpec => []GaugeIsExact
<1>1. GatewayInv => GaugeIsExact
  BY DEF GatewayInv, SessionsFit
<1> QED
  BY <1>1, GatewayReached, PTL

\* What the gateway's variables hold.
THEOREM GatewayTyped == GatewaySpec => []GatewayTypeOK
<1>1. GatewayInv => GatewayTypeOK
  <2> SUFFICES ASSUME GatewayInv PROVE GatewayTypeOK
    OBVIOUS
  <2>1. skills \subseteq Taxonomy /\ claims \subseteq Ids /\ required \in (SUBSET Ids) \cup {None}
    BY DEF GatewayInv, WorldKnown, Known, Ids
  <2>2. loaded \in [Connections -> [Ids \cup {User} -> {"unasked", "present", "absent", "error"}]]
    BY DEF GatewayInv, SessionsFit, LoadersTyped, Values
  <2>3. sockets = Cardinality(Open)
    BY DEF GatewayInv, SessionsFit, GaugeIsExact, Open
  <2>4. sockets \in 0 .. Cardinality(WebSockets)
    BY <2>3, OpenCounted
  <2> QED
    BY <2>1, <2>2, <2>4 DEF GatewayTypeOK
<1> QED
  BY <1>1, GatewayReached, PTL

\* Nothing is missing from an answer but for a refusal, a failed call of the same
\* operation or socket, or a claimed skill that does not exist.
THEOREM AnswersExplained == GatewaySpec => []AnswersLoseForACause
<1>1. GatewayInv => AnswersLoseForACause
  <2> SUFFICES ASSUME GatewayInv, NEW r \in Connections, Answered(r), session[r].lost # {}
               PROVE  \/ ~Permitted(r, session[r].op[2])
                      \/ session[r].fault
                      \/ session[r].op[2] \in {"myProfile", "updateProfile"} /\ claims \ skills # {}
    BY DEF AnswersLoseForACause
  <2>1. HasCause(r)
    BY ValuesHeld DEF Answered
  <2>2. OtherIds \cap skills = {}
    BY IdsAreDistinct DEF GatewayInv, WorldKnown
  <2> QED
    BY <2>1, <2>2 DEF HasCause, ProfileFields
<1> QED
  BY <1>1, GatewayReached, PTL
================================================================================
