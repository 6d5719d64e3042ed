------------------------- MODULE RateLimiter_proofs -------------------------
(***************************************************************************)
(* The rate limiter, for any number of requests, addresses and shards and  *)
(* any rate, burst and lifetime of entries that lets a bucket fill before  *)
(* it is dropped: entries are counted, an address has one limiter, and     *)
(* together they are a bucket per address.                                 *)
(***************************************************************************)
EXTENDS RateLimiter, FiniteSetTheorems, TLAPS

Types ==
  /\ limiters \in [IP -> Limiter \cup {NoLimiter}]
  /\ idle \in [IP -> Nat]
  /\ tokens \in [Limiter -> 0 .. Burst]
  /\ totalEntries \in Int /\ removed \in Nat /\ sweepAge \in Nat
  /\ sweeping \in SUBSET Shard
  /\ pc \in [Request -> {"new", "missing", "holding", "answered"}]
  /\ ip \in [Request -> IP]
  /\ held \in [Request -> Limiter \cup {NoLimiter}]
  /\ waited \in [Request -> 0 .. Dwell]
  /\ answer \in [Request -> {"none", "allowed", "limited"}]

(* A limiter belongs to one address.                                       *)
Distinct == \A a, b \in IP : limiters[a] # NoLimiter /\ limiters[a] = limiters[b] => a = b

(* A request that holds a limiter has renewed its entry, which is as old   *)
(* as the request's wait at most, but for the lateness of the clock.       *)
HeldCurrent ==
  \A r \in Request :
    /\ pc[r] = "holding" <=> held[r] # NoLimiter
    /\ pc[r] = "answered" <=> answer[r] # "none"
    /\ held[r] # NoLimiter => /\ held[r] = limiters[ip[r]]
                              /\ idle[ip[r]] <= Dwell + waited[r]

(* The bucket of an entry that was not used for long has been filled in    *)
(* the meantime: nothing was taken from it after its first 2 * Dwell ticks *)
(* without use.                                                            *)
Filled ==
  \A a \in IP :
    limiters[a] # NoLimiter =>
      \/ tokens[limiters[a]] = Burst
      \/ tokens[limiters[a]] >= Rate * (idle[a] - 2 * Dwell)

(* The constants are numbers.                                              *)
LEMMA ArithFacts ==
  /\ Rate \in Nat /\ Burst \in Nat \ {0} /\ TTL \in Nat /\ Dwell \in Nat
  /\ 2 * Dwell \in Nat /\ 2 * Dwell <= TTL /\ Old \in Nat
BY TimeAssumption, RefillAssumption DEF Old

(* The entries of the map can be counted.                                  *)
LEMMA EntriesFinite == IsFiniteSet(Entries) /\ Cardinality(Entries) \in Nat
BY FiniteAssumption, FS_Subset, FS_CardinalityType DEF Entries

-----------------------------------------------------------------------------
(* The entries' and the requests' limiters are never all the objects.      *)
Referred == {limiters[a] : a \in IP} \cup {held[q] : q \in Request}

(* The entries in the map and in requests' hands: at most one for each     *)
(* address and one for each request.                                       *)
LEMMA ReferredFew ==
  ASSUME Types
  PROVE  /\ IsFiniteSet(Referred)
         /\ Cardinality(Referred) <= Cardinality(IP) + Cardinality(Request)
<1> DEFINE L == {limiters[a] : a \in IP}
           H == {held[q] : q \in Request}
<1>1. limiters \in Surjection(IP, L)
  BY DEF Types, Surjection
<1>2. held \in Surjection(Request, H)
  BY DEF Types, Surjection
<1>3. IsFiniteSet(L) /\ Cardinality(L) <= Cardinality(IP)
  BY <1>1, FiniteAssumption, FS_Surjection
<1>4. IsFiniteSet(H) /\ Cardinality(H) <= Cardinality(Request)
  BY <1>2, FiniteAssumption, FS_Surjection
<1> HIDE DEF L, H
<1>5. /\ IsFiniteSet(L \cup H)
      /\ Cardinality(L \cup H) = Cardinality(L) + Cardinality(H) - Cardinality(L \cap H)
  BY <1>3, <1>4, FS_Union
<1>6. IsFiniteSet(L \cap H)
  BY <1>3, FS_Intersection
<1>7. /\ Cardinality(L) \in Nat /\ Cardinality(H) \in Nat /\ Cardinality(L \cap H) \in Nat
      /\ Cardinality(IP) \in Nat /\ Cardinality(Request) \in Nat
  BY <1>3, <1>4, <1>6, FiniteAssumption, FS_CardinalityType
<1>8. Cardinality(L \cup H) <= Cardinality(IP) + Cardinality(Request)
  BY <1>3, <1>4, <1>5, <1>7
<1>9. Referred = L \cup H
  BY DEF Referred, L, H
<1> QED  BY <1>5, <1>8, <1>9

(* So what GetLimiter creates is a new object.                             *)
LEMMA NewLimiter ==
  ASSUME Types, NEW r \in Request, MayCreate(r)
  PROVE  \E l \in Limiter : /\ l = CHOOSE x \in Limiter : Unused(x)
                            /\ Unused(l)
<1>1. NoLimiter \in Referred
  BY DEF Types, MayCreate, Referred
<1>2. /\ IsFiniteSet(Referred \ {NoLimiter})
      /\ Cardinality(Referred \ {NoLimiter}) = Cardinality(Referred) - 1
  BY <1>1, ReferredFew, FS_RemoveElement
<1>3. /\ Cardinality(Referred) \in Nat /\ Cardinality(IP) \in Nat
      /\ Cardinality(Request) \in Nat
  BY ReferredFew, FiniteAssumption, FS_CardinalityType
<1>4. Cardinality(Referred \ {NoLimiter}) < Cardinality(IP) + Cardinality(Request)
  BY <1>2, <1>3, ReferredFew
<1>5. Referred \ {NoLimiter} \in SUBSET Limiter
  BY DEF Types, Referred
<1>6. PICK l \in Limiter : l \notin Referred \ {NoLimiter}
  BY <1>2, <1>4, <1>5, AllocationAssumption
<1>7. Unused(l)
  BY <1>6, LimiterAssumption DEF Referred, Unused
<1> QED  BY <1>6, <1>7

-----------------------------------------------------------------------------
(* A request whose entry is current keeps it from being stale.             *)
LEMMA NotStale ==
  ASSUME Types, HeldCurrent, NEW r \in Request, held[r] # NoLimiter
  PROVE  ~Stale(ip[r]) /\ idle[ip[r]] <= 2 * Dwell
<1>1. /\ idle[ip[r]] \in Nat /\ waited[r] \in 0 .. Dwell /\ sweepAge \in Nat
      /\ idle[ip[r]] <= Dwell + waited[r]
  BY DEF Types, HeldCurrent
<1>2. idle[ip[r]] <= 2 * Dwell
  BY <1>1, ArithFacts
<1> QED  BY <1>1, <1>2, ArithFacts DEF Stale

(* What Use does for the request that finds or creates a limiter.          *)
LEMMA UseStep ==
  ASSUME Types, HeldCurrent, NEW r \in Request, NEW l \in Limiter, Use(r, l),
         pc[r] \in {"new", "missing"},
         limiters'[ip[r]] = l,
         \A a \in IP : limiters[a] # NoLimiter => limiters'[a] = limiters[a]
  PROVE  /\ pc' \in [Request -> {"new", "missing", "holding", "answered"}]
         /\ held' \in [Request -> Limiter \cup {NoLimiter}]
         /\ waited' \in [Request -> 0 .. Dwell]
         /\ idle' \in [IP -> Nat]
         /\ HeldCurrent'
<1>1. PICK late \in 0 .. Dwell : idle' = [idle EXCEPT ![ip[r]] = late]
  BY DEF Use
<1>2. /\ held' = [held EXCEPT ![r] = l] /\ waited' = [waited EXCEPT ![r] = 0]
      /\ pc' = [pc EXCEPT ![r] = "holding"] /\ ip' = ip /\ answer' = answer
  BY DEF Use
<1>3. l # NoLimiter
  BY LimiterAssumption
<1>4. HeldCurrent'
  <2> SUFFICES ASSUME NEW q \in Request
               PROVE  /\ pc'[q] = "holding" <=> held'[q] # NoLimiter
                      /\ pc'[q] = "answered" <=> answer'[q] # "none"
                      /\ held'[q] # NoLimiter =>
                           /\ held'[q] = limiters'[ip'[q]]
                           /\ idle'[ip'[q]] <= Dwell + waited'[q]
    BY DEF HeldCurrent
  <2>1. CASE q = r
    BY <1>1, <1>2, <1>3, <2>1, ArithFacts DEF Types, HeldCurrent
  <2>2. CASE q # r
    <3>1. /\ pc'[q] = pc[q] /\ held'[q] = held[q] /\ waited'[q] = waited[q]
          /\ waited[q] \in 0 .. Dwell /\ ip[q] \in IP
      BY <1>2, <2>2 DEF Types
    <3>2. idle'[ip[q]] = idle[ip[q]] \/ idle'[ip[q]] = late
      BY <1>1, <3>1 DEF Types
    <3>3. held[q] # NoLimiter =>
            held[q] = limiters'[ip[q]] /\ idle'[ip[q]] <= Dwell + waited[q]
      BY <3>1, <3>2, ArithFacts, LimiterAssumption DEF HeldCurrent, Types
    <3> QED  BY <1>2, <3>1, <3>3 DEF HeldCurrent
  <2> QED  BY <2>1, <2>2
<1> QED  BY <1>1, <1>2, <1>4, ArithFacts DEF Types

Core == Types /\ Distinct /\ HeldCurrent

(* Types, the owners of limiters and the currency of what requests hold.   *)
LEMMA CoreStep ==
  ASSUME Core, [Next]_vars
  PROVE  Core'
<1> USE DEF Core
<1>1. ASSUME NEW r \in Request, Find(r) PROVE Core'
  <2>1. limiters[ip[r]] \in Limiter
    BY <1>1 DEF Find, Types
  <2>2. HeldCurrent' /\ Types'
    BY <1>1, <2>1, UseStep DEF Find, Use, sweepVars, Types
  <2> QED  BY <1>1, <2>2 DEF Find, Distinct
<1>2. ASSUME NEW r \in Request, Miss(r) PROVE Core'
  BY <1>2 DEF Miss, mapVars, sweepVars, Types, Distinct, HeldCurrent
<1>3. ASSUME NEW r \in Request, Create(r) PROVE Core'
  <2>0. MayCreate(r)
    BY <1>3 DEF Create
  <2>1. PICK l \in Limiter : l = (CHOOSE x \in Limiter : Unused(x)) /\ Unused(l)
    BY <2>0, NewLimiter
  <2>2. /\ limiters' = [limiters EXCEPT ![ip[r]] = l]
        /\ tokens' = [tokens EXCEPT ![l] = Burst]
        /\ Use(r, l) /\ totalEntries' = totalEntries + 1
        /\ limiters[ip[r]] = NoLimiter /\ pc[r] = "missing" /\ ip[r] \in IP
    BY <1>3, <2>1 DEF Create, MayCreate, Types
  <2>3. HeldCurrent' /\ Types'
    <3>1. limiters'[ip[r]] = l
      BY <2>2 DEF Types
    <3>2. \A a \in IP : limiters[a] # NoLimiter => limiters'[a] = limiters[a]
      BY <2>2 DEF Types
    <3>3. /\ pc' \in [Request -> {"new", "missing", "holding", "answered"}]
          /\ held' \in [Request -> Limiter \cup {NoLimiter}]
          /\ waited' \in [Request -> 0 .. Dwell]
          /\ idle' \in [IP -> Nat]
          /\ HeldCurrent'
      BY <2>2, <3>1, <3>2, UseStep
    <3>4. /\ limiters' \in [IP -> Limiter \cup {NoLimiter}]
          /\ tokens' \in [Limiter -> 0 .. Burst]
          /\ totalEntries' \in Int
      BY <2>2, ArithFacts DEF Types
    <3> QED  BY <2>2, <3>3, <3>4 DEF Use, sweepVars, Types
  <2>4. Distinct'
    BY <2>1, <2>2 DEF Distinct, Unused, Types
  <2> QED  BY <2>3, <2>4
<1>4. ASSUME NEW r \in Request, Allow(r) PROVE Core'
  <2>1. /\ pc[r] = "holding" /\ held[r] \in Limiter /\ tokens[held[r]] \in 0 .. Burst
    BY <1>4 DEF Allow, Types, HeldCurrent
  <2>2. PICK n \in 0 .. Burst : tokens' = [tokens EXCEPT ![held[r]] = n]
    <3>1. CASE tokens[held[r]] > 0
      <4>1. tokens' = [tokens EXCEPT ![held[r]] = tokens[held[r]] - 1]
        BY <1>4, <3>1 DEF Allow
      <4>2. tokens[held[r]] - 1 \in 0 .. Burst
        BY <2>1, <3>1, ArithFacts
      <4> QED  BY <4>1, <4>2
    <3>2. CASE ~(tokens[held[r]] > 0)
      <4>1. tokens' = [tokens EXCEPT ![held[r]] = tokens[held[r]]]
        BY <1>4, <3>2 DEF Allow
      <4> QED  BY <2>1, <4>1
    <3> QED  BY <3>1, <3>2
  <2>3. PICK t \in {"allowed", "limited"} : answer' = [answer EXCEPT ![r] = t]
    BY <1>4 DEF Allow
  <2>4. /\ pc' = [pc EXCEPT ![r] = "answered"] /\ held' = [held EXCEPT ![r] = NoLimiter]
        /\ waited' = [waited EXCEPT ![r] = 0]
        /\ UNCHANGED <<limiters, idle, totalEntries, ip, sweepVars, stopped>>
    BY <1>4 DEF Allow
  <2>5. Types'
    <3>1. tokens' \in [Limiter -> 0 .. Burst]
      BY <2>2 DEF Types
    <3>2. answer' \in [Request -> {"none", "allowed", "limited"}]
      BY <2>3 DEF Types
    <3>3. waited' \in [Request -> 0 .. Dwell]
      BY <2>4, ArithFacts DEF Types
    <3>4. /\ pc' \in [Request -> {"new", "missing", "holding", "answered"}]
          /\ held' \in [Request -> Limiter \cup {NoLimiter}]
      BY <2>4 DEF Types
    <3> QED  BY <2>4, <3>1, <3>2, <3>3, <3>4 DEF Types, sweepVars
  <2>6. HeldCurrent'
    <3>1. /\ pc'[r] = "answered" /\ held'[r] = NoLimiter /\ answer'[r] # "none"
      BY <2>3, <2>4 DEF Types
    <3>2. ASSUME NEW q \in Request, q # r
          PROVE  /\ pc'[q] = pc[q] /\ held'[q] = held[q] /\ waited'[q] = waited[q]
                 /\ answer'[q] = answer[q]
      BY <2>3, <2>4, <3>2 DEF Types
    <3> QED  BY <2>4, <3>1, <3>2 DEF HeldCurrent
  <2> QED  BY <2>4, <2>5, <2>6 DEF Distinct
<1>5. ASSUME NEW r \in Request, Again(r) PROVE Core'
  <2>1. PICK a \in IP : ip' = [ip EXCEPT ![r] = a]
    BY <1>5 DEF Again
  <2>2. /\ pc[r] = "answered" /\ pc' = [pc EXCEPT ![r] = "new"]
        /\ answer' = [answer EXCEPT ![r] = "none"]
        /\ UNCHANGED <<mapVars, totalEntries, held, waited, sweepVars, stopped>>
    BY <1>5 DEF Again
  <2>3. held[r] = NoLimiter
    BY <2>2 DEF HeldCurrent
  <2> QED
    BY <2>1, <2>2, <2>3 DEF mapVars, sweepVars, Types, Distinct, HeldCurrent
<1>6. CASE StartCleanup \/ EndCleanup \/ Stop
  <2>1. /\ UNCHANGED <<mapVars, reqVars>> /\ removed' \in Nat /\ totalEntries' \in Int
        /\ sweepAge' \in Nat /\ sweeping' \in SUBSET Shard
    BY <1>6 DEF StartCleanup, EndCleanup, Stop, sweepVars, Types
  <2> QED  BY <2>1 DEF mapVars, reqVars, Types, Distinct, HeldCurrent
<1>7. ASSUME NEW s \in Shard, SweepShard(s) PROVE Core'
  <2> DEFINE gone == {a \in IP : ShardOf[a] = s /\ Stale(a)}
  <2>1. /\ limiters' = [a \in IP |-> IF a \in gone THEN NoLimiter ELSE limiters[a]]
        /\ removed' = removed + Cardinality(gone)
        /\ sweeping' = sweeping \ {s}
        /\ UNCHANGED <<idle, tokens, totalEntries, reqVars, sweepAge, stopped>>
    BY <1>7 DEF SweepShard
  <2>2. Cardinality(gone) \in Nat
    BY FiniteAssumption, FS_Subset, FS_CardinalityType
  <2>3. \A r \in Request : held[r] # NoLimiter => ip[r] \notin gone
    BY NotStale
  <2> HIDE DEF gone
  <2>4. Types'
    BY <2>1, <2>2 DEF Types, reqVars
  <2>5. HeldCurrent'
    BY <2>1, <2>3 DEF HeldCurrent, reqVars, Types
  <2> QED  BY <2>1, <2>4, <2>5 DEF Distinct
<1>8. CASE Tick
  <2>1. /\ idle' = [a \in IP |-> IF limiters[a] = NoLimiter THEN 0 ELSE Older(idle[a])]
        /\ tokens' = [l \in Limiter |-> Refilled(tokens[l])]
        /\ waited' = [r \in Request |-> IF pc[r] = "holding" THEN waited[r] + 1 ELSE 0]
        /\ sweepAge' \in Nat
        /\ UNCHANGED <<limiters, totalEntries, pc, ip, held, answer, sweeping, removed>>
        /\ \A r \in Request : pc[r] = "holding" => waited[r] < Dwell
    BY <1>8 DEF Tick, Types
  <2>2. \A n \in 0 .. Burst : Refilled(n) \in 0 .. Burst
    BY ArithFacts DEF Refilled
  <2>3. \A n \in Nat : Older(n) \in Nat /\ Older(n) <= n + 1
    BY DEF Older
  <2>4. \A r \in Request :
          pc[r] = "holding" => waited[r] + 1 \in 0 .. Dwell /\ waited'[r] = waited[r] + 1
    BY <2>1, ArithFacts DEF Types
  <2>5. Types'
    <3>1. waited' \in [Request -> 0 .. Dwell]
      BY <2>1, <2>4, ArithFacts
    <3>2. idle' \in [IP -> Nat] /\ tokens' \in [Limiter -> 0 .. Burst]
      BY <2>1, <2>2, <2>3 DEF Types
    <3> QED  BY <2>1, <3>1, <3>2 DEF Types
  <2>6. HeldCurrent'
    <3> SUFFICES ASSUME NEW r \in Request, held[r] # NoLimiter
                 PROVE  idle'[ip[r]] <= Dwell + waited'[r]
      BY <2>1 DEF HeldCurrent
    <3>1. /\ pc[r] = "holding" /\ idle[ip[r]] <= Dwell + waited[r]
          /\ idle[ip[r]] \in Nat /\ waited[r] \in Nat /\ ip[r] \in IP
      BY ArithFacts DEF HeldCurrent, Types
    <3>2. idle'[ip[r]] <= idle[ip[r]] + 1 /\ idle'[ip[r]] \in Nat
      BY <2>1, <2>3, <3>1
    <3> QED  BY <2>4, <3>1, <3>2, ArithFacts
  <2> QED  BY <2>1, <2>5, <2>6 DEF Distinct
<1>9. CASE UNCHANGED vars
  BY <1>9 DEF vars, mapVars, reqVars, sweepVars, Types, Distinct, HeldCurrent
<1> QED
  BY <1>1, <1>2, <1>3, <1>4, <1>5, <1>6, <1>7, <1>8, <1>9
  DEF Next, GetLimiter, Cleanup

(* The initial state satisfies the invariant.                              *)
LEMMA CoreInit == Init => Core
BY ArithFacts DEF Init, Core, Types, Distinct, HeldCurrent

(* An address has one limiter: no second bucket lets more of its requests  *)
(* through, across racing creations and cleanups.                          *)
THEOREM LimiterUnique == Spec => []OneLimiter
<1>1. Core => OneLimiter
  BY DEF Core, HeldCurrent, OneLimiter
<1> QED  BY <1>1, CoreInit, CoreStep, PTL DEF Spec

(* So does every reachable state.                                          *)
LEMMA CoreHolds == Spec => []Core
BY CoreInit, CoreStep, PTL DEF Spec

-----------------------------------------------------------------------------
(* Creation and cleanup change the number of entries as they change the    *)
(* map.                                                                    *)
LEMMA EntriesStep ==
  ASSUME Core, EntriesCounted, [Next]_vars
  PROVE  EntriesCounted'
<1>0. /\ limiters \in [IP -> Limiter \cup {NoLimiter}] /\ ip \in [Request -> IP]
      /\ removed \in Nat /\ totalEntries \in Int
  BY DEF Core, Types
<1>1. ASSUME NEW r \in Request, Create(r) PROVE EntriesCounted'
  <2>0. MayCreate(r) /\ ip[r] \in IP
    BY <1>0, <1>1 DEF Create
  <2>1. PICK l \in Limiter : l = (CHOOSE x \in Limiter : Unused(x)) /\ Unused(l)
    BY <2>0, NewLimiter DEF Core
  <2>2. /\ limiters' = [limiters EXCEPT ![ip[r]] = l]
        /\ totalEntries' = totalEntries + 1 /\ removed' = removed
        /\ limiters[ip[r]] = NoLimiter
    BY <1>1, <2>1 DEF Create, Use, sweepVars, MayCreate
  <2>3. Entries' = Entries \cup {ip[r]} /\ ip[r] \notin Entries
    BY <1>0, <2>0, <2>2, LimiterAssumption DEF Entries
  <2>4. Cardinality(Entries \cup {ip[r]}) = Cardinality(Entries) + 1
    BY <2>3, EntriesFinite, FS_AddElement
  <2> QED  BY <1>0, <2>2, <2>3, <2>4, EntriesFinite DEF EntriesCounted
<1>2. ASSUME NEW s \in Shard, SweepShard(s) PROVE EntriesCounted'
  <2> DEFINE gone == {a \in IP : ShardOf[a] = s /\ Stale(a)}
  <2>1. /\ limiters' = [a \in IP |-> IF a \in gone THEN NoLimiter ELSE limiters[a]]
        /\ removed' = removed + Cardinality(gone) /\ totalEntries' = totalEntries
    BY <1>2 DEF SweepShard
  <2>2. Entries' = Entries \ gone
    BY <1>0, <2>1 DEF Entries
  <2>3. gone \subseteq Entries
    BY DEF Stale, Entries
  <2> HIDE DEF gone
  <2>4. Entries \cap gone = gone /\ IsFiniteSet(gone) /\ Cardinality(gone) \in Nat
    BY <2>3, EntriesFinite, FS_Subset, FS_CardinalityType
  <2>5. Cardinality(Entries \ gone) = Cardinality(Entries) - Cardinality(gone)
    BY <2>4, EntriesFinite, FS_Difference
  <2> QED  BY <1>0, <2>1, <2>2, <2>4, <2>5, EntriesFinite DEF EntriesCounted
<1>3. CASE EndCleanup
  BY <1>0, <1>3, EntriesFinite DEF EndCleanup, mapVars, EntriesCounted, Entries
<1>4. CASE UNCHANGED <<limiters, totalEntries, removed>>
  BY <1>4 DEF EntriesCounted, Entries
<1> QED
  BY <1>1, <1>2, <1>3, <1>4
  DEF Next, GetLimiter, Find, Miss, Use, Allow, Again, Cleanup, StartCleanup, Stop, Tick,
      vars, mapVars, sweepVars

(* The total that is reported is the number of entries, up to those a      *)
(* running cleanup has deleted and not yet subtracted.                     *)
THEOREM TotalAccurate == Spec => []EntriesCounted
<1>1. Init => EntriesCounted
  <2> SUFFICES ASSUME Init PROVE EntriesCounted
    OBVIOUS
  <2>1. Entries = {}
    BY DEF Init, Entries
  <2> QED  BY <2>1, FS_EmptySet DEF Init, EntriesCounted
<1> QED  BY <1>1, EntriesStep, CoreHolds, PTL DEF Spec

-----------------------------------------------------------------------------
(* What the provers need of a rate times a time.                           *)
LEMMA Filling ==
  /\ \A x \in Int : x <= 0 => Rate * x <= 0
  /\ \A x \in Int : Rate * (x + 1) = Rate * x + Rate
  /\ \A x, y \in Int : x <= y => Rate * x <= Rate * y
  /\ \A x \in Int : Rate * x \in Int
BY ArithFacts

(* What is owed to the bucket of an entry of that age.                     *)
LEMMA FilledStep ==
  ASSUME Core, Filled, [Next]_vars
  PROVE  Filled'
<1>0. Types /\ Distinct /\ HeldCurrent /\ Core'
  BY CoreStep DEF Core
<1>1. ASSUME NEW a \in IP, limiters'[a] # NoLimiter, idle'[a] <= 2 * Dwell
      PROVE  tokens'[limiters'[a]] >= Rate * (idle'[a] - 2 * Dwell)
  <2>1. tokens'[limiters'[a]] \in 0 .. Burst /\ idle'[a] \in Nat
    BY <1>0, <1>1 DEF Core, Types
  <2>2. Rate * (idle'[a] - 2 * Dwell) <= 0
    BY <1>1, <2>1, ArithFacts, Filling
  <2>3. Rate * (idle'[a] - 2 * Dwell) \in Int
    <3>1. idle'[a] - 2 * Dwell \in Int
      BY <2>1, ArithFacts
    <3> QED  BY <3>1, Filling
  <2> QED  BY <2>1, <2>2, <2>3, ArithFacts
<1>2. ASSUME NEW a \in IP, limiters'[a] = limiters[a], idle'[a] = idle[a],
             tokens'[limiters[a]] = tokens[limiters[a]], limiters[a] # NoLimiter
      PROVE  \/ tokens'[limiters'[a]] = Burst
             \/ tokens'[limiters'[a]] >= Rate * (idle'[a] - 2 * Dwell)
  BY <1>2 DEF Filled
<1>3. ASSUME NEW r \in Request, Find(r) PROVE Filled'
  <2>1. PICK late \in 0 .. Dwell : idle' = [idle EXCEPT ![ip[r]] = late]
    BY <1>3 DEF Find, Use
  <2>2. limiters' = limiters /\ tokens' = tokens
    BY <1>3 DEF Find
  <2>3. ASSUME NEW a \in IP PROVE idle'[a] = idle[a] \/ idle'[a] <= 2 * Dwell
    BY <1>0, <2>1, ArithFacts DEF Types
  <2> QED  BY <1>1, <1>2, <2>2, <2>3 DEF Filled
<1>4. ASSUME NEW r \in Request, Create(r) PROVE Filled'
  <2>0. MayCreate(r) /\ ip[r] \in IP
    BY <1>0, <1>4 DEF Create, Types
  <2>1. PICK l \in Limiter : l = (CHOOSE x \in Limiter : Unused(x)) /\ Unused(l)
    BY <1>0, <2>0, NewLimiter
  <2>2. /\ limiters' = [limiters EXCEPT ![ip[r]] = l]
        /\ tokens' = [tokens EXCEPT ![l] = Burst]
        /\ Use(r, l)
    BY <1>4, <2>1 DEF Create
  <2>3. PICK late \in 0 .. Dwell : idle' = [idle EXCEPT ![ip[r]] = late]
    BY <2>2 DEF Use
  <2>4. tokens'[limiters'[ip[r]]] = Burst
    BY <1>0, <2>0, <2>2 DEF Types
  <2>5. ASSUME NEW a \in IP, a # ip[r], limiters[a] # NoLimiter
        PROVE  /\ limiters'[a] = limiters[a] /\ idle'[a] = idle[a]
               /\ tokens'[limiters[a]] = tokens[limiters[a]]
    BY <1>0, <2>1, <2>2, <2>3, <2>5 DEF Types, Unused
  <2>6. ASSUME NEW a \in IP, a # ip[r] PROVE limiters'[a] = limiters[a]
    BY <1>0, <2>2, <2>6 DEF Types
  <2> QED  BY <1>2, <2>4, <2>5, <2>6 DEF Filled
<1>5. ASSUME NEW r \in Request, Allow(r) PROVE Filled'
  <2>1. /\ held[r] = limiters[ip[r]] /\ held[r] # NoLimiter /\ ip[r] \in IP
        /\ idle[ip[r]] <= 2 * Dwell
    BY <1>0, <1>5, NotStale DEF Allow, HeldCurrent, Types
  <2>2. /\ limiters' = limiters /\ idle' = idle
        /\ \A l \in Limiter : l # held[r] => tokens'[l] = tokens[l]
    BY <1>0, <1>5 DEF Allow, Types
  <2>3. ASSUME NEW a \in IP, limiters[a] # NoLimiter, a # ip[r]
        PROVE  tokens'[limiters[a]] = tokens[limiters[a]]
    BY <1>0, <2>1, <2>2, <2>3 DEF Distinct, Types
  <2> QED  BY <1>1, <1>2, <2>1, <2>2, <2>3 DEF Filled
<1>6. ASSUME NEW s \in Shard, SweepShard(s) PROVE Filled'
  <2>1. /\ idle' = idle /\ tokens' = tokens
        /\ \A a \in IP : limiters'[a] # NoLimiter => limiters'[a] = limiters[a]
    BY <1>6 DEF SweepShard
  <2> QED  BY <2>1 DEF Filled
<1>7. CASE Tick
  <2> SUFFICES ASSUME NEW a \in IP, limiters[a] # NoLimiter
               PROVE  \/ tokens'[limiters[a]] = Burst
                      \/ tokens'[limiters[a]] >= Rate * (idle'[a] - 2 * Dwell)
    BY <1>7 DEF Tick, Filled
  <2> DEFINE n == tokens[limiters[a]]
             x == idle[a] - 2 * Dwell
  <2>1. /\ n \in 0 .. Burst /\ idle[a] \in Nat /\ x \in Int
        /\ tokens'[limiters[a]] = Refilled(n)
        /\ idle'[a] = Older(idle[a])
    BY <1>0, <1>7, ArithFacts DEF Types, Tick
  <2>2. n = Burst \/ n >= Rate * x
    BY DEF Filled
  <2>3. idle'[a] - 2 * Dwell = x \/ idle'[a] - 2 * Dwell = x + 1
    BY <2>1, ArithFacts DEF Older
  <2>4. Rate * (idle'[a] - 2 * Dwell) <= Rate * x + Rate /\ Rate * x \in Int
    BY <2>1, <2>3, Filling, ArithFacts
  <2>5. Rate * (idle'[a] - 2 * Dwell) \in Int
    BY <2>1, <2>3, Filling
  <2> HIDE DEF n, x
  <2>6. Refilled(n) = Burst \/ (n < Burst /\ Refilled(n) = n + Rate)
    BY <2>1, ArithFacts DEF Refilled
  <2> QED  BY <2>1, <2>2, <2>4, <2>5, <2>6, ArithFacts
<1>8. CASE UNCHANGED mapVars
  BY <1>8 DEF mapVars, Filled
<1> QED
  BY <1>3, <1>4, <1>5, <1>6, <1>7, <1>8
  DEF Next, GetLimiter, Miss, Again, Cleanup, StartCleanup, EndCleanup, Stop, vars

(* A bucket that is dropped is full.                                       *)
LEMMA StaleIsFull ==
  ASSUME Types, Filled, NEW a \in IP, Stale(a)
  PROVE  tokens[limiters[a]] = Burst
<1>1. /\ limiters[a] # NoLimiter /\ idle[a] \in Nat /\ tokens[limiters[a]] \in 0 .. Burst
      /\ TTL - 2 * Dwell + 1 \in Int /\ idle[a] - 2 * Dwell \in Int
      /\ TTL - 2 * Dwell + 1 <= idle[a] - 2 * Dwell
  BY ArithFacts DEF Stale, Types
<1>2. Rate * (TTL - 2 * Dwell + 1) <= Rate * (idle[a] - 2 * Dwell)
  BY <1>1, Filling
<1>3. /\ Rate * (TTL - 2 * Dwell + 1) \in Int /\ Rate * (idle[a] - 2 * Dwell) \in Int
  BY <1>1, Filling
<1>4. Burst <= Rate * (TTL - 2 * Dwell + 1)
  BY RefillAssumption, <1>3, ArithFacts
<1>5. \/ tokens[limiters[a]] = Burst
      \/ tokens[limiters[a]] >= Rate * (idle[a] - 2 * Dwell)
  BY <1>1 DEF Filled
<1> HIDE DEF Stale
<1> QED  BY <1>1, <1>2, <1>3, <1>4, <1>5, ArithFacts

-----------------------------------------------------------------------------
(* The refinement: the bucket of an address is the one of its entry, and a *)
(* full one when it has none.                                              *)
BucketOf == [a \in IP |-> IF limiters[a] = NoLimiter THEN Burst ELSE tokens[limiters[a]]]

(* Allow takes a token of the address's bucket, or is refused by it.       *)
LEMMA AllowIsTaken ==
  ASSUME Core, NEW r \in Request, Allow(r)
  PROVE  Bucket!Take(r) \/ Bucket!Refuse(r)
<1>0. Types /\ Distinct /\ HeldCurrent
  BY DEF Core
<1>1. /\ pc[r] = "holding" /\ answer[r] = "none" /\ ip[r] \in IP
      /\ held[r] \in Limiter /\ held[r] = limiters[ip[r]] /\ limiters[ip[r]] # NoLimiter
  BY <1>0 DEF Allow, HeldCurrent, Types
<1>2. BucketOf[ip[r]] = tokens[held[r]] /\ tokens[held[r]] \in 0 .. Burst
  BY <1>0, <1>1 DEF BucketOf, Types
<1>3. ip' = ip /\ limiters' = limiters
  BY DEF Allow
<1>4. CASE tokens[held[r]] > 0
  <2>1. /\ tokens' = [tokens EXCEPT ![held[r]] = tokens[held[r]] - 1]
        /\ answer' = [answer EXCEPT ![r] = "allowed"]
    BY <1>4 DEF Allow
  <2>2. ASSUME NEW a \in IP
        PROVE  BucketOf'[a] = [BucketOf EXCEPT ![ip[r]] = @ - 1][a]
    <3>1. CASE a = ip[r]
      BY <1>0, <1>1, <1>3, <2>1, <3>1 DEF BucketOf, Types
    <3>2. CASE a # ip[r]
      <4>1. limiters[a] # NoLimiter => limiters[a] # held[r] /\ limiters[a] \in Limiter
        BY <1>0, <1>1, <3>2 DEF Distinct, Types
      <4> QED  BY <1>0, <1>3, <2>1, <3>2, <4>1 DEF BucketOf, Types
    <3> QED  BY <3>1, <3>2
  <2>3. BucketOf' = [BucketOf EXCEPT ![ip[r]] = @ - 1]
    BY <2>2 DEF BucketOf
  <2> QED  BY <1>1, <1>2, <1>3, <1>4, <2>1, <2>3 DEF Bucket!Take, BucketOf
<1>5. CASE ~(tokens[held[r]] > 0)
  <2>1. /\ tokens' = [tokens EXCEPT ![held[r]] = tokens[held[r]]]
        /\ answer' = [answer EXCEPT ![r] = "limited"]
    BY <1>5 DEF Allow
  <2>2. tokens' = tokens
    BY <1>0, <2>1 DEF Types
  <2>3. BucketOf' = BucketOf
    BY <1>3, <2>2 DEF BucketOf
  <2>4. BucketOf[ip[r]] = 0
    BY <1>2, <1>5, ArithFacts
  <2> QED  BY <1>1, <1>3, <2>1, <2>3, <2>4 DEF Bucket!Refuse, BucketOf
<1> QED  BY <1>4, <1>5

(* A request that comes again does so in the abstract too.                 *)
LEMMA AgainIsAgain ==
  ASSUME Core, NEW r \in Request, Again(r)
  PROVE  Bucket!Again(r)
<1>1. /\ answer[r] # "none" /\ answer' = [answer EXCEPT ![r] = "none"]
      /\ limiters' = limiters /\ tokens' = tokens
  BY DEF Again, mapVars, Core, HeldCurrent
<1>2. PICK a \in IP : ip' = [ip EXCEPT ![r] = a]
  BY DEF Again
<1>3. BucketOf' = BucketOf
  BY <1>1 DEF BucketOf
<1> QED  BY <1>1, <1>2, <1>3 DEF Bucket!Again, BucketOf

(* The passing of time refills every bucket.                               *)
LEMMA TickIsRefill ==
  ASSUME Core, Tick
  PROVE  Bucket!Refill
<1>1. /\ tokens' = [l \in Limiter |-> Refilled(tokens[l])]
      /\ limiters' = limiters /\ ip' = ip /\ answer' = answer
  BY DEF Tick
<1>2. ASSUME NEW a \in IP
      PROVE  BucketOf'[a] = Bucket!AtMostBurst(BucketOf[a] + Rate)
  <2>1. CASE limiters[a] = NoLimiter
    BY <1>1, <2>1, ArithFacts DEF BucketOf, Bucket!AtMostBurst
  <2>2. CASE limiters[a] # NoLimiter
    <3>1. limiters[a] \in Limiter
      BY <2>2 DEF Core, Types
    <3> QED  BY <1>1, <2>2, <3>1 DEF BucketOf, Bucket!AtMostBurst, Refilled
  <2> QED  BY <2>1, <2>2
<1>3. BucketOf' = [a \in IP |-> Bucket!AtMostBurst(BucketOf[a] + Rate)]
  BY <1>2 DEF BucketOf
<1> QED  BY <1>1, <1>3 DEF Bucket!Refill, BucketOf

(* Creation and cleanup do not show: the bucket that is created is full,   *)
(* and so is the one that is dropped.                                      *)
LEMMA CreateHidden ==
  ASSUME Core, NEW r \in Request, Create(r)
  PROVE  UNCHANGED <<BucketOf, ip, answer>>
<1>0. Types /\ MayCreate(r) /\ ip[r] \in IP
  BY DEF Core, Create, Types
<1>1. PICK l \in Limiter : l = (CHOOSE x \in Limiter : Unused(x)) /\ Unused(l)
  BY <1>0, NewLimiter
<1>2. /\ limiters' = [limiters EXCEPT ![ip[r]] = l]
      /\ tokens' = [tokens EXCEPT ![l] = Burst]
      /\ ip' = ip /\ answer' = answer /\ limiters[ip[r]] = NoLimiter
  BY <1>1 DEF Create, Use, MayCreate
<1>3. ASSUME NEW a \in IP PROVE BucketOf'[a] = BucketOf[a]
  <2>1. CASE a = ip[r]
    <3>1. limiters'[a] = l /\ l # NoLimiter /\ tokens'[l] = Burst
      BY <1>0, <1>2, <2>1, LimiterAssumption DEF Types
    <3> QED  BY <1>2, <2>1, <3>1 DEF BucketOf
  <2>2. CASE a # ip[r]
    BY <1>0, <1>1, <1>2, <2>2 DEF BucketOf, Types, Unused
  <2> QED  BY <2>1, <2>2
<1> QED  BY <1>2, <1>3 DEF BucketOf

(* What cleanup drops would have been full: nobody can tell.               *)
LEMMA SweepHidden ==
  ASSUME Core, Filled, NEW s \in Shard, SweepShard(s)
  PROVE  UNCHANGED <<BucketOf, ip, answer>>
<1>1. /\ limiters' = [a \in IP |-> IF ShardOf[a] = s /\ Stale(a) THEN NoLimiter
                                  ELSE limiters[a]]
      /\ tokens' = tokens /\ ip' = ip /\ answer' = answer
  BY DEF SweepShard, reqVars
<1>2. ASSUME NEW a \in IP PROVE BucketOf'[a] = BucketOf[a]
  <2>1. CASE ShardOf[a] = s /\ Stale(a)
    <3>1. tokens[limiters[a]] = Burst
      BY <2>1, StaleIsFull DEF Core
    <3> QED  BY <1>1, <2>1, <3>1 DEF BucketOf
  <2>2. CASE ~(ShardOf[a] = s /\ Stale(a))
    BY <1>1, <2>2 DEF BucketOf
  <2> QED  BY <2>1, <2>2
<1> QED  BY <1>1, <1>2 DEF BucketOf

(* Sharding, lazy creation and cleanup are invisible: every address is     *)
(* limited as by a bucket of its own that is never dropped.                *)
THEOREM BucketImplemented == Spec => ImplementsBucket
<1>1. Init => Filled /\ Bucket!Init
  BY DEF Init, Filled, Bucket!Init
<1>2. Core /\ Filled /\ [Next]_vars => Filled' /\ [Bucket!Next]_(Bucket!bucketVars)
  <2> SUFFICES ASSUME Core, Filled, [Next]_vars
               PROVE  Bucket!Next \/ UNCHANGED <<BucketOf, ip, answer>>
    BY FilledStep DEF Bucket!bucketVars, BucketOf
  <2>1. ASSUME NEW r \in Request, Allow(r) \/ Again(r) PROVE Bucket!Next
    BY <2>1, AllowIsTaken, AgainIsAgain DEF Bucket!Next
  <2>2. CASE Tick
    BY <2>2, TickIsRefill DEF Bucket!Next
  <2>3. ASSUME NEW r \in Request, Find(r) \/ Miss(r)
        PROVE  UNCHANGED <<BucketOf, ip, answer>>
    BY <2>3 DEF Find, Miss, Use, mapVars, BucketOf
  <2>4. CASE StartCleanup \/ EndCleanup \/ Stop \/ UNCHANGED vars
    BY <2>4 DEF StartCleanup, EndCleanup, Stop, vars, mapVars, reqVars, BucketOf
  <2> QED
    BY <2>1, <2>2, <2>3, <2>4, CreateHidden, SweepHidden
    DEF Next, GetLimiter, Cleanup
<1> QED
  BY <1>1, <1>2, CoreHolds, PTL DEF Spec, ImplementsBucket, Bucket!Spec

=============================================================================
