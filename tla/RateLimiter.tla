---------------------------- MODULE RateLimiter ----------------------------
(***************************************************************************)
(* internal/server/ratelimit.go: a map from addresses to token buckets,    *)
(* split into shards with a lock each.  Requests look their bucket up or   *)
(* create it, then take a token without any lock; a cleanup goroutine goes *)
(* through the shards and drops the entries that were not used lately.     *)
(*                                                                         *)
(* Time is counted in ticks; ages saturate where nothing tells them apart. *)
(* A bucket (rate.Limiter of golang.org/x/time) holds whole tokens and is  *)
(* refilled by Rate at each tick.                                          *)
(***************************************************************************)
EXTENDS Integers, FiniteSets

CONSTANTS
  Request,       \* goroutines that bring requests, one after the other
  IP,
  Shard,
  ShardOf,       \* getShard, on addresses
  Limiter,       \* identities of rate.Limiter objects
  NoLimiter,
  Rate, Burst,
  TTL,           \* DefaultEntryTTL, in ticks
  Dwell          \* the longest, in ticks, between the reading of the clock
                 \* and its store, between GetLimiter and Allow, and that a
                 \* cleanup lasts

ASSUME FiniteAssumption == IsFiniteSet(Request) /\ IsFiniteSet(IP)
ASSUME ShardAssumption == IsFiniteSet(Shard) /\ ShardOf \in [IP -> Shard]
ASSUME LimiterAssumption == NoLimiter \notin Limiter

(* The allocator does not run out of objects.                              *)
ASSUME AllocationAssumption ==
  \A used \in SUBSET Limiter :
    IsFiniteSet(used) /\ Cardinality(used) < Cardinality(IP) + Cardinality(Request)
      => Limiter \ used # {}

ASSUME TimeAssumption == /\ Rate \in Nat /\ Burst \in Nat \ {0}
                         /\ TTL \in Nat /\ Dwell \in Nat

(* Nothing is lost when an entry goes whose bucket had the time to fill.   *)
ASSUME RefillAssumption == 2 * Dwell <= TTL /\ Rate * (TTL - 2 * Dwell + 1) >= Burst

VARIABLES
  limiters,      \* the entries: the limiter of each address
  idle,          \* ticks since each entry's lastAccess
  tokens,        \* tokens of each limiter
  totalEntries,
  pc, ip,        \* where each request is, and its address
  held,          \* the limiter GetLimiter returned to it
  waited,        \* ticks since then
  answer,        \* what it was answered
  sweeping,      \* shards a running cleanup has still to visit
  removed,       \* entries it has deleted
  sweepAge,      \* ticks since it computed its cutoff
  stopped        \* the cleanup goroutine has returned

mapVars   == <<limiters, idle, tokens>>
reqVars   == <<pc, ip, held, waited, answer>>
sweepVars == <<sweeping, removed, sweepAge>>
vars == <<mapVars, totalEntries, reqVars, sweepVars, stopped>>

Old == TTL + Dwell + 1       \* where ages saturate

Init == /\ limiters = [a \in IP |-> NoLimiter]
        /\ idle = [a \in IP |-> 0]
        /\ tokens = [l \in Limiter |-> Burst]
        /\ totalEntries = 0
        /\ pc = [r \in Request |-> "new"]
        /\ ip \in [Request -> IP]
        /\ held = [r \in Request |-> NoLimiter]
        /\ waited = [r \in Request |-> 0]
        /\ answer = [r \in Request |-> "none"]
        /\ sweeping = {}
        /\ removed = 0
        /\ sweepAge = 0
        /\ stopped = FALSE

-----------------------------------------------------------------------------
(* GetLimiter: the entry is found, under the read lock or at the second    *)
(* look under the write lock, and its access time is renewed.  Readers     *)
(* race to store the times they have read ("slight race is OK"): the time  *)
(* that stays is one of them, and may be late, or earlier than another.    *)
Use(r, l) ==
  /\ held' = [held EXCEPT ![r] = l]
  /\ waited' = [waited EXCEPT ![r] = 0]
  /\ pc' = [pc EXCEPT ![r] = "holding"]
  /\ \E late \in 0 .. Dwell : idle' = [idle EXCEPT ![ip[r]] = late]
  /\ UNCHANGED <<ip, answer, sweepVars, stopped>>

Find(r) ==
  /\ pc[r] \in {"new", "missing"}
  /\ limiters[ip[r]] # NoLimiter
  /\ Use(r, limiters[ip[r]])
  /\ UNCHANGED <<limiters, tokens, totalEntries>>

Miss(r) ==
  /\ pc[r] = "new" /\ limiters[ip[r]] = NoLimiter
  /\ pc' = [pc EXCEPT ![r] = "missing"]
  /\ UNCHANGED <<mapVars, totalEntries, ip, held, waited, answer, sweepVars, stopped>>

(* An object that nothing refers to stands for a new one.                  *)
Unused(l) == /\ \A a \in IP : limiters[a] # l
             /\ \A r \in Request : held[r] # l

(* A faulty GetLimiter without the second look.                            *)
MayCreateAnyway(r) == pc[r] = "missing"

MayCreate(r) == pc[r] = "missing" /\ limiters[ip[r]] = NoLimiter

Create(r) ==
  /\ MayCreate(r)
  /\ LET new == CHOOSE l \in Limiter : Unused(l)
     IN  /\ limiters' = [limiters EXCEPT ![ip[r]] = new]
         /\ tokens' = [tokens EXCEPT ![new] = Burst]
         /\ Use(r, new)
  /\ totalEntries' = totalEntries + 1

(* limiter.Allow of the middleware: on the limiter returned, whether it is *)
(* still in the map or not.                                                *)
Allow(r) ==
  /\ pc[r] = "holding"
  /\ LET allowed == tokens[held[r]] > 0
     IN  /\ answer' = [answer EXCEPT ![r] = IF allowed THEN "allowed" ELSE "limited"]
         /\ tokens' = [tokens EXCEPT ![held[r]] = IF allowed THEN @ - 1 ELSE @]
  /\ pc' = [pc EXCEPT ![r] = "answered"]
  /\ held' = [held EXCEPT ![r] = NoLimiter]
  /\ waited' = [waited EXCEPT ![r] = 0]
  /\ UNCHANGED <<limiters, idle, totalEntries, ip, sweepVars, stopped>>

Again(r) ==
  /\ pc[r] = "answered"
  /\ pc' = [pc EXCEPT ![r] = "new"]
  /\ answer' = [answer EXCEPT ![r] = "none"]
  /\ \E a \in IP : ip' = [ip EXCEPT ![r] = a]
  /\ UNCHANGED <<mapVars, totalEntries, held, waited, sweepVars, stopped>>

-----------------------------------------------------------------------------
(* A faulty cleanup that visits one shard.                                 *)
StartCleanupOnce ==
  /\ sweeping = {} /\ removed = 0 /\ ~stopped
  /\ sweeping' = {CHOOSE s \in Shard : TRUE}
  /\ sweepAge' = 0
  /\ UNCHANGED <<mapVars, totalEntries, reqVars, removed, stopped>>

(* cleanup: the cutoff is computed once, the shards are locked one by one, *)
(* and the total is corrected when all are done.                           *)
StartCleanup ==
  /\ sweeping = {} /\ removed = 0 /\ ~stopped
  /\ sweeping' = Shard
  /\ sweepAge' = 0
  /\ UNCHANGED <<mapVars, totalEntries, reqVars, removed, stopped>>

(* A faulty cutoff that counts the tick under way as idle.                 *)
StaleEarly(a) == limiters[a] # NoLimiter /\ idle[a] >= TTL

Stale(a) == limiters[a] # NoLimiter /\ idle[a] > TTL + sweepAge

SweepShard(s) ==
  LET gone == {a \in IP : ShardOf[a] = s /\ Stale(a)}
  IN  /\ s \in sweeping
      /\ sweeping' = sweeping \ {s}
      /\ limiters' = [a \in IP |-> IF a \in gone THEN NoLimiter ELSE limiters[a]]
      /\ removed' = removed + Cardinality(gone)
      /\ UNCHANGED <<idle, tokens, totalEntries, reqVars, sweepAge, stopped>>

EndCleanup ==
  /\ sweeping = {} /\ removed > 0
  /\ totalEntries' = totalEntries - removed
  /\ removed' = 0
  /\ UNCHANGED <<mapVars, reqVars, sweeping, sweepAge, stopped>>

(* Run closes cleanupStop when it returns; cleanupLoop sees it between two *)
(* cleanups, and may prefer a tick to it.                                  *)
Stop ==
  /\ ~stopped /\ sweeping = {} /\ removed = 0
  /\ stopped' = TRUE
  /\ UNCHANGED <<mapVars, totalEntries, reqVars, sweepVars>>

-----------------------------------------------------------------------------
Older(t) == IF t < Old THEN t + 1 ELSE t

Refilled(n) == IF n + Rate < Burst THEN n + Rate ELSE Burst

(* Time does not pass while a request or a cleanup has taken Dwell ticks.  *)
Tick ==
  /\ \A r \in Request : pc[r] = "holding" => waited[r] < Dwell
  /\ sweeping # {} => sweepAge < Dwell
  /\ idle' = [a \in IP |-> IF limiters[a] = NoLimiter THEN 0 ELSE Older(idle[a])]
  /\ tokens' = [l \in Limiter |-> Refilled(tokens[l])]
  /\ waited' = [r \in Request |-> IF pc[r] = "holding" THEN waited[r] + 1 ELSE 0]
  /\ sweepAge' = IF sweeping = {} THEN 0 ELSE sweepAge + 1
  /\ UNCHANGED <<limiters, totalEntries, pc, ip, held, answer, sweeping, removed, stopped>>

GetLimiter(r) == Find(r) \/ Miss(r) \/ Create(r)
Cleanup       == StartCleanup \/ (\E s \in Shard : SweepShard(s)) \/ EndCleanup

Next == \/ \E r \in Request : GetLimiter(r) \/ Allow(r) \/ Again(r)
        \/ Cleanup \/ Stop \/ Tick

Spec == Init /\ [][Next]_vars

(* The ticker of cleanupLoop goes on, and a cleanup that runs ends.        *)
FairSpec == Spec /\ WF_vars(Cleanup)

-----------------------------------------------------------------------------
Entries == {a \in IP : limiters[a] # NoLimiter}

(* The total that /metrics reports is the number of entries, up to those a *)
(* cleanup has deleted and not yet subtracted.                             *)
EntriesCounted == totalEntries = Cardinality(Entries) + removed

(* Requests of one address are answered by one limiter, across racing      *)
(* creations and cleanups: no second bucket lets more of them through.     *)
OneLimiter ==
  \A r \in Request : held[r] # NoLimiter => held[r] = limiters[ip[r]]

(* "Prevent memory leaks": an address that stays away is forgotten, unless *)
(* the limiter is stopped, however cleanups overlap with other addresses'  *)
(* requests and with its own return.                                       *)
IdleForgotten ==
  \A a \in IP : (a \in Entries /\ idle[a] > TTL) ~> (a \notin Entries \/ idle[a] <= TTL \/ stopped)

Bucket == INSTANCE TokenBucket WITH
  tokens <- [a \in IP |-> IF limiters[a] = NoLimiter THEN Burst ELSE tokens[limiters[a]]]

(* Sharding, lazy creation and cleanup are invisible: every address is     *)
(* limited as by a bucket of its own that is never dropped.                *)
ImplementsBucket == Bucket!Spec

=============================================================================
