----------------------------- MODULE Semaphore -----------------------------
(***************************************************************************)
(* internal/providers/semaphore.go: ProviderSemaphores.Get creates one     *)
(* counting semaphore per provider on first use, and requests acquire and  *)
(* release it.  A slot is a token in a buffered channel; the counter       *)
(* active, reported by Active(), is updated under a lock of its own after  *)
(* the channel operation.                                                  *)
(***************************************************************************)
EXTENDS Integers, FiniteSets

CONSTANTS
  Request,          \* goroutines, each using one semaphore at a time
  Provider,
  MaxConcurrent,    \* the configured capacity; not positive means default
  DefaultMaxConcurrentPerProvider,
  NoSemaphore

ASSUME RequestAssumption == IsFiniteSet(Request)
ASSUME CapacityAssumption ==
  MaxConcurrent \in Int /\ DefaultMaxConcurrentPerProvider \in Nat \ {0}

Capacity == IF MaxConcurrent <= 0 THEN DefaultMaxConcurrentPerProvider
            ELSE MaxConcurrent

(* A semaphore is named by the call that created it.                       *)
SemaphoreId == Request \X Provider

ASSUME NoSemaphoreAssumption == NoSemaphore \notin SemaphoreId

VARIABLES
  semaphores,   \* ps.semaphores
  len,          \* tokens in each semaphore's channel
  active,       \* the counter of each semaphore
  pc,           \* where each request is
  provider,     \* the provider each request is for
  sem           \* the semaphore Get returned to it

vars == <<semaphores, len, active, pc, provider, sem>>

Init == /\ semaphores = [p \in Provider |-> NoSemaphore]
        /\ len = [s \in SemaphoreId |-> 0]
        /\ active = [s \in SemaphoreId |-> 0]
        /\ pc = [r \in Request |-> "idle"]
        /\ provider \in [Request -> Provider]
        /\ sem = [r \in Request |-> NoSemaphore]

Goto(r, from, to) == pc[r] = from /\ pc' = [pc EXCEPT ![r] = to]

-----------------------------------------------------------------------------
(* Get: the read-locked lookup.                                            *)
GetExisting(r) ==
  \E p \in Provider :
    /\ semaphores[p] # NoSemaphore
    /\ Goto(r, "idle", "acquiring")
    /\ provider' = [provider EXCEPT ![r] = p]
    /\ sem' = [sem EXCEPT ![r] = semaphores[p]]
    /\ UNCHANGED <<semaphores, len, active>>

GetMissing(r) ==
  \E p \in Provider :
    /\ semaphores[p] = NoSemaphore
    /\ Goto(r, "idle", "creating")
    /\ provider' = [provider EXCEPT ![r] = p]
    /\ UNCHANGED <<semaphores, len, active, sem>>

(* A faulty Get that creates without looking a second time.                *)
CreateAlways(r, p) == <<r, p>>

(* Get: the write-locked second look, and the creation.                    *)
CreateOnce(r, p) == IF semaphores[p] # NoSemaphore THEN semaphores[p] ELSE <<r, p>>

GetOrCreate(r) ==
  LET p == provider[r]
  IN  /\ Goto(r, "creating", "acquiring")
      /\ semaphores' = [semaphores EXCEPT ![p] = CreateOnce(r, p)]
      /\ sem' = [sem EXCEPT ![r] = CreateOnce(r, p)]
      /\ UNCHANGED <<len, active, provider>>

-----------------------------------------------------------------------------
(* Acquire and TryAcquire: the send into the channel, then the counter.    *)
RoomOffByOne(r) == len[sem[r]] <= Capacity

Room(r) == len[sem[r]] < Capacity

AcquireSend(r) ==
  /\ Goto(r, "acquiring", "counting")
  /\ Room(r)
  /\ len' = [len EXCEPT ![sem[r]] = @ + 1]
  /\ UNCHANGED <<semaphores, active, provider, sem>>

AcquireCount(r) ==
  /\ Goto(r, "counting", "held")
  /\ active' = [active EXCEPT ![sem[r]] = @ + 1]
  /\ UNCHANGED <<semaphores, len, provider, sem>>

(* The context ends while the request waits; with room in the channel the  *)
(* select may still choose it.  TryAcquire gives up when there is no room. *)
AcquireCancelled(r) ==
  /\ Goto(r, "acquiring", "idle")
  /\ UNCHANGED <<semaphores, len, active, provider, sem>>

-----------------------------------------------------------------------------
(* A faulty path that goes on without Release.                             *)
ReleaseLeaks(r) ==
  /\ Goto(r, "held", "idle")
  /\ UNCHANGED <<semaphores, len, active, provider, sem>>

(* Release, once for each Acquire: the receive from the channel, then the  *)
(* counter.  With nothing to receive it would only warn.                   *)
ReleaseReceive(r) ==
  /\ Goto(r, "held", IF len[sem[r]] > 0 THEN "uncounting" ELSE "idle")
  /\ len' = IF len[sem[r]] > 0 THEN [len EXCEPT ![sem[r]] = @ - 1] ELSE len
  /\ UNCHANGED <<semaphores, active, provider, sem>>

(* A faulty Release that leaves the counter as it was.                     *)
ReleaseForgetsCount(r) ==
  /\ Goto(r, "uncounting", "idle")
  /\ UNCHANGED <<semaphores, len, active, provider, sem>>

ReleaseCount(r) ==
  /\ Goto(r, "uncounting", "idle")
  /\ active' = [active EXCEPT ![sem[r]] = @ - 1]
  /\ UNCHANGED <<semaphores, len, provider, sem>>

Get(r)     == GetExisting(r) \/ GetMissing(r) \/ GetOrCreate(r)
Acquire(r) == AcquireSend(r) \/ AcquireCount(r)
Release(r) == ReleaseReceive(r) \/ ReleaseCount(r)

Next == \E r \in Request : Get(r) \/ Acquire(r) \/ AcquireCancelled(r) \/ Release(r)

Spec == Init /\ [][Next]_vars

(* A goroutine that can run is scheduled; senders blocked on a channel are *)
(* served in the order they arrived, so none waits while others pass.      *)
Fairness == \A r \in Request : /\ WF_vars(GetOrCreate(r))
                               /\ SF_vars(AcquireSend(r))
                               /\ WF_vars(AcquireCount(r))
                               /\ WF_vars(Release(r))

FairSpec == Spec /\ Fairness

-----------------------------------------------------------------------------
Place == {"idle", "creating", "acquiring", "counting", "held", "uncounting"}

(* Every variable has its type; a request past Get has a semaphore.        *)
TypeOK == /\ semaphores \in [Provider -> SemaphoreId \cup {NoSemaphore}]
          /\ len \in [SemaphoreId -> 0 .. Capacity]
          /\ active \in [SemaphoreId -> Int]
          /\ pc \in [Request -> Place]
          /\ provider \in [Request -> Provider]
          /\ sem \in [Request -> SemaphoreId \cup {NoSemaphore}]
          /\ \A r \in Request : pc[r] \notin {"idle", "creating"} => sem[r] # NoSemaphore

(* The requests a provider is serving: a token was sent for each, and not  *)
(* yet received back.                                                      *)
InFlight(p) == {r \in Request : provider[r] = p /\ pc[r] \in {"counting", "held"}}

(* A provider serves at most Capacity requests, also while several         *)
(* requests race to create its semaphore.                                  *)
InFlightBound == \A p \in Provider : Cardinality(InFlight(p)) <= Capacity

(* The counter is the number of tokens, up to the requests that are        *)
(* between their channel operation and their update of the counter.        *)
At(s, places) == Cardinality({r \in Request : sem[r] = s /\ pc[r] \in places})
ActiveCounts ==
  \A s \in SemaphoreId :
    active[s] = len[s] - At(s, {"counting"}) + At(s, {"uncounting"})

(* A request that waits for a slot gets one or leaves.                     *)
WaitEnds == \A r \in Request : (pc[r] = "acquiring") ~> (pc[r] # "acquiring")

=============================================================================
