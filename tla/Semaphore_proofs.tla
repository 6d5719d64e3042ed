-------------------------- MODULE Semaphore_proofs --------------------------
(***************************************************************************)
(* For any number of requests and providers and any capacity: a provider   *)
(* never serves more than Capacity requests, and its counter is right.     *)
(***************************************************************************)
EXTENDS Semaphore, FiniteSetTheorems, TLAPS

(* The capacity of a channel is positive.                                  *)
LEMMA CapacityType == Capacity \in Nat \ {0}
BY CapacityAssumption DEF Capacity

(* Every variable keeps its type.                                          *)
THEOREM TypeCorrect == Spec => []TypeOK
<1> USE CapacityType
<1>1. Init => TypeOK
  BY DEF Init, TypeOK, Place
<1>2. TypeOK /\ [Next]_vars => TypeOK'
  <2> SUFFICES ASSUME TypeOK, [Next]_vars PROVE TypeOK'
    OBVIOUS
  <2> USE DEF Goto, Place
  <2>0. ASSUME NEW r \in Request, pc[r] \notin {"idle", "creating"}
        PROVE  sem[r] \in SemaphoreId
    BY <2>0 DEF TypeOK
  <2>1. ASSUME NEW r \in Request, GetExisting(r) PROVE TypeOK'
    BY <2>1 DEF GetExisting, TypeOK
  <2>2. ASSUME NEW r \in Request, GetMissing(r) PROVE TypeOK'
    BY <2>2 DEF GetMissing, TypeOK
  <2>3. ASSUME NEW r \in Request, GetOrCreate(r) PROVE TypeOK'
    <3>1. provider[r] \in Provider /\ <<r, provider[r]>> \in SemaphoreId
      BY DEF TypeOK, SemaphoreId
    <3>2. CreateOnce(r, provider[r]) \in SemaphoreId
      BY <3>1 DEF CreateOnce, TypeOK
    <3>3. CreateOnce(r, provider[r]) # NoSemaphore
      BY <3>2, NoSemaphoreAssumption
    <3> QED  BY <2>3, <3>1, <3>2, <3>3 DEF GetOrCreate, TypeOK
  <2>4. ASSUME NEW r \in Request, AcquireSend(r) PROVE TypeOK'
    <3>1. sem[r] \in SemaphoreId /\ sem[r] # NoSemaphore
      BY <2>0, <2>4, NoSemaphoreAssumption DEF AcquireSend
    <3>a. len[sem[r]] \in 0 .. Capacity
      BY <3>1 DEF TypeOK
    <3>b. len[sem[r]] < Capacity
      BY <2>4 DEF AcquireSend, Room
    <3>2. len[sem[r]] + 1 \in 0 .. Capacity
      BY <3>a, <3>b
    <3>3. len' \in [SemaphoreId -> 0 .. Capacity]
      BY <2>4, <3>2 DEF AcquireSend, TypeOK
    <3> QED  BY <2>4, <3>1, <3>3 DEF AcquireSend, TypeOK
  <2>5. ASSUME NEW r \in Request, AcquireCount(r) PROVE TypeOK'
    <3>a. active[sem[r]] + 1 \in Int
      <4>1. active[sem[r]] \in Int
        BY <2>0, <2>5 DEF AcquireCount, TypeOK
      <4> QED  BY <4>1
    <3>1. active' \in [SemaphoreId -> Int]
      BY <2>5, <3>a DEF AcquireCount, TypeOK
    <3> QED  BY <2>5, <3>1 DEF AcquireCount, TypeOK
  <2>6. ASSUME NEW r \in Request, AcquireCancelled(r) PROVE TypeOK'
    BY <2>6 DEF AcquireCancelled, TypeOK
  <2>7. ASSUME NEW r \in Request, ReleaseReceive(r) PROVE TypeOK'
    <3>1. sem[r] \in SemaphoreId
      BY <2>0, <2>7 DEF ReleaseReceive
    <3>a. len[sem[r]] \in 0 .. Capacity
      BY <3>1 DEF TypeOK
    <3>b. len[sem[r]] > 0 => len[sem[r]] - 1 \in 0 .. Capacity
      BY <3>a
    <3>2. len' \in [SemaphoreId -> 0 .. Capacity]
      BY <2>7, <3>b DEF ReleaseReceive, TypeOK
    <3>3. pc' \in [Request -> Place]
      BY <2>7 DEF ReleaseReceive, TypeOK
    <3>4. \A q \in Request : pc'[q] \notin {"idle", "creating"} => sem'[q] # NoSemaphore
      BY <2>7 DEF ReleaseReceive, TypeOK
    <3> QED  BY <2>7, <3>2, <3>3, <3>4 DEF ReleaseReceive, TypeOK
  <2>8. ASSUME NEW r \in Request, ReleaseCount(r) PROVE TypeOK'
    <3>a. active[sem[r]] - 1 \in Int
      <4>1. active[sem[r]] \in Int
        BY <2>0, <2>8 DEF ReleaseCount, TypeOK
      <4> QED  BY <4>1
    <3>1. active' \in [SemaphoreId -> Int]
      BY <2>8, <3>a DEF ReleaseCount, TypeOK
    <3>2. pc' \in [Request -> Place]
      BY <2>8 DEF ReleaseCount, TypeOK
    <3>3. \A q \in Request : pc'[q] \notin {"idle", "creating"} => sem'[q] # NoSemaphore
      BY <2>8 DEF ReleaseCount, TypeOK
    <3> QED  BY <2>8, <3>1, <3>2, <3>3 DEF ReleaseCount, TypeOK
  <2>9. CASE UNCHANGED vars
    BY <2>9 DEF vars, TypeOK
  <2> QED
    BY <2>1, <2>2, <2>3, <2>4, <2>5, <2>6, <2>7, <2>8, <2>9
    DEF Next, Get, Acquire, Release
<1> QED  BY <1>1, <1>2, PTL DEF Spec

-----------------------------------------------------------------------------
(* The requests whose token is in a semaphore's channel.                   *)
Owners(s) == {r \in Request : sem[r] = s /\ pc[r] \in {"counting", "held"}}

(* The inductive invariant: everybody uses the provider's one semaphore,   *)
(* and a channel holds one token per owner.                                *)
Tokens == /\ \A r \in Request :
               pc[r] \in {"acquiring", "counting", "held", "uncounting"} =>
                 sem[r] = semaphores[provider[r]]
          /\ \A s \in SemaphoreId : len[s] = Cardinality(Owners(s))

(* The requests with a token of a semaphore can be counted.                *)
LEMMA OwnersFinite ==
  \A s : IsFiniteSet(Owners(s)) /\ Cardinality(Owners(s)) \in Nat
BY RequestAssumption, FS_Subset, FS_CardinalityType DEF Owners

(* A step that moves no token and keeps every request's semaphore.         *)
LEMMA SameOwners ==
  ASSUME Tokens, len' = len, \A s \in SemaphoreId : Owners(s)' = Owners(s)
  PROVE  \A s \in SemaphoreId : len'[s] = Cardinality(Owners(s)')
BY DEF Tokens

(* Every step keeps the tokens and their owners in step.                   *)
LEMMA TokensStep ==
  ASSUME TypeOK, Tokens, [Next]_vars
  PROVE  Tokens'
<1> USE DEF TypeOK, Goto
<1>1. ASSUME NEW r \in Request, GetExisting(r) PROVE Tokens'
  <2>1. \A s \in SemaphoreId : Owners(s)' = Owners(s)
    BY <1>1 DEF GetExisting, Owners
  <2>2. \A s \in SemaphoreId : len'[s] = Cardinality(Owners(s)')
    BY <1>1, <2>1, SameOwners DEF GetExisting
  <2>3. PICK p \in Provider : /\ provider' = [provider EXCEPT ![r] = p]
                             /\ sem' = [sem EXCEPT ![r] = semaphores[p]]
    BY <1>1 DEF GetExisting
  <2>4. semaphores' = semaphores /\ pc' = [pc EXCEPT ![r] = "acquiring"]
    BY <1>1 DEF GetExisting
  <2> QED  BY <2>2, <2>3, <2>4 DEF Tokens
<1>2. ASSUME NEW r \in Request, GetMissing(r) PROVE Tokens'
  <2>1. \A s \in SemaphoreId : Owners(s)' = Owners(s)
    BY <1>2 DEF GetMissing, Owners
  <2> QED  BY <1>2, <2>1, SameOwners DEF GetMissing, Tokens
<1>3. ASSUME NEW r \in Request, GetOrCreate(r) PROVE Tokens'
  <2>1. \A s \in SemaphoreId : Owners(s)' = Owners(s)
    BY <1>3 DEF GetOrCreate, Owners
  <2>2. \A p \in Provider : semaphores[p] # NoSemaphore => semaphores'[p] = semaphores[p]
    BY <1>3 DEF GetOrCreate, CreateOnce
  <2>3. \A q \in Request :
          pc'[q] \in {"acquiring", "counting", "held", "uncounting"} =>
            sem'[q] = semaphores'[provider'[q]]
    <3> TAKE q \in Request
    <3>1. CASE q = r
      BY <1>3, <3>1 DEF GetOrCreate
    <3>2. CASE q # r
      BY <1>3, <2>2, <3>2 DEF GetOrCreate, Tokens
    <3> QED  BY <3>1, <3>2
  <2> QED  BY <1>3, <2>1, <2>3, SameOwners DEF GetOrCreate, Tokens
<1>4. ASSUME NEW r \in Request, AcquireSend(r) PROVE Tokens'
  <2>1. \A s \in SemaphoreId :
          Owners(s)' = IF s = sem[r] THEN Owners(s) \cup {r} ELSE Owners(s)
    BY <1>4 DEF AcquireSend, Owners
  <2>2. r \notin Owners(sem[r])
    BY <1>4 DEF AcquireSend, Owners
  <2>3. Cardinality(Owners(sem[r]) \cup {r}) = Cardinality(Owners(sem[r])) + 1
    BY <2>2, OwnersFinite, FS_AddElement
  <2>4. \A s \in SemaphoreId : len'[s] = Cardinality(Owners(s)')
    BY <1>4, <2>1, <2>3 DEF AcquireSend, Tokens
  <2> QED  BY <1>4, <2>4 DEF AcquireSend, Tokens
<1>5. ASSUME NEW r \in Request, AcquireCount(r) PROVE Tokens'
  <2>1. \A s \in SemaphoreId : Owners(s)' = Owners(s)
    BY <1>5 DEF AcquireCount, Owners
  <2> QED  BY <1>5, <2>1, SameOwners DEF AcquireCount, Tokens
<1>6. ASSUME NEW r \in Request, AcquireCancelled(r) PROVE Tokens'
  <2>1. \A s \in SemaphoreId : Owners(s)' = Owners(s)
    BY <1>6 DEF AcquireCancelled, Owners
  <2> QED  BY <1>6, <2>1, SameOwners DEF AcquireCancelled, Tokens
<1>7. ASSUME NEW r \in Request, ReleaseReceive(r) PROVE Tokens'
  <2>0. pc[r] = "held" /\ r \in Owners(sem[r]) /\ sem[r] \in SemaphoreId
    BY <1>7 DEF ReleaseReceive, Owners
  <2>1. Cardinality(Owners(sem[r]) \ {r}) = Cardinality(Owners(sem[r])) - 1
    BY <2>0, OwnersFinite, FS_RemoveElement
  <2>2. len[sem[r]] > 0
    <3>1. Cardinality(Owners(sem[r])) # 0
      BY <2>0, OwnersFinite, FS_EmptySet
    <3>2. len[sem[r]] = Cardinality(Owners(sem[r]))
      BY <2>0 DEF Tokens
    <3>3. Cardinality(Owners(sem[r])) \in Nat
      BY OwnersFinite
    <3> QED  BY <3>1, <3>2, <3>3
  <2>3. /\ len' = [len EXCEPT ![sem[r]] = @ - 1]
        /\ pc' = [pc EXCEPT ![r] = "uncounting"]
        /\ UNCHANGED <<semaphores, active, provider, sem>>
    BY <1>7, <2>0, <2>2 DEF ReleaseReceive
  <2>4. \A s \in SemaphoreId :
          Owners(s)' = IF s = sem[r] THEN Owners(s) \ {r} ELSE Owners(s)
    BY <2>3 DEF Owners
  <2>5. \A s \in SemaphoreId : len'[s] = Cardinality(Owners(s)')
    BY <2>1, <2>3, <2>4 DEF Tokens
  <2> QED  BY <2>0, <2>3, <2>5 DEF Tokens
<1>8. ASSUME NEW r \in Request, ReleaseCount(r) PROVE Tokens'
  <2>0. pc[r] = "uncounting" /\ pc' = [pc EXCEPT ![r] = "idle"]
    BY <1>8 DEF ReleaseCount
  <2>1. \A s \in SemaphoreId : Owners(s)' = Owners(s)
    BY <1>8, <2>0 DEF ReleaseCount, Owners
  <2> QED  BY <1>8, <2>0, <2>1, SameOwners DEF ReleaseCount, Tokens
<1>9. CASE UNCHANGED vars
  <2>1. \A s \in SemaphoreId : Owners(s)' = Owners(s)
    BY <1>9 DEF vars, Owners
  <2> QED  BY <1>9, <2>1, SameOwners DEF vars, Tokens
<1> QED
  BY <1>1, <1>2, <1>3, <1>4, <1>5, <1>6, <1>7, <1>8, <1>9
  DEF Next, Get, Acquire, Release

(* One semaphore for a provider bounds its requests by the capacity.       *)
LEMMA TokensBound ==
  ASSUME TypeOK, Tokens
  PROVE  InFlightBound
<1> SUFFICES ASSUME NEW p \in Provider
             PROVE  Cardinality(InFlight(p)) <= Capacity
  BY DEF InFlightBound
<1>1. CASE InFlight(p) = {}
  BY <1>1, FS_EmptySet, CapacityType
<1>2. ASSUME NEW r \in InFlight(p)
      PROVE  Cardinality(InFlight(p)) <= Capacity
  <2>1. semaphores[p] \in SemaphoreId
    BY <1>2 DEF InFlight, Tokens, TypeOK
  <2>2. InFlight(p) \subseteq Owners(semaphores[p])
    BY DEF InFlight, Owners, Tokens
  <2>3. Cardinality(InFlight(p)) <= Cardinality(Owners(semaphores[p]))
    BY <2>2, OwnersFinite, FS_Subset
  <2>4. len[semaphores[p]] <= Capacity
    BY <2>1, CapacityType DEF TypeOK
  <2>5. Cardinality(InFlight(p)) \in Nat
    BY <2>2, OwnersFinite, FS_Subset, FS_CardinalityType
  <2>6. len[semaphores[p]] = Cardinality(Owners(semaphores[p]))
    BY <2>1 DEF Tokens
  <2>7. Cardinality(Owners(semaphores[p])) \in Nat
    BY OwnersFinite
  <2> QED  BY <2>3, <2>4, <2>5, <2>6, <2>7, CapacityType
<1> QED  BY <1>1, <1>2

(* A provider serves at most Capacity requests.                            *)
THEOREM BoundHolds ==
  Spec => []InFlightBound
<1>1. Init => Tokens
  <2> SUFFICES ASSUME Init PROVE Tokens
    OBVIOUS
  <2>1. \A s \in SemaphoreId : Owners(s) = {}
    BY DEF Init, Owners
  <2> QED  BY <2>1, FS_EmptySet DEF Init, Tokens
<1>2. TypeOK /\ Tokens /\ [Next]_vars => Tokens'
  BY TokensStep
<1>3. TypeOK /\ Tokens => InFlightBound
  BY TokensBound
<1> QED  BY <1>1, <1>2, <1>3, TypeCorrect, PTL DEF Spec

-----------------------------------------------------------------------------
(* The requests between a channel operation and their update of active.    *)
Between(s, place) == {r \in Request : sem[r] = s /\ pc[r] \in {place}}

(* The requests between two steps of a semaphore can be counted.           *)
LEMMA BetweenFinite ==
  \A s, place : IsFiniteSet(Between(s, place)) /\ Cardinality(Between(s, place)) \in Nat
BY RequestAssumption, FS_Subset, FS_CardinalityType DEF Between

(* One request more, or less, between the two.                             *)
LEMMA BetweenMoves ==
  ASSUME NEW s, NEW place, NEW r \in Request, NEW S, NEW T
  PROVE  /\ S = Between(s, place) /\ r \notin S /\ T = S \cup {r}
              => Cardinality(T) = Cardinality(S) + 1
         /\ S = Between(s, place) /\ r \in S /\ T = S \ {r}
              => Cardinality(T) = Cardinality(S) - 1
BY BetweenFinite, FS_AddElement, FS_RemoveElement

Counted(s) ==
  active[s] = len[s] - Cardinality(Between(s, "counting"))
                     + Cardinality(Between(s, "uncounting"))

(* A step that neither enters nor leaves the space between.                *)
LEMMA CountedStays ==
  ASSUME NEW s, Counted(s), active'[s] = active[s], len'[s] = len[s],
         Between(s, "counting")' = Between(s, "counting"),
         Between(s, "uncounting")' = Between(s, "uncounting")
  PROVE  Counted(s)'
BY DEF Counted

(* Every step keeps the reported count explained.                          *)
LEMMA CountedStep ==
  ASSUME TypeOK, [Next]_vars, NEW s \in SemaphoreId, Counted(s)
  PROVE  Counted(s)'
<1> DEFINE C == Between(s, "counting")
           U == Between(s, "uncounting")
<1>0. active[s] \in Int /\ len[s] \in Int /\ Cardinality(C) \in Int /\ Cardinality(U) \in Int
  BY CapacityType, BetweenFinite DEF TypeOK
<1>1. ASSUME NEW r \in Request, Get(r) \/ AcquireCancelled(r) PROVE Counted(s)'
  <2>1. C' = C /\ U' = U /\ active' = active /\ len' = len
    BY <1>1 DEF Get, GetExisting, GetMissing, GetOrCreate, AcquireCancelled, Goto, Between, TypeOK
  <2> QED  BY <2>1, CountedStays
<1>2. ASSUME NEW r \in Request, AcquireSend(r) PROVE Counted(s)'
  <2>1. /\ pc[r] = "acquiring" /\ pc' = [pc EXCEPT ![r] = "counting"]
        /\ len' = [len EXCEPT ![sem[r]] = @ + 1]
        /\ UNCHANGED <<active, sem>>
    BY <1>2 DEF AcquireSend, Goto
  <2>2. U' = U
    BY <2>1 DEF Between, TypeOK
  <2>3. CASE sem[r] = s
    <3>1. C' = C \cup {r} /\ r \notin C
      BY <2>1, <2>3 DEF Between, TypeOK
    <3>2. Cardinality(C') = Cardinality(C) + 1
      BY <3>1, BetweenMoves
    <3>3. len'[s] = len[s] + 1
      BY <2>1, <2>3 DEF TypeOK
    <3> QED  BY <1>0, <2>1, <2>2, <3>2, <3>3 DEF Counted
  <2>4. CASE sem[r] # s
    <3>1. C' = C /\ len'[s] = len[s]
      BY <2>1, <2>4 DEF Between, TypeOK
    <3> QED  BY <2>1, <2>2, <3>1, CountedStays
  <2> QED  BY <2>3, <2>4
<1>3. ASSUME NEW r \in Request, AcquireCount(r) PROVE Counted(s)'
  <2>1. /\ pc[r] = "counting" /\ pc' = [pc EXCEPT ![r] = "held"]
        /\ active' = [active EXCEPT ![sem[r]] = @ + 1]
        /\ UNCHANGED <<len, sem>>
    BY <1>3 DEF AcquireCount, Goto
  <2>2. U' = U
    BY <2>1 DEF Between, TypeOK
  <2>3. CASE sem[r] = s
    <3>1. C' = C \ {r} /\ r \in C
      BY <2>1, <2>3 DEF Between, TypeOK
    <3>2. Cardinality(C') = Cardinality(C) - 1
      BY <3>1, BetweenMoves
    <3>3. active'[s] = active[s] + 1
      BY <2>1, <2>3 DEF TypeOK
    <3> QED  BY <1>0, <2>1, <2>2, <3>2, <3>3 DEF Counted
  <2>4. CASE sem[r] # s
    <3>1. C' = C /\ active'[s] = active[s]
      BY <2>1, <2>4 DEF Between, TypeOK
    <3> QED  BY <2>1, <2>2, <3>1, CountedStays
  <2> QED  BY <2>3, <2>4
<1>4. ASSUME NEW r \in Request, ReleaseReceive(r) PROVE Counted(s)'
  <2>1. /\ pc[r] = "held" /\ UNCHANGED <<active, sem>>
        /\ \/ /\ pc' = [pc EXCEPT ![r] = "uncounting"]
              /\ len' = [len EXCEPT ![sem[r]] = @ - 1]
           \/ pc' = [pc EXCEPT ![r] = "idle"] /\ len' = len
    BY <1>4 DEF ReleaseReceive, Goto
  <2>2. C' = C
    BY <2>1 DEF Between, TypeOK
  <2>3. CASE sem[r] = s /\ pc' = [pc EXCEPT ![r] = "uncounting"]
    <3>1. U' = U \cup {r} /\ r \notin U
      BY <2>1, <2>3 DEF Between, TypeOK
    <3>2. Cardinality(U') = Cardinality(U) + 1
      BY <3>1, BetweenMoves
    <3>3. len' = [len EXCEPT ![sem[r]] = @ - 1]
      <4>1. pc'[r] = "uncounting"
        BY <2>3 DEF TypeOK
      <4>2. pc' # [pc EXCEPT ![r] = "idle"]
        BY <4>1 DEF TypeOK
      <4> QED  BY <2>1, <4>2
    <3>4. len'[s] = len[s] - 1
      BY <2>3, <3>3 DEF TypeOK
    <3> QED  BY <1>0, <2>1, <2>2, <3>2, <3>4 DEF Counted
  <2>4. CASE sem[r] # s \/ pc' = [pc EXCEPT ![r] = "idle"]
    <3>1. U' = U /\ len'[s] = len[s]
      BY <2>1, <2>4 DEF Between, TypeOK
    <3> QED  BY <2>1, <2>2, <3>1, CountedStays
  <2> QED  BY <2>1, <2>3, <2>4
<1>5. ASSUME NEW r \in Request, ReleaseCount(r) PROVE Counted(s)'
  <2>1. /\ pc[r] = "uncounting" /\ pc' = [pc EXCEPT ![r] = "idle"]
        /\ active' = [active EXCEPT ![sem[r]] = @ - 1]
        /\ UNCHANGED <<len, sem>>
    BY <1>5 DEF ReleaseCount, Goto
  <2>2. C' = C
    BY <2>1 DEF Between, TypeOK
  <2>3. CASE sem[r] = s
    <3>1. U' = U \ {r} /\ r \in U
      BY <2>1, <2>3 DEF Between, TypeOK
    <3>2. Cardinality(U') = Cardinality(U) - 1
      BY <3>1, BetweenMoves
    <3>3. active'[s] = active[s] - 1
      BY <2>1, <2>3 DEF TypeOK
    <3> QED  BY <1>0, <2>1, <2>2, <3>2, <3>3 DEF Counted
  <2>4. CASE sem[r] # s
    <3>1. U' = U /\ active'[s] = active[s]
      BY <2>1, <2>4 DEF Between, TypeOK
    <3> QED  BY <2>1, <2>2, <3>1, CountedStays
  <2> QED  BY <2>3, <2>4
<1>6. CASE UNCHANGED vars
  <2>1. C' = C /\ U' = U /\ active' = active /\ len' = len
    BY <1>6 DEF vars, Between
  <2> QED  BY <2>1, CountedStays
<1> QED  BY <1>1, <1>2, <1>3, <1>4, <1>5, <1>6 DEF Next, Acquire, Release

(* What Active() reports is the number of tokens, up to the requests that  *)
(* are between their channel operation and their update of the counter.    *)
THEOREM ActiveReported == Spec => []ActiveCounts
<1> DEFINE Inv == \A s \in SemaphoreId : Counted(s)
<1>1. Init => Inv
  <2> SUFFICES ASSUME Init, NEW s \in SemaphoreId PROVE Counted(s)
    OBVIOUS
  <2>1. Between(s, "counting") = {} /\ Between(s, "uncounting") = {}
    BY DEF Init, Between
  <2>2. active[s] = 0 /\ len[s] = 0
    BY DEF Init
  <2> QED  BY <2>1, <2>2, FS_EmptySet DEF Counted
<1>2. TypeOK /\ Inv /\ [Next]_vars => Inv'
  BY CountedStep
<1>3. Inv => ActiveCounts
  BY DEF ActiveCounts, Counted, At, Between
<1> HIDE DEF Inv
<1> QED  BY <1>1, <1>2, <1>3, TypeCorrect, PTL DEF Spec

=============================================================================
