--------------------------- MODULE Router_proofs ---------------------------
(***************************************************************************)
(* The router, for any number of requests, any providers and chains, any   *)
(* capacity and any limits of the retrier: slots are neither lost nor      *)
(* given back twice, the retries reported are the calls repeated, and a    *)
(* provider that answers is always found.                                  *)
(***************************************************************************)
EXTENDS Router, FiniteSetTheorems, TLAPS

-----------------------------------------------------------------------------
(* What the breaker's operations do to its fields, whatever the            *)
(* configuration.                                                          *)
LEMMA TransitionType ==
  ASSUME NEW b \in Breaker, NEW s \in State
  PROVE  TransitionTo(b, s) \in Breaker
  BY DEF Breaker, TransitionTo, InState

(* A success keeps the fields' types.                                      *)
LEMMA SuccessType ==
  ASSUME NEW b \in Breaker, NEW c \in Config
  PROVE  OnSuccess(b, c) \in Breaker
<1>1. CASE b.state = Closed
  BY <1>1 DEF Breaker, OnSuccess, Closed, HalfOpen
<1>2. CASE b.state = HalfOpen /\ b.successCount + 1 >= c.successThreshold
  <2>1. OnSuccess(b, c) = TransitionTo(b, Closed)
    BY <1>2 DEF OnSuccess, Closed, HalfOpen
  <2> QED  BY <2>1, TransitionType DEF State
<1>3. CASE b.state = HalfOpen /\ ~(b.successCount + 1 >= c.successThreshold)
  <2>1. OnSuccess(b, c) = [b EXCEPT !.successCount = @ + 1]
    BY <1>3 DEF OnSuccess, Closed, HalfOpen
  <2> QED  BY <2>1 DEF Breaker
<1>4. CASE b.state # Closed /\ b.state # HalfOpen
  BY <1>4 DEF OnSuccess
<1> QED  BY <1>1, <1>2, <1>3, <1>4

(* A failure keeps the fields' types.                                      *)
LEMMA FailureType ==
  ASSUME NEW b \in Breaker, NEW c \in Config
  PROVE  OnFailure(b, c) \in Breaker
<1>1. CASE \/ b.state = Closed /\ b.failureCount + 1 >= c.failureThreshold
           \/ b.state = HalfOpen
  <2>1. OnFailure(b, c) = TransitionTo(b, Open)
    BY <1>1 DEF OnFailure, Closed, HalfOpen
  <2> QED  BY <2>1, TransitionType DEF State
<1>2. CASE b.state = Closed /\ ~(b.failureCount + 1 >= c.failureThreshold)
  <2>1. OnFailure(b, c) = [b EXCEPT !.failureCount = @ + 1]
    BY <1>2 DEF OnFailure, Closed, HalfOpen
  <2> QED  BY <2>1 DEF Breaker
<1>3. CASE b.state # Closed /\ b.state # HalfOpen
  BY <1>3 DEF OnFailure
<1> QED  BY <1>1, <1>2, <1>3

(* A granted Allow keeps the fields' types.                                *)
LEMMA AllowType ==
  ASSUME NEW b \in Breaker
  PROVE  AfterAllow(b) \in Breaker
<1>1. CASE b.state = Closed
  BY <1>1 DEF AfterAllow, Closed, Open, HalfOpen
<1>2. CASE b.state = Open
  <2>1. AfterAllow(b) = TransitionTo(b, HalfOpen)
    BY <1>2 DEF AfterAllow, Closed, Open, HalfOpen
  <2> QED  BY <2>1, TransitionType DEF State
<1>3. CASE b.state = HalfOpen
  <2>1. AfterAllow(b) = [b EXCEPT !.halfOpenRequests = @ + 1]
    BY <1>3 DEF AfterAllow, Closed, Open, HalfOpen
  <2> QED  BY <2>1 DEF Breaker
<1> QED  BY <1>1, <1>2, <1>3 DEF Breaker, State

(* A closed breaker that is only asked and told of successes stays closed. *)
LEMMA ClosedStays ==
  ASSUME NEW b \in Breaker, b.state = Closed, NEW c \in Config
  PROVE  AfterAllow(b).state = Closed /\ OnSuccess(b, c).state = Closed
BY DEF AfterAllow, OnSuccess, Breaker, Closed, Open, HalfOpen

(* A closed breaker admits every request.                                  *)
LEMMA ClosedAdmits ==
  ASSUME NEW b, b.state = Closed, NEW c, NEW timedOut
  PROVE  Admits(b, c, timedOut)
BY DEF Admits, Closed, Open, HalfOpen

OnEndpoint == Holding \cup {"acquiring", "recording"}

(* A request past the registry's answer is at an endpoint of its chain     *)
(* that has a client and a breaker.                                        *)
Placed == \A r \in Request :
            /\ req[r].pos >= 1
            /\ req[r].pc \in OnEndpoint => Inside(r) /\ Here(r) \in Registered

RetryPlace  == {"attempting", "calling", "backoff"}
StreamPlace == {"opening", "streaming"}

(* Which loop a request is in is decided by its kind.                      *)
KindFits == \A r \in Request :
              /\ req[r].pc \in RetryPlace => req[r].kind = "chat"
              /\ req[r].pc \in StreamPlace => req[r].kind = "stream" /\ req[r].attempts = 1

(* The retries so far are the calls repeated, those at the present         *)
(* endpoint included.                                                      *)
Matched(r) ==
  /\ req[r].repeats = req[r].retries +
       (IF req[r].pc \in Holding /\ req[r].attempts > 0 THEN req[r].attempts - 1 ELSE 0)
  /\ req[r].pc \in {"calling", "backoff", "releasing"} => req[r].attempts > 0

(* Except that the retrier counts an attempt it does not make when the     *)
(* context has ended.  Such a request makes no call any more.              *)
Hopeless(r) == /\ req[r].cancelled /\ req[r].kind = "chat" /\ req[r].result # "ok"
               /\ req[r].pc \notin {"calling", "backoff", "served"}

(* And except for a limit below one.                                       *)
Tracked == \A r \in Request : /\ Matched(r) \/ Hopeless(r) \/ req[r].unasked
                              /\ req[r].result = "ok" =>
                                   req[r].pc \in {"releasing", "recording", "served"}

(* While no client has gone away, what a reliable provider is asked it     *)
(* answers, so its breaker stays closed and no request passes it by unless *)
(* a limit kept it from calling.                                           *)
Unharmed ==
  cancels = 0 =>
    /\ \A p \in Reliable : breaker[p].state = Closed
    /\ \A r \in Request :
         /\ ~req[r].cancelled
         /\ req[r].pc \in {"releasing", "recording"} =>
              \/ req[r].result = "ok"
              \/ req[r].result = "error" /\ Here(r) \notin Reliable
              \/ req[r].result = "none" /\ req[r].unasked
         /\ req[r].pc = "failed" => ~Inside(r)
         /\ ~req[r].unasked => \A i \in DOMAIN req[r].chain :
              i < req[r].pos => req[r].chain[i] \notin Reliable

-----------------------------------------------------------------------------
RequestStep(r) == Start(r) \/ Acquire(r) \/ Progress(r) \/ Cancel(r)

(* A model's chain is a sequence of providers.                             *)
LEMMA ChainsType == Chains \subseteq Seq(Provider) \ {<<>>}
BY TrafficAssumption DEF Chains

(* The fields of a request's progress, and the updates that keep them.     *)
LEMMA JourneyFields ==
  ASSUME NEW v \in Journey
  PROVE  /\ v.pc \in Place /\ v.chain \in Chains \cup {<<>>} /\ v.pos \in Nat
         /\ v.kind \in {"chat", "stream"} /\ v.cancelled \in BOOLEAN
         /\ v.limit \in Int /\ v.attempts \in Nat
         /\ v.result \in {"none", "ok", "error"}
         /\ v.retries \in Int /\ v.repeats \in Nat /\ v.unasked \in BOOLEAN
BY DEF Journey

(* A request's record has these fields and no others.                      *)
LEMMA JourneyDomain ==
  ASSUME NEW v \in Journey
  PROVE  /\ DOMAIN v = {"pc", "chain", "pos", "kind", "cancelled", "limit", "attempts",
                        "result", "retries", "repeats", "unasked"}
         /\ v = [f \in DOMAIN v |-> v[f]]
BY DEF Journey

(* A field that gets a value of its type keeps the record's type.          *)
LEMMA JourneyUpdates ==
  ASSUME NEW v \in Journey
  PROVE  /\ \A p \in Place : [v EXCEPT !.pc = p] \in Journey
         /\ \A n \in Nat : /\ [v EXCEPT !.pos = n] \in Journey
                           /\ [v EXCEPT !.attempts = n] \in Journey
                           /\ [v EXCEPT !.repeats = n] \in Journey
         /\ \A i \in Int : /\ [v EXCEPT !.limit = i] \in Journey
                           /\ [v EXCEPT !.retries = i] \in Journey
         /\ \A t \in {"none", "ok", "error"} : [v EXCEPT !.result = t] \in Journey
         /\ \A c \in Chains : [v EXCEPT !.chain = c] \in Journey
         /\ \A k \in {"chat", "stream"} : [v EXCEPT !.kind = k] \in Journey
         /\ [v EXCEPT !.cancelled = TRUE] \in Journey
         /\ [v EXCEPT !.unasked = TRUE] \in Journey
BY DEF Journey

(* An idle request's record has the type.                                  *)
LEMMA IdleType == Idle \in Journey
BY DEF Idle, Journey, Place

(* What a request inside the loop stands on.                               *)
LEMMA EndpointType ==
  ASSUME TypeOK, Placed, NEW r \in Request
  PROVE  /\ req[r].chain \in Seq(Provider)
         /\ Len(req[r].chain) \in Nat
         /\ req[r].pos \in Nat \ {0}
         /\ Inside(r) => Here(r) \in Provider
<1>1. req[r] \in Journey
  BY DEF TypeOK
<1>2. req[r].pos \in Nat \ {0} /\ req[r].chain \in Chains \cup {<<>>}
  BY <1>1, JourneyFields DEF Placed
<1>3. req[r].chain \in Seq(Provider)
  BY <1>2, ChainsType, <<>> \in Seq(Provider)
<1> QED  BY <1>2, <1>3 DEF Inside, Here

(* A step of a request moves that request only, from type to type.         *)
LEMMA Moves ==
  ASSUME TypeOK, NEW r \in Request, RequestStep(r)
  PROVE  /\ req' = [req EXCEPT ![r] = req'[r]]
         /\ req'[r] \in Journey
<1>0. /\ req[r] \in Journey
      /\ req[r].pos + 1 \in Nat /\ req[r].attempts + 1 \in Nat
      /\ req[r].repeats \in Nat /\ req[r].repeats + 1 \in Nat
      /\ req[r].retries + req[r].attempts - 1 \in Int
      /\ maxAttempts \in Int
  BY JourneyFields, LimitsAssumption DEF TypeOK
<1> DEFINE Moved == req' = [req EXCEPT ![r] = req'[r]] /\ req'[r] \in Journey
<1> USE <1>0, JourneyUpdates DEF TypeOK, Place
<1>1. ASSUME Start(r) PROVE Moved
  <2>1. PICK c \in Chains, k \in {"chat", "stream"} :
          req' = [req EXCEPT ![r] = [Idle EXCEPT !.pc = "routing", !.chain = c, !.kind = k]]
    BY <1>1, TrafficAssumption DEF Start, Chains
  <2>2. [Idle EXCEPT !.pc = "routing", !.chain = c, !.kind = k] \in Journey
    BY IdleType
  <2> QED  BY <2>1, <2>2
<1>2. ASSUME Acquire(r) PROVE Moved
  <2>1. CASE req[r].kind = "chat"
    <3>1. req' = [req EXCEPT ![r].pc = "attempting", ![r].limit = maxAttempts,
                             ![r].attempts = 0]
      BY <1>2, <2>1 DEF Acquire
    <3> QED  BY <3>1, JourneyFields
  <2>2. CASE req[r].kind # "chat"
    <3>1. req' = [req EXCEPT ![r].pc = "opening", ![r].limit = maxAttempts,
                             ![r].attempts = 1]
      BY <1>2, <2>2 DEF Acquire
    <3> QED  BY <3>1
  <2> QED  BY <2>1, <2>2
<1>3. ASSUME Admit(r) PROVE Moved
  BY <1>3 DEF Admit
<1>4. ASSUME Skip(r) PROVE Moved
  BY <1>4 DEF Skip
<1>5. ASSUME AllFailed(r) PROVE Moved
  BY <1>5 DEF AllFailed
<1>6. ASSUME AcquireCancelled(r) PROVE Moved
  BY <1>6 DEF AcquireCancelled
<1>7. ASSUME Release(r) PROVE Moved
  BY <1>7 DEF Release
<1>8. ASSUME RecordSuccess(r) PROVE Moved
  BY <1>8 DEF RecordSuccess
<1>9. ASSUME RecordFailure(r) PROVE Moved
  BY <1>9 DEF RecordFailure
<1>10. ASSUME WrongType(r) PROVE Moved
  BY <1>10 DEF WrongType
<1>11. ASSUME Attempt(r) PROVE Moved
  <2>1. PICK n \in Nat : req' = [req EXCEPT ![r].pc = "calling", ![r].attempts = @ + 1,
                                            ![r].repeats = n]
    BY <1>11 DEF Attempt
  <2> QED  BY <2>1
<1>12. ASSUME AttemptCancelled(r) PROVE Moved
  BY <1>12 DEF AttemptCancelled
<1>13. ASSUME NEW t \in {"none", "ok", "error"}, Settle(r, t) PROVE Moved
  BY <1>13 DEF Settle
<1>14. ASSUME CallFailsRetryably(r) \/ BackoffOver(r) PROVE Moved
  BY <1>14 DEF CallFailsRetryably, BackoffOver
<1>15. ASSUME OpenSucceeds(r) \/ StreamEnds(r) PROVE Moved
  BY <1>15 DEF OpenSucceeds, StreamEnds
<1>16. ASSUME Finish(r) PROVE Moved
  BY <1>16, IdleType DEF Finish
<1>17. ASSUME Cancel(r) PROVE Moved
  BY <1>17 DEF Cancel
<1>18. ASSUME NoAttempts(r) PROVE Moved
  BY <1>18 DEF NoAttempts
<1> HIDE DEF Moved, TypeOK, Place
<1> QED
  BY <1>1, <1>2, <1>3, <1>4, <1>5, <1>6, <1>7, <1>8, <1>9, <1>10, <1>11, <1>12,
     <1>13, <1>14, <1>15, <1>16, <1>17, <1>18
  DEF RequestStep, Progress, Route, ExecuteChat, ExecuteChatStream,
      CallSucceeds, CallFailsFinally, BackoffCancelled, OpenFails, Moved

(* The others stay where they are.                                         *)
LEMMA Others ==
  ASSUME TypeOK, NEW r \in Request, RequestStep(r), NEW q \in Request, q # r
  PROVE  req'[q] = req[q]
BY Moves DEF TypeOK

(* Every step of a request leaves it at an endpoint of its chain.          *)
LEMMA PlacedStep ==
  ASSUME TypeOK, Placed, NEW r \in Request, RequestStep(r)
  PROVE  Placed'
<1> DEFINE P == /\ req'[r].pos >= 1
                /\ req'[r].pc \in OnEndpoint => Inside(r)' /\ Here(r)' \in Registered
<1>0. /\ req[r] \in Journey
      /\ req[r].pos \in Nat \ {0} /\ Len(req[r].chain) \in Nat
      /\ req[r].pc \in OnEndpoint => Inside(r) /\ Here(r) \in Registered
      /\ req \in [Request -> Journey]
  BY EndpointType DEF TypeOK, Placed
<1>s. ASSUME req'[r].chain = req[r].chain, req'[r].pos = req[r].pos
      PROVE  (Inside(r)' <=> Inside(r)) /\ Here(r)' = Here(r)
  BY <1>s DEF Inside, Here
<1>1. ASSUME /\ req'[r].chain = req[r].chain /\ req'[r].pos = req[r].pos
             /\ req[r].pc \in OnEndpoint \/ req'[r].pc \notin OnEndpoint
      PROVE  P
  BY <1>0, <1>1, <1>s
<1>2. ASSUME req'[r].pos >= 1 /\ req'[r].pc \notin OnEndpoint
      PROVE  P
  BY <1>2
<1> HIDE DEF P
<1> USE <1>0, JourneyDomain DEF OnEndpoint, Holding
<1>3. ASSUME Start(r) \/ Finish(r) PROVE P
  <2>1. req'[r].pos = 1 /\ req'[r].pc \in {"routing", "idle"}
    <3>1. Start(r) => req'[r].pos = 1 /\ req'[r].pc = "routing"
      BY DEF Start, Idle
    <3>2. Finish(r) => req'[r].pos = 1 /\ req'[r].pc = "idle"
      BY DEF Finish, Idle
    <3> QED  BY <1>3, <3>1, <3>2
  <2> QED  BY <1>2, <2>1
<1>4. ASSUME Acquire(r) PROVE P
  <2>1. /\ req'[r].chain = req[r].chain /\ req'[r].pos = req[r].pos
        /\ req[r].pc = "acquiring"
    BY <1>4 DEF Acquire, At
  <2> QED  BY <1>1, <2>1
<1>5. ASSUME Admit(r) PROVE P
  <2>1. /\ req'[r].chain = req[r].chain /\ req'[r].pos = req[r].pos
        /\ Inside(r) /\ Here(r) \in Registered
    BY <1>5 DEF Admit, MayTry
  <2> QED  BY <1>s, <2>1 DEF P
<1>6. ASSUME Skip(r) \/ AcquireCancelled(r) PROVE P
  <2>1. req'[r].pos = req[r].pos + 1 /\ req'[r].pc = "routing"
    BY <1>6 DEF Skip, AcquireCancelled, At
  <2> QED  BY <1>2, <2>1
<1>7. ASSUME RecordFailure(r) PROVE P
  <2>1. req'[r].pos = req[r].pos + 1 /\ req'[r].pc = "routing"
    BY <1>7 DEF RecordFailure
  <2> QED  BY <1>2, <2>1
<1>8. ASSUME WrongType(r) PROVE P
  BY <1>2, <1>8 DEF WrongType
<1>9. ASSUME AllFailed(r) \/ RecordSuccess(r) \/ StreamEnds(r) PROVE P
  <2>1. AllFailed(r) => P
    BY <1>1 DEF AllFailed
  <2>2. RecordSuccess(r) => P
    BY <1>1 DEF RecordSuccess
  <2>3. StreamEnds(r) => P
    BY <1>1 DEF StreamEnds
  <2> QED  BY <1>9, <2>1, <2>2, <2>3
<1>10. ASSUME Attempt(r) \/ AttemptCancelled(r) \/ NoAttempts(r) \/ Release(r) PROVE P
  <2>1. req'[r].chain = req[r].chain /\ req'[r].pos = req[r].pos /\ req[r].pc \in OnEndpoint
    BY <1>10 DEF Attempt, AttemptCancelled, NoAttempts, Release, At
  <2> QED  BY <1>1, <2>1
<1>11. ASSUME req[r].pc \in OnEndpoint, NEW t, Settle(r, t) PROVE P
  <2>1. req'[r].chain = req[r].chain /\ req'[r].pos = req[r].pos
    BY <1>11 DEF Settle
  <2> QED  BY <1>1, <1>11, <2>1
<1>12. ASSUME CallFailsRetryably(r) \/ BackoffOver(r) \/ OpenSucceeds(r) PROVE P
  <2>1. CallFailsRetryably(r) => P
    BY <1>1 DEF CallFailsRetryably, At
  <2>2. BackoffOver(r) => P
    BY <1>1 DEF BackoffOver, At
  <2>3. OpenSucceeds(r) => P
    BY <1>1 DEF OpenSucceeds, At
  <2> QED  BY <1>12, <2>1, <2>2, <2>3
<1>13. ASSUME Cancel(r) PROVE P
  BY <1>1, <1>13 DEF Cancel
<1>14. P
  BY <1>3, <1>4, <1>5, <1>6, <1>7, <1>8, <1>9, <1>10, <1>11, <1>12, <1>13
  DEF RequestStep, Progress, Route, ExecuteChat, ExecuteChatStream,
      CallSucceeds, CallFailsFinally, BackoffCancelled, OpenFails, At
<1> QED  BY <1>14, Others DEF Placed, P, Inside, Here

-----------------------------------------------------------------------------
(* The requests that hold a slot of a provider.                            *)
Holders(p) == {r \in Request : req[r].pc \in Holding /\ Here(r) = p}

(* The requests that hold a slot of a provider can be counted.             *)
LEMMA HoldersFinite ==
  \A p : IsFiniteSet(Holders(p)) /\ Cardinality(Holders(p)) \in Nat
BY RequestAssumption, FS_Subset, FS_CardinalityType DEF Holders

(* A request takes a slot, gives one back, or neither.                     *)
LEMMA Takes ==
  ASSUME TypeOK, Placed, SlotsMatch, NEW r \in Request, Acquire(r)
  PROVE  SlotsMatch' /\ slots' \in [Provider -> 0 .. Capacity]
<1>0. /\ req[r] \in Journey /\ req \in [Request -> Journey]
      /\ Here(r) \in Provider /\ req[r].pc = "acquiring"
      /\ slots' = [slots EXCEPT ![Here(r)] = @ + 1]
      /\ slots[Here(r)] < Capacity
  BY ProviderAssumption DEF TypeOK, Placed, OnEndpoint, Acquire, At, Free
<1>1. /\ req'[r].chain = req[r].chain /\ req'[r].pos = req[r].pos
      /\ req'[r].pc \in {"attempting", "opening"}
  BY <1>0, JourneyDomain DEF Acquire
<1>2. \A q \in Request : q # r => req'[q] = req[q]
  BY Others DEF RequestStep
<1>3. \A p \in Provider :
        Holders(p)' = IF p = Here(r) THEN Holders(p) \cup {r} ELSE Holders(p)
  BY <1>0, <1>1, <1>2 DEF Holders, Here, Holding
<1>4. r \notin Holders(Here(r))
  BY <1>0 DEF Holders, Holding
<1>5. Cardinality(Holders(Here(r)) \cup {r}) = Cardinality(Holders(Here(r))) + 1
  BY <1>4, HoldersFinite, FS_AddElement
<1>6. \A p \in Provider : slots'[p] = Cardinality(Holders(p)')
  BY <1>0, <1>3, <1>5 DEF SlotsMatch, TypeOK, Holders
<1>7. slots[Here(r)] + 1 \in 0 .. Capacity
  BY <1>0, LimitsAssumption DEF TypeOK
<1> QED  BY <1>0, <1>6, <1>7 DEF SlotsMatch, TypeOK, Holders

(* A release gives back one slot, that of the request's own provider.      *)
LEMMA GivesBack ==
  ASSUME TypeOK, Placed, SlotsMatch, NEW r \in Request, Release(r) \/ StreamEnds(r)
  PROVE  SlotsMatch' /\ slots' \in [Provider -> 0 .. Capacity]
<1>0. /\ req[r] \in Journey /\ req \in [Request -> Journey]
      /\ Here(r) \in Provider /\ req[r].pc \in Holding
      /\ slots' = [slots EXCEPT ![Here(r)] = @ - 1]
  BY ProviderAssumption
  DEF TypeOK, Placed, OnEndpoint, Holding, Release, StreamEnds, At
<1>1. req'[r].pc \in {"recording", "served"}
  BY <1>0, JourneyDomain DEF Release, StreamEnds
<1>2. \A q \in Request : q # r => req'[q] = req[q]
  BY Others DEF RequestStep, Progress, Route, ExecuteChatStream
<1>3. \A p \in Provider :
        Holders(p)' = IF p = Here(r) THEN Holders(p) \ {r} ELSE Holders(p)
  BY <1>0, <1>1, <1>2 DEF Holders, Here, Holding
<1>4. r \in Holders(Here(r))
  BY <1>0 DEF Holders
<1>5. /\ Cardinality(Holders(Here(r)) \ {r}) = Cardinality(Holders(Here(r))) - 1
      /\ Cardinality(Holders(Here(r))) # 0
  BY <1>4, HoldersFinite, FS_RemoveElement, FS_EmptySet
<1>6. \A p \in Provider : slots'[p] = Cardinality(Holders(p)')
  BY <1>0, <1>3, <1>5 DEF SlotsMatch, TypeOK, Holders
<1>7. slots[Here(r)] = Cardinality(Holders(Here(r)))
  BY <1>0 DEF SlotsMatch, Holders
<1>8. slots[Here(r)] - 1 \in 0 .. Capacity
  BY <1>0, <1>5, <1>7, HoldersFinite, LimitsAssumption DEF TypeOK
<1> QED  BY <1>0, <1>6, <1>8 DEF SlotsMatch, TypeOK, Holders

(* No other step takes or gives back a slot.                               *)
LEMMA KeepsSlots ==
  ASSUME TypeOK, Placed, SlotsMatch, NEW r \in Request,
         RequestStep(r), ~Acquire(r), ~Release(r), ~StreamEnds(r)
  PROVE  SlotsMatch' /\ slots' = slots
<1> DEFINE Same == /\ slots' = slots
                   /\ req'[r].pc \in Holding <=> req[r].pc \in Holding
                   /\ req[r].pc \in Holding => Here(r)' = Here(r)
<1>0. req[r] \in Journey /\ req \in [Request -> Journey]
  BY DEF TypeOK
<1> USE <1>0, JourneyDomain DEF Holding, At
<1>1. ASSUME Start(r) PROVE Same
  BY <1>1 DEF Start, Idle
<1>2. ASSUME Finish(r) PROVE Same
  BY <1>2 DEF Finish, Idle
<1>3. ASSUME Admit(r) \/ Skip(r) \/ AcquireCancelled(r) PROVE Same
  BY <1>3 DEF Admit, Skip, AcquireCancelled
<1>4. ASSUME AllFailed(r) \/ RecordSuccess(r) PROVE Same
  BY <1>4 DEF AllFailed, RecordSuccess
<1>5. ASSUME RecordFailure(r) PROVE Same
  BY <1>5 DEF RecordFailure
<1>6. ASSUME WrongType(r) PROVE Same
  BY <1>6 DEF WrongType
<1>7. ASSUME Attempt(r) \/ AttemptCancelled(r) \/ NoAttempts(r) PROVE Same
  BY <1>7 DEF Attempt, AttemptCancelled, NoAttempts, Here
<1>8. ASSUME req[r].pc \in Holding, NEW t, Settle(r, t) PROVE Same
  BY <1>8 DEF Settle, Here
<1>9. ASSUME CallFailsRetryably(r) \/ BackoffOver(r) PROVE Same
  BY <1>9 DEF CallFailsRetryably, BackoffOver, Here
<1>10. ASSUME OpenSucceeds(r) PROVE Same
  BY <1>10 DEF OpenSucceeds, Here
<1>11. ASSUME Cancel(r) PROVE Same
  BY <1>11 DEF Cancel, Here
<1>12. Same
  BY <1>1, <1>2, <1>3, <1>4, <1>5, <1>6, <1>7, <1>8, <1>9, <1>10, <1>11
  DEF RequestStep, Progress, Route, ExecuteChat, ExecuteChatStream,
      CallSucceeds, CallFailsFinally, BackoffCancelled, OpenFails
<1>13. \A p \in Provider : Holders(p)' = Holders(p)
  BY <1>12, Others DEF Holders, Here
<1> QED  BY <1>12, <1>13 DEF SlotsMatch, Holders

-----------------------------------------------------------------------------
(* Every step keeps the breakers' types.                                   *)
LEMMA BreakersStep ==
  ASSUME TypeOK, Placed, NEW r \in Request, RequestStep(r)
  PROVE  /\ breaker' \in [Registered -> Breaker]
         /\ expired' \in [Registered -> BOOLEAN]
<1>0. /\ breaker \in [Registered -> Breaker] /\ expired \in [Registered -> BOOLEAN]
      /\ BreakerConfig \in Config
      /\ req[r].pc \in OnEndpoint => Here(r) \in Registered
  BY LimitsAssumption DEF TypeOK, Placed
<1>1. CASE Admit(r)
  <2>1. AfterAllow(breaker[Here(r)]) \in Breaker
    BY <1>0, <1>1, AllowType DEF Admit, MayTry
  <2> QED  BY <1>0, <1>1, <2>1 DEF Admit
<1>2. CASE RecordSuccess(r) \/ OpenSucceeds(r)
  <2>1. OnSuccess(breaker[Here(r)], BreakerConfig) \in Breaker
    BY <1>0, <1>2, SuccessType DEF RecordSuccess, OpenSucceeds, At, OnEndpoint, Holding
  <2> QED  BY <1>0, <1>2, <2>1 DEF RecordSuccess, OpenSucceeds
<1>3. CASE RecordFailure(r)
  <2>1. OnFailure(breaker[Here(r)], BreakerConfig) \in Breaker
    BY <1>0, <1>3, FailureType DEF RecordFailure, At, OnEndpoint
  <2> QED  BY <1>0, <1>3, <2>1 DEF RecordFailure
<1>4. CASE UNCHANGED <<breaker, expired>>
  BY <1>0, <1>4
<1> QED
  BY <1>1, <1>2, <1>3, <1>4
  DEF RequestStep, Start, Acquire, Progress, Route, Skip, AllFailed,
      AcquireCancelled, Release, WrongType, ExecuteChat, Attempt, AttemptCancelled,
      NoAttempts, CallSucceeds, CallFailsFinally, CallFailsRetryably, BackoffOver,
      BackoffCancelled, Settle, ExecuteChatStream, OpenFails, StreamEnds, Finish, Cancel

(* No step changes the limit of attempts; cancellations stay bounded.      *)
LEMMA CancelsStep ==
  ASSUME TypeOK, NEW r \in Request, RequestStep(r)
  PROVE  /\ maxAttempts' = maxAttempts
         /\ cancels' \in 0 .. MaxCancels
<1>1. CASE Cancel(r)
  BY <1>1, LimitsAssumption DEF Cancel, TypeOK
<1>2. CASE ~Cancel(r)
  BY <1>2
  DEF TypeOK, RequestStep, Start, Acquire, Progress, Route, Admit, Skip, AllFailed,
      AcquireCancelled, Release, RecordSuccess, RecordFailure, WrongType, ExecuteChat,
      Attempt, AttemptCancelled, NoAttempts, CallSucceeds, CallFailsFinally,
      CallFailsRetryably, BackoffOver, BackoffCancelled, Settle, ExecuteChatStream,
      OpenSucceeds, OpenFails, StreamEnds, Finish
<1> QED  BY <1>1, <1>2

(* Types, places and slots depend on each other: a slot is given back only *)
(* where one was counted, and counted at the endpoint the request is at.   *)
LEMMA SlotsStep ==
  ASSUME TypeOK, Placed, SlotsMatch, [Next]_vars
  PROVE  TypeOK' /\ Placed' /\ SlotsMatch'
<1>1. ASSUME NEW r \in Request, RequestStep(r)
      PROVE  TypeOK' /\ Placed' /\ SlotsMatch'
  <2>1. SlotsMatch' /\ slots' \in [Provider -> 0 .. Capacity]
    BY <1>1, Takes, GivesBack, KeepsSlots DEF TypeOK
  <2>2. req' \in [Request -> Journey]
    BY <1>1, Moves DEF TypeOK
  <2>3. TypeOK'
    BY <1>1, <2>1, <2>2, BreakersStep, CancelsStep DEF TypeOK
  <2> QED  BY <1>1, <2>1, <2>3, PlacedStep
<1>2. ASSUME NEW p \in Registered, Expire(p)
      PROVE  TypeOK' /\ Placed' /\ SlotsMatch'
  BY <1>2 DEF Expire, TypeOK, Placed, SlotsMatch, Inside, Here
<1>3. CASE UpdateRetryConfig
  BY <1>3 DEF UpdateRetryConfig, TypeOK, Placed, SlotsMatch, Inside, Here
<1>4. CASE UNCHANGED vars
  BY <1>4 DEF vars, TypeOK, Placed, SlotsMatch, Inside, Here
<1> QED  BY <1>1, <1>2, <1>3, <1>4 DEF Next, RequestStep

(* At first no slot is taken.                                              *)
LEMMA SlotsInit == Init => TypeOK /\ Placed /\ SlotsMatch
<1> SUFFICES ASSUME Init PROVE TypeOK /\ Placed /\ SlotsMatch
  OBVIOUS
<1>1. \A r \in Request : req[r] = Idle
  BY DEF Init
<1>2. TypeOK
  <2>1. NewCircuitBreaker \in Breaker
    BY DEF NewCircuitBreaker, InState, Breaker, State
  <2> QED  BY <2>1, IdleType, LimitsAssumption DEF Init, TypeOK
<1>3. Placed
  BY <1>1 DEF Placed, Idle, OnEndpoint, Holding
<1>4. \A p \in Provider : Holders(p) = {}
  BY <1>1 DEF Holders, Idle, Holding
<1>5. SlotsMatch
  BY <1>4, FS_EmptySet DEF Init, SlotsMatch, Holders
<1> QED  BY <1>2, <1>3, <1>5

(* Types, places and slots are right in every reachable state.             *)
LEMMA Based == Spec => [](TypeOK /\ Placed /\ SlotsMatch)
BY SlotsInit, SlotsStep, PTL DEF Spec

(* Every variable keeps its type; a semaphore never counts more slots than *)
(* its capacity or fewer than none.                                        *)
THEOREM TypeCorrect == Spec => []TypeOK
BY Based, PTL

(* A provider's slots are those of the requests that hold one, on every    *)
(* path through retries, fallbacks, cancellations and streams.             *)
THEOREM SlotsKept == Spec => []SlotsMatch
BY Based, PTL

-----------------------------------------------------------------------------
(* What a step of a request does to its accounts, and what it looks at.    *)
LEMMA TrackedStep ==
  ASSUME TypeOK, KindFits, Tracked, NEW r \in Request, RequestStep(r)
  PROVE  KindFits' /\ Tracked'
<1> DEFINE old == req[r]
           new == req'[r]
           Kind == /\ new.pc \in RetryPlace => new.kind = "chat"
                   /\ new.pc \in StreamPlace => new.kind = "stream" /\ new.attempts = 1
           Account == /\ Matched(r)' \/ Hopeless(r)' \/ new.unasked
                      /\ new.result = "ok" => new.pc \in {"releasing", "recording", "served"}
           Kept == new.kind = old.kind /\ new.cancelled = old.cancelled
           Even == /\ new.repeats = old.repeats /\ new.unasked = old.unasked
                   /\ new.retries = old.retries /\ new.attempts = old.attempts
<1>0. /\ req \in [Request -> Journey] /\ old \in Journey
      /\ old.attempts \in Nat /\ old.retries \in Int
      /\ old.repeats \in Nat /\ old.unasked \in BOOLEAN
      /\ old.kind \in {"chat", "stream"}
  BY JourneyFields DEF TypeOK
<1>k. /\ old.pc \in RetryPlace => old.kind = "chat"
      /\ old.pc \in StreamPlace => old.kind = "stream" /\ old.attempts = 1
      /\ Matched(r) \/ Hopeless(r) \/ old.unasked
      /\ old.result = "ok" => old.pc \in {"releasing", "recording", "served"}
  BY DEF KindFits, Tracked
<1>e. ASSUME Kept, Even, new.result = old.result,
             old.pc \in Holding <=> new.pc \in Holding,
             new.pc \notin {"calling", "backoff", "releasing", "served"}
      PROVE  Matched(r)' \/ Hopeless(r)' \/ new.unasked
  BY <1>e, <1>k DEF Matched, Hopeless
<1> HIDE DEF Kind, Account
<1> USE <1>0, JourneyDomain DEF RetryPlace, StreamPlace, Holding
<1>1. ASSUME Start(r) \/ Finish(r) PROVE Kind /\ Account
  <2>1. /\ new.pc \in {"routing", "idle"} /\ new.result = "none"
        /\ new.repeats = 0 /\ new.retries = 0
    <3>1. CASE Start(r)
      BY <3>1 DEF Start, Idle
    <3>2. CASE Finish(r)
      BY <3>2 DEF Finish, Idle
    <3> QED  BY <1>1, <3>1, <3>2
  <2> QED  BY <2>1 DEF Kind, Account, Matched
<1>2. ASSUME Acquire(r) PROVE Kind /\ Account
  <2>1. /\ Kept /\ old.pc = "acquiring" /\ new.unasked = old.unasked
        /\ new.retries = old.retries /\ new.repeats = old.repeats
        /\ new.result = old.result
    BY <1>2 DEF Acquire, At
  <2>2. CASE old.kind = "chat"
    <3>1. new.pc = "attempting" /\ new.attempts = 0
      BY <1>2, <2>2 DEF Acquire
    <3> QED  BY <1>k, <2>1, <2>2, <3>1 DEF Kind, Account, Matched, Hopeless
  <2>3. CASE old.kind = "stream"
    <3>1. new.pc = "opening" /\ new.attempts = 1
      BY <1>2, <2>3 DEF Acquire
    <3> QED  BY <1>k, <2>1, <2>3, <3>1 DEF Kind, Account, Matched, Hopeless
  <2> QED  BY <2>2, <2>3
<1>3. ASSUME Admit(r) \/ Skip(r) \/ AllFailed(r) \/ AcquireCancelled(r)
      PROVE  Kind /\ Account
  <2>1. /\ Kept /\ Even /\ new.result = old.result
        /\ old.pc \in {"routing", "acquiring"}
        /\ new.pc \in {"routing", "acquiring", "failed"}
    <3>1. CASE Admit(r)
      BY <3>1 DEF Admit, At
    <3>2. CASE Skip(r)
      BY <3>2 DEF Skip, At
    <3>3. CASE AllFailed(r)
      BY <3>3 DEF AllFailed, At
    <3>4. CASE AcquireCancelled(r)
      BY <3>4 DEF AcquireCancelled, At
    <3> QED  BY <1>3, <3>1, <3>2, <3>3, <3>4
  <2> QED  BY <1>k, <1>e, <2>1 DEF Kind, Account
<1>4. ASSUME Release(r) PROVE Kind /\ Account
  <2>1. /\ Kept /\ old.pc = "releasing" /\ new.pc = "recording"
        /\ new.result = old.result /\ new.repeats = old.repeats
        /\ new.unasked = old.unasked
        /\ new.retries = old.retries + old.attempts - 1
    BY <1>4 DEF Release, At
  <2> QED  BY <1>k, <2>1 DEF Kind, Account, Matched, Hopeless
<1>5. ASSUME RecordSuccess(r) PROVE Kind /\ Account
  <2>1. /\ Kept /\ Even /\ old.pc = "recording" /\ new.pc = "served"
        /\ old.result = "ok" /\ new.result = "ok"
    BY <1>5 DEF RecordSuccess, At
  <2> QED  BY <1>k, <2>1 DEF Kind, Account, Matched, Hopeless
<1>6. ASSUME RecordFailure(r) \/ WrongType(r) PROVE Kind /\ Account
  <2>1. /\ Kept /\ Even /\ old.pc = "recording" /\ new.pc = "routing"
        /\ old.result # "ok" /\ new.result = "none"
    <3>1. CASE RecordFailure(r)
      BY <3>1 DEF RecordFailure, At
    <3>2. CASE WrongType(r)
      BY <3>2 DEF WrongType, At
    <3> QED  BY <1>6, <3>1, <3>2
  <2> QED  BY <1>k, <2>1 DEF Kind, Account, Matched, Hopeless
<1>7. ASSUME Attempt(r) PROVE Kind /\ Account
  <2>1. /\ Kept /\ ~old.cancelled /\ old.pc = "attempting" /\ new.pc = "calling"
        /\ new.result = old.result /\ new.attempts = old.attempts + 1
        /\ new.repeats = IF old.attempts > 0 THEN old.repeats + 1 ELSE old.repeats
        /\ new.unasked = old.unasked /\ new.retries = old.retries
    BY <1>7 DEF Attempt, At
  <2> QED  BY <1>k, <2>1 DEF Kind, Account, Matched, Hopeless
<1>8. ASSUME AttemptCancelled(r) PROVE Kind /\ Account
  <2>1. /\ Kept /\ old.cancelled /\ old.pc = "attempting"
        /\ new.pc = "releasing" /\ new.result = "error"
    BY <1>8 DEF AttemptCancelled, At
  <2> QED  BY <1>k, <2>1 DEF Kind, Account, Hopeless
<1>14. ASSUME NoAttempts(r) PROVE Kind /\ Account
  <2>1. new.pc = "releasing" /\ new.result = "none" /\ new.unasked
    BY <1>14 DEF NoAttempts
  <2> QED  BY <2>1 DEF Kind, Account
<1>9. ASSUME NEW t \in {"none", "ok", "error"}, Settle(r, t),
             old.pc \in {"calling", "backoff", "opening"}, t = "ok" => old.pc = "calling"
      PROVE  Kind /\ Account
  <2>1. /\ Kept /\ Even /\ new.pc = "releasing" /\ new.result = t
    BY <1>9 DEF Settle
  <2>2. CASE t = "ok"
    BY <1>k, <1>9, <2>1, <2>2 DEF Kind, Account, Matched, Hopeless
  <2>3. CASE t # "ok"
    BY <1>k, <1>9, <2>1, <2>3 DEF Kind, Account, Matched, Hopeless
  <2> QED  BY <2>2, <2>3
<1>10. ASSUME CallFailsRetryably(r) \/ BackoffOver(r) PROVE Kind /\ Account
  <2>1. /\ Kept /\ Even /\ new.result = old.result
        /\ old.pc \in {"calling", "backoff"} /\ new.pc \in {"backoff", "attempting"}
    <3>1. CASE CallFailsRetryably(r)
      BY <3>1 DEF CallFailsRetryably, At
    <3>2. CASE BackoffOver(r)
      BY <3>2 DEF BackoffOver, At
    <3> QED  BY <1>10, <3>1, <3>2
  <2> QED  BY <1>k, <2>1 DEF Kind, Account, Matched, Hopeless
<1>11. ASSUME OpenSucceeds(r) \/ StreamEnds(r) PROVE Kind /\ Account
  <2>1. /\ Kept /\ Even /\ new.result = old.result
        /\ old.pc \in StreamPlace /\ new.pc \in {"streaming", "served"}
    <3>1. CASE OpenSucceeds(r)
      BY <3>1 DEF OpenSucceeds, At
    <3>2. CASE StreamEnds(r)
      BY <3>2 DEF StreamEnds, At
    <3> QED  BY <1>11, <3>1, <3>2
  <2>2. old.kind = "stream" /\ old.attempts = 1 /\ old.result # "ok"
    BY <1>k, <2>1
  <2> QED  BY <1>k, <2>1, <2>2 DEF Kind, Account, Matched, Hopeless
<1>12. ASSUME Cancel(r) PROVE Kind /\ Account
  <2>1. /\ Even /\ new.kind = old.kind /\ new.pc = old.pc
        /\ new.result = old.result /\ new.cancelled
    BY <1>12 DEF Cancel
  <2> QED  BY <1>k, <2>1 DEF Kind, Account, Matched, Hopeless
<1>13. Kind /\ Account
  BY <1>1, <1>2, <1>3, <1>4, <1>5, <1>6, <1>7, <1>8, <1>9, <1>10, <1>11, <1>12, <1>14
  DEF RequestStep, Progress, Route, ExecuteChat, ExecuteChatStream,
      CallSucceeds, CallFailsFinally, BackoffCancelled, OpenFails, At
<1> QED
  BY <1>13, Others DEF KindFits, Tracked, Kind, Account, Matched, Hopeless

(* The retries reported to a client are the calls that repeat one at the   *)
(* same endpoint, unless a limit below one kept the request from calling   *)
(* an endpoint: attempts that a cancelled request counts without making a  *)
(* call are never reported.                                                *)
THEOREM RetriesReported == Spec => []RetriesCounted
<1>1. Init => KindFits /\ Tracked
  BY DEF Init, Idle, KindFits, Tracked, Matched, Holding, RetryPlace, StreamPlace
<1>2. TypeOK /\ KindFits /\ Tracked /\ [Next]_vars => KindFits' /\ Tracked'
  <2> SUFFICES ASSUME TypeOK, KindFits, Tracked, [Next]_vars
               PROVE  KindFits' /\ Tracked'
    OBVIOUS
  <2>1. ASSUME NEW r \in Request, RequestStep(r) PROVE KindFits' /\ Tracked'
    BY <2>1, TrackedStep
  <2>2. CASE UNCHANGED req
    BY <2>2 DEF KindFits, Tracked, Matched, Hopeless
  <2> QED  BY <2>1, <2>2 DEF Next, RequestStep, Expire, UpdateRetryConfig, vars
<1>3. TypeOK /\ Tracked => RetriesCounted
  <2> SUFFICES ASSUME TypeOK, Tracked, NEW r \in Request, At(r, "served"), ~req[r].unasked
               PROVE  req[r].retries = req[r].repeats
    BY DEF RetriesCounted
  <2>1. req[r].retries \in Int /\ req[r].repeats \in Nat
    BY JourneyFields DEF TypeOK
  <2>2. Matched(r) /\ req[r].pc \notin Holding
    BY DEF Tracked, Hopeless, At, Holding
  <2> QED  BY <2>1, <2>2 DEF Matched
<1> QED  BY <1>1, <1>2, <1>3, TypeCorrect, PTL DEF Spec

-----------------------------------------------------------------------------
(* The part of Unharmed that is about one request.                         *)
Spared(r) ==
  /\ ~req[r].cancelled
  /\ req[r].pc \in {"releasing", "recording"} =>
       \/ req[r].result = "ok"
       \/ req[r].result = "error" /\ Here(r) \notin Reliable
       \/ req[r].result = "none" /\ req[r].unasked
  /\ req[r].pc = "failed" => ~Inside(r)
  /\ ~req[r].unasked => \A i \in DOMAIN req[r].chain :
       i < req[r].pos => req[r].chain[i] \notin Reliable

AllClosed == \A p \in Reliable : breaker[p].state = Closed

(* The breakers' part and the requests' part of the invariant.             *)
LEMMA UnharmedParts ==
  Unharmed <=> (cancels = 0 => AllClosed /\ \A r \in Request : Spared(r))
BY DEF Unharmed, AllClosed, Spared

(* A reliable provider's breaker hears of no failure.                      *)
LEMMA StaysClosed ==
  ASSUME TypeOK, Placed, AllClosed, NEW r \in Request, Spared(r), RequestStep(r)
  PROVE  AllClosed'
<1>0. /\ breaker \in [Registered -> Breaker] /\ BreakerConfig \in Config
      /\ Reliable \subseteq Registered
  BY LimitsAssumption, ProviderAssumption DEF TypeOK
<1>1. CASE Admit(r)
  BY <1>0, <1>1, ClosedStays DEF Admit, AllClosed
<1>2. CASE RecordSuccess(r) \/ OpenSucceeds(r)
  <2>1. breaker' = [breaker EXCEPT ![Here(r)] = OnSuccess(@, BreakerConfig)]
    BY <1>2 DEF RecordSuccess, OpenSucceeds
  <2> QED  BY <1>0, <2>1, ClosedStays DEF AllClosed
<1>3. CASE RecordFailure(r)
  <2>1. Here(r) \notin Reliable
    BY <1>3 DEF RecordFailure, At, Spared
  <2> QED  BY <1>0, <1>3, <2>1 DEF RecordFailure, AllClosed
<1>4. CASE UNCHANGED breaker
  BY <1>4 DEF AllClosed
<1> QED
  BY <1>1, <1>2, <1>3, <1>4
  DEF RequestStep, Start, Acquire, Progress, Route, Skip, AllFailed,
      AcquireCancelled, Release, WrongType, ExecuteChat, Attempt, AttemptCancelled,
      NoAttempts, CallSucceeds, CallFailsFinally, CallFailsRetryably, BackoffOver,
      BackoffCancelled, Settle, ExecuteChatStream, OpenFails, StreamEnds, Finish, Cancel

(* A request whose client waits passes no reliable provider by.            *)
LEMMA SparedStep ==
  ASSUME TypeOK, Placed, AllClosed, NEW r \in Request, Spared(r), RequestStep(r), ~Cancel(r)
  PROVE  Spared(r)'
<1> DEFINE old == req[r]
           new == req'[r]
           Stays == /\ new.chain = old.chain /\ new.pos = old.pos
                    /\ new.unasked = old.unasked
           Leaves == /\ new.chain = old.chain /\ new.pos = old.pos + 1
                     /\ new.unasked = old.unasked
<1>0. /\ req \in [Request -> Journey] /\ old \in Journey /\ ~old.cancelled
      /\ old.pos \in Nat \ {0} /\ Len(old.chain) \in Nat
      /\ old.chain \in Seq(Provider) /\ old.limit \in Int
      /\ old.pc \in OnEndpoint => Inside(r) /\ Here(r) \in Registered
  BY EndpointType, JourneyFields DEF TypeOK, Placed, Spared
<1>s. ASSUME Stays
      PROVE  /\ Here(r)' = Here(r) /\ (Inside(r)' <=> Inside(r))
             /\ ~new.unasked => \A i \in DOMAIN new.chain :
                  i < new.pos => new.chain[i] \notin Reliable
  BY <1>s DEF Here, Inside, Spared
<1>l. ASSUME Leaves, Here(r) \notin Reliable
      PROVE  ~new.unasked => \A i \in DOMAIN new.chain :
               i < new.pos => new.chain[i] \notin Reliable
  <2> SUFFICES ASSUME ~old.unasked, NEW i \in DOMAIN old.chain, i < old.pos + 1
               PROVE  old.chain[i] \notin Reliable
    BY <1>l
  <2>1. i \in Int
    BY <1>0
  <2>2. i < old.pos \/ i = old.pos
    BY <1>0, <2>1
  <2> QED  BY <1>l, <2>2 DEF Spared, Here
<1> USE <1>0, JourneyDomain
<1>1. ASSUME Start(r) PROVE Spared(r)'
  <2>1. PICK c \in Chains, k \in {"chat", "stream"} :
          req' = [req EXCEPT ![r] = [Idle EXCEPT !.pc = "routing", !.chain = c, !.kind = k]]
    BY <1>1, TrafficAssumption DEF Start, Chains
  <2>2. new.pc = "routing" /\ new.pos = 1 /\ new.chain = c /\ ~new.cancelled
    BY <2>1 DEF Idle
  <2>3. DOMAIN c \subseteq Nat \ {0}
    BY ChainsType
  <2> QED  BY <2>2, <2>3 DEF Spared
<1>2. ASSUME Finish(r) PROVE Spared(r)'
  <2>1. new.pc = "idle" /\ new.chain = <<>> /\ ~new.cancelled
    BY <1>2 DEF Finish, Idle
  <2> QED  BY <2>1 DEF Spared
<1>3. ASSUME Acquire(r) PROVE Spared(r)'
  <2>1. Stays /\ ~new.cancelled /\ new.pc \in {"attempting", "opening"}
    BY <1>3 DEF Acquire
  <2> QED  BY <1>s, <2>1 DEF Spared
<1>4. ASSUME Admit(r) PROVE Spared(r)'
  <2>1. Stays /\ ~new.cancelled /\ new.pc = "acquiring"
    BY <1>4 DEF Admit
  <2> QED  BY <1>s, <2>1 DEF Spared
<1>5. ASSUME Skip(r) PROVE Spared(r)'
  <2>1. Leaves /\ ~new.cancelled /\ new.pc = "routing"
    BY <1>5 DEF Skip, At
  <2>2. Here(r) \notin Reliable
    BY <1>5, ProviderAssumption, ClosedAdmits DEF Skip, MayTry, AllClosed
  <2> QED  BY <1>l, <2>1, <2>2 DEF Spared
<1>6. ASSUME AllFailed(r) PROVE Spared(r)'
  <2>1. Stays /\ ~new.cancelled /\ new.pc = "failed" /\ ~Inside(r)
    BY <1>6 DEF AllFailed
  <2> QED  BY <1>s, <2>1 DEF Spared
<1>7. ASSUME Release(r) PROVE Spared(r)'
  <2>1. /\ Stays /\ ~new.cancelled /\ old.pc = "releasing" /\ new.pc = "recording"
        /\ new.result = old.result
    BY <1>7 DEF Release, At
  <2> QED  BY <1>s, <2>1 DEF Spared
<1>8. ASSUME RecordSuccess(r) PROVE Spared(r)'
  <2>1. Stays /\ ~new.cancelled /\ new.pc = "served"
    BY <1>8 DEF RecordSuccess
  <2> QED  BY <1>s, <2>1 DEF Spared
<1>9. ASSUME RecordFailure(r) PROVE Spared(r)'
  <2>1. Leaves /\ ~new.cancelled /\ new.pc = "routing"
    BY <1>9 DEF RecordFailure
  <2>2. Here(r) \notin Reliable
    BY <1>9 DEF RecordFailure, At, Spared
  <2> QED  BY <1>l, <2>1, <2>2 DEF Spared
<1>10. ASSUME AcquireCancelled(r) \/ AttemptCancelled(r) \/ BackoffCancelled(r)
       PROVE  FALSE
  BY <1>10 DEF AcquireCancelled, AttemptCancelled, BackoffCancelled, Spared
<1>18. ASSUME NoAttempts(r) PROVE Spared(r)'
  <2>1. new.unasked /\ ~new.cancelled /\ new.pc = "releasing" /\ new.result = "none"
    BY <1>18 DEF NoAttempts
  <2> QED  BY <2>1 DEF Spared
<1>19. ASSUME WrongType(r) PROVE Spared(r)'
  <2>1. old.unasked
    BY <1>19 DEF WrongType, At, Spared
  <2>2. new.unasked /\ ~new.cancelled /\ new.pc = "routing"
    BY <1>19, <2>1 DEF WrongType
  <2> QED  BY <2>2 DEF Spared
<1>11. ASSUME Attempt(r) PROVE Spared(r)'
  <2>1. Stays /\ ~new.cancelled /\ new.pc = "calling"
    BY <1>11 DEF Attempt, At
  <2> QED  BY <1>s, <2>1 DEF Spared
<1>12. ASSUME CallSucceeds(r) PROVE Spared(r)'
  <2>1. Stays /\ ~new.cancelled /\ new.pc = "releasing" /\ new.result = "ok"
    BY <1>12 DEF CallSucceeds, Settle
  <2> QED  BY <1>s, <2>1 DEF Spared
<1>13. ASSUME CallFailsFinally(r) \/ OpenFails(r) PROVE Spared(r)'
  <2>1. Failures(r) # {} /\ Settle(r, "error")
    BY <1>13 DEF CallFailsFinally, OpenFails
  <2>2. Here(r) \notin Reliable
    BY <2>1 DEF Failures
  <2>3. Stays /\ ~new.cancelled /\ new.pc = "releasing" /\ new.result = "error"
    BY <2>1 DEF Settle
  <2> QED  BY <1>s, <2>2, <2>3 DEF Spared
<1>14. ASSUME CallFailsRetryably(r) PROVE Spared(r)'
  <2>1. Stays /\ ~new.cancelled /\ new.pc = "backoff"
    BY <1>14 DEF CallFailsRetryably, At
  <2> QED  BY <1>s, <2>1 DEF Spared
<1>15. ASSUME BackoffOver(r) PROVE Spared(r)'
  <2>1. Stays /\ ~new.cancelled /\ new.pc = "attempting"
    BY <1>15 DEF BackoffOver, At
  <2> QED  BY <1>s, <2>1 DEF Spared
<1>16. ASSUME OpenSucceeds(r) PROVE Spared(r)'
  <2>1. Stays /\ ~new.cancelled /\ new.pc = "streaming"
    BY <1>16 DEF OpenSucceeds
  <2> QED  BY <1>s, <2>1 DEF Spared
<1>17. ASSUME StreamEnds(r) PROVE Spared(r)'
  <2>1. Stays /\ ~new.cancelled /\ new.pc = "served"
    BY <1>17 DEF StreamEnds
  <2> QED  BY <1>s, <2>1 DEF Spared
<1> QED
  BY <1>1, <1>2, <1>3, <1>4, <1>5, <1>6, <1>7, <1>8, <1>9, <1>10, <1>11, <1>12,
     <1>13, <1>14, <1>15, <1>16, <1>17, <1>18, <1>19
  DEF RequestStep, Progress, Route, ExecuteChat, ExecuteChatStream

(* Every step keeps breakers of reliable providers closed, and passes none *)
(* by.                                                                     *)
LEMMA UnharmedStep ==
  ASSUME TypeOK, Placed, Unharmed, [Next]_vars
  PROVE  Unharmed'
<1>0. Unharmed' <=> (cancels' = 0 => AllClosed' /\ \A r \in Request : Spared(r)')
  BY DEF Unharmed, AllClosed, Spared
<1>1. ASSUME NEW r \in Request, RequestStep(r), ~Cancel(r) PROVE Unharmed'
  <2>1. cancels' = cancels
    BY <1>1
    DEF RequestStep, Start, Acquire, Progress, Route, Admit, Skip, AllFailed,
        AcquireCancelled, Release, RecordSuccess, RecordFailure, WrongType, ExecuteChat,
        Attempt, AttemptCancelled, NoAttempts, CallSucceeds, CallFailsFinally,
        CallFailsRetryably, BackoffOver, BackoffCancelled, Settle, ExecuteChatStream,
        OpenSucceeds, OpenFails, StreamEnds, Finish
  <2>2. ASSUME cancels = 0 PROVE AllClosed' /\ \A q \in Request : Spared(q)'
    <3>1. AllClosed /\ \A q \in Request : Spared(q)
      BY <2>2, UnharmedParts
    <3>2. AllClosed' /\ Spared(r)'
      BY <1>1, <3>1, StaysClosed, SparedStep
    <3>3. ASSUME NEW q \in Request, q # r PROVE Spared(q)'
      BY <1>1, <3>1, <3>3, Others DEF Spared, Here, Inside
    <3> QED  BY <3>2, <3>3
  <2> QED  BY <1>0, <2>1, <2>2
<1>2. ASSUME NEW r \in Request, Cancel(r) PROVE Unharmed'
  <2>1. cancels' # 0
    BY <1>2 DEF Cancel, TypeOK
  <2> QED  BY <1>0, <2>1
<1>3. CASE UNCHANGED <<req, breaker, cancels>>
  BY <1>3 DEF Unharmed, Here, Inside
<1> QED  BY <1>1, <1>2, <1>3 DEF Next, RequestStep, Expire, UpdateRetryConfig, vars

(* Until a client goes away, a request that was not kept from calling by a *)
(* limit below one fails only if its chain names no reliable provider: no  *)
(* failure of others, no full semaphore and no reload makes the router     *)
(* pass a provider by that would have answered.                            *)
THEOREM ReliableFound == Spec => [](cancels = 0 => ReliableServes)
<1>1. Init => Unharmed
  BY ProviderAssumption
  DEF Init, Idle, Unharmed, NewCircuitBreaker, InState
<1>2. TypeOK /\ Placed /\ Unharmed /\ [Next]_vars => Unharmed'
  BY UnharmedStep
<1>3. TypeOK /\ Placed /\ Unharmed => (cancels = 0 => ReliableServes)
  <2> SUFFICES ASSUME TypeOK, Placed, Unharmed, cancels = 0,
                      NEW r \in Request, At(r, "failed"), ~req[r].unasked, NEW i \in DOMAIN req[r].chain
               PROVE  req[r].chain[i] \notin Reliable
    BY DEF ReliableServes
  <2>1. /\ req[r].chain \in Seq(Provider) /\ Len(req[r].chain) \in Nat
        /\ req[r].pos \in Nat
    BY EndpointType
  <2>2. ~(req[r].pos <= Len(req[r].chain)) /\ i \in 1 .. Len(req[r].chain)
    BY <2>1 DEF Unharmed, At, Inside
  <2>3. i < req[r].pos
    BY <2>1, <2>2
  <2> QED  BY <2>3 DEF Unharmed
<1> QED  BY <1>1, <1>2, <1>3, Based, PTL DEF Spec

=============================================================================
