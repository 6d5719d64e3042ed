----------------------- MODULE CircuitBreaker_proofs -----------------------
(***************************************************************************)
(* For any number of callers, any set of configurations and any timeout:   *)
(* the types and the counters of the breaker, that it implements its       *)
(* contract, and how many requests an open or half-open period grants.     *)
(***************************************************************************)
EXTENDS CircuitBreakerHistory, FiniteSetTheorems, TLAPS

(* The operations on the breaker's fields keep their types.                *)
LEMMA TransitionType ==
  ASSUME NEW b \in Breaker, NEW s \in State
  PROVE  TransitionTo(b, s) \in Breaker
  BY DEF Breaker, TransitionTo, InState

(* A success keeps the fields' types.                                      *)
LEMMA SuccessType ==
  ASSUME NEW b \in Breaker, NEW c \in Config
  PROVE  OnSuccess(b, c) \in Breaker
<1>1. CASE b.state = Closed
  BY <1>1 DEF Breaker, OnSuccess, Closed, HalfOpen
<1>2. CASE b.state = HalfOpen /\ b.successCount + 1 >= c.successThreshold
  <2>1. OnSuccess(b, c) = TransitionTo(b, Closed)
    BY <1>2 DEF OnSuccess, Closed, HalfOpen
  <2> QED  BY <2>1, TransitionType DEF State
<1>3. CASE b.state = HalfOpen /\ ~(b.successCount + 1 >= c.successThreshold)
  <2>1. OnSuccess(b, c) = [b EXCEPT !.successCount = @ + 1]
    BY <1>3 DEF OnSuccess, Closed, HalfOpen
  <2> QED  BY <2>1 DEF Breaker
<1>4. CASE b.state # Closed /\ b.state # HalfOpen
  BY <1>4 DEF OnSuccess
<1> QED  BY <1>1, <1>2, <1>3, <1>4

(* A failure keeps the fields' types.                                      *)
LEMMA FailureType ==
  ASSUME NEW b \in Breaker, NEW c \in Config
  PROVE  OnFailure(b, c) \in Breaker
<1>1. CASE \/ b.state = Closed /\ b.failureCount + 1 >= c.failureThreshold
           \/ b.state = HalfOpen
  <2>1. OnFailure(b, c) = TransitionTo(b, Open)
    BY <1>1 DEF OnFailure, Closed, HalfOpen
  <2> QED  BY <2>1, TransitionType DEF State
<1>2. CASE b.state = Closed /\ ~(b.failureCount + 1 >= c.failureThreshold)
  <2>1. OnFailure(b, c) = [b EXCEPT !.failureCount = @ + 1]
    BY <1>2 DEF OnFailure, Closed, HalfOpen
  <2> QED  BY <2>1 DEF Breaker
<1>3. CASE b.state # Closed /\ b.state # HalfOpen
  BY <1>3 DEF OnFailure
<1> QED  BY <1>1, <1>2, <1>3

-----------------------------------------------------------------------------
(* Every variable keeps its type.                                          *)
THEOREM TypeCorrect == Spec => []TypeOK
<1>1. Init => TypeOK
  BY MaxTimeoutAssumption, MaxAbandonedAssumption
     DEF Init, TypeOK, Breaker, NewCircuitBreaker, InState, State, Age, Never,
         Place, NoSnapshot
<1>2. TypeOK /\ [Next]_vars => TypeOK'
  <2> SUFFICES ASSUME TypeOK, [Next]_vars PROVE TypeOK'
    OBVIOUS
  <2> USE MaxTimeoutAssumption, MaxAbandonedAssumption
  <2>0. config \in Config
    BY ConfigsAssumption DEF TypeOK
  <2>n. NoSnapshot \in [state : State, age : Age]
    BY DEF NoSnapshot, State, Age, Never
  <2>1. ASSUME NEW r \in Request, AllowLoad(r) PROVE TypeOK'
    BY <2>1 DEF AllowLoad, Goto, TypeOK, Place, Breaker
  <2>2. ASSUME NEW r \in Request, AllowClosed(r) PROVE TypeOK'
    BY <2>2, <2>n DEF AllowClosed, Goto, Forget, TypeOK, Place
  <2>3. ASSUME NEW r \in Request, AllowRejectOpen(r) PROVE TypeOK'
    BY <2>3, <2>n DEF AllowRejectOpen, Goto, Forget, TypeOK, Place
  <2>4. ASSUME NEW r \in Request, AllowTimedOut(r) PROVE TypeOK'
    BY <2>4, <2>n DEF AllowTimedOut, Goto, Forget, TypeOK, Place
  <2>5. ASSUME NEW r \in Request, AllowProbe(r) PROVE TypeOK'
    <3>1. cb' \in Breaker
      BY <2>5, TransitionType DEF AllowProbe, Probe, TypeOK, State
    <3> QED  BY <2>5, <3>1 DEF AllowProbe, Goto, TypeOK, Place
  <2>6. ASSUME NEW r \in Request, AllowHalfOpen(r) PROVE TypeOK'
    <3>1. cb' \in Breaker
      BY <2>6 DEF AllowHalfOpen, TypeOK, Breaker
    <3> QED  BY <2>6, <2>n, <3>1 DEF AllowHalfOpen, Goto, Forget, TypeOK, Place
  <2>7. ASSUME NEW r \in Request, AllowRejectHalfOpen(r) PROVE TypeOK'
    BY <2>7, <2>n DEF AllowRejectHalfOpen, Goto, Forget, TypeOK, Place
  <2>8. ASSUME NEW r \in Request, RecordSuccess(r) PROVE TypeOK'
    <3>1. cb' \in Breaker
      BY <2>0, <2>8, SuccessType DEF RecordSuccess, TypeOK
    <3> QED  BY <2>8, <3>1 DEF RecordSuccess, Goto, TypeOK, Place
  <2>9. ASSUME NEW r \in Request, RecordFailure(r) PROVE TypeOK'
    <3>1. cb' \in Breaker
      BY <2>0, <2>9, FailureType DEF RecordFailure, TypeOK
    <3> QED  BY <2>9, <3>1 DEF RecordFailure, Goto, TypeOK, Place, Age
  <2>10. ASSUME NEW r \in Request, Abandon(r) PROVE TypeOK'
    BY <2>10 DEF Abandon, Goto, TypeOK, Place
  <2>11. CASE UpdateConfig
    BY <2>11 DEF UpdateConfig, TypeOK
  <2>12. CASE Tick
    <3>1. ASSUME NEW t \in Age PROVE Older(t) \in Age
      BY DEF Older, Age, Never
    <3> QED  BY <2>12, <3>1 DEF Tick, TypeOK
  <2>13. CASE UNCHANGED vars
    BY <2>13 DEF vars, TypeOK
  <2> QED
    BY <2>1, <2>2, <2>3, <2>4, <2>5, <2>6, <2>7, <2>8, <2>9, <2>10, <2>11,
       <2>12, <2>13 DEF Next, RequestStep, Allow, Record
<1> QED  BY <1>1, <1>2, PTL DEF Spec

(* The counters belong to the period the breaker is in.  TypeOK makes the  *)
(* property inductive.                                                     *)
THEOREM CountersCorrect == Spec => []CountersFit
<1>1. Init => CountersFit
  BY DEF Init, CountersFit, NewCircuitBreaker, InState
<1>2. TypeOK /\ CountersFit /\ [Next]_vars => CountersFit'
  <2> SUFFICES ASSUME TypeOK, CountersFit, [Next]_vars PROVE CountersFit'
    OBVIOUS
  <2>0. config \in Configs /\ config \in Config /\ cb \in Breaker
    BY ConfigsAssumption DEF TypeOK
  <2>t. ASSUME NEW s \in State, cb' = TransitionTo(cb, s), s # cb.state
        PROVE  CountersFit'
    BY <2>t DEF TransitionTo, InState, CountersFit
  <2>1. CASE UNCHANGED cb
    BY <2>1 DEF CountersFit
  <2>2. ASSUME NEW r \in Request, AllowProbe(r) PROVE CountersFit'
    <3>1. CASE cb.state = Open
      BY <2>2, <3>1, <2>t DEF AllowProbe, Probe, State, Open, HalfOpen
    <3> QED  BY <2>2, <3>1, <2>1 DEF AllowProbe, Probe
  <2>3. ASSUME NEW r \in Request, AllowHalfOpen(r) PROVE CountersFit'
    <3>1. /\ cb'.state = cb.state
          /\ cb'.failureCount = cb.failureCount
          /\ cb'.successCount = cb.successCount
          /\ cb'.halfOpenRequests = cb.halfOpenRequests + 1
      BY <2>0, <2>3 DEF AllowHalfOpen, Breaker
    <3>2. cb.halfOpenRequests + 1 <= MaxRequests(config)
      BY <2>0, <2>3, DefaultHalfOpenMaxAssumption
      DEF AllowHalfOpen, SlotFree, MaxRequests, Breaker, Config
    <3> QED  BY <2>0, <3>1, <3>2 DEF CountersFit
  <2>4. ASSUME NEW r \in Request, RecordSuccess(r) PROVE CountersFit'
    <3>0. cb' = OnSuccess(cb, config)
      BY <2>4 DEF RecordSuccess
    <3>1. CASE cb.state = Closed
      BY <2>0, <3>0, <3>1 DEF OnSuccess, CountersFit, Breaker, Closed, HalfOpen
    <3>2. CASE cb.state = HalfOpen /\ cb.successCount + 1 >= config.successThreshold
      <4>1. cb' = TransitionTo(cb, Closed)
        BY <3>0, <3>2 DEF OnSuccess, Closed, HalfOpen
      <4> QED  BY <4>1, <3>2, <2>t DEF State, Closed, HalfOpen
    <3>3. CASE cb.state = HalfOpen /\ ~(cb.successCount + 1 >= config.successThreshold)
      <4>1. cb' = [cb EXCEPT !.successCount = @ + 1]
        BY <3>0, <3>3 DEF OnSuccess, Closed, HalfOpen
      <4>2. cb'.successCount < config.successThreshold
        BY <4>1, <3>3, <2>0 DEF Breaker, Config
      <4> QED  BY <2>0, <4>1, <4>2, <3>3 DEF CountersFit, Breaker
    <3>4. CASE cb.state # Closed /\ cb.state # HalfOpen
      BY <3>0, <3>4, <2>1 DEF OnSuccess
    <3> QED  BY <3>1, <3>2, <3>3, <3>4
  <2>5. ASSUME NEW r \in Request, RecordFailure(r) PROVE CountersFit'
    <3>0. cb' = OnFailure(cb, config)
      BY <2>5 DEF RecordFailure
    <3>1. CASE \/ cb.state = Closed /\ cb.failureCount + 1 >= config.failureThreshold
               \/ cb.state = HalfOpen
      <4>1. cb' = TransitionTo(cb, Open)
        BY <3>0, <3>1 DEF OnFailure, Closed, HalfOpen
      <4> QED  BY <4>1, <3>1, <2>t DEF State, Closed, HalfOpen, Open
    <3>2. CASE cb.state = Closed /\ ~(cb.failureCount + 1 >= config.failureThreshold)
      <4>1. cb' = [cb EXCEPT !.failureCount = @ + 1]
        BY <3>0, <3>2 DEF OnFailure, Closed, HalfOpen
      <4>2. cb'.failureCount < config.failureThreshold
        BY <4>1, <3>2, <2>0 DEF Breaker, Config
      <4> QED  BY <2>0, <4>1, <4>2, <3>2 DEF CountersFit, Breaker
    <3>3. CASE cb.state # Closed /\ cb.state # HalfOpen
      BY <3>0, <3>3, <2>1 DEF OnFailure
    <3> QED  BY <3>1, <3>2, <3>3
  <2>6. CASE \/ \E r \in Request : \/ AllowLoad(r) \/ AllowClosed(r)
                                   \/ AllowRejectOpen(r) \/ AllowTimedOut(r)
                                   \/ AllowRejectHalfOpen(r) \/ Abandon(r)
             \/ UpdateConfig \/ Tick \/ UNCHANGED vars
    BY <2>1, <2>6 DEF AllowLoad, AllowClosed, AllowRejectOpen, AllowTimedOut,
       AllowRejectHalfOpen, Abandon, UpdateConfig, Tick, vars
  <2> QED
    BY <2>2, <2>3, <2>4, <2>5, <2>6 DEF Next, RequestStep, Allow, Record
<1> QED  BY <1>1, <1>2, TypeCorrect, PTL DEF Spec

-----------------------------------------------------------------------------
(* The history variables only watch, so what holds of the breaker holds    *)
(* with them.                                                              *)
LEMMA HistoryOnlyWatches == HSpec => Spec
<1>1. HInit => Init
  BY DEF HInit
<1>2. [HNext]_hvars => [Next]_vars
  BY DEF HNext, HGrant, HProbe, HSuccess, HFailure, HTick, HOther, hvars, vars,
         Next, RequestStep, Allow, Record
<1> QED  BY <1>1, <1>2, PTL DEF HSpec, Spec

(* So the breaker with history has the types and fitting counters.         *)
LEMMA BreakerFacts == HSpec => [](TypeOK /\ CountersFit)
BY HistoryOnlyWatches, TypeCorrect, CountersCorrect, PTL

-----------------------------------------------------------------------------
(* The counters of the code are the lengths of the runs.                   *)
RunsAgree == /\ losses \in 0 .. MaxRun
             /\ wins \in 0 .. MaxRun
             /\ cb.state = Closed => cb.failureCount = losses
             /\ cb.state = HalfOpen => cb.successCount = wins

(* At first there are no runs, and the counters are zero.                  *)
LEMMA RunsInit == HInit => RunsAgree
BY MaxRunAssumption
   DEF HInit, Init, RunsAgree, NewCircuitBreaker, InState, Closed, HalfOpen

(* A run one longer passes a threshold when the counter does.              *)
LEMMA LongerRun ==
  ASSUME NEW n \in 0 .. MaxRun, NEW t \in Int, t <= MaxRun
  PROVE  /\ Contract!Longer(n) \in 0 .. MaxRun
         /\ n + 1 >= t <=> Contract!Longer(n) >= t
         /\ n + 1 < t => Contract!Longer(n) = n + 1
BY MaxRunAssumption DEF Contract!Longer

(* A success is one of the contract, and keeps counters and runs in step.  *)
LEMMA SuccessStep ==
  ASSUME TypeOK, RunsAgree, NEW r \in Request, HSuccess(r)
  PROVE  RunsAgree' /\ Contract!Succeed
<1>0. /\ cb \in Breaker /\ cb' = OnSuccess(cb, config) /\ config' = config
      /\ losses' = 0 /\ wins' = Contract!Longer(wins) /\ MaxRun \in Nat
  BY MaxRunAssumption DEF TypeOK, HSuccess, RecordSuccess
<1>1. /\ config.successThreshold \in Int
      /\ config.successThreshold <= MaxRun
  BY ConfigsAssumption, MaxRunAssumption DEF TypeOK, Config
<1>2. /\ wins' \in 0 .. MaxRun
      /\ wins + 1 >= config.successThreshold <=> wins' >= config.successThreshold
      /\ wins + 1 < config.successThreshold => wins' = wins + 1
  BY <1>0, <1>1, LongerRun DEF RunsAgree
<1>3. CASE cb.state = HalfOpen /\ cb.successCount + 1 >= config.successThreshold
  <2>1. cb' = TransitionTo(cb, Closed)
    BY <1>0, <1>3 DEF OnSuccess, Closed, HalfOpen
  <2>2. cb'.state = Closed /\ cb'.failureCount = 0
    BY <2>1, <1>3 DEF TransitionTo, InState, Closed, HalfOpen
  <2> QED
    BY <1>0, <1>2, <1>3, <2>2
    DEF RunsAgree, Contract!Succeed, Contract!Closed, Contract!HalfOpen, Closed, HalfOpen
<1>4. CASE cb.state = HalfOpen /\ ~(cb.successCount + 1 >= config.successThreshold)
  <2>1. cb' = [cb EXCEPT !.successCount = @ + 1]
    BY <1>0, <1>4 DEF OnSuccess, Closed, HalfOpen
  <2>2. cb'.state = HalfOpen /\ cb'.successCount = wins + 1
    BY <1>0, <1>4, <2>1 DEF RunsAgree, Breaker
  <2>3. wins + 1 < config.successThreshold
    BY <1>0, <1>1, <1>4 DEF RunsAgree, Breaker
  <2> QED
    BY <1>0, <1>1, <1>2, <1>4, <2>2, <2>3
    DEF RunsAgree, Contract!Succeed, Contract!Closed, Contract!HalfOpen, Closed, HalfOpen
<1>5. CASE cb.state # HalfOpen
  <2>1. cb'.state = cb.state /\ (cb.state = Closed => cb'.failureCount = 0)
    BY <1>0, <1>5 DEF OnSuccess, Breaker, Closed, HalfOpen
  <2> QED
    BY <1>0, <1>2, <1>5, <2>1
    DEF RunsAgree, Contract!Succeed, Contract!Closed, Contract!HalfOpen, Closed, HalfOpen
<1> QED  BY <1>3, <1>4, <1>5

(* A failure is one of the contract, and keeps counters and runs in step.  *)
LEMMA FailureStep ==
  ASSUME TypeOK, RunsAgree, NEW r \in Request, HFailure(r)
  PROVE  RunsAgree' /\ Contract!Fail
<1>0. /\ cb \in Breaker /\ cb' = OnFailure(cb, config) /\ config' = config
      /\ wins' = 0 /\ losses' = Contract!Longer(losses) /\ MaxRun \in Nat
  BY MaxRunAssumption DEF TypeOK, HFailure, RecordFailure
<1>1. /\ config.failureThreshold \in Int
      /\ config.failureThreshold <= MaxRun
  BY ConfigsAssumption, MaxRunAssumption DEF TypeOK, Config
<1>2. /\ losses' \in 0 .. MaxRun
      /\ losses + 1 >= config.failureThreshold <=> losses' >= config.failureThreshold
      /\ losses + 1 < config.failureThreshold => losses' = losses + 1
  BY <1>0, <1>1, LongerRun DEF RunsAgree
<1> USE DEF Contract!Closed, Contract!HalfOpen, Contract!Open, Closed, HalfOpen, Open
<1>3. CASE \/ cb.state = Closed /\ cb.failureCount + 1 >= config.failureThreshold
           \/ cb.state = HalfOpen
  <2>1. cb' = TransitionTo(cb, Open)
    BY <1>0, <1>3 DEF OnFailure
  <2>2. cb'.state = Open
    BY <2>1, <1>3 DEF TransitionTo, InState
  <2> QED  BY <1>0, <1>2, <1>3, <2>2 DEF RunsAgree, Contract!Fail
<1>4. CASE cb.state = Closed /\ ~(cb.failureCount + 1 >= config.failureThreshold)
  <2>1. cb' = [cb EXCEPT !.failureCount = @ + 1]
    BY <1>0, <1>4 DEF OnFailure
  <2>2. cb'.state = Closed /\ cb'.failureCount = losses + 1
    BY <1>0, <1>4, <2>1 DEF RunsAgree, Breaker
  <2>3. losses + 1 < config.failureThreshold
    BY <1>0, <1>1, <1>4 DEF RunsAgree, Breaker
  <2> QED  BY <1>0, <1>1, <1>2, <1>4, <2>2, <2>3 DEF RunsAgree, Contract!Fail
<1>5. CASE cb.state # Closed /\ cb.state # HalfOpen
  <2>1. cb' = cb
    BY <1>0, <1>5 DEF OnFailure
  <2> QED  BY <1>0, <1>2, <1>5, <2>1 DEF RunsAgree, Contract!Fail
<1> QED  BY <1>3, <1>4, <1>5

(* A prober's step is the contract's probe, or nothing when the breaker is *)
(* not open.                                                               *)
LEMMA ProbeStep ==
  ASSUME TypeOK, RunsAgree, NEW r \in Request, HProbe(r)
  PROVE  RunsAgree' /\ (Contract!Probe \/ UNCHANGED Contract!vars)
<1> USE DEF HProbe, AllowProbe, Probe, RunsAgree, Closed, HalfOpen, Open,
        Contract!Probe, Contract!vars, Contract!HalfOpen, Contract!Open
<1>1. CASE cb.state = Open
  <2>1. cb'.state = HalfOpen /\ cb'.successCount = 0
    BY <1>1 DEF TransitionTo, InState
  <2> QED  BY <1>1, <2>1, MaxRunAssumption
<1>2. CASE cb.state # Open
  BY <1>2
<1> QED  BY <1>1, <1>2

(* Everything else is a reload or invisible to the contract.               *)
LEMMA QuietStep ==
  ASSUME TypeOK, RunsAgree,
         \/ \E r \in Request : HGrant(r)
         \/ HTick \/ HOther \/ UNCHANGED hvars
  PROVE  RunsAgree' /\ (Contract!Reconfigure \/ UNCHANGED Contract!vars)
<1>1. ASSUME NEW r \in Request, HGrant(r)
      PROVE  RunsAgree' /\ UNCHANGED Contract!vars
  <2>1. /\ cb'.state = cb.state /\ cb'.failureCount = cb.failureCount
        /\ cb'.successCount = cb.successCount /\ config' = config
    BY <1>1 DEF HGrant, AllowClosed, AllowHalfOpen, TypeOK, Breaker
  <2> QED  BY <1>1, <2>1 DEF HGrant, RunsAgree, Contract!vars
<1>2. CASE HTick
  BY <1>2 DEF HTick, Tick, RunsAgree, Contract!vars
<1>3. CASE UNCHANGED hvars
  BY <1>3 DEF hvars, RunsAgree, Contract!vars
<1>4. CASE HOther
  BY <1>4 DEF HOther, AllowLoad, AllowRejectOpen, AllowTimedOut, AllowRejectHalfOpen,
     Abandon, UpdateConfig, RunsAgree, Contract!vars, Contract!Reconfigure
<1> QED  BY <1>1, <1>2, <1>3, <1>4

(* Every behaviour of the breaker is one of its contract: recorded outcomes*)
(* are Fail and Succeed, the step of a prober that finds the breaker open  *)
(* is Probe, a reload is Reconfigure, and everything else stutters.        *)
THEOREM ContractImplemented == HSpec => ImplementsContract
<1>1. HInit => Contract!Init
  BY DEF HInit, Init, Contract!Init, NewCircuitBreaker, InState, Closed, Contract!Closed
<1>2. TypeOK /\ RunsAgree /\ [HNext]_hvars => RunsAgree' /\ [Contract!Next]_(Contract!vars)
  BY SuccessStep, FailureStep, ProbeStep, QuietStep DEF HNext, Contract!Next
<1> QED  BY <1>1, <1>2, RunsInit, BreakerFacts, PTL DEF HSpec, ImplementsContract, Contract!Spec

-----------------------------------------------------------------------------
(* The requests that may still be granted in this period without taking a  *)
(* slot: those whose copy of the state is from before the last transition. *)
Stale == {r \in Request :
            \/ pc[r] = "probing" /\ cb.state # Open
            \/ pc[r] = "loaded" /\ seen[r].state # cb.state}

(* Every grant of the period is one of a slot, or one a stale caller has   *)
(* used up; the caller that made the transition is not stale.              *)
Slotted == IF cb.state = HalfOpen THEN cb.halfOpenRequests + 1 ELSE 0

Budgeted == /\ grants \in Nat
            /\ cb.state # Closed =>
                 grants + Cardinality(Stale) < Slotted + Cardinality(Request)

(* Stale callers and callers can be counted.                               *)
LEMMA StaleFinite == IsFiniteSet(Stale) /\ Cardinality(Stale) \in Nat
                     /\ Cardinality(Request) \in Nat
BY RequestAssumption, FS_Subset, FS_CardinalityType DEF Stale

(* A set that loses a member is smaller, a set without r misses one.       *)
LEMMA SmallerSet ==
  ASSUME NEW S, NEW T, IsFiniteSet(T), NEW r \in T, S \subseteq T \ {r}
  PROVE  Cardinality(S) \in Nat /\ Cardinality(S) < Cardinality(T)
<1>1. IsFiniteSet(T \ {r}) /\ Cardinality(T \ {r}) = Cardinality(T) - 1
  BY FS_RemoveElement
<1>2. IsFiniteSet(S) /\ Cardinality(S) <= Cardinality(T \ {r})
  BY <1>1, FS_Subset
<1> QED  BY <1>1, <1>2, FS_CardinalityType

(* A step that changes neither the state nor the grants, and makes nobody  *)
(* stale, keeps the budget.                                                *)
LEMMA BudgetKept ==
  ASSUME Budgeted, cb \in Breaker, cb' \in Breaker, cb'.state = cb.state,
         cb'.halfOpenRequests = cb.halfOpenRequests,
         Stale' \subseteq Stale, grants' = grants
  PROVE  Budgeted'
<1>1. Cardinality(Stale') \in Nat /\ Cardinality(Stale') <= Cardinality(Stale)
  BY StaleFinite, FS_Subset, FS_CardinalityType
<1>2. Slotted' = Slotted /\ Slotted \in Nat
  BY DEF Slotted, Breaker
<1> QED  BY <1>1, <1>2, StaleFinite DEF Budgeted

(* A transition starts a period with every other caller stale at most.     *)
LEMMA BudgetStarts ==
  ASSUME NEW r \in Request, cb' \in Breaker, r \notin Stale',
         \/ cb'.state = Open /\ grants' = 0
         \/ cb'.state = HalfOpen /\ grants' = 1 /\ cb'.halfOpenRequests = 0
         \/ cb'.state = Closed /\ grants' = 0
  PROVE  Budgeted'
<1>1. Cardinality(Stale') \in Nat /\ Cardinality(Stale') < Cardinality(Request)
  BY SmallerSet, RequestAssumption DEF Stale
<1> QED  BY <1>1, StaleFinite DEF Budgeted, Slotted, Closed, Open, HalfOpen

(* A grant uses up a stale caller or takes a slot.                         *)
LEMMA GrantStep ==
  ASSUME TypeOK, TypeOK', Budgeted, NEW r \in Request, HGrant(r)
  PROVE  Budgeted'
<1>0. /\ cb \in Breaker /\ cb' \in Breaker
      /\ pc[r] = "loaded" /\ pc' = [pc EXCEPT ![r] = "admitted"]
      /\ seen' = [seen EXCEPT ![r] = NoSnapshot]
      /\ cb'.state = cb.state
      /\ grants' = IF cb.state = Closed THEN 0 ELSE grants + 1
      /\ pc \in [Request -> Place] /\ seen \in [Request -> [state : State, age : Age]]
  BY DEF HGrant, AllowClosed, AllowHalfOpen, Goto, Forget, TypeOK, Breaker, Count
<1>1. Stale' = Stale \ {r}
  BY <1>0 DEF Stale
<1>2. CASE cb.state = Closed
  BY <1>0, <1>2 DEF Budgeted
<1>3. CASE cb.state # Closed /\ r \in Stale
  <2>1. Cardinality(Stale') = Cardinality(Stale) - 1
    BY <1>1, <1>3, FS_RemoveElement, StaleFinite
  <2>2. Slotted' \in Nat /\ Slotted \in Nat /\ Slotted' >= Slotted
    BY <1>0 DEF HGrant, AllowClosed, AllowHalfOpen, Slotted, Breaker
  <2> QED  BY <1>0, <1>3, <2>1, <2>2, StaleFinite DEF Budgeted
<1>4. CASE cb.state # Closed /\ r \notin Stale
  <2>1. seen[r].state = cb.state
    BY <1>0, <1>4 DEF Stale
  <2>2. cb.state = HalfOpen /\ cb' = [cb EXCEPT !.halfOpenRequests = @ + 1]
    BY <1>4, <2>1 DEF HGrant, AllowClosed, AllowHalfOpen, Closed, HalfOpen
  <2>3. Slotted' = Slotted + 1 /\ Slotted \in Nat
    BY <1>0, <2>2 DEF Slotted, Breaker
  <2>4. Stale' = Stale
    BY <1>1, <1>4
  <2> QED  BY <1>0, <1>4, <2>3, <2>4, StaleFinite DEF Budgeted
<1> QED  BY <1>2, <1>3, <1>4

(* A probe starts a half-open period, or uses up a stale caller.           *)
LEMMA ProbeBudget ==
  ASSUME TypeOK, TypeOK', Budgeted, NEW r \in Request, HProbe(r)
  PROVE  Budgeted'
<1>0. /\ cb \in Breaker /\ cb' \in Breaker /\ cb' = Probe(cb)
      /\ pc[r] = "probing" /\ pc' = [pc EXCEPT ![r] = "admitted"]
      /\ seen' = seen /\ pc \in [Request -> Place]
      /\ Count(TRUE)
  BY DEF HProbe, AllowProbe, Goto, TypeOK
<1>1. CASE cb.state = Open
  <2>1. cb'.state = HalfOpen /\ cb'.halfOpenRequests = 0 /\ grants' = 1
    BY <1>0, <1>1 DEF Probe, TransitionTo, InState, Count, Open, HalfOpen, Closed
  <2>2. r \notin Stale'
    BY <1>0 DEF Stale
  <2> QED  BY <1>0, <2>1, <2>2, BudgetStarts
<1>2. CASE cb.state # Open
  <2>1. cb' = cb /\ Stale' = Stale \ {r} /\ r \in Stale
    BY <1>0, <1>2 DEF Probe, Stale
  <2>2. Cardinality(Stale') = Cardinality(Stale) - 1
    BY <2>1, FS_RemoveElement, StaleFinite
  <2>3. Slotted' = Slotted /\ Slotted \in Nat
    BY <1>0, <2>1 DEF Slotted, Breaker
  <2>4. grants' = IF cb.state = Closed THEN 0 ELSE grants + 1
    BY <1>0, <2>1 DEF Count, Budgeted
  <2> QED  BY <2>1, <2>2, <2>3, <2>4, StaleFinite DEF Budgeted
<1> QED  BY <1>1, <1>2

(* An outcome starts a period, or changes nothing the budget counts.       *)
LEMMA RecordBudget ==
  ASSUME TypeOK, TypeOK', Budgeted, NEW r \in Request, HSuccess(r) \/ HFailure(r)
  PROVE  Budgeted'
<1>0. /\ cb \in Breaker /\ cb' \in Breaker
      /\ cb' = OnSuccess(cb, config) \/ cb' = OnFailure(cb, config)
      /\ pc[r] = "admitted" /\ pc' = [pc EXCEPT ![r] = "idle"]
      /\ seen' = seen /\ pc \in [Request -> Place]
      /\ Count(FALSE)
  BY DEF HSuccess, HFailure, RecordSuccess, RecordFailure, Goto, TypeOK
<1>1. \/ cb'.state = cb.state /\ cb'.halfOpenRequests = cb.halfOpenRequests
      \/ cb'.state # cb.state /\ cb'.state \in {Open, Closed}
  BY <1>0 DEF OnSuccess, OnFailure, TransitionTo, InState, Breaker, Closed, Open, HalfOpen
<1>2. CASE cb'.state = cb.state /\ cb'.halfOpenRequests = cb.halfOpenRequests
  <2>1. Stale' \subseteq Stale
    BY <1>0, <1>2 DEF Stale
  <2>2. grants' = IF cb.state = Closed THEN 0 ELSE grants
    BY <1>0, <1>2 DEF Count, Budgeted
  <2>3. CASE cb.state = Closed
    BY <1>2, <2>2, <2>3 DEF Budgeted
  <2> QED  BY <1>0, <1>2, <2>1, <2>2, <2>3, BudgetKept
<1>3. CASE cb'.state # cb.state /\ cb'.state \in {Open, Closed}
  <2>1. grants' = 0
    BY <1>0, <1>3 DEF Count
  <2>2. r \notin Stale'
    BY <1>0 DEF Stale
  <2> QED  BY <1>0, <1>3, <2>1, <2>2, BudgetStarts
<1> QED  BY <1>1, <1>2, <1>3

(* Everything else makes nobody stale and grants nothing.                  *)
LEMMA QuietBudget ==
  ASSUME TypeOK, TypeOK', Budgeted, HTick \/ HOther \/ UNCHANGED hvars
  PROVE  Budgeted'
<1> SUFFICES Stale' \subseteq Stale /\ cb' = cb /\ grants' = grants
  BY BudgetKept DEF TypeOK
<1> USE DEF Stale, TypeOK
<1>1. CASE HTick
  BY <1>1 DEF HTick, Tick
<1>2. CASE UNCHANGED hvars
  BY <1>2 DEF hvars
<1>3. ASSUME NEW r \in Request, HOther, AllowLoad(r)
      PROVE  Stale' \subseteq Stale /\ cb' = cb /\ grants' = grants
  BY <1>3 DEF HOther, AllowLoad, Goto
<1>4. ASSUME NEW r \in Request, HOther, AllowRejectOpen(r) \/ AllowRejectHalfOpen(r) \/ Abandon(r)
      PROVE  Stale' \subseteq Stale /\ cb' = cb /\ grants' = grants
  BY <1>4 DEF HOther, AllowRejectOpen, AllowRejectHalfOpen, Abandon, Goto, Forget, Place
<1>5. ASSUME NEW r \in Request, HOther, AllowTimedOut(r)
      PROVE  Stale' \subseteq Stale /\ cb' = cb /\ grants' = grants
  BY <1>5 DEF HOther, AllowTimedOut, Goto, Forget, Place, Open
<1>6. CASE HOther /\ UpdateConfig
  BY <1>6 DEF HOther, UpdateConfig
<1> QED  BY <1>1, <1>2, <1>3, <1>4, <1>5, <1>6 DEF HOther

(* The grants of a period are bounded.                                     *)
THEOREM GrantsAreBounded == HSpec => []GrantsBounded
<1>1. HInit => Budgeted
  BY DEF HInit, Init, Budgeted, NewCircuitBreaker, InState
<1>2. TypeOK /\ TypeOK' /\ Budgeted /\ [HNext]_hvars => Budgeted'
  BY GrantStep, ProbeBudget, RecordBudget, QuietBudget DEF HNext
<1>3. TypeOK /\ CountersFit /\ Budgeted => GrantsBounded
  <2> SUFFICES ASSUME TypeOK, CountersFit, Budgeted PROVE GrantsBounded
    OBVIOUS
  <2>1. CASE cb.state = Open
    BY <2>1, StaleFinite DEF Budgeted, Slotted, GrantsBounded, Open, Closed, HalfOpen
  <2>2. CASE cb.state = HalfOpen
    <3>1. grants <= cb.halfOpenRequests + Cardinality(Request)
      BY <2>2, StaleFinite DEF Budgeted, Slotted, Closed, HalfOpen, TypeOK, Breaker
    <3>2. PICK c \in Configs : cb.halfOpenRequests <= MaxRequests(c)
      <4>1. CASE cb.halfOpenRequests > 0
        BY <4>1 DEF CountersFit
      <4>2. CASE cb.halfOpenRequests = 0
        <5>1. config \in Configs /\ 0 <= MaxRequests(config)
          BY ConfigsAssumption, DefaultHalfOpenMaxAssumption DEF TypeOK, MaxRequests, Config
        <5> QED  BY <4>2, <5>1
      <4> QED  BY <4>1, <4>2 DEF TypeOK, Breaker
    <3>3. MaxRequests(c) \in Int
      BY ConfigsAssumption, DefaultHalfOpenMaxAssumption DEF MaxRequests, Config
    <3> QED
      BY <2>2, <3>1, <3>2, <3>3, StaleFinite
      DEF GrantsBounded, Budgeted, TypeOK, Breaker, Open, HalfOpen
  <2> QED  BY <2>1, <2>2 DEF GrantsBounded
<1> QED  BY <1>1, <1>2, <1>3, BreakerFacts, PTL DEF HSpec

-----------------------------------------------------------------------------
(* While the breaker is open, the last failure is not older than the open  *)
(* period, nor is any copy of its time that was made in the period; so who *)
(* finds the copy older than the timeout, probes after the timeout.        *)
Timed ==
  /\ openFor \in Age
  /\ cb.state = Open =>
       /\ age <= openFor
       /\ \A r \in Request : r \notin inside =>
            /\ pc[r] = "loaded" /\ seen[r].state = Open => seen[r].age <= openFor
            /\ pc[r] = "probing" => \E c \in Configs : openFor > c.timeout

(* Times keep their order as they grow older.                              *)
LEMMA OlderType ==
  ASSUME NEW s \in Age, NEW t \in Age
  PROVE  /\ Older(t) \in Age /\ t <= Older(t)
         /\ s <= t => Older(s) <= Older(t)
BY MaxTimeoutAssumption DEF Older, Age, Never

(* A period that begins has everyone in Allow inside.                      *)
LEMMA TimedPeriod ==
  ASSUME TypeOK, Timed, Period
  PROVE  /\ openFor' \in Age
         /\ cb'.state = Open /\ cb.state # Open =>
              openFor' = 0 /\ \A r \in Request : r \notin inside' => pc[r] \notin InAllow
         /\ cb'.state = Open /\ cb.state = Open =>
              /\ openFor' = openFor
              /\ \A r \in Request : r \notin inside' => r \notin inside \/ pc'[r] \notin InAllow
<1>1. openFor' = IF cb'.state # Open THEN Never
                 ELSE IF cb.state # Open THEN 0 ELSE openFor
  BY DEF Period
<1>2. Never \in Age /\ 0 \in Age /\ openFor \in Age
  BY MaxTimeoutAssumption DEF Timed, Age, Never
<1>3. inside' = IF cb'.state # Open THEN {}
                ELSE IF cb.state # Open THEN {r \in Request : pc[r] \in InAllow}
                ELSE {r \in inside : pc'[r] \in InAllow}
  BY DEF Period
<1>4. openFor' \in Age
  BY <1>1, <1>2
<1> QED  BY <1>1, <1>3, <1>4

(* A step of a request that neither opens the breaker nor lets anyone copy *)
(* or probe.                                                               *)
LEMMA TimedQuiet ==
  ASSUME TypeOK, Timed, Period, age' \in {age, 0},
         cb'.state = Open => cb.state = Open,
         \A r \in Request : pc'[r] \in InAllow => pc'[r] = pc[r] /\ seen'[r] = seen[r]
  PROVE  Timed'
<1>0. age \in Int /\ openFor \in Int /\ age >= 0 /\ openFor >= 0
  BY MaxTimeoutAssumption DEF TypeOK, Timed, Age
<1> SUFFICES ASSUME cb'.state = Open PROVE Timed'
  BY TimedPeriod DEF Timed
<1>1. openFor' = openFor /\ openFor' \in Age /\ age' <= openFor'
  BY <1>0, TimedPeriod DEF Timed
<1>2. ASSUME NEW r \in Request, r \notin inside'
      PROVE  /\ pc'[r] = "loaded" /\ seen'[r].state = Open => seen'[r].age <= openFor'
             /\ pc'[r] = "probing" => \E c \in Configs : openFor' > c.timeout
  <2>1. CASE pc'[r] \notin InAllow
    BY <2>1 DEF InAllow
  <2>2. CASE pc'[r] \in InAllow /\ pc'[r] = pc[r] /\ seen'[r] = seen[r]
    <3>1. r \notin inside
      BY <1>2, <2>2, TimedPeriod
    <3> QED  BY <1>1, <2>2, <3>1 DEF Timed
  <2> QED  BY <2>1, <2>2
<1> QED  BY <1>1, <1>2 DEF Timed

(* A copy made in the period is of a failure in it.                        *)
LEMMA TimedLoad ==
  ASSUME TypeOK, Timed, Period, NEW r \in Request, AllowLoad(r)
  PROVE  Timed'
<1>0. /\ pc \in [Request -> Place] /\ seen \in [Request -> [state : State, age : Age]]
      /\ pc' = [pc EXCEPT ![r] = "loaded"] /\ UNCHANGED <<cb, age>>
      /\ seen' = [seen EXCEPT ![r] = [state |-> cb.state, age |-> age]]
  BY DEF AllowLoad, Goto, TypeOK
<1> SUFFICES ASSUME cb'.state = Open PROVE Timed'
  BY TimedPeriod DEF Timed
<1>1. openFor' = openFor /\ openFor' \in Age /\ age' <= openFor'
  BY <1>0, TimedPeriod DEF Timed
<1>2. ASSUME NEW q \in Request, q \notin inside'
      PROVE  /\ pc'[q] = "loaded" /\ seen'[q].state = Open => seen'[q].age <= openFor'
             /\ pc'[q] = "probing" => \E c \in Configs : openFor' > c.timeout
  <2>1. CASE q = r
    BY <1>0, <1>1, <2>1
  <2>2. CASE q # r
    <3>1. pc'[q] = pc[q] /\ seen'[q] = seen[q]
      BY <1>0, <2>2
    <3>2. q \notin inside \/ pc'[q] \notin InAllow
      BY <1>0, <1>2, TimedPeriod
    <3> QED  BY <1>0, <1>1, <3>1, <3>2 DEF Timed, InAllow
  <2> QED  BY <2>1, <2>2
<1> QED  BY <1>1, <1>2 DEF Timed

(* Who finds such a copy older than the timeout probes after it.           *)
LEMMA TimedTimesOut ==
  ASSUME TypeOK, Timed, Period, NEW r \in Request, AllowTimedOut(r)
  PROVE  Timed'
<1>0. /\ pc \in [Request -> Place] /\ seen \in [Request -> [state : State, age : Age]]
      /\ pc[r] = "loaded" /\ pc' = [pc EXCEPT ![r] = "probing"] /\ UNCHANGED <<cb, age>>
      /\ seen' = [seen EXCEPT ![r] = NoSnapshot]
      /\ seen[r].state = Open /\ seen[r].age > config.timeout /\ config \in Configs
  BY DEF AllowTimedOut, Goto, Forget, TimedOut, TypeOK
<1> SUFFICES ASSUME cb'.state = Open PROVE Timed'
  BY TimedPeriod DEF Timed
<1>1. openFor' = openFor /\ openFor' \in Age /\ age' <= openFor'
  BY <1>0, TimedPeriod DEF Timed
<1>2. ASSUME NEW q \in Request, q \notin inside'
      PROVE  /\ pc'[q] = "loaded" /\ seen'[q].state = Open => seen'[q].age <= openFor'
             /\ pc'[q] = "probing" => \E c \in Configs : openFor' > c.timeout
  <2>1. q \notin inside \/ pc'[q] \notin InAllow
    BY <1>0, <1>2, TimedPeriod
  <2>2. CASE q = r
    <3>1. q \notin inside /\ seen[r].age <= openFor
      BY <1>0, <2>1, <2>2 DEF Timed, InAllow
    <3>2. seen[r].age \in Int /\ openFor \in Int /\ config.timeout \in Int
      BY <1>0, ConfigsAssumption, MaxTimeoutAssumption DEF Timed, Age, Config
    <3>3. openFor > config.timeout
      BY <1>0, <3>1, <3>2
    <3> QED  BY <1>0, <1>1, <2>2, <3>3
  <2>3. CASE q # r
    BY <1>0, <1>1, <2>1, <2>3 DEF Timed, InAllow
  <2> QED  BY <2>2, <2>3
<1> QED  BY <1>1, <1>2 DEF Timed

(* A failure is the latest, and may open the breaker.                      *)
LEMMA TimedFails ==
  ASSUME TypeOK, Timed, NEW r \in Request, HFailure(r)
  PROVE  Timed'
<1>0. /\ Period /\ age' = 0 /\ seen' = seen /\ pc \in [Request -> Place]
      /\ pc[r] = "admitted" /\ pc' = [pc EXCEPT ![r] = "idle"]
  BY DEF HFailure, RecordFailure, Goto, TypeOK
<1>1. CASE cb'.state = Open => cb.state = Open
  <2>1. \A q \in Request : pc'[q] \in InAllow => pc'[q] = pc[q] /\ seen'[q] = seen[q]
    BY <1>0 DEF InAllow
  <2> QED  BY <1>0, <1>1, <2>1, TimedQuiet
<1>2. CASE cb'.state = Open /\ cb.state # Open
  <2>1. /\ openFor' = 0 /\ openFor' \in Age
        /\ \A q \in Request : q \notin inside' => pc[q] \notin InAllow
    BY <1>0, <1>2, TimedPeriod
  <2>2. \A q \in Request : q \notin inside' => pc'[q] \notin InAllow
    BY <1>0, <2>1 DEF InAllow
  <2> QED  BY <1>0, <2>1, <2>2 DEF Timed, InAllow
<1> QED  BY <1>1, <1>2

(* The period grows older with the failures.                               *)
LEMMA TimedTicks ==
  ASSUME TypeOK, Timed, HTick
  PROVE  Timed'
<1>0. /\ openFor' = Older(openFor) /\ age' = Older(age) /\ UNCHANGED <<cb, pc, inside>>
      /\ \A r \in Request : /\ seen'[r].state = seen[r].state
                            /\ seen'[r].age = Older(seen[r].age)
                            /\ seen[r].age \in Age
      /\ age \in Age /\ openFor \in Age /\ openFor' \in Age
  BY OlderType DEF HTick, Tick, TypeOK, Timed
<1>1. openFor \in Int /\ openFor' \in Int /\ openFor <= openFor'
  BY <1>0, OlderType, MaxTimeoutAssumption DEF Age
<1>2. ASSUME NEW c \in Configs, openFor > c.timeout PROVE openFor' > c.timeout
  BY <1>1, <1>2, ConfigsAssumption DEF Config
<1>3. ASSUME cb.state = Open PROVE age' <= openFor'
  BY <1>0, <1>3, OlderType DEF Timed
<1>4. ASSUME cb.state = Open, NEW r \in Request, r \notin inside
      PROVE  /\ pc'[r] = "loaded" /\ seen'[r].state = Open => seen'[r].age <= openFor'
             /\ pc'[r] = "probing" => \E c \in Configs : openFor' > c.timeout
  <2>1. /\ pc[r] = "loaded" /\ seen[r].state = Open => seen[r].age <= openFor
        /\ pc[r] = "probing" => \E c \in Configs : openFor > c.timeout
    BY <1>4 DEF Timed
  <2>2. seen[r].age <= openFor => Older(seen[r].age) <= Older(openFor)
    BY <1>0, OlderType
  <2> QED  BY <1>0, <1>2, <2>1, <2>2
<1> QED  BY <1>0, <1>3, <1>4 DEF Timed

(* Every step keeps the copies within the period.                          *)
LEMMA TimedStep == TypeOK /\ Timed /\ [HNext]_hvars => Timed'
<1> SUFFICES ASSUME TypeOK, Timed, [HNext]_hvars PROVE Timed'
  OBVIOUS
<1>0. pc \in [Request -> Place] /\ seen \in [Request -> [state : State, age : Age]]
      /\ cb \in Breaker
  BY DEF TypeOK
<1>1. ASSUME NEW r \in Request, HGrant(r) \/ HProbe(r) \/ HSuccess(r) PROVE Timed'
  <2>1. /\ Period /\ age' = age
        /\ \A q \in Request : pc'[q] \in InAllow => pc'[q] = pc[q] /\ seen'[q] = seen[q]
    BY <1>0, <1>1
    DEF HGrant, HProbe, HSuccess, AllowClosed, AllowHalfOpen, AllowProbe, RecordSuccess,
        Goto, Forget, InAllow
  <2>2. cb'.state = Open => cb.state = Open
    <3>1. CASE HGrant(r)
      BY <1>0, <3>1 DEF HGrant, AllowClosed, AllowHalfOpen, Breaker
    <3>2. CASE HProbe(r)
      BY <3>2 DEF HProbe, AllowProbe, Probe, TransitionTo, InState, Open, HalfOpen
    <3>3. CASE HSuccess(r)
      BY <1>0, <3>3
      DEF HSuccess, RecordSuccess, OnSuccess, TransitionTo, InState, Breaker,
          Open, HalfOpen, Closed
    <3> QED  BY <1>1, <3>1, <3>2, <3>3
  <2> QED  BY <2>1, <2>2, TimedQuiet
<1>2. ASSUME NEW r \in Request, Period,
             AllowRejectOpen(r) \/ AllowRejectHalfOpen(r) \/ Abandon(r)
      PROVE  Timed'
  <2>1. /\ age' = age /\ cb' = cb
        /\ \A q \in Request : pc'[q] \in InAllow => pc'[q] = pc[q] /\ seen'[q] = seen[q]
    BY <1>0, <1>2
    DEF AllowRejectOpen, AllowRejectHalfOpen, Abandon, Goto, Forget, InAllow
  <2> QED  BY <1>2, <2>1, TimedQuiet
<1>3. CASE UpdateConfig /\ Period
  BY <1>3, TimedQuiet DEF UpdateConfig
<1>4. CASE UNCHANGED hvars
  BY <1>4 DEF hvars, Timed
<1> QED
  BY <1>1, <1>2, <1>3, <1>4, TimedLoad, TimedTimesOut, TimedFails, TimedTicks
  DEF HNext, HOther

(* An open breaker is probed after a timeout only, or by who has been in   *)
(* Allow since before it opened.                                           *)
THEOREM TimeoutLasts == HSpec => OpenLastsTimeout
<1>1. HInit => Timed
  BY MaxTimeoutAssumption
  DEF HInit, Init, Timed, NewCircuitBreaker, InState, Open, Closed, Age, Never
<1>2. Timed /\ [HNext]_hvars =>
        [\A r \in Request :
           HProbe(r) /\ cb.state = Open =>
             r \in inside \/ \E c \in Configs : openFor > c.timeout]_hvars
  BY DEF Timed, HProbe, AllowProbe, Goto
<1> QED
  BY <1>1, <1>2, TimedStep, BreakerFacts, PTL DEF HSpec, OpenLastsTimeout

=============================================================================
