--------------------------- MODULE CircuitBreaker ---------------------------
(***************************************************************************)
(* One circuit breaker of internal/resilience/circuitbreaker.go, shared by *)
(* the goroutines that serve requests for one provider.  Every critical    *)
(* section is one step.  Allow is not one: it reads the state under a read *)
(* lock, releases it, and decides later, under the write lock or with none.*)
(*                                                                         *)
(* Time is counted in ticks since the last failure (time.Since of          *)
(* lastFailureTime) and saturates above the longest timeout; the zero      *)
(* time of a new breaker is a failure infinitely long ago.                 *)
(***************************************************************************)
EXTENDS BreakerOps, FiniteSets

CONSTANTS
  Request,        \* goroutines calling the breaker, each one call at a time
  Configs,        \* the configurations a reload may install
  MaxTimeout,     \* an upper bound of their timeouts, where time saturates
  MaxAbandoned    \* bound on admitted requests that never report an outcome

ASSUME RequestAssumption == IsFiniteSet(Request)
ASSUME ConfigsAssumption == Configs # {} /\ Configs \subseteq Config
ASSUME MaxTimeoutAssumption ==
  MaxTimeout \in Nat /\ \A c \in Configs : c.timeout <= MaxTimeout
ASSUME MaxAbandonedAssumption == MaxAbandoned \in Nat

VARIABLES
  cb,         \* the lock-protected fields
  config,     \* cb.config
  age,        \* ticks since cb.lastFailureTime
  pc,         \* where each request is: its place in Allow, or its call
  seen,       \* what a request inside Allow read under the read lock
  abandoned   \* number of admitted requests that reported nothing

vars == <<cb, config, age, pc, seen, abandoned>>

Age   == 0 .. MaxTimeout + 1
Never == MaxTimeout + 1          \* no failure yet, or longer ago than matters

NoSnapshot == [state |-> Closed, age |-> Never]

Init == /\ cb = NewCircuitBreaker
        /\ config \in Configs
        /\ age = Never
        /\ pc = [r \in Request |-> "idle"]
        /\ seen = [r \in Request |-> NoSnapshot]
        /\ abandoned = 0

(* The request leaves the place it is at.                                  *)
Goto(r, from, to) == pc[r] = from /\ pc' = [pc EXCEPT ![r] = to]
Forget(r) == seen' = [seen EXCEPT ![r] = NoSnapshot]

-----------------------------------------------------------------------------
(* Allow.                                                                  *)

(* The read-locked section: state and lastFailureTime are copied.          *)
AllowLoad(r) ==
  /\ Goto(r, "idle", "loaded")
  /\ seen' = [seen EXCEPT ![r] = [state |-> cb.state, age |-> age]]
  /\ UNCHANGED <<cb, config, age, abandoned>>

(* case StateClosed: granted on the copy alone.                            *)
AllowClosed(r) ==
  /\ seen[r].state = Closed
  /\ Goto(r, "loaded", "admitted")
  /\ Forget(r)
  /\ UNCHANGED <<cb, config, age, abandoned>>

(* case StateOpen: the timeout is read without the lock.                   *)
TimedOutReversed(r) == seen[r].age < config.timeout

TimedOut(r) == seen[r].age > config.timeout

AllowRejectOpen(r) ==
  /\ seen[r].state = Open /\ ~TimedOut(r)
  /\ Goto(r, "loaded", "idle")
  /\ Forget(r)
  /\ UNCHANGED <<cb, config, age, abandoned>>

AllowTimedOut(r) ==
  /\ seen[r].state = Open /\ TimedOut(r)
  /\ Goto(r, "loaded", "probing")
  /\ Forget(r)
  /\ UNCHANGED <<cb, config, age, abandoned>>

(* The write-locked section of case StateOpen.  The double check keeps a   *)
(* second prober from restarting the half-open period; both are granted,   *)
(* neither takes a half-open slot.                                         *)
ProbeWithoutDoubleCheck(b) == InState(HalfOpen)

Probe(b) == IF b.state = Open THEN TransitionTo(b, HalfOpen) ELSE b

AllowProbe(r) ==
  /\ Goto(r, "probing", "admitted")
  /\ cb' = Probe(cb)
  /\ UNCHANGED <<config, age, seen, abandoned>>

(* case StateHalfOpen: the limit is checked under the write lock, the      *)
(* state is not checked again.                                             *)
SlotFreeOffByOne == cb.halfOpenRequests <= MaxRequests(config)

SlotFree == cb.halfOpenRequests < MaxRequests(config)

AllowHalfOpen(r) ==
  /\ seen[r].state = HalfOpen /\ SlotFree
  /\ Goto(r, "loaded", "admitted")
  /\ Forget(r)
  /\ cb' = [cb EXCEPT !.halfOpenRequests = @ + 1]
  /\ UNCHANGED <<config, age, abandoned>>

AllowRejectHalfOpen(r) ==
  /\ seen[r].state = HalfOpen /\ ~SlotFree
  /\ Goto(r, "loaded", "idle")
  /\ Forget(r)
  /\ UNCHANGED <<cb, config, age, abandoned>>

-----------------------------------------------------------------------------
(* The outcome of an admitted request.                                     *)

RecordSuccess(r) ==
  /\ Goto(r, "admitted", "idle")
  /\ cb' = OnSuccess(cb, config)
  /\ UNCHANGED <<config, age, seen, abandoned>>

(* The failure time is stamped in every state, also while open.            *)
RecordFailure(r) ==
  /\ Goto(r, "admitted", "idle")
  /\ cb' = OnFailure(cb, config)
  /\ age' = 0
  /\ UNCHANGED <<config, seen, abandoned>>

(* The router leaves the loop body after Allow without recording: the      *)
(* context ends while it waits for a slot, or no attempt was made and the  *)
(* result has the wrong type.                                              *)
Abandon(r) ==
  /\ abandoned < MaxAbandoned
  /\ Goto(r, "admitted", "idle")
  /\ abandoned' = abandoned + 1
  /\ UNCHANGED <<cb, config, age, seen>>

-----------------------------------------------------------------------------
(* A reload replaces the configuration and keeps state and counters.       *)
UpdateConfig ==
  /\ config' \in Configs
  /\ UNCHANGED <<cb, age, pc, seen, abandoned>>

Older(t) == IF t < Never THEN t + 1 ELSE t

(* The clock: every copy of a failure time ages with the original.         *)
Tick ==
  /\ age' = Older(age)
  /\ seen' = [r \in Request |-> [seen[r] EXCEPT !.age = Older(@)]]
  /\ UNCHANGED <<cb, config, pc, abandoned>>

Allow(r) ==
  \/ AllowClosed(r)
  \/ AllowRejectOpen(r)
  \/ AllowTimedOut(r)
  \/ AllowProbe(r)
  \/ AllowHalfOpen(r)
  \/ AllowRejectHalfOpen(r)

Record(r) == RecordSuccess(r) \/ RecordFailure(r)

RequestStep(r) == AllowLoad(r) \/ Allow(r) \/ Record(r) \/ Abandon(r)

Next == (\E r \in Request : RequestStep(r)) \/ UpdateConfig \/ Tick

Spec == Init /\ [][Next]_vars

(* Traffic goes on, a goroutine that runs is scheduled, a provider call    *)
(* returns (the client has a timeout), and time passes.                    *)
Fairness == /\ \A r \in Request : WF_vars(AllowLoad(r) \/ Allow(r) \/ Record(r))
            /\ WF_vars(Tick)

FairSpec == Spec /\ Fairness

-----------------------------------------------------------------------------
Place == {"idle", "loaded", "probing", "admitted"}

(* Every variable has its type.                                            *)
TypeOK == /\ cb \in Breaker
          /\ config \in Configs
          /\ age \in Age
          /\ pc \in [Request -> Place]
          /\ seen \in [Request -> [state : State, age : Age]]
          /\ abandoned \in 0 .. MaxAbandoned

(* The counters belong to the period the breaker is in, whatever the       *)
(* interleaving of stale callers, late outcomes and reloads: failures are  *)
(* counted only while closed and stay below some installed threshold,      *)
(* successes only while half-open, and the slots handed out since the last *)
(* transition never pass the largest limit a reload may have set.          *)
CountersFit ==
  /\ cb.failureCount > 0 =>
       cb.state = Closed /\ \E c \in Configs : cb.failureCount < c.failureThreshold
  /\ cb.successCount > 0 =>
       cb.state = HalfOpen /\ \E c \in Configs : cb.successCount < c.successThreshold
  /\ cb.halfOpenRequests > 0 =>
       \E c \in Configs : cb.halfOpenRequests <= MaxRequests(c)

(* An open breaker is eventually probed, and a half-open period eventually *)
(* ends: the recovery README.md promises.                                  *)
OpenEnds     == (cb.state = Open) ~> (cb.state # Open)
HalfOpenEnds == (cb.state = HalfOpen) ~> (cb.state # HalfOpen)

=============================================================================
