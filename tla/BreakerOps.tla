----------------------------- MODULE BreakerOps -----------------------------
(***************************************************************************)
(* The circuit breaker of internal/resilience/circuitbreaker.go as a       *)
(* value: what each operation does to the fields of the struct while it    *)
(* holds cb.mu.  CircuitBreaker.tla interleaves these critical sections,   *)
(* Router.tla composes one breaker per provider with the routing loop.     *)
(***************************************************************************)
EXTENDS Integers

CONSTANT DefaultHalfOpenMax   \* defaultHalfOpenMaxRequests, 50 in the code

ASSUME DefaultHalfOpenMaxAssumption == DefaultHalfOpenMax \in Nat \ {0}

Closed   == "closed"
Open     == "open"
HalfOpen == "half-open"
State    == {Closed, Open, HalfOpen}

(* CircuitBreakerConfig.  A negative value survives applyDefaults, which   *)
(* replaces only zeros, so the thresholds and the limit are integers.      *)
Config == [failureThreshold : Int, successThreshold : Int,
           timeout : Int, halfOpenMaxRequests : Int]

(* The lock-protected fields that the operations branch on.                *)
Breaker == [state : State, failureCount : Nat,
            successCount : Nat, halfOpenRequests : Nat]

InState(s) == [state |-> s, failureCount |-> 0,
               successCount |-> 0, halfOpenRequests |-> 0]

NewCircuitBreaker == InState(Closed)

(* A faulty transitionTo that forgets to reset the half-open slots.        *)
TransitionKeepsSlots(b, s) ==
  IF b.state = s THEN b
  ELSE [InState(s) EXCEPT !.halfOpenRequests = b.halfOpenRequests]

TransitionTo(b, s) == IF b.state = s THEN b ELSE InState(s)

(* The limit in force: a configured limit that is not positive is replaced *)
(* by the default.                                                         *)
MaxRequests(cfg) == IF cfg.halfOpenMaxRequests <= 0
                    THEN DefaultHalfOpenMax
                    ELSE cfg.halfOpenMaxRequests

(* Faulty variants of RecordSuccess: a success that does not end the run   *)
(* of failures, and one that gives back a half-open slot, although the     *)
(* prober took none.                                                       *)
SuccessKeepsFailures(b, cfg) ==
  IF b.state # HalfOpen THEN b
  ELSE IF b.successCount + 1 >= cfg.successThreshold
       THEN TransitionTo(b, Closed)
       ELSE [b EXCEPT !.successCount = @ + 1]

SuccessFreesSlot(b, cfg) ==
  CASE b.state = Closed   -> [b EXCEPT !.failureCount = 0]
    [] b.state = HalfOpen ->
         IF b.successCount + 1 >= cfg.successThreshold
         THEN TransitionTo(b, Closed)
         ELSE [b EXCEPT !.successCount = @ + 1, !.halfOpenRequests = @ - 1]
    [] OTHER              -> b

(* RecordSuccess on the breaker's fields.                                  *)
OnSuccess(b, cfg) ==
  CASE b.state = Closed   -> [b EXCEPT !.failureCount = 0]
    [] b.state = HalfOpen ->
         IF b.successCount + 1 >= cfg.successThreshold
         THEN TransitionTo(b, Closed)
         ELSE [b EXCEPT !.successCount = @ + 1]
    [] OTHER              -> b

(* RecordFailure on the breaker's fields; the failure time is kept apart.  *)
OnFailure(b, cfg) ==
  CASE b.state = Closed   ->
         IF b.failureCount + 1 >= cfg.failureThreshold
         THEN TransitionTo(b, Open)
         ELSE [b EXCEPT !.failureCount = @ + 1]
    [] b.state = HalfOpen -> TransitionTo(b, Open)
    [] OTHER              -> b

(* Allow taken as one step: does it grant, and what does a grant change.   *)
(* CircuitBreaker.tla shows what the code's separate reads add to this.    *)
Admits(b, cfg, timedOut) ==
  CASE b.state = Closed   -> TRUE
    [] b.state = Open     -> timedOut
    [] b.state = HalfOpen -> b.halfOpenRequests < MaxRequests(cfg)

(* A faulty Allow that counts the prober against the half-open limit.      *)
AllowCountsProber(b) ==
  IF b.state = Closed THEN b
  ELSE [TransitionTo(b, HalfOpen) EXCEPT !.halfOpenRequests = @ + 1]

AfterAllow(b) ==
  CASE b.state = Closed   -> b
    [] b.state = Open     -> TransitionTo(b, HalfOpen)
    [] b.state = HalfOpen -> [b EXCEPT !.halfOpenRequests = @ + 1]

=============================================================================
