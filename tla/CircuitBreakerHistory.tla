----------------------- MODULE CircuitBreakerHistory -----------------------
(***************************************************************************)
(* CircuitBreaker with history variables: the run of outcomes recorded so  *)
(* far and the requests granted in the current open or half-open period.   *)
(* They only watch; every step of CircuitBreaker remains possible.         *)
(***************************************************************************)
EXTENDS CircuitBreaker

CONSTANT MaxRun        \* where the length of a run saturates

ASSUME MaxRunAssumption ==
  /\ MaxRun \in Nat
  /\ \A c \in Configs : c.failureThreshold <= MaxRun /\ c.successThreshold <= MaxRun

VARIABLES
  losses, wins,        \* length of the current run of failures, of successes
  grants,              \* grants in the current open or half-open period
  openFor,             \* ticks since the breaker opened, while it is open
  inside               \* requests in Allow since before it opened

hvars == <<cb, config, age, pc, seen, abandoned, losses, wins, grants, openFor, inside>>

Contract == INSTANCE BreakerSpec WITH mode <- cb.state

HInit == Init /\ losses = 0 /\ wins = 0 /\ grants = 0
         /\ openFor = Never /\ inside = {}

(* Grants of the period the breaker is in after the step.                  *)
Count(granted) ==
  grants' = IF cb'.state = Closed THEN 0
            ELSE (IF cb'.state = cb.state THEN grants ELSE 0)
                 + (IF granted THEN 1 ELSE 0)

InAllow == {"loaded", "probing"}

(* The open period the breaker is in after a step of a request.            *)
Period ==
  /\ openFor' = IF cb'.state # Open THEN Never
                ELSE IF cb.state # Open THEN 0 ELSE openFor
  /\ inside' = IF cb'.state # Open THEN {}
               ELSE IF cb.state # Open THEN {r \in Request : pc[r] \in InAllow}
               ELSE {r \in inside : pc'[r] \in InAllow}

HGrant(r) == /\ AllowClosed(r) \/ AllowHalfOpen(r)
             /\ Count(TRUE)
             /\ Period
             /\ UNCHANGED <<losses, wins>>

HProbe(r) == /\ AllowProbe(r)
             /\ Count(TRUE)
             /\ wins' = IF cb.state = Open THEN 0 ELSE wins
             /\ Period
             /\ UNCHANGED losses

HSuccess(r) == /\ RecordSuccess(r)
               /\ Count(FALSE)
               /\ losses' = 0
               /\ wins' = Contract!Longer(wins)
               /\ Period

HFailure(r) == /\ RecordFailure(r)
               /\ Count(FALSE)
               /\ losses' = Contract!Longer(losses)
               /\ wins' = 0
               /\ Period

HTick == /\ Tick
         /\ openFor' = Older(openFor)
         /\ UNCHANGED <<losses, wins, grants, inside>>

HOther == /\ \/ \E r \in Request : \/ AllowLoad(r)
                                   \/ AllowRejectOpen(r)
                                   \/ AllowTimedOut(r)
                                   \/ AllowRejectHalfOpen(r)
                                   \/ Abandon(r)
             \/ UpdateConfig
          /\ Period
          /\ UNCHANGED <<losses, wins, grants>>

HNext == \/ \E r \in Request : HGrant(r) \/ HProbe(r) \/ HSuccess(r) \/ HFailure(r)
         \/ HTick
         \/ HOther

HSpec == HInit /\ [][HNext]_hvars

HFairSpec == HSpec /\ Fairness

-----------------------------------------------------------------------------
(* The breaker implements its contract: the locks, the stale copies and    *)
(* the counters of the code, whatever the interleaving of callers, late    *)
(* outcomes and reloads, move the state as the runs of outcomes say.       *)
ImplementsContract == Contract!Spec

(* Requests granted while the breaker is not closed.  An open breaker lets *)
(* through only requests that entered Allow before it opened: the caller   *)
(* that opened it is not one of them.  A half-open period lets through the *)
(* configured number, and at most one more for each caller: a prober or a  *)
(* stale caller takes no slot, once.                                       *)
GrantsBounded ==
  /\ cb.state = Open => grants < Cardinality(Request)
  /\ cb.state = HalfOpen =>
       \E c \in Configs : grants <= MaxRequests(c) + Cardinality(Request)

(* INTERNALS.md, "Open -> HalfOpen: After timeout duration": an open       *)
(* breaker is probed only when it has been open for longer than a timeout  *)
(* in force, or by a request that has been in Allow since before it opened *)
(* and decides on the times of an earlier period.                          *)
OpenLastsTimeout ==
  [][\A r \in Request :
       HProbe(r) /\ cb.state = Open =>
         r \in inside \/ \E c \in Configs : openFor > c.timeout]_hvars

=============================================================================
