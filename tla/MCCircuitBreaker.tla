-------------------------- MODULE MCCircuitBreaker --------------------------
(* The configurations of the breaker's run.                                *)
EXTENDS CircuitBreaker, TLC

Cfg(failures, successes, timeout, limit) ==
  [failureThreshold |-> failures, successThreshold |-> successes,
   timeout |-> timeout, halfOpenMaxRequests |-> limit]

(* Two thresholds of each kind, a longer timeout and none.                 *)
Reloadable == {Cfg(2, 2, 1, 2), Cfg(1, 1, 0, 2)}
=============================================================================
