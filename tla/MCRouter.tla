------------------------------ MODULE MCRouter ------------------------------
EXTENDS Router, TLC

CONSTANTS p1, p2, p3

Cfg(failures, successes, limit) ==
  [failureThreshold |-> failures, successThreshold |-> successes,
   timeout |-> 1, halfOpenMaxRequests |-> limit]

TwoFailures == Cfg(2, 1, 1)
TwoSuccesses == Cfg(1, 2, 1)

(* Two models whose chains cross: a chat waits for p2 when p1 has failed,  *)
(* a stream for p1 when p2 has failed.  p3 is not registered.              *)
Crossing == {<<<<p1, p2>>, "chat">>, <<<<p2, p3, p1>>, "stream">>}

(* p3, which has no client, as a primary and as a fallback.                *)
Mixed == {<<p3, p1>>, <<p1, p3, p2>>} \X {"chat", "stream"}

Single == {<<p1>>} \X {"chat", "stream"}

(* A negative limit passes the validation of the configuration.            *)
NoneOrTwo == {-1, 2}

Requests == Permutations(Request)
=============================================================================
