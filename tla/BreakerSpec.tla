---------------------------- MODULE BreakerSpec ----------------------------
(***************************************************************************)
(* What a circuit breaker promises, without its counters, locks or slots:  *)
(* the state diagram of the State constants in circuitbreaker.go, moved by *)
(* the sequence of recorded outcomes alone.  losses and wins are the       *)
(* lengths of the current run of equal outcomes in that sequence.          *)
(***************************************************************************)
EXTENDS BreakerOps

CONSTANTS Configs,     \* the configurations a reload may install
          MaxRun       \* where the length of a run saturates

VARIABLES mode, config, losses, wins

vars == <<mode, config, losses, wins>>

Longer(n) == IF n < MaxRun THEN n + 1 ELSE n

Init == /\ mode = Closed
        /\ config \in Configs
        /\ losses = 0
        /\ wins = 0

(* A failure opens a closed breaker when it completes a long enough run,   *)
(* and a half-open one at once.                                            *)
Fail == /\ losses' = Longer(losses)
        /\ wins' = 0
        /\ mode' = IF \/ mode = HalfOpen
                      \/ mode = Closed /\ losses' >= config.failureThreshold
                   THEN Open ELSE mode
        /\ UNCHANGED config

(* A success closes a half-open breaker when it completes a long enough    *)
(* run of successes of this half-open period.                              *)
Succeed == /\ losses' = 0
           /\ wins' = Longer(wins)
           /\ mode' = IF mode = HalfOpen /\ wins' >= config.successThreshold
                      THEN Closed ELSE mode
           /\ UNCHANGED config

(* An open breaker may be probed; the run of successes starts again.       *)
Probe == /\ mode = Open
         /\ mode' = HalfOpen
         /\ wins' = 0
         /\ UNCHANGED <<config, losses>>

Reconfigure == config' \in Configs /\ UNCHANGED <<mode, losses, wins>>

Next == Fail \/ Succeed \/ Probe \/ Reconfigure

Spec == Init /\ [][Next]_vars

=============================================================================
