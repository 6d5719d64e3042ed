---------------------------- MODULE RetryPolicy ----------------------------
(***************************************************************************)
(* What internal/resilience/retry.go decides about a failed call, with the *)
(* errors that internal/providers makes of it.  Durations are whole units, *)
(* the jitter any whole number of them within a quarter.                   *)
(***************************************************************************)
EXTENDS Integers

(* An error that carries no status: of the network, of a context, or an    *)
(* answer whose body the client cannot read.                               *)
NoStatus == 0

(* ProviderError.IsRetryable.  It decides before the retrier looks at      *)
(* retry.retryable_errors, which no error of a provider reaches.           *)
RetryableStatus == {429, 500, 502, 503, 504}

IsRetryable(status) == status = NoStatus \/ status \in RetryableStatus

-----------------------------------------------------------------------------
Smaller(a, b) == IF a < b THEN a ELSE b
Larger(a, b)  == IF a < b THEN b ELSE a

(* The wait before the retry that follows the attempt, counted from 0.     *)
Exponential(retry, attempt) ==
  retry.initialBackoff * retry.backoffMultiplier ^ attempt

Jittered(backoff) == (3 * backoff) \div 4 .. (5 * backoff) \div 4

(* A faulty backoff that is never capped.                                  *)
UncappedBackoffs(retry, attempt) ==
  {Larger(wait, retry.initialBackoff) : wait \in Jittered(Exponential(retry, attempt))}

Backoffs(retry, attempt) ==
  {Larger(wait, retry.initialBackoff) :
     wait \in Jittered(Smaller(Exponential(retry, attempt), retry.maxBackoff))}

=============================================================================
