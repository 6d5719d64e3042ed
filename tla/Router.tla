------------------------------- MODULE Router -------------------------------
(***************************************************************************)
(* internal/router/router.go with the retry loop of resilience/retry.go    *)
(* and the slot a streaming handler keeps: requests walk their chain of    *)
(* endpoints through one breaker and one semaphore per provider.           *)
(*                                                                         *)
(* Abstracted: an endpoint is its provider; Allow is one step (split in    *)
(* CircuitBreaker.tla), and so are Acquire and Release (Semaphore.tla); a  *)
(* breaker's timeout is a flag that a failure clears and time sets.        *)
(***************************************************************************)
EXTENDS BreakerOps, RetryPolicy, FiniteSets, Sequences

CONSTANTS
  Request,         \* goroutines serving requests, one after the other
  Provider,        \* names that endpoints may give
  Registered,      \* those with a client and a breaker; a reload of the
                   \* models may name others
  Reliable,        \* providers that answer every call that is not cancelled
  Traffic,         \* what clients ask for: the chain of a model, primary
                   \* first, and whether in a chat or in a stream
  Capacity,        \* slots of each provider's semaphore
  AttemptLimits,   \* values of retry.max_attempts a reload may install
  Errors,          \* statuses of the errors that providers answer with
  BreakerConfig,
  MaxCancels       \* bound on requests whose client goes away

ASSUME RequestAssumption == IsFiniteSet(Request)
ASSUME ProviderAssumption == Reliable \subseteq Registered /\ Registered \subseteq Provider
ASSUME TrafficAssumption ==
  Traffic \subseteq (Seq(Provider) \ {<<>>}) \X {"chat", "stream"}
ASSUME LimitsAssumption == /\ Capacity \in Nat \ {0} /\ MaxCancels \in Nat
                           /\ AttemptLimits \subseteq Int /\ Errors \subseteq Nat
                           /\ BreakerConfig \in Config

Chains == {t[1] : t \in Traffic}

VARIABLES
  req,         \* each request's progress
  breaker,     \* the breaker of each registered provider
  expired,     \* its timeout has passed since the last failure
  slots,       \* slots taken of each provider's semaphore
  maxAttempts, \* r.retryConfig.MaxAttempts
  cancels      \* requests cancelled so far

vars == <<req, breaker, expired, slots, maxAttempts, cancels>>

Idle == [pc |-> "idle", chain |-> <<>>, pos |-> 1, kind |-> "chat",
         cancelled |-> FALSE, limit |-> 0, attempts |-> 0, result |-> "none",
         retries |-> 0, repeats |-> 0, unasked |-> FALSE]

Init == /\ req = [r \in Request |-> Idle]
        /\ breaker = [p \in Registered |-> NewCircuitBreaker]
        /\ expired = [p \in Registered |-> TRUE]
        /\ slots = [p \in Provider |-> 0]
        /\ maxAttempts \in AttemptLimits
        /\ cancels = 0

At(r, place) == req[r].pc = place
Here(r)      == req[r].chain[req[r].pos]
Inside(r)    == req[r].pos <= Len(req[r].chain)

-----------------------------------------------------------------------------
(* The model's chain is looked up once; a reload in between does not reach *)
(* a request under way.                                                    *)
Start(r) ==
  /\ At(r, "idle")
  /\ \E t \in Traffic :
       req' = [req EXCEPT ![r] = [Idle EXCEPT !.pc = "routing", !.chain = t[1], !.kind = t[2]]]
  /\ UNCHANGED <<breaker, expired, slots, maxAttempts, cancels>>

(* The head of the loop: ask the breaker, then the registry.               *)
MayTry(p) == p \in Registered /\ Admits(breaker[p], BreakerConfig, expired[p])

Admit(r) ==
  /\ At(r, "routing") /\ Inside(r) /\ MayTry(Here(r))
  /\ breaker' = [breaker EXCEPT ![Here(r)] = AfterAllow(@)]
  /\ req' = [req EXCEPT ![r].pc = "acquiring"]
  /\ UNCHANGED <<expired, slots, maxAttempts, cancels>>

Skip(r) ==
  /\ At(r, "routing") /\ Inside(r) /\ ~MayTry(Here(r))
  /\ req' = [req EXCEPT ![r].pos = @ + 1]
  /\ UNCHANGED <<breaker, expired, slots, maxAttempts, cancels>>

AllFailed(r) ==
  /\ At(r, "routing") /\ ~Inside(r)
  /\ req' = [req EXCEPT ![r].pc = "failed"]
  /\ UNCHANGED <<breaker, expired, slots, maxAttempts, cancels>>

FreeOffByOne(p) == slots[p] <= Capacity

Free(p) == slots[p] < Capacity

(* Acquire succeeds; the retrier copies the retry configuration, a stream  *)
(* is opened without one.                                                  *)
Acquire(r) ==
  /\ At(r, "acquiring") /\ Free(Here(r))
  /\ slots' = [slots EXCEPT ![Here(r)] = @ + 1]
  /\ req' = [req EXCEPT
       ![r].pc = IF req[r].kind = "chat" THEN "attempting" ELSE "opening",
       ![r].limit = maxAttempts,
       ![r].attempts = IF req[r].kind = "chat" THEN 0 ELSE 1]
  /\ UNCHANGED <<breaker, expired, maxAttempts, cancels>>

(* The context ends while waiting: on to the next endpoint, the breaker's  *)
(* grant is neither used nor given back.                                   *)
AcquireCancelled(r) ==
  /\ At(r, "acquiring") /\ req[r].cancelled
  /\ req' = [req EXCEPT ![r].pc = "routing", ![r].pos = @ + 1]
  /\ UNCHANGED <<breaker, expired, slots, maxAttempts, cancels>>

-----------------------------------------------------------------------------
(* ExecuteWithResult.                                                      *)
Settle(r, result) ==
  /\ req' = [req EXCEPT ![r].pc = "releasing", ![r].result = result]
  /\ UNCHANGED <<breaker, expired, slots, maxAttempts, cancels>>

Attempt(r) ==
  /\ At(r, "attempting") /\ req[r].attempts < req[r].limit /\ ~req[r].cancelled
  /\ req' = [req EXCEPT ![r].pc = "calling", ![r].attempts = @ + 1,
                        ![r].repeats = IF req[r].attempts > 0 THEN @ + 1 ELSE @]
  /\ UNCHANGED <<breaker, expired, slots, maxAttempts, cancels>>

(* The context is looked at after the attempt was counted.                 *)
AttemptCancelled(r) ==
  /\ At(r, "attempting") /\ req[r].attempts < req[r].limit /\ req[r].cancelled
  /\ req' = [req EXCEPT ![r].pc = "releasing", ![r].result = "error",
                        ![r].attempts = @ + 1]
  /\ UNCHANGED <<breaker, expired, slots, maxAttempts, cancels>>

(* A limit below one: no attempt, no error, and a result of no type.       *)
NoAttempts(r) ==
  /\ At(r, "attempting") /\ req[r].limit < 1
  /\ req' = [req EXCEPT ![r].pc = "releasing", ![r].result = "none", ![r].unasked = TRUE]
  /\ UNCHANGED <<breaker, expired, slots, maxAttempts, cancels>>

CallSucceeds(r) == At(r, "calling") /\ Settle(r, "ok")

(* A call fails because the provider does, or because the context ended,   *)
(* which leaves an error without a status.                                 *)
Failures(r) == (IF Here(r) \in Reliable THEN {} ELSE Errors)
               \cup (IF req[r].cancelled THEN {NoStatus} ELSE {})

(* The error is not to be retried, or this was the last attempt.           *)
CallFailsFinally(r) ==
  /\ At(r, "calling")
  /\ \E e \in Failures(r) : ~IsRetryable(e) \/ req[r].attempts = req[r].limit
  /\ Settle(r, "error")

CallFailsRetryably(r) ==
  /\ At(r, "calling") /\ req[r].attempts < req[r].limit
  /\ \E e \in Failures(r) : IsRetryable(e)
  /\ req' = [req EXCEPT ![r].pc = "backoff"]
  /\ UNCHANGED <<breaker, expired, slots, maxAttempts, cancels>>

BackoffOver(r) ==
  /\ At(r, "backoff")
  /\ req' = [req EXCEPT ![r].pc = "attempting"]
  /\ UNCHANGED <<breaker, expired, slots, maxAttempts, cancels>>

BackoffCancelled(r) == At(r, "backoff") /\ req[r].cancelled /\ Settle(r, "error")

-----------------------------------------------------------------------------
(* After the retrier, and after a stream that did not open: release, count *)
(* the retries, record the outcome.                                        *)
ReleaseCountsAttempts(r) ==
  /\ At(r, "releasing")
  /\ slots' = [slots EXCEPT ![Here(r)] = @ - 1]
  /\ req' = [req EXCEPT ![r].pc = "recording", ![r].retries = @ + req[r].attempts]
  /\ UNCHANGED <<breaker, expired, maxAttempts, cancels>>

Release(r) ==
  /\ At(r, "releasing")
  /\ slots' = [slots EXCEPT ![Here(r)] = @ - 1]
  /\ req' = [req EXCEPT ![r].pc = "recording", ![r].retries = @ + req[r].attempts - 1]
  /\ UNCHANGED <<breaker, expired, maxAttempts, cancels>>

RecordSuccess(r) ==
  /\ At(r, "recording") /\ req[r].result = "ok"
  /\ breaker' = [breaker EXCEPT ![Here(r)] = OnSuccess(@, BreakerConfig)]
  /\ req' = [req EXCEPT ![r].pc = "served"]
  /\ UNCHANGED <<expired, slots, maxAttempts, cancels>>

(* A faulty loop that returns the first error instead of falling back.     *)
FailureEndsRequest(r) ==
  /\ At(r, "recording") /\ req[r].result = "error"
  /\ breaker' = [breaker EXCEPT ![Here(r)] = OnFailure(@, BreakerConfig)]
  /\ expired' = [expired EXCEPT ![Here(r)] = FALSE]
  /\ req' = [req EXCEPT ![r].pc = "failed"]
  /\ UNCHANGED <<slots, maxAttempts, cancels>>

(* The failure of an endpoint leads to the next one.                       *)
RecordFailure(r) ==
  /\ At(r, "recording") /\ req[r].result = "error"
  /\ breaker' = [breaker EXCEPT ![Here(r)] = OnFailure(@, BreakerConfig)]
  /\ expired' = [expired EXCEPT ![Here(r)] = FALSE]
  /\ req' = [req EXCEPT ![r].pc = "routing", ![r].pos = @ + 1, ![r].result = "none"]
  /\ UNCHANGED <<slots, maxAttempts, cancels>>

(* A result of the wrong type: nothing is recorded.                        *)
WrongType(r) ==
  /\ At(r, "recording") /\ req[r].result = "none"
  /\ req' = [req EXCEPT ![r].pc = "routing", ![r].pos = @ + 1]
  /\ UNCHANGED <<breaker, expired, slots, maxAttempts, cancels>>

-----------------------------------------------------------------------------
(* ExecuteChatStream records success when the stream opens and hands the   *)
(* slot to the handler, whose deferred function releases it however the    *)
(* stream ends: EOF, an error, or the client gone.                         *)
OpenSucceeds(r) ==
  /\ At(r, "opening")
  /\ breaker' = [breaker EXCEPT ![Here(r)] = OnSuccess(@, BreakerConfig)]
  /\ req' = [req EXCEPT ![r].pc = "streaming"]
  /\ UNCHANGED <<expired, slots, maxAttempts, cancels>>

OpenFails(r) == At(r, "opening") /\ Failures(r) # {} /\ Settle(r, "error")

StreamKeepsSlot(r) ==
  /\ At(r, "streaming")
  /\ req' = [req EXCEPT ![r].pc = "served"]
  /\ UNCHANGED <<breaker, expired, slots, maxAttempts, cancels>>

StreamEnds(r) ==
  /\ At(r, "streaming")
  /\ slots' = [slots EXCEPT ![Here(r)] = @ - 1]
  /\ req' = [req EXCEPT ![r].pc = "served"]
  /\ UNCHANGED <<breaker, expired, maxAttempts, cancels>>

Finish(r) ==
  /\ req[r].pc \in {"served", "failed"}
  /\ req' = [req EXCEPT ![r] = Idle]
  /\ UNCHANGED <<breaker, expired, slots, maxAttempts, cancels>>

-----------------------------------------------------------------------------
(* The client disconnects or its deadline passes.                          *)
Cancel(r) ==
  /\ cancels < MaxCancels
  /\ req[r].pc \notin {"idle", "served", "failed"} /\ ~req[r].cancelled
  /\ req' = [req EXCEPT ![r].cancelled = TRUE]
  /\ cancels' = cancels + 1
  /\ UNCHANGED <<breaker, expired, slots, maxAttempts>>

Expire(p) ==
  /\ ~expired[p]
  /\ expired' = [expired EXCEPT ![p] = TRUE]
  /\ UNCHANGED <<req, breaker, slots, maxAttempts, cancels>>

UpdateRetryConfig ==
  /\ maxAttempts' \in AttemptLimits
  /\ UNCHANGED <<req, breaker, expired, slots, cancels>>

ExecuteChat(r) ==
  \/ Attempt(r) \/ AttemptCancelled(r) \/ NoAttempts(r)
  \/ CallSucceeds(r) \/ CallFailsFinally(r) \/ CallFailsRetryably(r)
  \/ BackoffOver(r) \/ BackoffCancelled(r)

ExecuteChatStream(r) == OpenSucceeds(r) \/ OpenFails(r) \/ StreamEnds(r)

Route(r) ==
  \/ Admit(r) \/ Skip(r) \/ AllFailed(r) \/ AcquireCancelled(r)
  \/ Release(r) \/ RecordSuccess(r) \/ RecordFailure(r) \/ WrongType(r)

Progress(r) == Route(r) \/ ExecuteChat(r) \/ ExecuteChatStream(r) \/ Finish(r)

Next == \/ \E r \in Request : Start(r) \/ Acquire(r) \/ Progress(r) \/ Cancel(r)
        \/ \E p \in Registered : Expire(p)
        \/ UpdateRetryConfig

Spec == Init /\ [][Next]_vars

(* Traffic for every model goes on; a call, a backoff and a stream end     *)
(* (clients and contexts have timeouts); time passes; senders on a         *)
(* semaphore's channel are served in order.                                *)
Fairness == /\ \A c \in Chains : SF_vars(\E r \in Request : Start(r) /\ req'[r].chain = c)
            /\ \A r \in Request : WF_vars(Progress(r)) /\ SF_vars(Acquire(r))
            /\ \A p \in Registered : WF_vars(Expire(p))

FairSpec == Spec /\ Fairness

-----------------------------------------------------------------------------
Place == {"idle", "routing", "acquiring", "attempting", "calling", "backoff",
          "opening", "streaming", "releasing", "recording", "served", "failed"}

Journey == [pc : Place, chain : Chains \cup {<<>>}, pos : Nat,
            kind : {"chat", "stream"}, cancelled : BOOLEAN, limit : Int,
            attempts : Nat, result : {"none", "ok", "error"},
            retries : Int, repeats : Nat, unasked : BOOLEAN]

(* Every variable has its type.                                            *)
TypeOK == /\ req \in [Request -> Journey]
          /\ breaker \in [Registered -> Breaker]
          /\ expired \in [Registered -> BOOLEAN]
          /\ slots \in [Provider -> 0 .. Capacity]
          /\ maxAttempts \in AttemptLimits
          /\ cancels \in 0 .. MaxCancels

Holding == {"attempting", "calling", "backoff", "opening", "streaming", "releasing"}

(* A provider's slots are those of the requests that hold one now: no path *)
(* through retries, fallbacks, cancellations, failed opens or streams      *)
(* loses a slot or gives one back twice.                                   *)
SlotsMatch ==
  \A p \in Provider :
    slots[p] = Cardinality({r \in Request : req[r].pc \in Holding /\ Here(r) = p})

(* INTERNALS.md: X-Resillm-Retries is the "Number of retries".  A served   *)
(* request reports each call that repeats one at the same endpoint, and    *)
(* nothing else, wherever it was when the limits changed: no attempt that  *)
(* was counted and not made.                                               *)
(* Nothing is claimed of a request that has left an endpoint without a     *)
(* call because the limit was below one: it reports one too few for each.  *)
RetriesCounted ==
  \A r \in Request :
    At(r, "served") /\ ~req[r].unasked => req[r].retries = req[r].repeats

(* A request of a client that waits fails only if no provider of its chain *)
(* is reliable, whatever happens to the other providers and requests; or   *)
(* if the limit was below one where it might have called the provider.     *)
ReliableServes ==
  \A r \in Request :
    At(r, "failed") /\ ~req[r].cancelled /\ ~req[r].unasked =>
      \A i \in DOMAIN req[r].chain : req[r].chain[i] \notin Reliable

(* Every request is answered, on chains that cross and wherever providers  *)
(* fail or have no client: a request gives its slot back before it waits   *)
(* for one of the next provider, and does so on every way out of a loop,   *)
(* so no two wait for each other and none waits for a slot that was lost.  *)
RequestEnds == \A r \in Request : At(r, "routing") ~> At(r, "idle")

Primaries == {c[1] : c \in Chains}

(* README.md: "The circuit will automatically recover after the timeout    *)
(* period": a half-open breaker that gets traffic closes or opens again.   *)
PrimaryRecovers ==
  \A p \in Primaries \cap Registered :
    (breaker[p].state = HalfOpen) ~> (breaker[p].state # HalfOpen)

=============================================================================
