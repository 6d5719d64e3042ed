------------------------------- MODULE Budget -------------------------------
(***************************************************************************)
(* internal/budget/tracker.go with internal/pricing/calculator.go, and the *)
(* places in server/handlers.go that use them: a request is checked        *)
(* against the spend of the last hour and day before it is routed, and its *)
(* cost is recorded when it has been answered.  In between, other requests *)
(* are checked and recorded.                                               *)
(*                                                                         *)
(* Costs are whole numbers and time is counted in ticks from 0; a window   *)
(* is a function from the start of a bucket to its value, where 0 stands   *)
(* for no bucket.                                                          *)
(***************************************************************************)
EXTENDS Integers, FiniteSets, FiniteSetsExt, Functions

CONSTANTS
  Request,                  \* goroutines serving requests
  Models, Usages,           \* providers' models, and numbers of tokens
  Prices, DefaultPricing,   \* of a token of the prompt and of the completion
  Configs,                  \* budget configurations a reload may install
  HourWindow, HourBucket,   \* lengths in ticks; an hour and a minute,
  DayWindow, DayBucket,     \* a day and an hour in the code
  MaxTime,                  \* bound on the clock
  MaxSpent                  \* bound on what a tracker's requests have cost

ASSUME RequestAssumption == IsFiniteSet(Request)
ASSUME PricesAssumption ==
  /\ IsFiniteSet(Models) /\ Models # {} /\ DOMAIN Prices \subseteq Models
  /\ {DefaultPricing} \cup Range(Prices) \subseteq [prompt : Nat, completion : Nat]
  /\ IsFiniteSet(Usages) /\ Usages # {} /\ Usages \subseteq [prompt : Nat, completion : Nat]
ASSUME ConfigsAssumption ==
  Configs \subseteq [enabled : BOOLEAN, maxHour : Nat, maxDay : Nat,
                     action : {"reject", "allow_with_warning", "default"}]
ASSUME WindowsAssumption ==
  /\ {HourWindow, DayWindow} \subseteq Nat /\ {HourBucket, DayBucket} \subseteq Nat \ {0}
  /\ HourWindow >= HourBucket /\ DayWindow >= DayBucket
  /\ MaxTime \in Nat /\ MaxSpent \in Nat

VARIABLES
  now,
  config,        \* t.cfg of the tracker in use
  hourlyWindow, dailyWindow,
  pc, kind,      \* where each request is, chat or stream
  recorded,      \* history: cost recorded in this tracker at each time
  streamed       \* history: cost of streams served at each time

vars == <<now, config, hourlyWindow, dailyWindow, pc, kind, recorded, streamed>>

(* What an answer costs: a model the table lacks has a price all the same. *)
Pricing(model) == IF model \in DOMAIN Prices THEN Prices[model] ELSE DefaultPricing

Calculate(model, usage) == usage.prompt * Pricing(model).prompt
                           + usage.completion * Pricing(model).completion

Costs == {Calculate(model, usage) : model \in Models, usage \in Usages}

Time == 0 .. MaxTime
Nothing == [t \in Time |-> 0]

Init == /\ now = 0
        /\ config \in Configs
        /\ hourlyWindow = Nothing
        /\ dailyWindow = Nothing
        /\ pc = [r \in Request |-> "idle"]
        /\ kind = [r \in Request |-> "chat"]
        /\ recorded = Nothing
        /\ streamed = Nothing

-----------------------------------------------------------------------------
(* RollingWindow.                                                          *)

(* cleanExpired: a bucket lives by the time it starts.                     *)
NeverExpired(w, size) == w

CleanExpired(w, size) == [t \in Time |-> IF t > now - size THEN w[t] ELSE 0]

Total(w, from) == MapThenSumSet(LAMBDA t : w[t], {t \in Time : t >= from})

Sum(w, size) == Total(CleanExpired(w, size), 0)

BucketTime(bucket) == (now \div bucket) * bucket

Add(w, size, bucket, cost) ==
  [CleanExpired(w, size) EXCEPT ![BucketTime(bucket)] = @ + cost]

-----------------------------------------------------------------------------
(* Check, called with an estimated cost of 0.                              *)
OverLimitOnly(spent, limit) == limit > 0 /\ spent > limit

Exceeds(spent, limit) == limit > 0 /\ spent >= limit

Exceeded == \/ Exceeds(Sum(hourlyWindow, HourWindow), config.maxHour)
            \/ Exceeds(Sum(dailyWindow, DayWindow), config.maxDay)

(* Sum drops the expired buckets, whatever Check then answers.  A budget   *)
(* that only warns lets the request through; the warning is left out.      *)
Check(r, k) ==
  /\ pc[r] = "idle"
  /\ kind' = [kind EXCEPT ![r] = k]
  /\ IF config.enabled
     THEN /\ hourlyWindow' = CleanExpired(hourlyWindow, HourWindow)
          /\ dailyWindow' = CleanExpired(dailyWindow, DayWindow)
     ELSE UNCHANGED <<hourlyWindow, dailyWindow>>
  /\ UNCHANGED <<now, config, recorded, streamed>>

Rejects == config.enabled /\ Exceeded /\ config.action = "reject"

Reject(r, k) ==
  /\ Rejects
  /\ Check(r, k)
  /\ UNCHANGED pc

Allow(r, k) ==
  /\ ~Rejects
  /\ Check(r, k)
  /\ pc' = [pc EXCEPT ![r] = "routing"]

(* GET /v1/budget: Status takes the two sums.                              *)
Status == /\ hourlyWindow' = CleanExpired(hourlyWindow, HourWindow)
          /\ dailyWindow' = CleanExpired(dailyWindow, DayWindow)
          /\ UNCHANGED <<now, config, pc, kind, recorded, streamed>>

Finish(r) == /\ pc[r] = "routing"
             /\ pc' = [pc EXCEPT ![r] = "idle"]
             /\ UNCHANGED <<now, config, kind>>

(* The providers failed: nothing is recorded.                              *)
Fail(r) == /\ Finish(r)
           /\ UNCHANGED <<hourlyWindow, dailyWindow, recorded, streamed>>

RecordHourOnly(cost) ==
  /\ hourlyWindow' = Add(hourlyWindow, HourWindow, HourBucket, cost)
  /\ recorded' = [recorded EXCEPT ![now] = @ + cost]
  /\ UNCHANGED dailyWindow

Record(cost) ==
  /\ hourlyWindow' = Add(hourlyWindow, HourWindow, HourBucket, cost)
  /\ dailyWindow' = Add(dailyWindow, DayWindow, DayBucket, cost)
  /\ recorded' = [recorded EXCEPT ![now] = @ + cost]

Affordable(cost) == Total(recorded, 0) + Total(streamed, 0) + cost <= MaxSpent

(* A served chat request records a positive cost.                          *)
Serve(r, cost) ==
  /\ kind[r] = "chat" /\ Affordable(cost)
  /\ Finish(r)
  /\ IF config.enabled /\ cost > 0
     THEN Record(cost)
     ELSE UNCHANGED <<hourlyWindow, dailyWindow, recorded>>
  /\ UNCHANGED streamed

(* A served stream costs as much, and nothing is computed or recorded.     *)
ServeStream(r, cost) ==
  /\ kind[r] = "stream" /\ Affordable(cost)
  /\ Finish(r)
  /\ streamed' = [streamed EXCEPT ![now] = @ + cost]
  /\ UNCHANGED <<hourlyWindow, dailyWindow, recorded>>

-----------------------------------------------------------------------------
(* applyConfig replaces the tracker by a new one when the limits change:   *)
(* requests under way were checked by the old one and record in the new.   *)
(* Reset does the same and keeps the configuration.                        *)
NewTracker ==
  /\ config' \in Configs
  /\ hourlyWindow' = Nothing
  /\ dailyWindow' = Nothing
  /\ recorded' = Nothing
  /\ streamed' = Nothing
  /\ UNCHANGED <<now, pc, kind>>

Tick ==
  /\ now < MaxTime
  /\ now' = now + 1
  /\ UNCHANGED <<config, hourlyWindow, dailyWindow, pc, kind, recorded, streamed>>

Next == \/ \E r \in Request : \/ \E k \in {"chat", "stream"} : Allow(r, k) \/ Reject(r, k)
                              \/ \E cost \in Costs : Serve(r, cost) \/ ServeStream(r, cost)
                              \/ Fail(r)
        \/ Status \/ NewTracker \/ Tick

Spec == Init /\ [][Next]_vars

-----------------------------------------------------------------------------
(* A window's sum, at any time it may be read: all the cost recorded in    *)
(* the last window less one bucket, and nothing older than the window.     *)
Accurate(w, size, bucket) ==
  /\ Sum(w, size) >= Total(recorded, now - size + bucket)
  /\ Sum(w, size) <= Total(recorded, now - size + 1)

WindowsAccurate == /\ Accurate(hourlyWindow, HourWindow, HourBucket)
                   /\ Accurate(dailyWindow, DayWindow, DayBucket)

InFlight == Cardinality({r \in Request : pc[r] = "routing" /\ kind[r] = "chat"})

(* A limit is passed at most by the requests checked before it was reached:*)
(* what is recorded, and what the requests under way may still record.     *)
Overshoot(w, size, limit) ==
  limit > 0 => Sum(w, size) + InFlight * Max(Costs)
                 <= limit - 1 + Cardinality(Request) * Max(Costs)

OvershootBounded ==
  config.enabled /\ config.action = "reject" =>
    /\ Overshoot(hourlyWindow, HourWindow, config.maxHour)
    /\ Overshoot(dailyWindow, DayWindow, config.maxDay)

(* A request is rejected only if the requests of the last hour, or of the  *)
(* last day, have cost the limit: the budget recovers as time passes.      *)
RejectedOverBudget ==
  [][(\E r \in Request, k \in {"chat", "stream"} : Reject(r, k)) =>
       \/ config.maxHour > 0 /\ Total(recorded, now - HourWindow + 1) >= config.maxHour
       \/ config.maxDay > 0 /\ Total(recorded, now - DayWindow + 1) >= config.maxDay]_vars

(* INTERNALS.md: "After successful requests, actual cost is recorded":     *)
(* the hourly sum holds the cost of the requests served in the last hour.  *)
SpendRecorded ==
  config.enabled =>
    Sum(hourlyWindow, HourWindow) >= Total(recorded, now - HourWindow + HourBucket)
                                     + Total(streamed, now - HourWindow + HourBucket)

=============================================================================
