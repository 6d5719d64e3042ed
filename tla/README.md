# resillm in TLA+

resillm is an HTTP proxy in front of LLM providers: it retries, falls back from
one provider to the next, breaks circuits, limits concurrency, rates,
connections and spend, and reloads its configuration. This directory holds TLA+
models of the parts where these mechanisms are concurrent, the TLC
configurations that check them on small instances, and TLAPS proofs for every
instance of all the safety properties and refinements the runs check.

Paths below are relative to `src/internal/` unless they start with `src/`.

## 1. Inventory

A request passes, from outside to inside: the load shedder, the rate limiter,
the metrics, logging and header middlewares, the handler (budget check), the
router (per endpoint: breaker, registry, semaphore, retrier, provider), and on
the way back the breaker's outcome and the budget's cost.

| component | state | operations | hard behaviour | what makes it correct |
|---|---|---|---|---|
| circuit breaker `resilience/circuitbreaker.go` | state, three counters, last failure time, configuration | Allow, RecordSuccess, RecordFailure, UpdateConfig | Allow decides on a copy taken under a lock it has released; outcomes arrive in another period than their request was granted in; reloads change thresholds under running counters | the state follows the runs of outcomes; few requests pass while it is not closed; it opens for the timeout; it recovers |
| semaphores `providers/semaphore.go` | a map, a channel and a counter per provider | Get, Acquire, TryAcquire, Release | racing creation; counter and channel change in two steps; cancellation while waiting | at most `capacity` requests at a provider; waiting ends; the reported count is explained |
| retry `resilience/retry.go`, `providers/provider.go` | none (a loop over a copied configuration) | ExecuteWithResult, isRetryable, calculateBackoff | cancellation between attempts and in a backoff; a configuration that a reload writes while it is copied | attempts are counted right; waits stay within configured bounds |
| router `router/router.go` | models, retry configuration | ExecuteChat, ExecuteChatStream, UpdateModels, UpdateRetryConfig | many exits from the middle of the loop; the slot of a stream changes hands; chains that cross | no slot is lost or released twice; a reliable fallback serves; every request ends |
| load shedder `server/loadshed.go` | active requests; a counter per address | Middleware, TrackConnection, ReleaseConnection, cleanup | check and count are separate; cleanup removes counters in use; close events of refused connections | counts match what they count; limits hold |
| rate limiter `server/ratelimit.go` | sharded map of buckets, number of entries | GetLimiter, cleanup, Stop | racing creation; a bucket is used after the lock is gone; cleanup shard by shard; racing stores of the access time | one bucket per address; cleanup cannot be noticed |
| budget `budget/tracker.go` and the handlers | two rolling windows, configuration | Check, Record, Status, Reset, replacement | checked before, charged after; buckets expire; replaced under running requests | windows hold the spend of the last hour and day; overshoot is bounded; all spend is recorded |
| configuration loading `config/config.go` | none (a function of the file and the environment) | Load: expansion, defaults, two validations | zero stands for unset; half-written and malformed files | a refused file changes nothing; what is accepted names only configured providers |
| reload `config/watcher.go`, `server/server.go` | the file, events, timer, lock, stored configuration, settings in use | Start, watch, reload, Stop, applyConfig, `/admin/reload` | overlapping reloads; a watch that fails to start; a timer that cannot be stopped any more; comparison with what is stored; requests that read without the lock | the last edit wins; nothing older returns; what is stored is in use; a request sees only what was in use |
| handlers `server/handlers.go` | none of their own | chat, stream, health, budget, reload | the order of the decisions; the cleanup of streams | modelled with budget and router |
| server assembly, command `server/server.go`, `src/cmd/resillm/main.go` | the components; how far Run has come | NewWithPath, Run, the signal, the exit | shutdown beside requests and reloads; the deferred Stop | a signal ends the command |
| provider clients and registry `providers/` | clients, made at the start | NewRegistry, calls | a reload names providers without a client; which errors are retryable | partly modelled |
| pricing `pricing/calculator.go` | a table | Calculate | a model the table lacks | modelled in the budget |
| metrics, types | counters, records | none that decides anything | | not modelled |

The components share state only where the table says so: requests meet in the
breakers, semaphores, buckets, counters and windows; a reload reaches the
breakers (UpdateConfig), the router (UpdateModels, UpdateRetryConfig) and the
server (the tracker and the configuration are replaced). `PROJECT.json` lists
the hazards with the line at which each bites and the property that watches it.

## 2. Modules

```
BreakerOps            a breaker as a value: the effect of each operation
  CircuitBreaker      one breaker, its critical sections interleaved
    CircuitBreakerHistory   the same with history variables
      => BreakerSpec        what a breaker promises: runs of outcomes only
  Router              breakers, semaphores, retries and streams composed
RetryPolicy           which errors are retried, and after what wait
  Router, Serving
Semaphore
LoadShedder
RateLimiter           => TokenBucket    one bucket per address, never dropped
Budget                with the prices of answers
ConfigLoading         what Load makes of a file
  ConfigReload        edits, events, timers, reloads and what is in use
    Serving           Run from start to exit, and requests beside the reloads
```

`=>` is refinement: the module instantiates the abstract one with a mapping and
a run checks it as a property. `MC*` modules only give constants their values.
`X_proofs` holds the theorems about `X`; `CircuitBreaker_proofs` has those of
CircuitBreakerHistory too, and `Serving_proofs` those of ConfigReload.
`Sums_proofs` is what the sums of LoadShedder and Budget need.
Operators whose comment calls them faulty are plausible bugs, used to test that
a property notices them; no specification uses them.

**BreakerOps, CircuitBreaker.** `cb` holds the fields under `cb.mu`; the time
since the last failure is `age`, in ticks. Allow is several steps:
`AllowLoad` copies state and time under the read lock (lines 71-74); then, on
the copy, `AllowClosed`, `AllowRejectOpen`, or `AllowTimedOut` followed by the
write-locked `AllowProbe`, or `AllowHalfOpen`/`AllowRejectHalfOpen`, which check
the slot limit but not the state. RecordSuccess and RecordFailure are one step
each, the failure time is stamped in every state. `Abandon` is the router
leaving without an outcome. `CircuitBreakerHistory` adds the lengths of the
current runs of outcomes, the grants of the current period and the age of the
open period; its steps are those of CircuitBreaker, each observed.

**Semaphore.** `Get` is a lookup and, if it misses, a second look with creation;
a semaphore is named by its creator, so two semaphores for one provider would be
distinguishable. Channel operation and counter are separate steps.

**Router.** A request walks its chain: `Admit`/`Skip` (breaker and registry),
`Acquire`/`AcquireCancelled`, the retry loop (`Attempt` ... `BackoffCancelled`),
`Release`, the outcome (`RecordSuccess`, `RecordFailure`, `WrongType`); a stream
goes through `OpenSucceeds` or `OpenFails`, keeps its slot while `streaming`, and
`StreamEnds` is the handler's deferred cleanup. Allow is one step here, as are
Acquire and Release: their interleavings are the subject of the two modules
above. A breaker's timeout is a flag that a failure clears and time sets.
An endpoint is its provider. A model's chain is looked up once, so a reload of
the models shows as a request starting along any chain of `Traffic`, which pairs
chains with chats or streams. `repeats` is a history of the calls that repeat
one at the same endpoint, and `unasked` says that a limit below one kept the
request from calling an endpoint. Calls fail with the statuses of `Errors`, or
without one when their context ends, and `IsRetryable` decides about each; the
instances have a 400 and a 503.

**RetryPolicy.** `IsRetryable` is ProviderError's own list of statuses with
"retry what has no status" of `retry.go:141`; the configured
`retryable_errors` are not reached by any provider's error. `Backoffs` is the
set of waits the jitter may produce, in whole units: exponential, capped, within
a quarter, at least the initial backoff.

**LoadShedder.** The middleware's load and add are two steps. A connection goes
through `LookUp`, `Create`, the loop of `LoadCount` and `CompareAndSwap`, `Close`
and `ReleaseConnection`: a load rejects at the limit, and a swap that finds the
counter changed since the load goes back to it.
A counter keeps its identity after cleanup has removed it from the map.

**RateLimiter.** Lookup, creation, the use of the bucket and each shard of a
cleanup are steps. Readers store the access time without an exclusive lock, a
data race the code comments on; `Use` therefore stores any time read within the
last `Dwell` ticks. (`Before` compares the monotonic word of a time, so a mixed
store still is one of the racing times.)

**Budget.** Costs are integers, computed by `Calculate` from the usage of an
answer and the price of its model or the default price; a window maps the start of each bucket to its
value. `Check` and `Status` drop expired buckets, as Sum does in the code; a
request checked by one tracker may be charged to the next. `recorded` and
`streamed` are histories.

**ConfigLoading.** A file is a record of twelve settings, one for each way Load
treats a setting, of which a half-written file lacks some and an empty one all:
`Unmarshal` leaves them at zero, and only a `Malformed` file does not parse.
`Loads` is Load returning a configuration, `Loaded` is that configuration: variables expanded, zero values
replaced by defaults (that of the rate only if the limiter is enabled), no
variable left in a key, every endpoint's provider configured. `Registers` is
NewRegistry, which only a start calls.

**ConfigReload.** The watch goroutine, the timer, reloaders (goroutines of fired
timers and of admin requests), the lock `w.mu`, the stored configuration and the
settings in use. `Start` sets `running` before it watches the directory and may
fail after it. A reload is `Load` or `LoadFails`, `Apply` for the models and for
resilience, and `Store` for the budget and `s.cfg`; each part is a step, so
requests see parts of two configurations. What `Diff` compares (`Compared`) and
what is renewed when it finds a difference (`Renewed`) differ, as in the code.
`watch = "none"` is a server made without a path, as the command makes it.

**Serving.** Run (`StartWatcher`, serving, `Shutdown` or `ListenFails`,
`ShutdownReturns`, the deferred `StopWatcher`, `Exit`) with the reloads of
ConfigReload beside it: those under way go on until the process exits. A request
looks its model up (`LookUp`, `LookUpDefault`: two reads of `r.models`) and walks
the chain it found: an endpoint is skipped, or has a client and gets a retrier
made from a copy of `r.retryConfig`, after whose failure the next one is tried.
The copy has several words and no lock: while a reload is writing, each word of
it may be the old or the new one (`Copies`). `seen` is the history of what was
in use while the request was there.

## 3. Runs

| run | instance | states | what it shows |
|---|---|---|---|
| `breaker` | 3 callers; configurations (2 failures, 2 successes, timeout 1) and (1, 1, 0), limit 2, changing | 163,808 | contract, grants and counters under every interleaving; open and half-open periods end |
| `semaphore` | 3 requests, 2 providers, capacity 2 | 22,492 | the limit, the reported count, no starvation |
| `router_safety` | 2 requests, chats and streams, chains `p3,p1` and `p1,p3,p2` with `p3` unregistered and `p2` reliable, retry limit -1 or 2, capacity 1, 1 cancellation | 1,024,232 | slots and retries are right on every path; the fallback serves |
| `router_progress` | 2 requests, chats along `p1,p2` and streams along `p2,p3,p1`, capacity 1, retry limit 2, no cancellation | 76,912 | requests end on chains that cross; half-open breakers recover |
| `shed` | 2 requests, 4 connections, 2 addresses, limits 1 | 943,512 | what the counters hold |
| `rate_limiter` | 2 requests, 2 addresses in 2 shards, burst 2, rate 1, TTL 3 | 468,520 | cleanup is invisible; addresses that stay away are forgotten |
| `budget` | 2 requests, a priced and an unpriced model with costs 0-2, windows of 2 ticks by 1 and 4 by 2, 5 ticks | 104,806 | windows, overshoot, recovery |
| `reload` | 2 edits among three files, a timer and an admin reloader, 1 request, one start and exit | 134,186 | last edit applied, nothing older returns, requests see only what was in use, waits bounded, shutdown ends |
| `router_leak` | chain `p1`, limit 2 half-open grants, 1 cancellation | violated | finding 1 |
| `shed_per_ip` | 3 connections of 1 address, limit 1 | violated | finding 2 |
| `spend` | 1 request, 1 stream | violated | finding 3 |
| `reload_all` | 1 edit of settings that are not compared | violated | finding 4 |

Bounds, and why they suffice for the cases that matter:

* three callers of a breaker: one opens it, one probes, one is stale. `age`
  saturates above the longest timeout, runs at the largest threshold (`MaxRun`):
  nothing distinguishes larger values. `MaxAbandoned` bounds grants that are
  never reported; it is below the slot limit, since more of them is finding 1.
* in the semaphore run one request more than the capacity.
* the router's capacity of 1 makes every two requests contend. In
  `router_progress` a chat falls back from `p1` to `p2` while a stream falls back
  from `p2` to `p1`: a request that kept a slot while it waits for the next would
  make both wait for ever. `p3`, which has no client, stands first in one chain
  and between providers in the others. `MaxCancels` bounds cancellations; the one of
  `router_safety` is one failure too few to open a breaker that has no other.
* four connections and limit 1 give two that load a counter below the limit
  together, a refused connection, one that comes after its release, and one
  whose counter was cleaned up between lookup and swap.
* the rate limiter's `Dwell` is the longest a goroutine takes between reading
  the clock and storing it, between GetLimiter and Allow, and for a whole
  cleanup. `RefillAssumption` says that a bucket dropped by cleanup would have been
  full again; with a larger burst the refinement fails, so the condition is
  needed. The defaults (10 minutes) satisfy it for any usual rate; validation
  does not enforce it.
* the budget's windows have two buckets each, of different length, and the
  clock runs one tick past the day. `MaxSpent` bounds the spend.
* two edits of the file: the configuration the server has, one that a reload
  overlaps, and one after it; the edits go back and forth between a file that
  can start a server, one that a reload accepts although no start would, and one
  that Load refuses. The files differ in every part that a reload applies, in
  both backoffs, and in whether the request's model or only a default is there;
  they share the retry limit, whose changes the router's runs have. Their
  backoffs are so far apart that a torn copy makes waits no single
  configuration makes.

Symmetry is used only in runs without liveness properties.

### Fairness

* A goroutine that can run is scheduled (weak fairness of its steps), and time
  passes.
* A provider call, a backoff and a stream end: the provider client and the
  server have timeouts.
* Senders blocked on a channel, and goroutines blocked on a mutex, are served in
  order by the Go runtime: strong fairness of acquiring a slot and of taking
  `w.mu`, for the goroutine of a timer and for Stop. Outside starvation mode a
  mutex of Go may let a newcomer pass; a waiter of more than 1 ms ends that.
* fsnotify delivers the event of an edit in a watched directory; an armed timer
  fires; the ticker of the rate limiter's cleanup goes on until Stop.
* Requests of `Serving` have no fairness: shutdown ends although a provider never
  answers, because Run waits ten seconds at most (`ShutdownReturns` needs no
  request to end).
* `AllowLoad` is fair, and the traffic along each chain goes on: a chain along
  which requests can start again and again is one along which they do (strong
  fairness of `Start` for each chain). Recovery is driven by traffic, the breaker
  has no timer of its own. Outcomes are not fair to either side: recovery means
  that the half-open period ends, by closing or by opening again.
* The breaker's `Abandon`, cancellations, edits, signals and reloads by an
  administrator are not fair: they may never happen.

### Findings

1. **A cancelled wait keeps a half-open grant** (`router/router.go:100`). When
   grants lost this way reach the half-open limit, the breaker refuses all
   traffic and nothing ever changes its state again; `src/README.md:696`
   promises recovery.
2. **An address can exceed `max_connections_per_ip`** (`config/config.go:46`), in
   two ways. Cleanup removes a counter that reads zero although a connection has
   looked it up and is about to count itself in it, so that the next connection
   counts from zero in a new one (`server/loadshed.go:188`); this is the shortest
   behaviour and the one the run reports. And a refused connection releases a
   slot it never took (`server/loadshed.go:139`).
3. **Streamed requests are not charged** (`server/handlers.go:103`), against
   `src/INTERNALS.md:866`.
4. **Some hot-reloadable settings are not reloaded** (`config/watcher.go:223`)
   unless another one changes with them, against `src/INTERNALS.md:814`.

Observations met while modelling that no run states:

* Probers of an open breaker take no half-open slot, so a half-open period lets
  through the limit and up to one request per concurrent caller more
  (`GrantsBounded` states exactly this); a caller that read half-open takes a
  slot even if the breaker has opened or closed since.
* A success threshold above the half-open limit plus the probers cannot be
  reached: the breaker stays half-open. Validation accepts it.
* `X-Resillm-Retries` is documented as the "Number of retries"
  (`src/INTERNALS.md:922`), but `router/router.go:114` adds `attempts - 1` for
  every endpoint: with `max_attempts` below one, which validation accepts, an
  endpoint takes one off, and if a reload raises the limit while the request is
  on its way the answer of the next endpoint comes with a number that is too
  small, or negative. `RetriesCounted` claims nothing of these requests
  (`unasked`).
* `UpdateModels` and `UpdateRetryConfig` are documented as atomic
  (`router/router.go:282` and `289`), but their readers at lines 57, 59 and 108
  take no lock: a request may miss its model in one configuration and the
  default in the next although each serves it, and a retrier may hold parts of
  two configurations. `RoutedInUse` and `WaitBounded` state what remains true.
* A client that disconnects during a provider call counts as a failure of the
  provider and can open its breaker.
* `Release` is documented as safe to call twice (`providers/semaphore.go:63`);
  a second call takes another request's token if there is one. No caller does.
* `Active()` trails the channel and can transiently exceed the capacity.
* Shedding checks and counts in two steps, so `max_active_requests` is passed by
  as many requests as are between the two.
* A reload that changes a budget limit forgets the spend of the last day.
* The command creates its server without a configuration path
  (`src/cmd/resillm/main.go:95`), so there neither the watcher nor
  `/admin/reload` reloads anything, against the hot reload that README.md and
  `src/INTERNALS.md:802` describe. The models have both kinds of server. The
  reload without a watcher of `server/server.go:244-251` is never reached.
* A timer armed when the watcher is closed still fires: a reload during
  shutdown is possible (and part of the model).
* A watch that fails to start is logged and never tried again; an edit made
  before the directory is watched is noticed only with the next one.
* README.md names Ollama as a provider; `NewGoOpenAIProvider` refuses it, so a
  server does not start with it, while a reload that names it is accepted and
  its endpoints are skipped. A provider that a reload adds has no client
  either, and its requests fail with "all providers failed" although no
  provider was asked.
* `src/INTERNALS.md:606-609` retries 429 and everything from 500 up; the code
  retries 429, 500, 502, 503 and 504, whatever `retryable_errors` says.
* A backoff exceeds `max_backoff` by up to a quarter, and by more when
  `initial_backoff` exceeds it: the jitter and the lower bound come after the
  cap (`WaitBounded` states exactly this).
* `GET /health` reports an open breaker as open until a request asks it, also
  after its timeout; a load balancer that stops sending requests at a 503 keeps
  the state from changing. When all circuits are open a request is answered
  502, where `src/README.md:475` says 503.
* "0 = unlimited" (`config/config.go:45-46`) cannot be configured: zero gets a
  default when shedding is enabled. `resilience.timeout` reaches NewRegistry,
  which ignores it.

## 4. Proofs

Checked by TLAPS for all values of the constants that satisfy the named
assumptions. Every invariant, action property and refinement that a passing run
checks is stated by one of these theorems; `ReliableServes` as long as no client
has gone away.

| theorem | statement | assumptions beyond the kinds of the constants |
|---|---|---|
| `CircuitBreaker_proofs!TypeCorrect` | `Spec => []TypeOK` | configurations are integers, timeouts at most `MaxTimeout` |
| `CircuitBreaker_proofs!CountersCorrect` | `Spec => []CountersFit` | same |
| `CircuitBreaker_proofs!ContractImplemented` | `HSpec => ImplementsContract` | `MaxRun` bounds the thresholds |
| `CircuitBreaker_proofs!GrantsAreBounded` | `HSpec => []GrantsBounded` | `Request` is finite |
| `CircuitBreaker_proofs!TimeoutLasts` | `HSpec => OpenLastsTimeout` | timeouts at most `MaxTimeout` |
| `Semaphore_proofs!TypeCorrect` | `Spec => []TypeOK` | the default capacity is positive |
| `Semaphore_proofs!BoundHolds` | `Spec => []InFlightBound` | `Request` is finite |
| `Semaphore_proofs!ActiveReported` | `Spec => []ActiveCounts` | same |
| `Router_proofs!TypeCorrect` | `Spec => []TypeOK` | chains are not empty |
| `Router_proofs!SlotsKept` | `Spec => []SlotsMatch` | `Request` is finite |
| `Router_proofs!RetriesReported` | `Spec => []RetriesCounted` | none: limits of attempts are any integers, for requests that no limit below one kept from calling |
| `Router_proofs!ReliableFound` | `Spec => [](cancels = 0 => ReliableServes)` | none |
| `LoadShedder_proofs!ActiveCounted` | `Spec => []ActiveMatches` | `Request` is finite |
| `LoadShedder_proofs!CountersBounded` | `Spec => []CountWithinLimit` | the limit per address is positive |
| `LoadShedder_proofs!CountsAddUp` | `Spec => []CountsExplained` | `Conn` is finite |
| `RateLimiter_proofs!LimiterUnique` | `Spec => []OneLimiter` | `RefillAssumption`, `AllocationAssumption` |
| `RateLimiter_proofs!TotalAccurate` | `Spec => []EntriesCounted` | same; `IP` is finite |
| `RateLimiter_proofs!BucketImplemented` | `Spec => ImplementsBucket` | same |
| `Budget_proofs!SumsAccurate` | `Spec => []WindowsAccurate` | costs are natural numbers, windows no shorter than their buckets |
| `Budget_proofs!RejectionsJustified` | `Spec => RejectedOverBudget` | same |
| `Budget_proofs!OvershootLimited` | `Spec => []OvershootBounded` | same; `Request` is finite |
| `Serving_proofs!WatchedCurrent` | `Spec => []WatchedInUse` | reloaders of timers and of administrators are different goroutines |
| `Serving_proofs!EndpointsConfigured` | `Spec => []InUseConfigured` | same |
| `Serving_proofs!NewerStored` | `Spec => NeverOlder` | same |
| `Serving_proofs!ServingReloads` | `SSpec => Spec` | same |
| `Serving_proofs!ServedWhileReloading` | `SSpec =>` the three above | same |
| `Serving_proofs!ChainsInUse` | `SSpec => []RoutedInUse` | same |
| `Serving_proofs!WaitsBounded` | `SSpec => []WaitBounded` | retry settings are integers; `PowersWhole` |

### The arguments

*Breaker.* `TypeOK` is inductive. So is `CountersFit` with it: each counter that
is positive was last raised under some configuration without reaching its
threshold, and `TransitionTo` clears all three. The refinement needs to relate
the counters to the runs of outcomes: while closed `failureCount` is the length
of the current run of failures and while half-open `successCount` is that of the
successes, both up to saturation; the mapping is `mode <- cb.state`, every step
other than an outcome, a probe or a reload is a stutter. `GrantsBounded` is not
inductive: a grant from a stale copy may come at any time. It is strengthened by
counting the callers that can still get one. A caller is stale when its copy of
the state differs from the state, or when it is about to probe a breaker that is
no longer open. `Budgeted` says that, while the breaker is not closed, the
grants of the period and the stale callers together are fewer than the callers
plus the slots taken (plus one in a half-open period, for the probe that began
it). A transition starts a period in which at most the other callers are stale;
a grant either uses up a stale caller or takes a slot; nobody becomes stale
within a period. With `CountersFit`, which bounds the slots, the bound follows.
`OpenLastsTimeout` is about a step, the one that ends an open period, but the
time that justifies this step was read two steps earlier, and failures may have
renewed the breaker's since. `Timed` carries the justification: a caller that
came after the breaker opened has read an age no greater than the period's, and
one that has found it above a timeout keeps that finding true, because the
period only grows.

*Semaphore.* `InFlightBound` rests on the channel holding one token for every
request that has sent and not received, for the semaphore it got from `Get`, and
on every request of a provider having got the same semaphore, the one in the map
(`Tokens`). That last part is what the second look under the write lock buys; it
makes the number of requests in flight the length of one channel, which the
capacity bounds. `ActiveCounts` needs the exact difference between counter and
channel for every semaphore (`Counted`): the requests between send and increment
less those between receive and decrement.

*Router.* The slots of a provider are counted by the places of requests, so the
types must tie a place to an endpoint: a request that holds or awaits a slot is
at an endpoint of its chain that has a client (`Placed`). With it, each of the
loop's exits changes one request's place and one provider's slots alike, and
`SlotsMatch` is inductive. `RetriesCounted` speaks of finished requests only;
`Tracked` says at every place what has been counted so far: the retries of the
endpoints behind it against the calls repeated there, and the attempts at the
present endpoint. Two kinds of request do not fit. `ExecuteWithResult` counts an
attempt and then finds the context ended without making the call: such a request
is `Hopeless`, it is never served, so nothing reports its count. And a limit
below one makes no attempt at all, which counts as one retry less than none:
`unasked` sets such a request apart (see the observations).
`ReliableServes` rests on a reliable provider's breaker staying closed, and that
on nobody cancelling: the code counts a call whose client went away as a failure
of the provider, and enough of these open the breaker of a provider that has
answered everything. This is why the theorem speaks of behaviours without a
cancellation so far. `Unharmed` is the invariant: no endpoint that a request has
passed was reliable, and whatever a request brings back from one is an answer,
unless the request is `unasked`.

*Load shedder.* The active requests are direct. The limit per counter needs what
a connection has loaded to stay below the limit until it swaps: the swap counts
from the loaded value, and only if the counter still has it, so that the others
which loaded the same value try again. That counters add up takes more: a counter keeps its connections when cleanup takes it from the
map, and a refused connection releases what it never took (finding 2).
`Explained` sums all counters an address ever had, lost ones included, against
the connections that own a slot and the debtors; it needs every counter, also
one only held by a connection, to belong to the connection's address
(`Addressed`).

*Rate limiter.* A request that has left GetLimiter uses its bucket without a
lock. `HeldCurrent` says why that is safe: the request renewed the entry when it
took the bucket, so the entry's access time is at most `Dwell`, the lateness of
the clock, older than the request's own wait, which is at most `Dwell` too; and
a sweep removes only entries older than `TTL >= 2 * Dwell`. Hence what requests
hold is in the map, and no two addresses have one limiter (`Distinct`; creation
takes an object that nobody refers to, which `AllocationAssumption` provides:
the addresses and requests together refer to fewer objects than they are). The
refinement maps an address without an entry to a full bucket, so removing an
entry must be a stutter: `Filled` says that a bucket has gained `Rate` for every
tick its entry was idle beyond `2 * Dwell`, or is full, and `RefillAssumption`
that this fills it by the time a sweep may take it.

*Budget.* `WindowsAccurate` compares sums over different cells: what `Add` puts
into the bucket's start with what was recorded at its own time, after `Sum` has
dropped cells. `Kept` states it for every time k in the window: the cells from k
on add up to what was recorded in buckets that start at k or later. Adding
changes both sides by the cost or neither; dropping touches only cells before
the window; the property takes the k at the window's edge. `OvershootBounded` is
strengthened by the requests in flight: spend plus the highest cost of every
checked request stays below the limit plus what all requests may cost. A check
that passes is made below the limit; recording moves cost from one summand to
the other; the passing of time only lowers the spend.

*Reload.* `NeverOlder` and `WatchedInUse` both come from mutual exclusion under
`w.mu`: only its holder is between `Load` and `Store` (`Locked`, `Held`), the
file it read is no older than the stored one, and what Diff compares is in use
except for the parts this holder has replaced so far (`Progress`), which its
`Store` makes the stored ones. Nothing is said of the settings that Diff does
not compare: finding 4.

*Serving.* Every step of it is a step of ConfigReload or leaves its variables
alone (`ServingReloads`), so the results above hold beside requests and
shutdown. `Routed` relates the chain a request found to all models in use since
it came: the first reading was of models in `seen`, and a name missed then is a
name missing in one of them. `Copied` does the same word by word for the torn
copy of the retry configuration; `BackoffClamped` then shows that jitter, cap
and lower bound leave every wait between bounds that words of the copy set.

*Sums.* `MapThenSumSet` is a recursion over CHOOSE. An induction over finite
sets is not available (`FS_Induction` takes an operator), but well-foundedness
of inclusion is: each lemma of `Sums_proofs` takes a smallest subset on which it
would fail and removes the chosen element. They give what a sum does when one
element changes, when the set is split, and where the function is zero.

### Hypotheses

`PowersWhole`, that powers of integers other than zero are integers, is
arithmetic that holds; the provers know nothing of `^`. It stands in the
theorem's ASSUME and no module assumes it. That the base is never zero is proved
(`MultiplierSet`): Load replaces a multiplier that is zero.
`AllocationAssumption` stands for an allocator that never returns an object in
use; the instance has just enough limiters. `RefillAssumption` is a condition
on the configuration, see section 3. Costs and times are integers: the
rounding of the code's floating-point sums is not part of the model.

### Only model-checked

Liveness under fairness: `OpenEnds`, `HalfOpenEnds`, `WaitEnds`, `RequestEnds`,
`PrimaryRecovers`, `IdleForgotten`, `LastEditApplied`, `ShutdownEnds`. These need
ENABLED, which is beyond the prover. The four violated properties are TLC's
too.

## 5. Not modelled

* The provider clients' HTTP, their timeouts and base addresses, and the bodies
  of requests and answers.
* Metrics: counters of a library, and a latency histogram that nothing fills; no
  decision depends on them.
* Encoding, validation of request bodies, headers, authentication and logging;
  the handlers that only read (`/health`, `/v1/providers`, `/v1/models`).
* The middlewares composed: each returns or calls the next, and they share no
  state, so their order decides only which of them answers first. (The shedder
  is outermost, the reverse of `src/INTERNALS.md:156-165`.)
* The flags and the dry run of the command; the metrics listener.
* Races on one word (`s.cfg`, `s.budget`, `r.models`) are read as before or
  after the write. `r.retryConfig`, which has several words, is torn.

## 6. Plan

Done, in this order: BreakerOps, CircuitBreaker and its contract; Semaphore;
Router; LoadShedder; RateLimiter; Budget; ConfigReload; RetryPolicy,
ConfigLoading and Serving; the proofs of breaker and semaphore, then of every
other invariant, action property and refinement that a run checks.

Next: abstract specifications for the components that have none, with their
refinements proved: a budget that knows only when each cost was incurred, and a
reload that installs a file in one step for what Diff compares; that
`Router`'s one-step Allow and Acquire are what the two detailed modules
provide; lemmas on what `ConfigLoading!Loads` accepts.
