------------------------------ MODULE Serving ------------------------------
(***************************************************************************)
(* Run of internal/server/server.go from its start to the exit of the      *)
(* command, with the reloads of ConfigReload.tla, and requests that read   *)
(* what is in use without the locks a reload holds.                        *)
(*                                                                         *)
(* net/http is external: a request, one to /admin/reload too, is there     *)
(* from the acceptance of its connection.  What makes breakers, semaphores *)
(* and providers refuse an endpoint is in Router.tla; here they may do so  *)
(* at any time.                                                            *)
(***************************************************************************)
EXTENDS ConfigReload, RetryPolicy

CONSTANTS
  Request,     \* goroutines of net/http that serve chat requests
  Model        \* names of models that requests may give

(* Durations and counts.                                                   *)
ASSUME RetryAssumption == \A c \in Accepted : \A s \in Retry : LoadedAs[c][s] \in Int

VARIABLES
  phase,       \* of Run: "starting", "serving", "draining", "returning",
               \* "stopped"; then "exited"
  registry,    \* the providers that have a client, made at the start
  req,         \* each request
  seen         \* what was in use: models since it came, until it is
               \* routed; retry configurations when its retrier was made

runVars == <<phase, registry>>
reqVars == <<req, seen>>
svars   == <<vars, runVars, reqVars>>

Away == [at |-> "away", model |-> "", chain |-> <<>>, pos |-> 1,
         retry |-> <<>>, attempt |-> 0, wait |-> 0]

SInit == /\ Init
         /\ phase = "starting"
         /\ registry = DOMAIN cfg.content.providers
         /\ req = [r \in Request |-> Away]
         /\ seen = [r \in Request |-> {}]

Up == phase # "exited"

-----------------------------------------------------------------------------
(* Run.                                                                    *)
StartWatcher ==
  /\ phase = "starting"
  /\ Start \/ StartFails \/ (watch = "none" /\ UNCHANGED vars)
  /\ phase' = "serving"
  /\ UNCHANGED <<registry, reqVars>>

Shutdown ==
  /\ phase = "serving" /\ cancelled
  /\ phase' = "draining"
  /\ UNCHANGED <<vars, registry, reqVars>>

(* Run returns, and the requests that run still are not followed further:  *)
(* the command is about to exit.                                           *)
Returns ==
  /\ phase' = "returning"
  /\ req' = [r \in Request |-> Away]
  /\ seen' = [r \in Request |-> {}]
  /\ UNCHANGED <<vars, registry>>

ListenFails == phase = "serving" /\ Returns

(* No request is left, or the ten seconds are over.                        *)
ShutdownReturns == phase = "draining" /\ Returns

(* The deferred Stop of the watcher waits for w.mu.                        *)
StopWatcher ==
  /\ phase = "returning"
  /\ Stop \/ (watch = "none" /\ UNCHANGED vars)
  /\ phase' = "stopped"
  /\ UNCHANGED <<registry, reqVars>>

(* main returns.                                                           *)
Exit ==
  /\ phase = "stopped"
  /\ phase' = "exited"
  /\ UNCHANGED <<vars, registry, reqVars>>

Run == StartWatcher \/ Shutdown \/ ShutdownReturns \/ Exit

-----------------------------------------------------------------------------
(* Reloads beside it.                                                      *)
Outside == Up /\ (Edit \/ Signal) /\ UNCHANGED <<runVars, reqVars>>

Watching == Up /\ Watch /\ UNCHANGED <<runVars, reqVars>>

Firing(m) == Up /\ TimerFires(m) /\ UNCHANGED <<runVars, reqVars>>

Asked(m) == phase = "serving" /\ AdminReload(m) /\ UNCHANGED <<runVars, reqVars>>

RetryOf(settings) == Restrict(settings, Retry)

Locking(m) == Up /\ (Load(m) \/ LoadFails(m)) /\ UNCHANGED <<runVars, reqVars>>

Applying(m) ==
  /\ Up /\ Apply(m)
  /\ seen' = [r \in Request |->
       IF req[r].at \in {"arrived", "missed"} THEN seen[r] \cup {live'.models} ELSE seen[r]]
  /\ UNCHANGED <<runVars, req>>

Storing(m) == Up /\ Store(m) /\ UNCHANGED <<runVars, reqVars>>

-----------------------------------------------------------------------------
(* A request.                                                              *)
Arrive(r) ==
  /\ phase = "serving" /\ req[r].at = "away"
  /\ \E name \in Model :
       req' = [req EXCEPT ![r] = [Away EXCEPT !.at = "arrived", !.model = name]]
  /\ seen' = [seen EXCEPT ![r] = {live.models}]
  /\ UNCHANGED <<vars, runVars>>

(* ExecuteChat reads r.models for the model, and then, in a second         *)
(* reading, for "default".                                                 *)
Found(r, name) ==
  /\ Up /\ name \in DOMAIN live.models
  /\ req' = [req EXCEPT ![r].at = "routed", ![r].chain = live.models[name]]
  /\ UNCHANGED <<vars, runVars, seen>>

Missed(r, name, next) ==
  /\ Up /\ name \notin DOMAIN live.models
  /\ req' = [req EXCEPT ![r].at = next]
  /\ UNCHANGED <<vars, runVars, seen>>

(* A faulty router that prefers the default.                               *)
LookUpDefaultFirst(r) ==
  /\ req[r].at = "arrived"
  /\ Found(r, "default") \/ Missed(r, "default", "missed")

LookUp(r) ==
  /\ req[r].at = "arrived"
  /\ Found(r, req[r].model) \/ Missed(r, req[r].model, "missed")

LookUpDefault(r) ==
  /\ req[r].at = "missed"
  /\ Found(r, "default") \/ Missed(r, "default", "unknown")

(* An endpoint is passed over: its breaker refuses, the context ends, or   *)
(* it has no client, as one that a reload has named and no start.          *)
Routing(r) == req[r].at \in {"routed", "failed"}
Inside(r)  == req[r].pos <= Len(req[r].chain)
Here(r)    == req[r].chain[req[r].pos]

Skip(r) ==
  /\ Up /\ Routing(r) /\ Inside(r)
  /\ req' = [req EXCEPT ![r].pos = @ + 1]
  /\ UNCHANGED <<vars, runVars, seen>>

(* An endpoint gets a retrier of its own: r.retryConfig is copied word by  *)
(* word while a reload may be writing it.                                  *)
Written(m) == RetryOf(InUse(m, "resilience"))
Writers    == {m \in Reloader : pc[m] = "resilience"}
Copies     == {RetryOf(live)} \cup
  {[s \in Retry |-> IF s \in new THEN Written(m)[s] ELSE live[s]] :
     new \in SUBSET Retry, m \in Writers}

NewRetrier(r) ==
  /\ Up /\ Routing(r) /\ Inside(r) /\ Here(r) \in registry
  /\ \E copy \in Copies : req' = [req EXCEPT ![r].at = "calling", ![r].retry = copy]
  /\ seen' = [seen EXCEPT ![r] = {RetryOf(live)} \cup {Written(m) : m \in Writers}]
  /\ UNCHANGED <<vars, runVars>>

(* The call failed retryably: wait, and call again.                        *)
BackOff(r) ==
  /\ Up /\ req[r].at = "calling" /\ req[r].attempt < req[r].retry.maxAttempts - 1
  /\ \E wait \in Backoffs(req[r].retry, req[r].attempt) :
       req' = [req EXCEPT ![r].attempt = @ + 1, ![r].wait = wait]
  /\ UNCHANGED <<vars, runVars, seen>>

(* The endpoint failed, whatever was left to try: on to the next one.      *)
Fail(r) ==
  /\ Up /\ req[r].at = "calling"
  /\ req' = [req EXCEPT ![r] = [Away EXCEPT !.at = "failed", !.model = req[r].model,
                                           !.chain = req[r].chain, !.pos = req[r].pos + 1]]
  /\ seen' = [seen EXCEPT ![r] = {}]
  /\ UNCHANGED <<vars, runVars>>

Answer(r) ==
  /\ Up
  /\ req[r].at \in {"calling", "unknown"} \/ (Routing(r) /\ ~Inside(r))
  /\ req' = [req EXCEPT ![r] = Away]
  /\ seen' = [seen EXCEPT ![r] = {}]
  /\ UNCHANGED <<vars, runVars>>

Serve(r) == \/ Arrive(r) \/ LookUp(r) \/ LookUpDefault(r) \/ Skip(r) \/ NewRetrier(r)
            \/ BackOff(r) \/ Fail(r) \/ Answer(r)

SNext == \/ Run \/ StopWatcher \/ ListenFails
         \/ Outside \/ Watching
         \/ \E m \in Timer : Firing(m)
         \/ \E m \in Admin : Asked(m)
         \/ \E m \in Reloader : Locking(m) \/ Applying(m) \/ Storing(m)
         \/ \E r \in Request : Serve(r)

SSpec == SInit /\ [][SNext]_svars

(* Goroutines that can run do, the library delivers its events, timers     *)
(* fire; a mutex of Go serves those who wait in their order.  Nothing is   *)
(* assumed of requests: a provider may never answer.                       *)
SFairness == /\ WF_svars(Run) /\ SF_svars(StopWatcher)
             /\ WF_svars(Watching)
             /\ WF_svars(\E m \in Timer : Firing(m))
             /\ \A m \in Timer : SF_svars(Locking(m))
             /\ WF_svars(\E m \in Reloader : Applying(m) \/ Storing(m))

SFairSpec == SSpec /\ SFairness

-----------------------------------------------------------------------------
Having(r, name) == {models \in seen[r] : name \in DOMAIN models}

(* What a request may find: by its name where it is configured, by         *)
(* "default" if its name was missing at some time, nothing if both were.   *)
Possible(r) ==
  {models[req[r].model] : models \in Having(r, req[r].model)} \cup
  (IF Having(r, req[r].model) = seen[r] THEN {}
   ELSE {models["default"] : models \in Having(r, "default")} \cup
        (IF Having(r, "default") = seen[r] THEN {} ELSE {<<>>}))

(* A request is routed along a chain that was configured for it while it   *)
(* was there; it is told that its model is unknown only if some models in  *)
(* use lacked it, and some lacked a default.                               *)
RoutedInUse ==
  \A r \in Request : req[r].at \in {"routed", "unknown"} => req[r].chain \in Possible(r)

(* No wait before a retry is shorter than every initial backoff that was   *)
(* in use or being installed when the retrier was made, nor longer than    *)
(* every maximum with its jitter, although the retrier may hold parts of   *)
(* two configurations.                                                     *)
WaitBounded ==
  \A r \in Request : req[r].wait > 0 =>
    /\ \E retry \in seen[r] : req[r].wait >= retry.initialBackoff
    /\ \E retry \in seen[r] :
         4 * req[r].wait <= Larger(4 * retry.initialBackoff, 5 * retry.maxBackoff)

(* The last edit is not lost: when the edits end, the server comes to use  *)
(* the file and stays with it, unless the file is refused, the server is   *)
(* shutting down, or nobody watched the directory when it was made.        *)
LastEditApplied ==
  <>[](\/ unseen \/ ~running \/ cancelled
       \/ file.content \notin Accepted \/ cfg.content = LoadedAs[file.content])

(* INTERNALS.md, the command: "Handling graceful shutdown on               *)
(* SIGINT/SIGTERM".  After the signal the command ends, whatever requests  *)
(* do and whatever reload holds w.mu.                                      *)
ShutdownEnds == cancelled ~> (phase = "exited")

=============================================================================
