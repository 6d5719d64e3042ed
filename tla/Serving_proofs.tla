--------------------------- MODULE Serving_proofs ---------------------------
(***************************************************************************)
(* Theorems of ConfigReload.tla, for the reloads alone and for a server    *)
(* that runs them beside its requests, and of Serving.tla.                 *)
(***************************************************************************)
EXTENDS Serving, TLAPS

Confs == {LoadedAs[c] : c \in Accepted}

Stages  == {"models", "resilience", "budget"}
Watched == {"models", "maxAttempts", "initialBackoff", "failureThreshold", "maxCostPerHour"}

ReloadTypes ==
  /\ mu \in Reloader \cup {Nobody}
  /\ pc \in [Reloader -> {"idle", "waiting"} \cup Stages]
  /\ file \in [content : Contents, edit : Nat]
  /\ cfg \in [content : Confs, edit : Nat]
  /\ loaded \in [Reloader -> [content : Confs \cup {<<>>}, edit : Nat]]
  /\ live = [s \in Settings |-> live[s]]

(* The one that holds w.mu, and no other, is applying what it loaded, a    *)
(* configuration at least as new as the stored one.                        *)
Locked ==
  \A m \in Reloader : pc[m] \in Stages =>
    /\ mu = m
    /\ loaded[m].content \in Confs
    /\ cfg.edit =< loaded[m].edit
    /\ loaded[m].edit =< file.edit

Held == mu # Nobody => pc[mu] \in Stages

Fresh == cfg.edit =< file.edit

(* What each stage finds installed already.                                *)
Installed ==
  [models |-> {}, resilience |-> {"models"},
   budget |-> {"models", "maxAttempts", "initialBackoff", "failureThreshold"}]

(* The settings that Diff compares are in use as the stored configuration  *)
(* has them, but for those the reload under way has installed.             *)
Midway(m, s) ==
  live[s] = IF s \in Installed[pc[m]] THEN loaded[m].content[s] ELSE cfg.content[s]

Progress ==
  /\ mu = Nobody => \A s \in Watched : live[s] = cfg.content[s]
  /\ \A m \in Reloader : pc[m] \in Stages => \A s \in Watched : Midway(m, s)

(* Every setting in use is one of some configuration, not always the same. *)
Sourced == \A s \in Settings : \E c \in Confs : live[s] = c[s]

ReloadInv ==
  ReloadTypes /\ Locked /\ Held /\ Fresh /\ Progress /\ Sourced

-----------------------------------------------------------------------------
(* The server starts with what it has loaded.                              *)
LEMMA ReloadInit == Init => ReloadInv
<1> SUFFICES ASSUME Init PROVE ReloadInv
  OBVIOUS
<1> PICK c \in Startable :
      /\ file = [content |-> c, edit |-> 0]
      /\ cfg = [content |-> LoadedAs[c], edit |-> 0]
      /\ live = Restrict(LoadedAs[c], Settings)
  BY DEF Init
<1>1. c \in Contents /\ c \in Accepted /\ LoadedAs[c] \in Confs
  BY DEF Startable, Accepted, Confs
<1>2. live = [s \in Settings |-> LoadedAs[c][s]]
  BY DEF Restrict
<1>3. mu = Nobody /\ pc = [m \in Reloader |-> "idle"] /\ loaded = [m \in Reloader |-> None]
  BY DEF Init
<1>4. Watched \subseteq Settings
  BY DEF Watched, Settings, Retry
<1>5. ReloadTypes
  BY <1>1, <1>2, <1>3 DEF ReloadTypes, None
<1>6. Locked /\ Held /\ Fresh
  BY <1>3 DEF Locked, Held, Fresh, Stages
<1>7. Progress
  BY <1>2, <1>3, <1>4 DEF Progress, Stages
<1>8. Sourced
  BY <1>1, <1>2 DEF Sourced
<1> QED
  BY <1>5, <1>6, <1>7, <1>8 DEF ReloadInv

(* A step that leaves the reloads and what is in use alone, but for        *)
(* goroutines that come to wait for w.mu, or go.                           *)
LEMMA ReloadBystander ==
  ASSUME ReloadInv,
         UNCHANGED <<mu, loaded, cfg, live>>,
         file' \in [content : Contents, edit : Nat], file'.edit >= file.edit,
         pc' \in [Reloader -> {"idle", "waiting"} \cup Stages],
         \A m \in Reloader : pc[m] \in Stages \/ pc'[m] \in Stages => pc'[m] = pc[m]
  PROVE  ReloadInv'
<1>1. ReloadTypes'
  BY DEF ReloadInv, ReloadTypes
<1>2. Locked'
  BY DEF ReloadInv, Locked, ReloadTypes
<1>3. Held'
  BY DEF ReloadInv, Held, ReloadTypes
<1>4. Fresh'
  BY DEF ReloadInv, Fresh, ReloadTypes
<1>5. Progress'
  BY DEF ReloadInv, Progress, Midway
<1>6. Sourced'
  BY DEF ReloadInv, Sourced
<1> QED
  BY <1>1, <1>2, <1>3, <1>4, <1>5, <1>6 DEF ReloadInv

(* The environment and the watcher.                                        *)
LEMMA ReloadAround ==
  ASSUME ReloadInv, Edit \/ Signal \/ Start \/ StartFails \/ Watch \/ Stop
  PROVE  ReloadInv'
<1>1. pc \in [Reloader -> {"idle", "waiting"} \cup Stages]
      /\ file \in [content : Contents, edit : Nat]
  BY DEF ReloadInv, ReloadTypes
<1>2. CASE Edit
  <2> PICK c \in Contents : file' = [content |-> c, edit |-> file.edit + 1]
    BY <1>2 DEF Edit
  <2>1. file' \in [content : Contents, edit : Nat] /\ file'.edit >= file.edit
    BY <1>1
  <2> QED
    BY <1>1, <1>2, <2>1, ReloadBystander DEF Edit, cfgVars
<1>3. CASE Signal \/ Start \/ StartFails \/ Watch \/ Stop
  <2>1. UNCHANGED <<file, pc, mu, loaded, cfg, live>>
    BY <1>3 DEF Signal, Start, StartFails, Watch, WatchEvent, WatchCancelled, WatchClosed,
       Stop, envVars, watchVars, cfgVars
  <2> QED
    BY <1>1, <2>1, ReloadBystander
<1> QED
  BY <1>2, <1>3

(* A reload is asked for, or finds a file it refuses.                      *)
LEMMA ReloadQueue ==
  ASSUME ReloadInv, NEW m \in Reloader,
         TimerFires(m) \/ AdminReload(m) \/ LoadFails(m)
  PROVE  ReloadInv'
<1>1. pc \in [Reloader -> {"idle", "waiting"} \cup Stages]
      /\ file \in [content : Contents, edit : Nat]
  BY DEF ReloadInv, ReloadTypes
<1>2. /\ UNCHANGED <<file, mu, loaded, cfg, live>>
      /\ pc[m] \in {"idle", "waiting"}
      /\ \E to \in {"idle", "waiting"} : pc' = [pc EXCEPT ![m] = to]
  BY DEF TimerFires, AdminReload, LoadFails, envVars, cfgVars
<1>3. \A n \in Reloader : pc[n] \in Stages \/ pc'[n] \in Stages => pc'[n] = pc[n]
  BY <1>1, <1>2 DEF Stages
<1>4. pc' \in [Reloader -> {"idle", "waiting"} \cup Stages]
  BY <1>1, <1>2
<1> QED
  BY <1>1, <1>2, <1>3, <1>4, ReloadBystander

(* The file is read: nothing is installed yet.                             *)
LEMMA ReloadLoads ==
  ASSUME ReloadInv, NEW m \in Reloader, Load(m)
  PROVE  ReloadInv'
<1> DEFINE new == [content |-> LoadedAs[file.content], edit |-> file.edit]
<1>1. ReloadTypes /\ Nobody \notin Reloader /\ mu = Nobody
  BY ReloaderAssumption DEF ReloadInv, Load
<1>2. /\ new \in [content : Confs, edit : Nat]
      /\ loaded' = [loaded EXCEPT ![m] = new]
      /\ mu' = m /\ pc' = [pc EXCEPT ![m] = "models"]
      /\ UNCHANGED <<file, cfg, live>>
  <2>1. LoadedAs[file.content] \in Confs
    BY DEF Load, Confs
  <2>2. file \in [content : Contents, edit : Nat]
    BY <1>1 DEF ReloadTypes
  <2>3. [file EXCEPT !.content = LoadedAs[@]] = new
    BY <2>2
  <2> QED
    BY <2>1, <2>2, <2>3 DEF Load, envVars, cfgVars
<1>3. \A n \in Reloader : pc[n] \notin Stages
  BY <1>1 DEF ReloadInv, Locked
<1>4. \A n \in Reloader : pc'[n] \in Stages => n = m /\ pc'[n] = "models" /\ loaded'[n] = new
  BY <1>1, <1>2, <1>3 DEF ReloadTypes
<1>5. ReloadTypes'
  BY <1>1, <1>2 DEF ReloadTypes, Stages
<1>6. Fresh' /\ Sourced'
  BY <1>2 DEF ReloadInv, Fresh, Sourced
<1>7. Locked'
  BY <1>1, <1>2, <1>4, <1>6 DEF Locked, Fresh, ReloadTypes
<1>8. Held'
  BY <1>1, <1>2 DEF Held, ReloadTypes, Stages
<1>9. \A s \in Watched : live[s] = cfg.content[s]
  BY <1>1 DEF ReloadInv, Progress
<1>10. Progress'
  BY <1>1, <1>2, <1>4, <1>9 DEF Progress, Midway, Installed
<1> QED
  BY <1>5, <1>6, <1>7, <1>8, <1>10 DEF ReloadInv

(* Installing a part: the settings of it that are watched come from what   *)
(* was loaded, whether or not Diff finds a change, and no other changes.   *)
LEMMA PartInstalled ==
  ASSUME ReloadInv, NEW m \in Reloader, pc[m] \in Stages,
         live' = InUse(m, pc[m])
  PROVE  /\ live' = [s \in Settings |-> live'[s]]
         /\ \A s \in Watched :
              live'[s] = IF s \in Installed[pc[m]] \cup Compared[pc[m]]
                         THEN loaded[m].content[s] ELSE cfg.content[s]
         /\ Sourced'
         /\ pc[m] # "models" => live'["models"] = live["models"]
<1> DEFINE part == pc[m]
           new  == loaded[m].content
           old  == cfg.content
<1>1. ReloadTypes /\ Sourced /\ new \in Confs /\ \A s \in Watched : Midway(m, s)
  BY DEF ReloadInv, Locked, Progress
<1>2. \/ /\ Diff(old, new, part)
         /\ live' = [s \in Settings |-> IF s \in Renewed[part] THEN new[s] ELSE live[s]]
      \/ ~Diff(old, new, part) /\ live' = live
  BY DEF InUse
<1>3. Watched \subseteq Settings
  BY DEF Watched, Settings, Retry
<1>4. \A s \in Watched : s \in Renewed[part] <=> s \in Compared[part]
  BY DEF Watched, Renewed, Compared, Retry, Stages
<1>5. live' = [s \in Settings |-> live'[s]]
  BY <1>1, <1>2 DEF ReloadTypes
<1>6. \A s \in Watched :
        live'[s] = IF s \in Installed[part] \cup Compared[part] THEN new[s] ELSE old[s]
  <2> TAKE s \in Watched
  <2>1. live[s] = IF s \in Installed[part] THEN new[s] ELSE old[s]
    BY <1>1 DEF Midway
  <2>2. CASE Diff(old, new, part)
    BY <1>2, <1>3, <1>4, <2>1, <2>2
  <2>3. CASE ~Diff(old, new, part)
    <3>1. s \in Compared[part] => old[s] = new[s]
      BY <2>3 DEF Diff
    <3> QED
      BY <1>2, <2>1, <2>3, <3>1
  <2> QED
    BY <2>2, <2>3
<1>7. Sourced'
  BY <1>1, <1>2 DEF Sourced
<1>8. part # "models" => live'["models"] = live["models"]
  <2>1. part # "models" => "models" \notin Renewed[part]
    BY DEF Renewed, Retry, Stages
  <2>2. "models" \in Settings
    BY DEF Settings
  <2> QED
    BY <1>2, <2>1, <2>2
<1> QED
  BY <1>5, <1>6, <1>7, <1>8

(* A part is applied, with others to follow.                               *)
LEMMA ReloadApplies ==
  ASSUME ReloadInv, NEW m \in Reloader, Apply(m)
  PROVE  ReloadInv'
<1>1. ReloadTypes /\ Locked /\ Fresh /\ Nobody \notin Reloader
  BY ReloaderAssumption DEF ReloadInv
<1>2. /\ pc[m] \in {"models", "resilience"}
      /\ live' = InUse(m, pc[m])
      /\ pc' = [pc EXCEPT ![m] = After[pc[m]]]
      /\ UNCHANGED <<file, mu, loaded, cfg>>
  BY DEF Apply, After, envVars
<1>3. pc[m] \in Stages /\ After[pc[m]] \in Stages
  BY <1>2 DEF Stages, After
<1>4. /\ live' = [s \in Settings |-> live'[s]]
      /\ \A s \in Watched :
           live'[s] = IF s \in Installed[pc[m]] \cup Compared[pc[m]]
                      THEN loaded[m].content[s] ELSE cfg.content[s]
      /\ Sourced'
  BY <1>2, <1>3, PartInstalled
<1>5. mu = m
  BY <1>1, <1>3 DEF Locked
<1>6. \A n \in Reloader : pc'[n] \in Stages => n = m
  BY <1>1, <1>2, <1>5 DEF Locked, ReloadTypes
<1>7. pc'[m] = After[pc[m]]
  BY <1>1, <1>2 DEF ReloadTypes
<1>8. \A s \in Watched : s \in Installed[After[pc[m]]]
                     <=> s \in Installed[pc[m]] \cup Compared[pc[m]]
  BY <1>2 DEF Watched, Installed, After, Compared
<1>9. ReloadTypes'
  BY <1>1, <1>2, <1>3, <1>4 DEF ReloadTypes
<1>10. Locked' /\ Fresh'
  BY <1>1, <1>2, <1>3, <1>6 DEF Locked, Fresh
<1>11. Held'
  BY <1>2, <1>3, <1>5, <1>7 DEF Held
<1>12. \A s \in Watched : Midway(m, s)'
  BY <1>2, <1>4, <1>7, <1>8 DEF Midway
<1>13. Progress'
  BY <1>1, <1>2, <1>5, <1>6, <1>12 DEF Progress
<1> QED
  BY <1>4, <1>9, <1>10, <1>11, <1>13 DEF ReloadInv

(* The last part is applied, and the configuration stored.                 *)
LEMMA ReloadStores ==
  ASSUME ReloadInv, NEW m \in Reloader, Store(m)
  PROVE  ReloadInv'
<1>1. ReloadTypes /\ Locked /\ Fresh /\ Nobody \notin Reloader
  BY ReloaderAssumption DEF ReloadInv
<1>2. /\ pc[m] = "budget"
      /\ live' = InUse(m, pc[m])
      /\ pc' = [pc EXCEPT ![m] = "idle"]
      /\ loaded' = [loaded EXCEPT ![m] = None]
      /\ cfg' = loaded[m]
      /\ mu' = Nobody
      /\ UNCHANGED file
  BY DEF Store, envVars
<1>3. pc[m] \in Stages
  BY <1>2 DEF Stages
<1>4. /\ live' = [s \in Settings |-> live'[s]]
      /\ \A s \in Watched :
           live'[s] = IF s \in Installed[pc[m]] \cup Compared[pc[m]]
                      THEN loaded[m].content[s] ELSE cfg.content[s]
      /\ Sourced'
  BY <1>2, <1>3, PartInstalled
<1>5. \A n \in Reloader : pc'[n] \notin Stages
  BY <1>1, <1>2, <1>3 DEF Locked, ReloadTypes, Stages
<1>6. cfg'.edit =< file.edit /\ cfg' \in [content : Confs, edit : Nat]
  BY <1>1, <1>2, <1>3 DEF Locked, ReloadTypes
<1>7. \A s \in Watched : s \in Installed[pc[m]] \cup Compared[pc[m]]
  BY <1>2 DEF Watched, Installed, Compared
<1>8. ReloadTypes'
  BY <1>1, <1>2, <1>4, <1>6 DEF ReloadTypes, None
<1>9. Locked' /\ Fresh' /\ Held'
  BY <1>2, <1>5, <1>6 DEF Locked, Fresh, Held
<1>10. Progress'
  BY <1>2, <1>4, <1>5, <1>7 DEF Progress
<1> QED
  BY <1>4, <1>8, <1>9, <1>10 DEF ReloadInv

(* Every step of a reload, of the watcher and of an edit keeps the         *)
(* invariant.                                                              *)
LEMMA ReloadNext == ReloadInv /\ [Next]_vars => ReloadInv'
<1> SUFFICES ASSUME ReloadInv, [Next]_vars PROVE ReloadInv'
  OBVIOUS
<1>1. CASE Edit \/ Signal \/ Start \/ StartFails \/ Watch \/ Stop
  BY <1>1, ReloadAround
<1>2. CASE \E m \in Timer : TimerFires(m)
  BY <1>2, ReloadQueue DEF Reloader
<1>3. CASE \E m \in Admin : AdminReload(m)
  BY <1>3, ReloadQueue DEF Reloader
<1>4. ASSUME NEW m \in Reloader, Load(m) PROVE ReloadInv'
  BY <1>4, ReloadLoads
<1>5. ASSUME NEW m \in Reloader, LoadFails(m) PROVE ReloadInv'
  BY <1>5, ReloadQueue
<1>6. ASSUME NEW m \in Reloader, Apply(m) PROVE ReloadInv'
  BY <1>6, ReloadApplies
<1>7. ASSUME NEW m \in Reloader, Store(m) PROVE ReloadInv'
  BY <1>7, ReloadStores
<1>8. CASE UNCHANGED vars
  <2>1. UNCHANGED <<file, pc, mu, loaded, cfg, live>>
    BY <1>8 DEF vars, envVars, watchVars, cfgVars
  <2>2. pc \in [Reloader -> {"idle", "waiting"} \cup Stages]
        /\ file \in [content : Contents, edit : Nat]
    BY DEF ReloadInv, ReloadTypes
  <2> QED
    BY <2>1, <2>2, ReloadBystander
<1> QED
  BY <1>1, <1>2, <1>3, <1>4, <1>5, <1>6, <1>7, <1>8 DEF Next, Reload

(* So it holds in every reachable state.                                   *)
LEMMA ReloadInvariant == Spec => []ReloadInv
<1> QED
  BY ReloadInit, ReloadNext, PTL DEF Spec

-----------------------------------------------------------------------------
(* Between reloads the settings that Diff compares are in use as the       *)
(* stored configuration has them, whatever applyConfig skipped.            *)
THEOREM WatchedCurrent == Spec => []WatchedInUse
<1>1. ReloadInv => WatchedInUse
  BY DEF ReloadInv, Progress, Watched, WatchedInUse, Applied
<1> QED
  BY <1>1, ReloadInvariant, PTL

(* Between reloads the router tries endpoints only of providers of the     *)
(* stored configuration, which Validate saw when it was loaded.            *)
THEOREM EndpointsConfigured == Spec => []InUseConfigured
<1>1. ASSUME ReloadInv, Applied, NEW name \in DOMAIN live.models
      PROVE  Range(live.models[name]) \subseteq DOMAIN cfg.content.providers
  <2>1. live.models = cfg.content.models /\ cfg.content \in Confs
    BY <1>1 DEF ReloadInv, ReloadTypes, Progress, Watched, Applied
  <2> PICK c \in Accepted : cfg.content = Loaded(c)
    BY <2>1 DEF Confs, LoadedAs
  <2> QED
    BY <1>1, <2>1 DEF Accepted, Loads, Validate, EndpointsKnown
<1>2. ReloadInv => InUseConfigured
  BY <1>1 DEF InUseConfigured
<1> QED
  BY <1>2, ReloadInvariant, PTL

(* A reload never stores an older edit of the file in the place of a newer *)
(* one, however timers and administrators overlap.                         *)
THEOREM NewerStored == Spec => NeverOlder
<1>1. ASSUME ReloadInv, [Next]_vars PROVE [cfg'.edit >= cfg.edit]_vars
  <2>1. cfg.edit \in Nat
    BY <1>1 DEF ReloadInv, ReloadTypes
  <2>2. ASSUME NEW m \in Reloader, Store(m) PROVE cfg'.edit >= cfg.edit
    BY <1>1, <2>1, <2>2 DEF ReloadInv, Locked, ReloadTypes, Store, Stages
  <2>3. ASSUME NEW m \in Reloader, Load(m) \/ LoadFails(m) \/ Apply(m) PROVE cfg' = cfg
    BY <2>3 DEF Load, LoadFails, Apply, cfgVars
  <2>4. Edit \/ Signal \/ Start \/ StartFails \/ Stop => cfg' = cfg
    BY DEF Edit, Signal, Start, StartFails, Stop, cfgVars
  <2>5. Watch => cfg' = cfg
    BY DEF Watch, WatchEvent, WatchCancelled, WatchClosed, cfgVars
  <2>6. \A m : TimerFires(m) \/ AdminReload(m) => cfg' = cfg
    BY DEF TimerFires, AdminReload, cfgVars
  <2> QED
    BY <1>1, <2>1, <2>2, <2>3, <2>4, <2>5, <2>6 DEF Next, Reload
<1> QED
  BY <1>1, ReloadInvariant, PTL DEF Spec, NeverOlder

-----------------------------------------------------------------------------
(* The server as a whole behaves, as to its reloads, as ConfigReload says. *)
THEOREM ServingReloads == SSpec => Spec
<1>1. SInit => Init
  BY DEF SInit
<1>2. ASSUME [SNext]_svars PROVE [Next]_vars
  <2>1. CASE Run \/ StopWatcher \/ ListenFails
    BY <2>1 DEF Run, StartWatcher, Shutdown, ShutdownReturns, Returns, Exit, StopWatcher,
       ListenFails, Next
  <2>2. CASE Outside \/ Watching
    BY <2>2 DEF Outside, Watching, Next
  <2>3. CASE (\E m \in Timer : Firing(m)) \/ (\E m \in Admin : Asked(m))
    BY <2>3 DEF Firing, Asked, Next
  <2>4. ASSUME NEW m \in Reloader, Locking(m) \/ Applying(m) \/ Storing(m)
        PROVE  Next
    BY <2>4 DEF Locking, Applying, Storing, Next, Reload
  <2>5. ASSUME NEW r \in Request, Serve(r)
        PROVE  UNCHANGED vars
    BY <2>5 DEF Serve, Arrive, LookUp, LookUpDefault, Found, Missed, Skip, NewRetrier, BackOff,
       Fail, Answer
  <2>6. UNCHANGED svars => UNCHANGED vars
    BY DEF svars
  <2> QED
    BY <1>2, <2>1, <2>2, <2>3, <2>4, <2>5, <2>6 DEF SNext
<1> QED
  BY <1>1, <1>2, PTL DEF SSpec, Spec

-----------------------------------------------------------------------------
States == {"away", "arrived", "missed", "unknown", "routed", "calling", "failed"}

Chains == {<<>>} \cup UNION {Range(c.models) : c \in Confs}

Names   == Model \cup {""}
Retries == {<<>>} \cup [Retry -> Int]

Visit == [at : States, model : Names, chain : Chains, pos : Nat,
          retry : Retries, attempt : Nat, wait : Int]

RequestTypes == req \in [Request -> Visit] /\ DOMAIN seen = Request

(* While a request looks for its chain it sees every change of the models. *)
Looking(r) ==
  req[r].at \in {"arrived", "missed"} =>
    /\ req[r].chain = <<>>
    /\ live.models \in seen[r]
    /\ req[r].at = "missed" => Having(r, req[r].model) # seen[r]

Routed(r) == req[r].at \in {"routed", "unknown"} => req[r].chain \in Possible(r)

(* Load leaves no multiplier of backoffs at zero.                          *)
Settled == {q \in [Retry -> Int] : q.backoffMultiplier # 0}

(* A retrier holds parts of the configurations that were in use when it    *)
(* was made, and only a request that calls has waited.                     *)
Copied(r) ==
  IF req[r].at = "calling"
  THEN /\ req[r].retry \in Settled
       /\ seen[r] \subseteq Settled
       /\ \A s \in Retry : \E q \in seen[r] : req[r].retry[s] = q[s]
  ELSE req[r].wait = 0

RequestInv ==
  RequestTypes /\ \A r \in Request : Looking(r) /\ Routed(r) /\ Copied(r)

(* The fields of a request, one by one, and what a step may make of it.    *)
LEMMA VisitFields ==
  ASSUME NEW q \in Visit
  PROVE  /\ q.at \in States /\ q.model \in Names /\ q.chain \in Chains
         /\ q.pos \in Nat /\ q.attempt \in Nat /\ q.wait \in Int
         /\ q.retry \in Retries
BY DEF Visit

(* A request that moves to another place.                                  *)
LEMMA VisitMoves ==
  ASSUME NEW q \in Visit, NEW at \in States
  PROVE  LET p == [q EXCEPT !.at = at] IN
         /\ p \in Visit /\ p.at = at /\ p.model = q.model /\ p.chain = q.chain
         /\ p.pos = q.pos /\ p.retry = q.retry /\ p.attempt = q.attempt /\ p.wait = q.wait
BY DEF Visit

(* A request that has found its chain.                                     *)
LEMMA VisitRoutes ==
  ASSUME NEW q \in Visit, NEW chain \in Chains
  PROVE  LET p == [q EXCEPT !.at = "routed", !.chain = chain] IN
         /\ p \in Visit /\ p.at = "routed" /\ p.model = q.model /\ p.chain = chain
         /\ p.wait = q.wait
BY DEF Visit, States

(* A request that passes an endpoint by.                                   *)
LEMMA VisitSkips ==
  ASSUME NEW q \in Visit
  PROVE  LET p == [q EXCEPT !.pos = @ + 1] IN
         /\ p \in Visit /\ p.at = q.at /\ p.model = q.model /\ p.chain = q.chain
         /\ p.retry = q.retry /\ p.wait = q.wait
<1>0. q.pos \in Nat
  BY DEF Visit
<1>1. q.pos + 1 \in Nat
  BY <1>0
<1>2. [q EXCEPT !.pos = @ + 1] = [q EXCEPT !.pos = q.pos + 1]
  OBVIOUS
<1> QED
  BY <1>1, <1>2 DEF Visit

(* A request that gets its copy of the retry configuration.                *)
LEMMA VisitCalls ==
  ASSUME NEW q \in Visit, NEW copy \in [Retry -> Int]
  PROVE  LET p == [q EXCEPT !.at = "calling", !.retry = copy] IN
         p \in Visit /\ p.at = "calling" /\ p.retry = copy /\ p.wait = q.wait
<1>1. copy \in Retries
  BY DEF Retries
<1> QED
  BY <1>1 DEF Visit, States

(* A request that backs off before another attempt.                        *)
LEMMA VisitWaits ==
  ASSUME NEW q \in Visit, NEW wait \in Int
  PROVE  LET p == [q EXCEPT !.attempt = @ + 1, !.wait = wait] IN
         p \in Visit /\ p.at = q.at /\ p.retry = q.retry /\ p.wait = wait
<1>0. q.attempt \in Nat
  BY DEF Visit
<1>1. q.attempt + 1 \in Nat
  BY <1>0
<1>2. [q EXCEPT !.attempt = @ + 1, !.wait = wait]
        = [q EXCEPT !.attempt = q.attempt + 1, !.wait = wait]
  BY DEF Visit
<1> QED
  BY <1>1, <1>2 DEF Visit

(* Every record with these fields is a visit.                              *)
LEMMA VisitMade ==
  ASSUME NEW at \in States, NEW name \in Names, NEW chain \in Chains, NEW retry \in Retries
  PROVE  [at |-> at, model |-> name, chain |-> chain, pos |-> 1,
          retry |-> retry, attempt |-> 0, wait |-> 0] \in Visit
BY DEF Visit

(* A request that is not there.                                            *)
LEMMA VisitAway == Away \in Visit /\ Away.at = "away" /\ Away.chain = <<>> /\ Away.wait = 0
<1>1. <<>> \in Chains /\ <<>> \in Retries
  BY DEF Chains, Retries
<1>2. "" \in Names /\ "away" \in States
  BY DEF Names, States
<1>3. Away \in Visit
  BY <1>1, <1>2, VisitMade DEF Away
<1> QED
  BY <1>3 DEF Away

(* A request that asks for a model.                                        *)
LEMMA VisitNamed ==
  ASSUME NEW q \in Visit, NEW name \in Model
  PROVE  LET p == [q EXCEPT !.at = "arrived", !.model = name] IN
         p \in Visit /\ p.at = "arrived" /\ p.chain = q.chain /\ p.wait = q.wait
<1>1. name \in Names
  BY DEF Names
<1> QED
  BY <1>1 DEF Visit, States

(* A request that arrives.                                                 *)
LEMMA VisitComes ==
  ASSUME NEW name \in Model
  PROVE  LET p == [Away EXCEPT !.at = "arrived", !.model = name] IN
         p \in Visit /\ p.at = "arrived" /\ p.chain = <<>> /\ p.wait = 0
BY VisitAway, VisitNamed

(* A request that has failed at an endpoint.                               *)
LEMMA VisitPasses ==
  ASSUME NEW name \in Names, NEW chain \in Chains, NEW n \in Nat
  PROVE  LET p == [Away EXCEPT !.at = "failed", !.model = name, !.chain = chain, !.pos = n] IN
         p \in Visit /\ p.at = "failed" /\ p.wait = 0
BY VisitAway DEF Visit, States

(* A request that fails keeps its model and chain.                         *)
LEMMA VisitFails ==
  ASSUME NEW q \in Visit
  PROVE  LET p == [Away EXCEPT !.at = "failed", !.model = q.model,
                               !.chain = q.chain, !.pos = q.pos + 1] IN
         p \in Visit /\ p.at = "failed" /\ p.wait = 0
<1>1. q.pos \in Nat
  BY DEF Visit
<1>2. q.pos + 1 \in Nat
  BY <1>1
<1>3. q.model \in Names /\ q.chain \in Chains
  BY DEF Visit
<1> QED
  BY <1>2, <1>3, VisitPasses

(* A step of one request, that leaves the models alone.                    *)
LEMMA RequestStep ==
  ASSUME RequestInv, NEW r \in Request,
         NEW v \in Visit, req' = [req EXCEPT ![r] = v],
         seen' = seen \/ \E s : seen' = [seen EXCEPT ![r] = s],
         live' = live,
         (Looking(r) /\ Routed(r) /\ Copied(r))'
  PROVE  RequestInv'
<1>1. RequestTypes'
  BY DEF RequestInv, RequestTypes
<1>2. ASSUME NEW n \in Request, n # r
      PROVE  req'[n] = req[n] /\ seen'[n] = seen[n]
  BY <1>2 DEF RequestInv, RequestTypes
<1>3. ASSUME NEW n \in Request, n # r
      PROVE  (Looking(n) /\ Routed(n) /\ Copied(n))'
  <2>1. req'[n] = req[n] /\ seen'[n] = seen[n] /\ Looking(n) /\ Routed(n) /\ Copied(n)
    BY <1>2, <1>3 DEF RequestInv
  <2>2. Looking(n)'
    BY <2>1 DEF Looking, Having
  <2>3. Routed(n)'
    BY <2>1 DEF Routed, Possible, Having
  <2>4. Copied(n)'
    BY <2>1 DEF Copied
  <2> QED
    BY <2>2, <2>3, <2>4
<1> QED
  BY <1>1, <1>3 DEF RequestInv

(* A step that leaves the requests and the models alone.                   *)
LEMMA RequestBystander ==
  ASSUME RequestInv, UNCHANGED <<req, seen>>, live'.models = live.models
  PROVE  RequestInv'
<1>1. RequestTypes'
  BY DEF RequestInv, RequestTypes
<1>2. ASSUME NEW r \in Request PROVE (Looking(r) /\ Routed(r) /\ Copied(r))'
  <2>1. Looking(r) /\ Routed(r) /\ Copied(r)
    BY DEF RequestInv
  <2>2. Looking(r)'
    BY <2>1 DEF Looking, Having
  <2>3. Routed(r)'
    BY <2>1 DEF Routed, Possible, Having
  <2>4. Copied(r)'
    BY <2>1 DEF Copied
  <2> QED
    BY <2>2, <2>3, <2>4
<1> QED
  BY <1>1, <1>2 DEF RequestInv

(* Every request is away.                                                  *)
LEMMA RequestsAway ==
  ASSUME req = [r \in Request |-> Away], seen = [r \in Request |-> {}]
  PROVE  RequestInv
<1>1. RequestTypes
  BY VisitAway DEF RequestTypes
<1>2. ASSUME NEW r \in Request PROVE Looking(r) /\ Routed(r) /\ Copied(r)
  <2>1. req[r].at = "away" /\ req[r].wait = 0
    BY VisitAway
  <2> QED
    BY <2>1 DEF Looking, Routed, Copied
<1> QED
  BY <1>1, <1>2 DEF RequestInv

(* A reload installs its part before the eyes of those that look.          *)
LEMMA RequestApplies ==
  ASSUME RequestInv, NEW m \in Reloader, Applying(m)
  PROVE  RequestInv'
<1>1. /\ req' = req
      /\ seen' = [r \in Request |->
           IF req[r].at \in {"arrived", "missed"} THEN seen[r] \cup {live'.models} ELSE seen[r]]
  BY DEF Applying
<1>2. RequestTypes'
  BY <1>1 DEF RequestInv, RequestTypes
<1>3. ASSUME NEW r \in Request PROVE (Looking(r) /\ Routed(r) /\ Copied(r))'
  <2>1. Looking(r) /\ Routed(r) /\ Copied(r)
    BY DEF RequestInv
  <2>2. CASE req[r].at \in {"arrived", "missed"}
    <3>1. seen'[r] = seen[r] \cup {live'.models} /\ req'[r] = req[r]
      BY <1>1, <2>2
    <3>2. Looking(r)'
      BY <2>1, <2>2, <3>1 DEF Looking, Having
    <3>3. Routed(r)' /\ Copied(r)'
      BY <2>1, <2>2, <3>1 DEF Routed, Copied
    <3> QED
      BY <3>2, <3>3
  <2>3. CASE req[r].at \notin {"arrived", "missed"}
    <3>1. seen'[r] = seen[r] /\ req'[r] = req[r]
      BY <1>1, <2>3
    <3>2. Looking(r)'
      BY <2>3, <3>1 DEF Looking
    <3>3. Routed(r)'
      BY <2>1, <3>1 DEF Routed, Possible, Having
    <3>4. Copied(r)'
      BY <2>1, <3>1 DEF Copied
    <3> QED
      BY <3>2, <3>3, <3>4
  <2> QED
    BY <2>2, <2>3
<1> QED
  BY <1>2, <1>3 DEF RequestInv

(* Run, and the reloads but for the parts they install.                    *)
LEMMA RequestAround ==
  ASSUME ReloadInv, RequestInv,
         \/ Run \/ StopWatcher \/ ListenFails \/ Outside \/ Watching
         \/ \E m \in Timer : Firing(m)
         \/ \E m \in Admin : Asked(m)
         \/ \E m \in Reloader : Locking(m) \/ Storing(m)
  PROVE  RequestInv'
<1>1. CASE ListenFails \/ ShutdownReturns
  <2>1. (req = [r \in Request |-> Away] /\ seen = [r \in Request |-> {}])'
    BY <1>1 DEF ListenFails, ShutdownReturns, Returns
  <2> QED
    BY <2>1, RequestsAway, PTL
<1>2. CASE StartWatcher \/ Shutdown \/ Exit \/ StopWatcher
  <2>1. UNCHANGED <<req, seen, live>>
    BY <1>2 DEF StartWatcher, Shutdown, Exit, StopWatcher, Start, StartFails, Stop,
       reqVars, vars, cfgVars
  <2> QED
    BY <2>1, RequestBystander
<1>3. CASE Outside \/ Watching
  <2>1. UNCHANGED <<req, seen, live>>
    BY <1>3 DEF Outside, Watching, Edit, Signal, Watch, WatchEvent, WatchCancelled,
       WatchClosed, reqVars, cfgVars
  <2> QED
    BY <2>1, RequestBystander
<1>4. ASSUME NEW m, Firing(m) \/ Asked(m) \/ Locking(m) PROVE RequestInv'
  <2>1. UNCHANGED <<req, seen, live>>
    BY <1>4 DEF Firing, Asked, Locking, TimerFires, AdminReload, Load, LoadFails,
       reqVars, cfgVars
  <2> QED
    BY <2>1, RequestBystander
<1>5. ASSUME NEW m \in Reloader, Storing(m) PROVE RequestInv'
  <2>1. UNCHANGED <<req, seen>> /\ pc[m] = "budget" /\ live' = InUse(m, pc[m])
    BY <1>5 DEF Storing, Store, reqVars
  <2>2. pc[m] \in Stages
    BY <2>1 DEF Stages
  <2>3. live'.models = live.models
    BY <2>1, <2>2, PartInstalled
  <2> QED
    BY <2>1, <2>3, RequestBystander
<1> QED
  BY <1>1, <1>2, <1>3, <1>4, <1>5 DEF Run

(* A request comes, and sees the models of that moment.                    *)
LEMMA RequestArrives ==
  ASSUME RequestInv, NEW r \in Request, Arrive(r)
  PROVE  RequestInv'
<1> PICK name \in Model :
      req' = [req EXCEPT ![r] = [Away EXCEPT !.at = "arrived", !.model = name]]
  BY DEF Arrive
<1> DEFINE v == [Away EXCEPT !.at = "arrived", !.model = name]
<1>1. v \in Visit /\ v.at = "arrived" /\ v.chain = <<>> /\ v.wait = 0
  BY VisitComes
<1> HIDE DEF v
<1>2. req' = [req EXCEPT ![r] = v] /\ seen' = [seen EXCEPT ![r] = {live.models}] /\ live' = live
  BY DEF Arrive, v, vars, cfgVars
<1>3. req'[r] = v /\ seen'[r] = {live.models}
  BY <1>2 DEF RequestInv, RequestTypes
<1>4. Looking(r)'
  BY <1>1, <1>2, <1>3 DEF Looking
<1>5. Routed(r)' /\ Copied(r)'
  BY <1>1, <1>3 DEF Routed, Copied
<1> QED
  BY <1>1, <1>2, <1>4, <1>5, RequestStep

(* The endpoints of a chain in use.                                        *)
LEMMA ChainInUse ==
  ASSUME ReloadInv, NEW name \in DOMAIN live.models
  PROVE  live.models[name] \in Chains
<1> PICK c \in Confs : live.models = c.models
  BY DEF ReloadInv, Sourced, Settings
<1>1. live.models[name] \in Range(c.models)
  BY DEF Range
<1> QED
  BY <1>1 DEF Chains

(* A chain is found among the models, which the request has seen.          *)
LEMMA RequestFinds ==
  ASSUME ReloadInv, RequestInv, NEW r \in Request, NEW name, Found(r, name),
         \/ req[r].at = "arrived" /\ name = req[r].model
         \/ req[r].at = "missed" /\ name = "default"
  PROVE  RequestInv'
<1> DEFINE chain == live.models[name]
           v     == [req[r] EXCEPT !.at = "routed", !.chain = chain]
<1>1. chain \in Chains /\ name \in DOMAIN live.models
  BY ChainInUse DEF Found
<1>2. req[r] \in Visit
  BY DEF RequestInv, RequestTypes
<1>3. /\ v \in Visit /\ v.at = "routed" /\ v.model = req[r].model /\ v.chain = chain
      /\ v.wait = req[r].wait
  BY <1>1, <1>2, VisitRoutes
<1>4. req' = [req EXCEPT ![r] = v] /\ UNCHANGED <<seen, live>>
  BY DEF Found, vars, cfgVars
<1> HIDE DEF v
<1>5. req'[r] = v /\ seen'[r] = seen[r]
  BY <1>4 DEF RequestInv, RequestTypes
<1>6. Looking(r) /\ Copied(r)
  BY DEF RequestInv
<1>7. live.models \in seen[r] /\ live.models \in Having(r, name)
  BY <1>1, <1>6 DEF Looking, Having
<1>8. (req[r].at = "missed" => Having(r, req[r].model) # seen[r]) /\ req[r].wait = 0
  BY <1>6 DEF Looking, Copied
<1>9. chain \in Possible(r)
  BY <1>7, <1>8 DEF Possible
<1>10. Possible(r)' = Possible(r)
  BY <1>3, <1>5 DEF Possible, Having
<1>11. Routed(r)'
  BY <1>3, <1>5, <1>9, <1>10 DEF Routed
<1>12. Looking(r)' /\ Copied(r)'
  BY <1>3, <1>5, <1>8 DEF Looking, Copied
<1> QED
  BY <1>3, <1>4, <1>11, <1>12, RequestStep

(* A name is missing from the models.                                      *)
LEMMA RequestMisses ==
  ASSUME RequestInv, NEW r \in Request,
         \/ req[r].at = "arrived" /\ Missed(r, req[r].model, "missed")
         \/ req[r].at = "missed" /\ Missed(r, "default", "unknown")
  PROVE  RequestInv'
<1> DEFINE next == IF req[r].at = "arrived" THEN "missed" ELSE "unknown"
           name == IF req[r].at = "arrived" THEN req[r].model ELSE "default"
           v    == [req[r] EXCEPT !.at = next]
<1>1. Missed(r, name, next) /\ next \in States
  BY DEF States
<1>2. req[r] \in Visit
  BY DEF RequestInv, RequestTypes
<1>3. /\ v \in Visit /\ v.at = next /\ v.model = req[r].model /\ v.chain = req[r].chain
      /\ v.wait = req[r].wait
  BY <1>1, <1>2, VisitMoves
<1>4. req' = [req EXCEPT ![r] = v] /\ UNCHANGED <<seen, live>> /\ name \notin DOMAIN live.models
  BY <1>1 DEF Missed, vars, cfgVars
<1> HIDE DEF v
<1>5. req'[r] = v /\ seen'[r] = seen[r]
  BY <1>4 DEF RequestInv, RequestTypes
<1>6. Looking(r) /\ Copied(r)
  BY DEF RequestInv
<1>7. req[r].chain = <<>> /\ live.models \in seen[r] /\ req[r].wait = 0
  BY <1>6 DEF Looking, Copied
<1>8. Having(r, name) # seen[r]
  BY <1>4, <1>7 DEF Having
<1>9. Having(r, req[r].model) # seen[r]
  BY <1>6, <1>8 DEF Looking
<1>10. Possible(r)' = Possible(r) /\ Having(r, req[r].model)' = Having(r, req[r].model)
  BY <1>3, <1>5 DEF Possible, Having
<1>11. Looking(r)'
  <2>1. req'[r].chain = <<>> /\ live'.models \in seen'[r]
    BY <1>3, <1>4, <1>5, <1>7
  <2>2. (Having(r, req[r].model) # seen[r])'
    BY <1>5, <1>9, <1>10
  <2> QED
    BY <2>1, <2>2 DEF Looking
<1>12. next = "unknown" => <<>> \in Possible(r)
  BY <1>8, <1>9 DEF Possible
<1>13. Routed(r)'
  BY <1>3, <1>5, <1>7, <1>10, <1>12 DEF Routed
<1>14. Copied(r)'
  BY <1>3, <1>5, <1>7 DEF Copied
<1> QED
  BY <1>3, <1>4, <1>11, <1>13, <1>14, RequestStep

(* An endpoint without a client is passed by.                              *)
LEMMA RequestSkips ==
  ASSUME RequestInv, NEW r \in Request, Skip(r)
  PROVE  RequestInv'
<1> DEFINE v == [req[r] EXCEPT !.pos = @ + 1]
<1>1. req[r] \in Visit /\ req[r].at \in {"routed", "failed"}
  BY DEF RequestInv, RequestTypes, Skip, Routing
<1>2. /\ v \in Visit /\ v.at = req[r].at /\ v.model = req[r].model
      /\ v.chain = req[r].chain /\ v.retry = req[r].retry /\ v.wait = req[r].wait
  BY <1>1, VisitSkips
<1>3. req' = [req EXCEPT ![r] = v] /\ UNCHANGED <<seen, live>>
  BY DEF Skip, vars, cfgVars
<1> HIDE DEF v
<1>4. req'[r] = v /\ seen'[r] = seen[r]
  BY <1>3 DEF RequestInv, RequestTypes
<1>5. Routed(r) /\ Copied(r)
  BY DEF RequestInv
<1>6. Possible(r)' = Possible(r)
  BY <1>2, <1>4 DEF Possible, Having
<1>7. Routed(r)'
  BY <1>2, <1>4, <1>5, <1>6 DEF Routed
<1>8. Looking(r)' /\ Copied(r)'
  BY <1>1, <1>2, <1>4, <1>5 DEF Looking, Copied
<1> QED
  BY <1>2, <1>3, <1>7, <1>8, RequestStep

(* Load replaces a multiplier that is zero, so that no configuration has   *)
(* one.                                                                    *)
LEMMA MultiplierSet ==
  ASSUME NEW c \in Confs
  PROVE  c["backoffMultiplier"] # 0
<1> PICK content \in Accepted : c = Loaded(content)
  BY DEF Confs, LoadedAs
<1> DEFINE parsed   == Unmarshal(content)
           expanded == ExpandEnvVars(parsed)
<1>1. "backoffMultiplier" \in DOMAIN parsed
  BY DEF Unmarshal
<1> HIDE DEF parsed
<1>2. "backoffMultiplier" \in DOMAIN expanded
  BY <1>1 DEF ExpandEnvVars
<1>3. c = ApplyDefaults(expanded)
  BY DEF Loaded, parsed
<1> HIDE DEF expanded
<1>4. c["backoffMultiplier"] = OrDefault(expanded["backoffMultiplier"], 2)
  BY <1>2, <1>3 DEF ApplyDefaults
<1> QED
  BY <1>4 DEF OrDefault

(* What is in use, or is being written, holds numbers.                     *)
LEMMA RetriesTyped ==
  ASSUME ReloadInv
  PROVE  /\ RetryOf(live) \in Settled
         /\ \A m \in Writers : Written(m) \in Settled
<1>1. Retry \subseteq Settings /\ "backoffMultiplier" \in Retry
  BY DEF Settings, Retry
<1>2. \A c \in Confs : (\A s \in Retry : c[s] \in Int) /\ c["backoffMultiplier"] # 0
  BY RetryAssumption, MultiplierSet DEF Confs
<1>3. (\A s \in Retry : live[s] \in Int) /\ live["backoffMultiplier"] # 0
  BY <1>1, <1>2 DEF ReloadInv, Sourced
<1>4. RetryOf(live) = [s \in Retry |-> live[s]]
  BY DEF RetryOf, Restrict
<1>5. ASSUME NEW m \in Writers PROVE Written(m) \in Settled
  <2> DEFINE used == InUse(m, "resilience")
  <2>1. loaded[m].content \in Confs
    BY DEF ReloadInv, Locked, Writers, Stages
  <2>2. (\A s \in Retry : used[s] \in Int) /\ used["backoffMultiplier"] # 0
    BY <1>1, <1>2, <1>3, <2>1 DEF InUse
  <2>3. Written(m) = [s \in Retry |-> used[s]]
    BY DEF Written, RetryOf, Restrict
  <2> HIDE DEF used
  <2> QED
    BY <1>1, <2>2, <2>3 DEF Settled
<1>6. RetryOf(live) \in Settled
  BY <1>1, <1>3, <1>4 DEF Settled
<1> QED
  BY <1>5, <1>6

(* Every setting of a copy comes from what was in use, or from what a      *)
(* reload was writing.                                                     *)
LEMMA CopyMixes ==
  ASSUME ReloadInv, NEW copy \in Copies
  PROVE  /\ copy \in Settled
         /\ \A s \in Retry :
              \E q \in {RetryOf(live)} \cup {Written(m) : m \in Writers} : copy[s] = q[s]
<1>1. RetryOf(live) \in Settled /\ \A m \in Writers : Written(m) \in Settled
  BY RetriesTyped
<1>2. \A s \in Retry : RetryOf(live)[s] = live[s]
  BY DEF RetryOf, Restrict
<1>3. CASE copy = RetryOf(live)
  BY <1>1, <1>3
<1>4. ASSUME NEW new \in SUBSET Retry, NEW m \in Writers,
             copy = [s \in Retry |-> IF s \in new THEN Written(m)[s] ELSE live[s]]
      PROVE  /\ copy \in Settled
             /\ \A s \in Retry : \E q \in {RetryOf(live), Written(m)} : copy[s] = q[s]
  <2>1. \A s \in Retry : copy[s] = Written(m)[s] \/ copy[s] = RetryOf(live)[s]
    BY <1>2, <1>4
  <2>2. \A s \in Retry : copy[s] \in Int
    BY <1>1, <2>1 DEF Settled
  <2>3. copy \in [Retry -> Int]
    BY <1>4, <2>2
  <2>4. copy.backoffMultiplier # 0
    BY <1>1, <2>1 DEF Settled, Retry
  <2> QED
    BY <2>1, <2>3, <2>4 DEF Settled
<1> QED
  BY <1>3, <1>4 DEF Copies

(* A copy mixes only values that were in use.                              *)
LEMMA RequestCalls ==
  ASSUME ReloadInv, RequestInv, NEW r \in Request, NewRetrier(r)
  PROVE  RequestInv'
<1> DEFINE used == {RetryOf(live)} \cup {Written(m) : m \in Writers}
<1> PICK copy \in Copies : req' = [req EXCEPT ![r].at = "calling", ![r].retry = copy]
  BY DEF NewRetrier
<1> DEFINE v == [req[r] EXCEPT !.at = "calling", !.retry = copy]
<1>1. /\ copy \in Settled
      /\ \A s \in Retry : \E q \in used : copy[s] = q[s]
  BY CopyMixes
<1>2. used \subseteq Settled
  BY RetriesTyped
<1>3. req[r] \in Visit /\ req[r].at \in {"routed", "failed"}
  BY DEF RequestInv, RequestTypes, NewRetrier, Routing
<1>4. v \in Visit /\ v.at = "calling" /\ v.retry = copy
  BY <1>1, <1>3, VisitCalls DEF Settled
<1>5. req' = [req EXCEPT ![r] = v] /\ seen' = [seen EXCEPT ![r] = used] /\ live' = live
  BY DEF NewRetrier, vars, cfgVars
<1> HIDE DEF v, used
<1>6. req'[r] = v /\ seen'[r] = used
  BY <1>5 DEF RequestInv, RequestTypes
<1>7. Copied(r)'
  BY <1>1, <1>2, <1>4, <1>6 DEF Copied
<1>8. Looking(r)' /\ Routed(r)'
  BY <1>4, <1>6 DEF Looking, Routed
<1> QED
  BY <1>4, <1>5, <1>7, <1>8, RequestStep

(* Every wait is a whole number, whatever the power in it may be.          *)
LEMMA BackoffWhole ==
  ASSUME NEW retry \in [Retry -> Int], NEW attempt, NEW wait \in Backoffs(retry, attempt)
  PROVE  wait \in Int
<1> PICK j \in Jittered(Smaller(Exponential(retry, attempt), retry.maxBackoff)) :
      wait = Larger(j, retry.initialBackoff)
  BY DEF Backoffs
<1>1. j \in Int
  BY DEF Jittered
<1>2. retry.initialBackoff \in Int
  BY DEF Retry
<1> QED
  BY <1>1, <1>2 DEF Larger

(* A backoff keeps the copy it is computed from.                           *)
LEMMA RequestBacksOff ==
  ASSUME RequestInv, NEW r \in Request, BackOff(r)
  PROVE  RequestInv'
<1> PICK wait \in Backoffs(req[r].retry, req[r].attempt) :
      req' = [req EXCEPT ![r].attempt = @ + 1, ![r].wait = wait]
  BY DEF BackOff
<1> DEFINE v == [req[r] EXCEPT !.attempt = @ + 1, !.wait = wait]
<1>1. req[r] \in Visit /\ req[r].at = "calling" /\ Copied(r)
  BY DEF RequestInv, RequestTypes, BackOff
<1>2. wait \in Int
  BY <1>1, BackoffWhole DEF Copied, Settled
<1>3. v \in Visit /\ v.at = req[r].at /\ v.retry = req[r].retry
  BY <1>1, <1>2, VisitWaits
<1>4. req' = [req EXCEPT ![r] = v] /\ UNCHANGED <<seen, live>>
  BY DEF BackOff, vars, cfgVars
<1> HIDE DEF v
<1>5. req'[r] = v /\ seen'[r] = seen[r]
  BY <1>4 DEF RequestInv, RequestTypes
<1>6. Copied(r)'
  BY <1>1, <1>3, <1>5 DEF Copied
<1>7. Looking(r)' /\ Routed(r)'
  BY <1>1, <1>3, <1>5 DEF Looking, Routed
<1> QED
  BY <1>3, <1>4, <1>6, <1>7, RequestStep

(* A request leaves an endpoint, or is answered.                           *)
LEMMA RequestEnds ==
  ASSUME RequestInv, NEW r \in Request, Fail(r) \/ Answer(r)
  PROVE  RequestInv'
<1>1. req[r] \in Visit
  BY DEF RequestInv, RequestTypes
<1>2. \E v \in Visit : /\ v.at \in {"failed", "away"} /\ v.wait = 0
                       /\ req' = [req EXCEPT ![r] = v]
  <2>1. CASE Fail(r)
    BY <1>1, <2>1, VisitFails DEF Fail
  <2>2. CASE Answer(r)
    BY <2>2, VisitAway DEF Answer
  <2> QED
    BY <2>1, <2>2
<1> PICK v \in Visit : /\ v.at \in {"failed", "away"} /\ v.wait = 0
                       /\ req' = [req EXCEPT ![r] = v]
  BY <1>2
<1>3. seen' = [seen EXCEPT ![r] = {}] /\ live' = live
  BY DEF Fail, Answer, vars, cfgVars
<1>4. req'[r] = v
  BY DEF RequestInv, RequestTypes
<1>5. (Looking(r) /\ Routed(r) /\ Copied(r))'
  BY <1>4 DEF Looking, Routed, Copied
<1> QED
  BY <1>3, <1>5, RequestStep

(* Every step of Run, of a reload and of a request keeps the invariant.    *)
LEMMA RequestNext == ReloadInv /\ RequestInv /\ [SNext]_svars => RequestInv'
<1> SUFFICES ASSUME ReloadInv, RequestInv, [SNext]_svars PROVE RequestInv'
  OBVIOUS
<1>1. CASE \/ Run \/ StopWatcher \/ ListenFails \/ Outside \/ Watching
           \/ \E m \in Timer : Firing(m)
           \/ \E m \in Admin : Asked(m)
           \/ \E m \in Reloader : Locking(m) \/ Storing(m)
  BY <1>1, RequestAround
<1>2. ASSUME NEW m \in Reloader, Applying(m) PROVE RequestInv'
  BY <1>2, RequestApplies
<1>3. ASSUME NEW r \in Request, Arrive(r) PROVE RequestInv'
  BY <1>3, RequestArrives
<1>4. ASSUME NEW r \in Request, LookUp(r) \/ LookUpDefault(r) PROVE RequestInv'
  BY <1>4, RequestFinds, RequestMisses DEF LookUp, LookUpDefault
<1>5. ASSUME NEW r \in Request, Skip(r) PROVE RequestInv'
  BY <1>5, RequestSkips
<1>6. ASSUME NEW r \in Request, NewRetrier(r) PROVE RequestInv'
  BY <1>6, RequestCalls
<1>7. ASSUME NEW r \in Request, BackOff(r) PROVE RequestInv'
  BY <1>7, RequestBacksOff
<1>8. ASSUME NEW r \in Request, Fail(r) \/ Answer(r) PROVE RequestInv'
  BY <1>8, RequestEnds
<1>9. CASE UNCHANGED svars
  BY <1>9, RequestBystander DEF svars, reqVars, vars, cfgVars
<1> QED
  BY <1>1, <1>2, <1>3, <1>4, <1>5, <1>6, <1>7, <1>8, <1>9 DEF SNext, Serve

(* So it holds in every reachable state.                                   *)
LEMMA RequestInvariant == SSpec => [](ReloadInv /\ RequestInv)
<1>1. SSpec => []ReloadInv
  BY ServingReloads, ReloadInvariant, PTL
<1>2. SInit => RequestInv
  BY RequestsAway DEF SInit
<1> QED
  BY <1>1, <1>2, RequestNext, PTL DEF SSpec

-----------------------------------------------------------------------------
(* What is proved of the reloads holds of the server that runs them.       *)
THEOREM ServedWhileReloading == SSpec => []WatchedInUse /\ []InUseConfigured /\ NeverOlder
BY ServingReloads, WatchedCurrent, EndpointsConfigured, NewerStored, PTL

(* A request is routed along a chain that was in use under its name while  *)
(* it looked, under "default" only if its name was missing at some time,   *)
(* and is refused only if both were, however reloads fall between the two  *)
(* readings of ExecuteChat.                                                *)
THEOREM ChainsInUse == SSpec => []RoutedInUse
<1>1. RequestInv => RoutedInUse
  BY DEF RequestInv, Routed, RoutedInUse
<1> QED
  BY <1>1, RequestInvariant, PTL

-----------------------------------------------------------------------------
(* The provers know nothing of powers but what they are told.              *)
PowersWhole == \A b \in Int \ {0} : \A n \in Nat : b ^ n \in Int

(* What the backoff is clamped to.                                         *)
LEMMA BackoffClamped ==
  ASSUME PowersWhole, NEW retry \in Settled, NEW attempt \in Nat,
         NEW wait \in Backoffs(retry, attempt)
  PROVE  /\ wait \in Int
         /\ wait >= retry.initialBackoff
         /\ wait = retry.initialBackoff \/ 4 * wait =< 5 * retry.maxBackoff
<1> DEFINE e == Exponential(retry, attempt)
           b == Smaller(e, retry.maxBackoff)
<1>1. /\ retry.initialBackoff \in Int /\ retry.maxBackoff \in Int
      /\ retry.backoffMultiplier \in Int \ {0}
  BY DEF Retry, Settled
<1>2. retry.backoffMultiplier ^ attempt \in Int
  BY <1>1 DEF PowersWhole
<1>3. e \in Int
  BY <1>1, <1>2 DEF Exponential
<1> HIDE DEF e
<1>4. b \in Int /\ b =< retry.maxBackoff
  BY <1>1, <1>3 DEF Smaller
<1> PICK j \in Jittered(b) : wait = Larger(j, retry.initialBackoff)
  BY DEF Backoffs, e
<1> HIDE DEF b
<1>5. j \in Int /\ 4 * j =< 5 * b
  BY <1>4 DEF Jittered
<1>6. 4 * j =< 5 * retry.maxBackoff
  BY <1>1, <1>4, <1>5
<1> QED
  BY <1>1, <1>5, <1>6 DEF Larger

WaitOf(r) ==
  req[r].wait > 0 =>
    /\ \E retry \in seen[r] : req[r].wait >= retry.initialBackoff
    /\ \E retry \in seen[r] :
         4 * req[r].wait <= Larger(4 * retry.initialBackoff, 5 * retry.maxBackoff)

(* A wait that begins is within the bounds of its copy.                    *)
LEMMA WaitStarts ==
  ASSUME PowersWhole, ReloadInv, RequestInv, NEW r \in Request, BackOff(r)
  PROVE  WaitOf(r)'
<1> PICK wait \in Backoffs(req[r].retry, req[r].attempt) :
      req' = [req EXCEPT ![r].attempt = @ + 1, ![r].wait = wait]
  BY DEF BackOff
<1>1. req[r] \in Visit /\ req[r].at = "calling" /\ Copied(r)
  BY DEF RequestInv, RequestTypes, BackOff
<1> DEFINE retry == req[r].retry
<1>2. /\ retry \in Settled /\ seen[r] \subseteq Settled
      /\ \A s \in Retry : \E q \in seen[r] : retry[s] = q[s]
  BY <1>1 DEF Copied
<1>3. req[r].attempt \in Nat
  BY <1>1, VisitFields
<1>4. /\ wait \in Int
      /\ wait >= retry.initialBackoff
      /\ wait = retry.initialBackoff \/ 4 * wait =< 5 * retry.maxBackoff
  BY <1>2, <1>3, BackoffClamped
<1>5. req'[r].wait = wait
  <2> DEFINE v == [req[r] EXCEPT !.attempt = @ + 1, !.wait = wait]
  <2>1. v.wait = wait
    BY <1>1, <1>4, VisitWaits
  <2>2. req' = [req EXCEPT ![r] = v]
    OBVIOUS
  <2> HIDE DEF v
  <2> QED
    BY <2>1, <2>2 DEF RequestInv, RequestTypes
<1>6. seen' = seen
  BY DEF BackOff
<1> HIDE DEF retry
<1>7. PICK first \in seen[r] : retry.initialBackoff = first.initialBackoff
  BY <1>2 DEF Retry
<1>8. PICK last \in seen[r] : retry.maxBackoff = last.maxBackoff
  BY <1>2 DEF Retry
<1>9. /\ first.initialBackoff \in Int /\ first.maxBackoff \in Int
      /\ last.initialBackoff \in Int /\ last.maxBackoff \in Int
  BY <1>2, <1>7, <1>8 DEF Retry, Settled
<1>10. \E q \in seen[r] : wait >= q.initialBackoff
  BY <1>4, <1>7
<1>11. \E q \in seen[r] : 4 * wait <= Larger(4 * q.initialBackoff, 5 * q.maxBackoff)
  <2>1. CASE wait = retry.initialBackoff
    <3>1. 4 * wait <= Larger(4 * first.initialBackoff, 5 * first.maxBackoff)
      BY <1>4, <1>7, <1>9, <2>1 DEF Larger
    <3> QED
      BY <3>1
  <2>2. CASE 4 * wait =< 5 * retry.maxBackoff
    <3>1. 4 * wait <= Larger(4 * last.initialBackoff, 5 * last.maxBackoff)
      BY <1>4, <1>8, <1>9, <2>2 DEF Larger
    <3> QED
      BY <3>1
  <2> QED
    BY <1>4, <2>1, <2>2
<1> QED
  BY <1>5, <1>6, <1>10, <1>11 DEF WaitOf

(* What another step does to a request, if it goes on calling.             *)
LEMMA WaitGoesOn ==
  ASSUME ReloadInv, RequestInv, RequestInv', [SNext]_svars, NEW r \in Request,
         ~BackOff(r)
  PROVE  req'[r].wait = 0 \/ (req'[r] = req[r] /\ seen'[r] = seen[r])
<1>1. RequestTypes /\ Copied(r) /\ Copied(r)'
  BY DEF RequestInv
<1>2. req'[r].at # "calling" => req'[r].wait = 0
  BY <1>1 DEF Copied
<1>3. ASSUME req'[r].at = "calling", \E m \in Reloader : Applying(m)
      PROVE  req'[r] = req[r] /\ seen'[r] = seen[r]
  BY <1>3 DEF Applying
<1>4. CASE req' = req /\ seen' = seen
  BY <1>4
<1>5. Run \/ StopWatcher \/ ListenFails \/ Outside \/ Watching => 
        (req' = req /\ seen' = seen) \/ req' = [n \in Request |-> Away]
  BY DEF Run, StopWatcher, ListenFails, Outside, Watching, StartWatcher, Shutdown,
     ShutdownReturns, Returns, Exit, reqVars
<1>6. \A m : Firing(m) \/ Asked(m) \/ Locking(m) \/ Storing(m) => req' = req /\ seen' = seen
  BY DEF Firing, Asked, Locking, Storing, reqVars
<1>7. req' = [n \in Request |-> Away] => req'[r].wait = 0
  BY VisitAway
<1>8. ASSUME NEW n \in Request, Serve(n), n # r
      PROVE  req'[r] = req[r] /\ seen'[r] = seen[r]
  <2>1. \E v \in Visit : req' = [req EXCEPT ![n] = v]
    <3>1. RequestTypes' /\ RequestTypes
      BY DEF RequestInv
    <3> QED
      BY <1>8, <3>1 DEF Serve, Arrive, LookUp, LookUpDefault, Found, Missed, Skip, NewRetrier,
         BackOff, Fail, Answer, RequestTypes
  <2>2. seen' = seen \/ \E s : seen' = [seen EXCEPT ![n] = s]
    BY <1>8 DEF Serve, Arrive, LookUp, LookUpDefault, Found, Missed, Skip, NewRetrier,
       BackOff, Fail, Answer
  <2> QED
    BY <1>1, <1>8, <2>1, <2>2 DEF RequestTypes
<1>9. ASSUME Serve(r) PROVE req'[r].wait = 0
  <2>1. req[r] \in Visit
    BY <1>1 DEF RequestTypes
  <2>2. CASE NewRetrier(r)
    <3> PICK copy \in Copies : req' = [req EXCEPT ![r].at = "calling", ![r].retry = copy]
      BY <2>2 DEF NewRetrier
    <3> DEFINE v == [req[r] EXCEPT !.at = "calling", !.retry = copy]
    <3>1. v.wait = req[r].wait
      BY <2>1, CopyMixes, VisitCalls DEF Settled
    <3>2. req' = [req EXCEPT ![r] = v]
      OBVIOUS
    <3> HIDE DEF v
    <3>3. req'[r].wait = req[r].wait
      BY <1>1, <3>1, <3>2 DEF RequestTypes
    <3> QED
      BY <1>1, <2>2, <3>3 DEF Copied, NewRetrier, Routing
  <2>3. CASE Arrive(r)
    BY <1>1, <1>2, <2>3, VisitComes DEF Arrive, RequestTypes
  <2>4. CASE LookUp(r) \/ LookUpDefault(r)
    <3>1. ASSUME NEW name, NEW next \in {"missed", "unknown"},
                 Found(r, name) \/ Missed(r, name, next)
          PROVE  req'[r].at \in {"routed", "missed", "unknown"}
      BY <1>1, <2>1, <3>1 DEF Found, Missed, RequestTypes, Visit
    <3> QED
      BY <1>2, <2>4, <3>1 DEF LookUp, LookUpDefault
  <2>5. CASE Skip(r)
    <3>1. req[r].at \in {"routed", "failed"} /\ req'[r].at = req[r].at
      BY <1>1, <2>1, <2>5 DEF Skip, Routing, RequestTypes, Visit
    <3> QED
      BY <1>2, <3>1
  <2>6. CASE Fail(r)
    BY <1>1, <1>2, <2>1, <2>6, VisitFails DEF Fail, RequestTypes
  <2>7. CASE Answer(r)
    BY <1>1, <1>2, <2>7, VisitAway DEF Answer, RequestTypes
  <2> QED
    BY <1>9, <2>2, <2>3, <2>4, <2>5, <2>6, <2>7 DEF Serve
<1> QED
  BY <1>2, <1>3, <1>4, <1>5, <1>6, <1>7, <1>8, <1>9 DEF SNext, svars, reqVars

(* No wait before a retry is shorter than every initial backoff in use or  *)
(* being installed when the retrier was made, nor longer than every        *)
(* maximum with its jitter.  The hypothesis is of arithmetic alone.        *)
THEOREM WaitsBounded ==
  ASSUME PowersWhole
  PROVE  SSpec => []WaitBounded
<1>1. SInit => WaitBounded
  <2>1. SInit => \A r \in Request : req[r].wait = 0
    BY VisitAway DEF SInit
  <2> QED
    BY <2>1 DEF WaitBounded
<1>2. ASSUME ReloadInv, RequestInv, RequestInv', [SNext]_svars, WaitBounded
      PROVE  WaitBounded'
  <2>1. ASSUME NEW r \in Request PROVE WaitOf(r)'
    <3>1. WaitOf(r)
      BY <1>2 DEF WaitBounded, WaitOf
    <3>2. CASE BackOff(r)
      BY <1>2, <3>2, WaitStarts
    <3>3. CASE ~BackOff(r)
      <4>1. req'[r].wait = 0 \/ (req'[r] = req[r] /\ seen'[r] = seen[r])
        BY <1>2, <3>3, WaitGoesOn
      <4> QED
        BY <3>1, <4>1 DEF WaitOf
    <3> QED
      BY <3>2, <3>3
  <2> QED
    BY <2>1 DEF WaitBounded, WaitOf
<1> QED
  BY <1>1, <1>2, RequestInvariant, PTL DEF SSpec

=============================================================================
