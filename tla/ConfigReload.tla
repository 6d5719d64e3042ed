---------------------------- MODULE ConfigReload ----------------------------
(***************************************************************************)
(* internal/config/watcher.go with ReloadConfig and applyConfig of         *)
(* internal/server/server.go: edits of the configuration file reach the    *)
(* running server through file-system events, a debounce timer and a       *)
(* goroutine per firing of it, beside reloads asked for at /admin/reload.  *)
(*                                                                         *)
(* The fsnotify library is external: once the directory is watched, every  *)
(* edit leaves an event for the file pending; pending ones are alike.      *)
(***************************************************************************)
EXTENDS ConfigLoading

CONSTANTS
  Contents,       \* what the file may hold, half-written files among it
  Timer, Admin,   \* goroutines of fired timers, and of admin requests
  Nobody,
  MaxEdits        \* bound on the edits of the file

Reloader == Timer \cup Admin

Retry    == {"maxAttempts", "initialBackoff", "maxBackoff", "backoffMultiplier"}
Settings == Retry \cup {"models", "failureThreshold", "maxCostPerHour", "actionOnExceeded"}

(* The contents that Load accepts, and the configurations it makes of them. *)
Accepted  == {c \in Contents : Loads(c)}
LoadedAs  == [c \in Accepted |-> Loaded(c)]

Startable == {c \in Accepted : Registers(LoadedAs[c])}

ASSUME ContentsAssumption == Startable # {}
ASSUME ReloaderAssumption == Nobody \notin Reloader /\ Timer \cap Admin = {}
ASSUME EditsAssumption == MaxEdits \in Nat

VARIABLES
  file,           \* the file, and the number of edits it has seen
  event,          \* an event is pending in watcher.Events
  unseen,         \* the last edit was made when nobody watched the directory
  watch,          \* the watch goroutine: "new", "running", "ended",
                  \* "failed" to start, or "none" without a watcher
  running,        \* w.running
  cancelled,      \* ctx, by a signal
  timer,          \* the debounce timer is armed
  mu,             \* who holds w.mu
  pc, loaded,     \* each reloader, and the file it has loaded
  cfg,            \* s.cfg, and the edit it comes from
  live            \* the settings in use: the router's models and retry
                  \* configuration, the breakers' one, the tracker's

envVars   == <<file, event, unseen, cancelled>>
watchVars == <<watch, running, timer>>
cfgVars   == <<cfg, live>>
vars == <<envVars, watchVars, mu, pc, loaded, cfgVars>>

None == [content |-> <<>>, edit |-> 0]

(* NewWithPath, with a path or, as the command does it, without one.       *)
Init == /\ \E c \in Startable :
             /\ file = [content |-> c, edit |-> 0]
             /\ cfg = [content |-> LoadedAs[c], edit |-> 0]
             /\ live = Restrict(LoadedAs[c], Settings)
        /\ watch \in {"new", "none"}
        /\ event = FALSE /\ unseen = FALSE
        /\ running = FALSE
        /\ cancelled = FALSE
        /\ timer = FALSE
        /\ mu = Nobody
        /\ pc = [m \in Reloader |-> "idle"]
        /\ loaded = [m \in Reloader |-> None]

-----------------------------------------------------------------------------
(* Somebody writes the file, by halves or replacing it; a signal arrives.  *)
Edit ==
  /\ file.edit < MaxEdits
  /\ \E c \in Contents \ {file.content} : file' = [content |-> c, edit |-> file.edit + 1]
  /\ event' = (event \/ watch = "running")
  /\ unseen' = (watch # "running")
  /\ UNCHANGED <<cancelled, watchVars, mu, pc, loaded, cfgVars>>

Signal ==
  /\ ~cancelled
  /\ cancelled' = TRUE
  /\ UNCHANGED <<file, event, unseen, watchVars, mu, pc, loaded, cfgVars>>

-----------------------------------------------------------------------------
(* Start sets w.running before it asks for the events of the directory,    *)
(* and leaves it set when it does not get them.                            *)
Start ==
  /\ watch = "new"
  /\ running' = TRUE
  /\ watch' = "running"
  /\ UNCHANGED <<envVars, timer, mu, pc, loaded, cfgVars>>

StartFails ==
  /\ watch = "new"
  /\ running' = TRUE
  /\ watch' = "failed"
  /\ UNCHANGED <<envVars, timer, mu, pc, loaded, cfgVars>>

(* A faulty debounce that takes a reload under way for an answer.          *)
WatchEventLost ==
  /\ watch = "running" /\ running /\ event
  /\ event' = FALSE
  /\ timer' = (timer \/ \A m \in Reloader : pc[m] = "idle")
  /\ UNCHANGED <<file, unseen, cancelled, watch, running, mu, pc, loaded, cfgVars>>

(* The watch goroutine.  An event stops the timer, whose goroutine may     *)
(* already have been started, and arms a new one.                          *)
WatchEvent ==
  /\ watch = "running" /\ running /\ event
  /\ event' = FALSE
  /\ timer' = TRUE
  /\ UNCHANGED <<file, unseen, cancelled, watch, running, mu, pc, loaded, cfgVars>>

WatchCancelled ==
  /\ watch = "running" /\ cancelled
  /\ watch' = "ended"
  /\ timer' = FALSE
  /\ UNCHANGED <<envVars, running, mu, pc, loaded, cfgVars>>

(* The event channel is closed: the timer is left as it is.                *)
WatchClosed ==
  /\ watch = "running" /\ ~running
  /\ watch' = "ended"
  /\ UNCHANGED <<envVars, running, timer, mu, pc, loaded, cfgVars>>

(* Run returns, after a signal or because the server could not listen.     *)
Stop ==
  /\ running /\ mu = Nobody
  /\ running' = FALSE
  /\ UNCHANGED <<envVars, watch, timer, mu, pc, loaded, cfgVars>>

TimerFires(m) ==
  /\ timer /\ pc[m] = "idle"
  /\ timer' = FALSE
  /\ pc' = [pc EXCEPT ![m] = "waiting"]
  /\ UNCHANGED <<envVars, watch, running, mu, loaded, cfgVars>>

(* POST /admin/reload; without a watcher it is refused.                    *)
AdminReload(m) ==
  /\ watch \notin {"new", "none"} /\ pc[m] = "idle"
  /\ pc' = [pc EXCEPT ![m] = "waiting"]
  /\ UNCHANGED <<envVars, watchVars, mu, loaded, cfgVars>>

-----------------------------------------------------------------------------
(* reload, under w.mu from the reading of the file to the end of onChange. *)
LoadUnlocked(m) ==
  /\ pc[m] = "waiting" /\ mu = Nobody /\ file.content \in Accepted
  /\ pc' = [pc EXCEPT ![m] = "models"]
  /\ loaded' = [loaded EXCEPT ![m] = [file EXCEPT !.content = LoadedAs[@]]]
  /\ UNCHANGED <<envVars, watchVars, mu, cfgVars>>

Load(m) ==
  /\ pc[m] = "waiting" /\ mu = Nobody /\ file.content \in Accepted
  /\ mu' = m
  /\ pc' = [pc EXCEPT ![m] = "models"]
  /\ loaded' = [loaded EXCEPT ![m] = [file EXCEPT !.content = LoadedAs[@]]]
  /\ UNCHANGED <<envVars, watchVars, cfgVars>>

(* A faulty reload that unlocks only where it succeeds.                    *)
LoadFailsLocked(m) ==
  /\ pc[m] = "waiting" /\ mu = Nobody /\ file.content \notin Accepted
  /\ mu' = m
  /\ pc' = [pc EXCEPT ![m] = "idle"]
  /\ UNCHANGED <<envVars, watchVars, loaded, cfgVars>>

LoadFails(m) ==
  /\ pc[m] = "waiting" /\ mu = Nobody /\ file.content \notin Accepted
  /\ pc' = [pc EXCEPT ![m] = "idle"]
  /\ UNCHANGED <<envVars, watchVars, mu, loaded, cfgVars>>

(* What Diff compares of each part, and the whole of what applyConfig      *)
(* renews when it finds a change in it.                                    *)
Compared ==
  [models |-> {"models"}, budget |-> {"maxCostPerHour"},
   resilience |-> {"maxAttempts", "initialBackoff", "failureThreshold"}]

Renewed ==
  [models |-> {"models"}, resilience |-> Retry \cup {"failureThreshold"},
   budget |-> {"maxCostPerHour", "actionOnExceeded"}]

(* A faulty Diff that leaves a change of the models to a restart.          *)
DiffWithoutModels(old, new, part) ==
  part # "models" /\ \E s \in Compared[part] : old[s] # new[s]

(* A faulty Diff that notices a budget only when it grows.                 *)
DiffOfGrowth(old, new, part) ==
  \E s \in Compared[part] : IF part = "budget" THEN old[s] < new[s] ELSE old[s] # new[s]

Diff(old, new, part) == \E s \in Compared[part] : old[s] # new[s]

(* The order of the parts.                                                 *)
After == [models |-> "resilience", resilience |-> "budget"]

(* What is in use once m has applied the part.                             *)
InUse(m, part) ==
  IF Diff(cfg.content, loaded[m].content, part)
  THEN [s \in Settings |-> IF s \in Renewed[part] THEN loaded[m].content[s] ELSE live[s]]
  ELSE live

(* applyConfig compares with the configuration stored last, changes what   *)
(* is in use part by part, and stores the new one.                         *)
Apply(m) ==
  /\ pc[m] \in DOMAIN After
  /\ live' = InUse(m, pc[m])
  /\ pc' = [pc EXCEPT ![m] = After[@]]
  /\ UNCHANGED <<envVars, watchVars, mu, loaded, cfg>>

Store(m) ==
  /\ pc[m] = "budget"
  /\ live' = InUse(m, "budget")
  /\ cfg' = loaded[m]
  /\ pc' = [pc EXCEPT ![m] = "idle"]
  /\ loaded' = [loaded EXCEPT ![m] = None]
  /\ mu' = Nobody
  /\ UNCHANGED <<envVars, watchVars>>

Watch     == WatchEvent \/ WatchCancelled \/ WatchClosed
Reload(m) == Load(m) \/ LoadFails(m) \/ Apply(m) \/ Store(m)

Next == \/ Edit \/ Signal
        \/ Start \/ StartFails \/ Watch \/ Stop
        \/ \E m \in Timer : TimerFires(m)
        \/ \E m \in Admin : AdminReload(m)
        \/ \E m \in Reloader : Reload(m)

Spec == Init /\ [][Next]_vars

-----------------------------------------------------------------------------
Applied == mu = Nobody

(* A reload never puts an older file in the place of a newer one: timers   *)
(* and admin requests overlap, but what is read under w.mu is applied      *)
(* before anything else is read.                                           *)
NeverOlder == [][cfg'.edit >= cfg.edit]_vars

(* Between reloads the settings that Diff compares are in use as the       *)
(* stored configuration has them, whatever sequence of reloads has led to  *)
(* it, whatever was refused on the way.                                    *)
WatchedInUse ==
  Applied => \A s \in {"models", "maxAttempts", "initialBackoff", "failureThreshold",
                       "maxCostPerHour"} : live[s] = cfg.content[s]

(* Between reloads every endpoint the router may try is one of a provider  *)
(* of the stored configuration.                                            *)
InUseConfigured ==
  Applied => \A name \in DOMAIN live.models :
               Range(live.models[name]) \subseteq DOMAIN cfg.content.providers

(* INTERNALS.md, "Hot-reloadable sections": "Resilience settings",         *)
(* "Budget settings": what is in use is what the configuration says.       *)
AllInUse == Applied => live = Restrict(cfg.content, Settings)

=============================================================================
