--------------------------- MODULE ConfigLoading ---------------------------
(***************************************************************************)
(* Load of internal/config/config.go: what becomes of a configuration file *)
(* before anything else sees it.  One setting stands for those that are    *)
(* treated alike: requestsPerSecond for the burst too, maxAttempts for     *)
(* the other settings that have a default, an API key for its provider.    *)
(* Times are in units of 100 ms.                                           *)
(***************************************************************************)
EXTENDS Integers, Sequences, Functions

CONSTANTS
  Variables,     \* texts of the form ${VAR}
  Environment,   \* the values of those that are set to something
  Malformed      \* a file that is no YAML, or not of the types of Config

ASSUME EnvironmentAssumption ==
  /\ DOMAIN Environment \subseteq Variables
  /\ Range(Environment) \cap Variables = {}

(* The YAML decoder is happy with a file that lacks settings, an empty one *)
(* too: they are left at zero.  A file is the settings it gives.           *)
Parses(content) == content # Malformed

Given(content, field, zero) ==
  IF field \in DOMAIN content THEN content[field] ELSE zero

(* providers maps a name to its API key, a model is its chain of           *)
(* endpoints: the primary, then the fallbacks.                             *)
Unmarshal(content) ==
  [providers         |-> Given(content, "providers", <<>>),
   models            |-> Given(content, "models", <<>>),
   adminKey          |-> Given(content, "adminKey", ""),
   rateLimit         |-> Given(content, "rateLimit", FALSE),
   requestsPerSecond |-> Given(content, "requestsPerSecond", 0),
   maxAttempts       |-> Given(content, "maxAttempts", 0),
   initialBackoff    |-> Given(content, "initialBackoff", 0),
   maxBackoff        |-> Given(content, "maxBackoff", 0),
   backoffMultiplier |-> Given(content, "backoffMultiplier", 0),
   failureThreshold  |-> Given(content, "failureThreshold", 0),
   maxCostPerHour    |-> Given(content, "maxCostPerHour", 0),
   actionOnExceeded  |-> Given(content, "actionOnExceeded", "")]

(* An unset variable, or one set to nothing, stays as it is written.  The  *)
(* text is expanded before it is parsed; these settings hold variables.    *)
Expanded(text) == IF text \in DOMAIN Environment THEN Environment[text] ELSE text

ExpandEnvVars(c) ==
  [c EXCEPT !.providers = [name \in DOMAIN @ |-> Expanded(@[name])],
            !.adminKey = Expanded(@)]

-----------------------------------------------------------------------------
(* Zero stands for unset.                                                 *)
OrDefault(value, default) == IF value = 0 THEN default ELSE value

(* The rate has a default only when the limiter is enabled.                *)
ApplyDefaults(c) ==
  [c EXCEPT
     !.maxAttempts       = OrDefault(@, 3),
     !.initialBackoff    = OrDefault(@, 1),
     !.maxBackoff        = OrDefault(@, 100),
     !.backoffMultiplier = OrDefault(@, 2),
     !.failureThreshold  = OrDefault(@, 5),
     !.requestsPerSecond = IF c.rateLimit THEN OrDefault(@, 10) ELSE @,
     !.actionOnExceeded  = IF @ = "" THEN "reject" ELSE @]

-----------------------------------------------------------------------------
ValidateNoUnexpandedVars(c) ==
  Range(c.providers) \cap Variables = {} /\ c.adminKey \notin Variables

EndpointsKnown(chain, providers) == Range(chain) \subseteq DOMAIN providers

Validate(c) ==
  /\ DOMAIN c.providers # {}
  /\ DOMAIN c.models # {}
  /\ \A name \in DOMAIN c.models : EndpointsKnown(c.models[name], c.providers)
  /\ c.rateLimit => c.requestsPerSecond > 0

(* NewRegistry makes a client for each provider, and knows four of them: a *)
(* server does not start with another, a reload does not look.             *)
Supported == {"openai", "anthropic", "azure", "azure-openai"}

Registers(c) == DOMAIN c.providers \subseteq Supported

(* The configuration a file stands for, and whether Load returns it.       *)
Loaded(content) == ApplyDefaults(ExpandEnvVars(Unmarshal(content)))

Loads(content) == /\ Parses(content)
                  /\ ValidateNoUnexpandedVars(Loaded(content))
                  /\ Validate(Loaded(content))

=============================================================================
