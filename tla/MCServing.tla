----------------------------- MODULE MCServing -----------------------------
EXTENDS Serving, TLC

(* The variable is set.                                                    *)
OneSet == "${KEY}" :> "sk"

(* What a file does not give gets its default.                             *)
File(keys, models, initial, max, cost) ==
  [providers |-> keys, models |-> models,
   initialBackoff |-> initial, maxBackoff |-> max, backoffMultiplier |-> 3,
   maxCostPerHour |-> cost]

OpenAI == "openai" :> "${KEY}"
Both   == OpenAI @@ "anthropic" :> "key"
Ollama == "ollama" :> ""

(* A model with a fallback, and the default of the initial backoff; a      *)
(* default of a provider no start would accept, with backoffs so long that *)
(* a mixture of the two makes waits that neither does; and a file that is  *)
(* refused, for a fallback to a provider it does not configure.  The retry *)
(* limit is the same in all, to keep the mixtures few.                     *)
Files == {File(Both, "gpt-4o" :> <<"openai", "anthropic">>, 0, 1, 10),
          File(Ollama, "default" :> <<"ollama">>, 4, 4, 20),
          File(OpenAI, "gpt-4o" :> <<"openai", "azure">>, 0, 1, 10)}
=============================================================================
