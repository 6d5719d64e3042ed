--------------------------- MODULE MCConfigReload ---------------------------
EXTENDS ConfigReload, TLC

(* One variable is set.                                                    *)
OneSet == "${KEY}" :> "sk"

(* What a file does not give gets its default.                             *)
File(models, initial, max, cost, action) ==
  [providers |-> ("openai" :> "${KEY}"), models |-> models,
   initialBackoff |-> initial, maxBackoff |-> max, backoffMultiplier |-> 3,
   maxCostPerHour |-> cost, actionOnExceeded |-> action]

(* Settings changed alone that Diff does not compare, a file that is half  *)
(* written, and an empty one.                                              *)
Unwatched == {Malformed, <<>>} \cup
             {File("gpt-4o" :> <<"openai">>, 0, max, 10, action) :
                max \in {0, 50}, action \in {"", "allow_with_warning"}}
=============================================================================
