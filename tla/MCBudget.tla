------------------------------ MODULE MCBudget ------------------------------
EXTENDS Budget, TLC

Cfg(hour, day, action) ==
  [enabled |-> TRUE, maxHour |-> hour, maxDay |-> day, action |-> action]

(* Limits of both windows, an hourly limit that only warns, and no budget. *)
Reloadable == {Cfg(2, 3, "reject"), Cfg(1, 0, "allow_with_warning"),
               [Cfg(2, 0, "reject") EXCEPT !.enabled = FALSE]}

Rejecting == {Cfg(2, 3, "reject")}

(* A model with a price, one without, and answers with and without tokens. *)
Usage(prompt, completion) == [prompt |-> prompt, completion |-> completion]
Table   == "gpt-4o-mini" :> Usage(0, 1)
Unknown == Usage(1, 1)
Answers == {Usage(0, 0), Usage(1, 1)}

Requests == Permutations(Request)
=============================================================================
