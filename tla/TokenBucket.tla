---------------------------- MODULE TokenBucket ----------------------------
(* What per-IP rate limiting promises: every address has one token bucket  *)
(* that is never lost, and a request is answered by its address's bucket.  *)
EXTENDS Integers

CONSTANTS Request, IP, Rate, Burst

VARIABLES tokens,      \* tokens of each address's bucket
          ip,          \* the address of each request
          answer       \* what the limiter answered it

bucketVars == <<tokens, ip, answer>>

AtMostBurst(n) == IF n < Burst THEN n ELSE Burst

Init == /\ tokens = [a \in IP |-> Burst]
        /\ ip \in [Request -> IP]
        /\ answer = [r \in Request |-> "none"]

Take(r) == /\ answer[r] = "none" /\ tokens[ip[r]] > 0
           /\ answer' = [answer EXCEPT ![r] = "allowed"]
           /\ tokens' = [tokens EXCEPT ![ip[r]] = @ - 1]
           /\ UNCHANGED ip

Refuse(r) == /\ answer[r] = "none" /\ tokens[ip[r]] = 0
             /\ answer' = [answer EXCEPT ![r] = "limited"]
             /\ UNCHANGED <<tokens, ip>>

Again(r) == /\ answer[r] # "none"
            /\ answer' = [answer EXCEPT ![r] = "none"]
            /\ ip' \in {[ip EXCEPT ![r] = a] : a \in IP}
            /\ UNCHANGED tokens

Refill == /\ tokens' = [a \in IP |-> AtMostBurst(tokens[a] + Rate)]
          /\ UNCHANGED <<ip, answer>>

Next == (\E r \in Request : Take(r) \/ Refuse(r) \/ Again(r)) \/ Refill

Spec == Init /\ [][Next]_bucketVars
=============================================================================
