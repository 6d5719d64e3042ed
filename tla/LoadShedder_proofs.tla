------------------------- MODULE LoadShedder_proofs -------------------------
(***************************************************************************)
(* The load shedder, for any number of requests, connections and           *)
(* addresses and any limits: active requests are counted exactly, no       *)
(* counter of connections passes the limit per address, and what the       *)
(* counters of an address add up to is explained.                          *)
(***************************************************************************)
EXTENDS LoadShedder, Sums_proofs

(* The part of the middleware: the counter is the requests being served.   *)
ActiveRequests == {r \in Request : pc[r] = "active"}

Served == /\ pc \in [Request -> {"idle", "checked", "active"}]
          /\ active = Cardinality(ActiveRequests)

(* The requests being served can be counted.                               *)
LEMMA ActiveFinite ==
  IsFiniteSet(ActiveRequests) /\ Cardinality(ActiveRequests) \in Nat
BY FiniteAssumption, FS_Subset, FS_CardinalityType DEF ActiveRequests

(* Every step of the middleware keeps the count and the requests in step.  *)
LEMMA ServedStep ==
  ASSUME Served, NEW r \in Request, Middleware(r)
  PROVE  Served'
<1>1. CASE Shed(r)
  BY <1>1 DEF Shed, reqVars, Served, ActiveRequests
<1>2. CASE Pass(r)
  <2>1. ActiveRequests' = ActiveRequests
    BY <1>2 DEF Pass, Served, ActiveRequests
  <2> QED  BY <1>2, <2>1 DEF Pass, Served
<1>3. CASE Enter(r)
  <2>1. ActiveRequests' = ActiveRequests \cup {r} /\ r \notin ActiveRequests
    BY <1>3 DEF Enter, Served, ActiveRequests
  <2>2. Cardinality(ActiveRequests \cup {r}) = Cardinality(ActiveRequests) + 1
    BY <2>1, ActiveFinite, FS_AddElement
  <2> QED  BY <1>3, <2>1, <2>2 DEF Enter, Served
<1>4. CASE Leave(r)
  <2>1. ActiveRequests' = ActiveRequests \ {r} /\ r \in ActiveRequests
    BY <1>4 DEF Leave, Served, ActiveRequests
  <2>2. Cardinality(ActiveRequests \ {r}) = Cardinality(ActiveRequests) - 1
    BY <2>1, ActiveFinite, FS_RemoveElement
  <2> QED  BY <1>4, <2>1, <2>2 DEF Leave, Served
<1> QED  BY <1>1, <1>2, <1>3, <1>4 DEF Middleware

(* The active requests are exactly the ones being served, although the     *)
(* check of the limit and the increment are separate: none is lost or      *)
(* counted twice, and the counter is never negative.                       *)
THEOREM ActiveCounted == Spec => []ActiveMatches
<1>1. Init => Served
  <2> SUFFICES ASSUME Init PROVE Served
    OBVIOUS
  <2>1. ActiveRequests = {}
    BY DEF Init, ActiveRequests
  <2> QED  BY <2>1, FS_EmptySet DEF Init, Served
<1>2. Served /\ [Next]_vars => Served'
  <2>1. Served /\ UNCHANGED reqVars => Served'
    BY DEF Served, ActiveRequests, reqVars
  <2> QED  BY <2>1, ServedStep DEF Next, vars
<1>3. Served => ActiveMatches
  BY DEF Served, ActiveMatches, ActiveRequests
<1> QED  BY <1>1, <1>2, <1>3, PTL DEF Spec

-----------------------------------------------------------------------------
(* The part of the connections: whoever uses a counter has one, whoever is *)
(* about to swap one has loaded it below the limit, and none is above the  *)
(* limit.  The swap then tells a connection that its loaded value is still *)
(* the counter's, whatever the others have done in between.                *)
CountersInv ==
  /\ connectionsPerIP \in [IP -> Conn \cup {NoCounter}]
  /\ count \in [Conn -> Int]
  /\ ip \in [Conn -> IP]
  /\ current \in [Conn -> Int]
  /\ \A c \in Conn :
       /\ conn[c] \in {"found", "loaded", "releasing", "over-releasing"} => counter[c] \in Conn
       /\ conn[c] = "loaded" => current[c] < MaxPerIP
  /\ DOMAIN conn = Conn /\ DOMAIN counter = Conn
  /\ CountWithinLimit

(* Every step of a connection keeps the counters within the limit.         *)
LEMMA CountersStep ==
  ASSUME CountersInv, NEW c \in Conn, ConnState(c)
  PROVE  CountersInv'
<1>1. CASE LookUp(c)
  <2>1. CASE connectionsPerIP[ip[c]] # NoCounter
    <3>1. /\ counter' = [counter EXCEPT ![c] = connectionsPerIP[ip[c]]]
          /\ conn' = [conn EXCEPT ![c] = "found"]
          /\ UNCHANGED <<connectionsPerIP, count, ip, current>>
      BY <1>1, <2>1 DEF LookUp, Goto
    <3>2. connectionsPerIP[ip[c]] \in Conn
      BY <2>1 DEF CountersInv
    <3> QED  BY <3>1, <3>2 DEF CountersInv, CountWithinLimit
  <2>2. CASE connectionsPerIP[ip[c]] = NoCounter
    BY <1>1, <2>2 DEF LookUp, Goto, CountersInv, CountWithinLimit
  <2> QED  BY <2>1, <2>2
<1>2. CASE Create(c)
  <2>1. PICK k \in Conn : /\ connectionsPerIP' = [connectionsPerIP EXCEPT ![ip[c]] = k]
                          /\ counter' = [counter EXCEPT ![c] = k]
                          /\ conn' = [conn EXCEPT ![c] = "found"]
                          /\ UNCHANGED <<count, ip, current>>
    BY <1>2 DEF Create, Goto, CountersInv
  <2> QED  BY <2>1 DEF CountersInv, CountWithinLimit
<1>3. CASE LoadCount(c)
  <2>1. /\ counter[c] \in Conn /\ count[counter[c]] \in Int
        /\ UNCHANGED <<connectionsPerIP, count, ip, counter>>
    BY <1>3 DEF LoadCount, Goto, CountersInv
  <2>2. CASE count[counter[c]] >= MaxPerIP
    <3>1. /\ conn' = [conn EXCEPT ![c] = "rejected"]
          /\ current' = [current EXCEPT ![c] = 0]
      BY <1>3, <2>2 DEF LoadCount, Goto
    <3> QED  BY <2>1, <3>1 DEF CountersInv, CountWithinLimit
  <2>3. CASE ~(count[counter[c]] >= MaxPerIP)
    <3>1. /\ conn' = [conn EXCEPT ![c] = "loaded"]
          /\ current' = [current EXCEPT ![c] = count[counter[c]]]
      BY <1>3, <2>3 DEF LoadCount, Goto
    <3>2. count[counter[c]] < MaxPerIP
      BY <2>1, <2>3, LimitAssumption
    <3> QED  BY <2>1, <3>1, <3>2 DEF CountersInv, CountWithinLimit
  <2> QED  BY <2>2, <2>3
<1>4. CASE CompareAndSwap(c)
  <2>1. /\ counter[c] \in Conn /\ current[c] \in Int /\ current[c] < MaxPerIP
        /\ current' = [current EXCEPT ![c] = 0]
        /\ UNCHANGED <<connectionsPerIP, ip, counter>>
    BY <1>4 DEF CompareAndSwap, Goto, CountersInv
  <2>2. current[c] + 1 \in Int /\ current[c] + 1 <= MaxPerIP
    BY <2>1, LimitAssumption
  <2>3. CASE count[counter[c]] = current[c]
    <3>1. /\ count' = [count EXCEPT ![counter[c]] = current[c] + 1]
          /\ conn' = [conn EXCEPT ![c] = "open"]
      BY <1>4, <2>3 DEF CompareAndSwap, Goto
    <3> QED  BY <2>1, <2>2, <3>1 DEF CountersInv, CountWithinLimit
  <2>4. CASE count[counter[c]] # current[c]
    <3>1. count' = count /\ conn' = [conn EXCEPT ![c] = "found"]
      BY <1>4, <2>4 DEF CompareAndSwap, Goto
    <3> QED  BY <2>1, <3>1 DEF CountersInv, CountWithinLimit
  <2> QED  BY <2>3, <2>4
<1>5. CASE Close(c)
  <2> DEFINE k == connectionsPerIP[ip[c]]
  <2>1. /\ counter' = [counter EXCEPT ![c] = k]
        /\ UNCHANGED <<connectionsPerIP, count, ip, current>>
        /\ \A d \in Conn : d # c => conn'[d] = conn[d]
        /\ DOMAIN conn' = Conn
        /\ conn'[c] # "loaded"
        /\ k = NoCounter => conn'[c] \in {"lost", "closed"}
    BY <1>5 DEF Close, CountersInv
  <2>2. k \in Conn \/ k = NoCounter
    BY DEF CountersInv
  <2> QED  BY <2>1, <2>2 DEF CountersInv, CountWithinLimit
<1>6. CASE ReleaseConnection(c)
  <2>1. /\ counter[c] \in Conn /\ count[counter[c]] \in Int
        /\ count' = [count EXCEPT ![counter[c]] = @ - 1]
        /\ DOMAIN conn' = Conn
        /\ conn'[c] \in {"closed", "over-released"}
        /\ \A d \in Conn : d # c => conn'[d] = conn[d]
        /\ UNCHANGED <<connectionsPerIP, ip, counter, current>>
    BY <1>6 DEF ReleaseConnection, Goto, CountersInv
  <2>2. count[counter[c]] <= MaxPerIP
    BY <2>1 DEF CountersInv, CountWithinLimit
  <2>3. count[counter[c]] - 1 \in Int /\ count[counter[c]] - 1 <= MaxPerIP
    BY <2>1, <2>2, LimitAssumption
  <2> QED  BY <2>1, <2>3 DEF CountersInv, CountWithinLimit
<1> QED  BY <1>1, <1>2, <1>3, <1>4, <1>5, <1>6 DEF ConnState

(* The counters' invariant holds in every reachable state.                 *)
LEMMA CountersInvariant == Spec => []CountersInv
<1>1. Init => CountersInv
  BY LimitAssumption DEF Init, CountersInv, CountWithinLimit
<1>2. CountersInv /\ [Next]_vars => CountersInv'
  <2> SUFFICES ASSUME CountersInv, [Next]_vars PROVE CountersInv'
    OBVIOUS
  <2>1. CASE UNCHANGED connVars
    BY <2>1 DEF CountersInv, CountWithinLimit, connVars
  <2>2. CASE Cleanup
    BY <2>2 DEF Cleanup, CountersInv, CountWithinLimit
  <2> QED  BY <2>1, <2>2, CountersStep DEF Next, Middleware, vars
<1> QED  BY <1>1, <1>2, PTL DEF Spec

(* No counter passes the limit, whatever connections and cleanups do       *)
(* between the loading of a counter and its swap.                          *)
THEOREM CountersBounded == Spec => []CountWithinLimit
<1>1. CountersInv => CountWithinLimit
  BY DEF CountersInv
<1> QED  BY <1>1, CountersInvariant, PTL

-----------------------------------------------------------------------------
(* A counter serves the address it was created for.                        *)
Addressed ==
  /\ \A a \in IP : connectionsPerIP[a] # NoCounter => ip[connectionsPerIP[a]] = a
  /\ \A c \in Conn :
       conn[c] \in {"found", "loaded", "releasing", "over-releasing"} =>
         ip[counter[c]] = ip[c]

(* At first there are no counters.                                         *)
LEMMA AddressedInit == Init => Addressed
BY DEF Init, Addressed

(* No step hands a connection the counter of another address.              *)
LEMMA AddressedStep ==
  ASSUME CountersInv, Addressed, [Next]_vars
  PROVE  Addressed'
<1> USE DEF CountersInv
<1>1. ASSUME NEW c \in Conn, LookUp(c) PROVE Addressed'
  BY <1>1 DEF LookUp, Goto, Addressed
<1>2. ASSUME NEW c \in Conn, Create(c) PROVE Addressed'
  <2> DEFINE k == IF connectionsPerIP[ip[c]] # NoCounter THEN connectionsPerIP[ip[c]] ELSE c
  <2>1. ip[k] = ip[c]
    BY DEF Addressed
  <2>2. /\ connectionsPerIP' = [connectionsPerIP EXCEPT ![ip[c]] = k]
        /\ counter' = [counter EXCEPT ![c] = k]
        /\ conn' = [conn EXCEPT ![c] = "found"]
        /\ UNCHANGED <<count, ip>>
    BY <1>2 DEF Create, Goto
  <2> HIDE DEF k
  <2> QED  BY <2>1, <2>2 DEF Addressed
<1>3. ASSUME NEW c \in Conn, LoadCount(c) \/ CompareAndSwap(c) PROVE Addressed'
  <2>1. /\ conn[c] \in {"found", "loaded"}
        /\ \E to : conn' = [conn EXCEPT ![c] = to]
        /\ UNCHANGED <<connectionsPerIP, ip, counter>>
    BY <1>3 DEF LoadCount, CompareAndSwap, Goto
  <2> QED  BY <2>1 DEF Addressed
<1>4. ASSUME NEW c \in Conn, Close(c) PROVE Addressed'
  BY <1>4 DEF Close, Addressed
<1>5. ASSUME NEW c \in Conn, ReleaseConnection(c) PROVE Addressed'
  BY <1>5 DEF ReleaseConnection, Goto, Addressed
<1>6. CASE Cleanup
  BY <1>6 DEF Cleanup, Addressed
<1>7. CASE UNCHANGED connVars
  BY <1>7 DEF connVars, Addressed
<1> QED
  BY <1>1, <1>2, <1>3, <1>4, <1>5, <1>6, <1>7 DEF Next, ConnState, Middleware, vars

(* The connections that a counter of the address counts, those that took   *)
(* from it what they had not, and the counters of the address.             *)
Owners(a)   == {c \in Conn : ip[c] = a /\ conn[c] \in {"open", "releasing", "lost"}}
Debtors(a)  == {c \in Conn : ip[c] = a /\ conn[c] \in {"over-released"}}
Counters(a) == {c \in Conn : ip[c] = a}

Explained(a) ==
  SumOver(count, Counters(a)) = Cardinality(Owners(a)) - Cardinality(Debtors(a))

(* The connections and counters of an address can be counted.              *)
LEMMA ConnectionsFinite ==
  \A a : /\ IsFiniteSet(Owners(a)) /\ Cardinality(Owners(a)) \in Nat
         /\ IsFiniteSet(Debtors(a)) /\ Cardinality(Debtors(a)) \in Nat
         /\ IsFiniteSet(Counters(a))
BY FiniteAssumption, FS_Subset, FS_CardinalityType DEF Owners, Debtors, Counters

(* A step that moves no connection in or out of the two sets.              *)
LEMMA ExplainedStays ==
  ASSUME NEW a, Explained(a), UNCHANGED <<count, ip>>,
         Owners(a)' = Owners(a), Debtors(a)' = Debtors(a)
  PROVE  Explained(a)'
<1>1. Counters(a)' = Counters(a)
  BY DEF Counters
<1>2. SumOver(count, Counters(a))' = SumOver(count, Counters(a))
  BY <1>1
<1> QED
  BY <1>2 DEF Explained

(* A counter of another address does not matter; one of this address       *)
(* changes the sum by as much as itself.                                   *)
LEMMA ExplainedMoves ==
  ASSUME CountersInv, NEW k \in Conn, NEW d \in {-1, 1},
         count' = [count EXCEPT ![k] = @ + d], ip' = ip, NEW a
  PROVE  LET sum == SumOver(count, Counters(a)) IN
         /\ sum \in Int
         /\ sum' = IF ip[k] = a THEN sum + d ELSE sum
<1>1. IsFiniteSet(Counters(a)) /\ Counters(a)' = Counters(a) /\ Counters(a) \subseteq Conn
  BY ConnectionsFinite DEF Counters
<1>2. \A c \in Conn : /\ count[c] \in Int /\ count'[c] \in Int
                      /\ c # k => count'[c] = count[c]
  BY DEF CountersInv
<1>3. count'[k] - count[k] = d /\ count[k] \in Int
  BY <1>2 DEF CountersInv
<1>4. SumOver(count, Counters(a)) \in Int
  BY <1>1, <1>2, SumType
<1>5. SumOver(count, Counters(a))' = SumOver(count', Counters(a))
  BY <1>1
<1>6. CASE ip[k] = a
  <2>1. k \in Counters(a)
    BY <1>6 DEF Counters
  <2>a. \A f, h :
          (/\ \A c \in Counters(a) : f[c] \in Int /\ h[c] \in Int
           /\ \A c \in Counters(a) \ {k} : f[c] = h[c])
          => SumOver(h, Counters(a)) = SumOver(f, Counters(a)) + (h[k] - f[k])
    BY <1>1, <2>1, SumChange
  <2>2. SumOver(count', Counters(a)) = SumOver(count, Counters(a)) + (count'[k] - count[k])
    BY <1>1, <1>2, <2>a
  <2> QED  BY <1>3, <1>4, <1>5, <1>6, <2>2
<1>7. CASE ip[k] # a
  <2>1. \A c \in Counters(a) : count'[c] = count[c]
    BY <1>2, <1>7 DEF Counters
  <2>2. SumOver(count', Counters(a)) = SumOver(count, Counters(a))
    BY <1>1, <2>1, SumSame
  <2> QED  BY <1>4, <1>5, <1>7, <2>2
<1> QED
  BY <1>6, <1>7

(* Every step changes the sum and the connections by the same amount.      *)
LEMMA ExplainedStep ==
  ASSUME CountersInv, Addressed, [Next]_vars, NEW a \in IP, Explained(a)
  PROVE  Explained(a)'
<1>0. /\ DOMAIN conn = Conn /\ DOMAIN counter = Conn
      /\ Cardinality(Owners(a)) \in Nat /\ Cardinality(Debtors(a)) \in Nat
  BY ConnectionsFinite DEF CountersInv
<1>1. ASSUME NEW c \in Conn,
             \/ LookUp(c) \/ Create(c) \/ LoadCount(c)
             \/ CompareAndSwap(c) /\ count[counter[c]] # current[c]
      PROVE  Explained(a)'
  <2>1. /\ conn[c] \in {"new", "missing", "found", "loaded"}
        /\ \E to \in {"missing", "found", "loaded", "rejected"} :
             conn' = [conn EXCEPT ![c] = to]
        /\ UNCHANGED <<count, ip>>
    BY <1>1 DEF LookUp, Create, LoadCount, CompareAndSwap, Goto
  <2>2. Owners(a)' = Owners(a) /\ Debtors(a)' = Debtors(a)
    BY <1>0, <2>1 DEF Owners, Debtors
  <2> QED  BY <2>1, <2>2, ExplainedStays
<1>2. ASSUME NEW c \in Conn, CompareAndSwap(c), count[counter[c]] = current[c]
      PROVE  Explained(a)'
  <2> DEFINE k == counter[c]
  <2>1. /\ conn[c] = "loaded" /\ conn' = [conn EXCEPT ![c] = "open"]
        /\ count' = [count EXCEPT ![k] = @ + 1] /\ ip' = ip
        /\ k \in Conn /\ ip[k] = ip[c]
    BY <1>2 DEF CompareAndSwap, Goto, CountersInv, Addressed
  <2> HIDE DEF k
  <2> DEFINE sum == SumOver(count, Counters(a))
  <2>2. sum \in Int /\ sum' = IF ip[k] = a THEN sum + 1 ELSE sum
    BY <2>1, ExplainedMoves
  <2>3. Debtors(a)' = Debtors(a)
    BY <1>0, <2>1 DEF Debtors
  <2>4. CASE ip[c] = a
    <3>1. Owners(a)' = Owners(a) \cup {c} /\ c \notin Owners(a)
      BY <1>0, <2>1, <2>4 DEF Owners
    <3>2. Cardinality(Owners(a)') = Cardinality(Owners(a)) + 1
      BY <3>1, ConnectionsFinite, FS_AddElement
    <3> HIDE DEF sum
    <3>3. sum = Cardinality(Owners(a)) - Cardinality(Debtors(a))
      BY DEF Explained, sum
    <3>4. sum' = Cardinality(Owners(a)') - Cardinality(Debtors(a)')
      BY <1>0, <2>1, <2>2, <2>3, <2>4, <3>2, <3>3
    <3> QED  BY <3>4 DEF Explained, sum
  <2>5. CASE ip[c] # a
    <3>1. Owners(a)' = Owners(a)
      BY <1>0, <2>1, <2>5 DEF Owners
    <3> QED  BY <2>1, <2>2, <2>3, <2>5, <3>1 DEF Explained
  <2> QED  BY <2>4, <2>5
<1>3. ASSUME NEW c \in Conn, Close(c) PROVE Explained(a)'
  <2>1. /\ UNCHANGED <<count, ip>>
        /\ \E to : /\ conn' = [conn EXCEPT ![c] = to]
                   /\ conn[c] = "open" => to \in {"lost", "releasing"}
                   /\ conn[c] # "open" => to \in {"closed", "over-releasing"}
        /\ conn[c] \in {"open", "rejected"}
    BY <1>3 DEF Close
  <2>2. Owners(a)' = Owners(a) /\ Debtors(a)' = Debtors(a)
    BY <1>0, <2>1 DEF Owners, Debtors
  <2> QED  BY <2>1, <2>2, ExplainedStays
<1>4. ASSUME NEW c \in Conn, ReleaseConnection(c) PROVE Explained(a)'
  <2> DEFINE k == counter[c]
  <2>1. /\ \/ conn[c] = "releasing" /\ conn' = [conn EXCEPT ![c] = "closed"]
           \/ conn[c] = "over-releasing" /\ conn' = [conn EXCEPT ![c] = "over-released"]
        /\ count' = [count EXCEPT ![k] = @ - 1] /\ ip' = ip
        /\ k \in Conn /\ ip[k] = ip[c]
    BY <1>4 DEF ReleaseConnection, Goto, CountersInv, Addressed
  <2>a. count' = [count EXCEPT ![k] = @ + (-1)]
    BY <2>1 DEF CountersInv
  <2> HIDE DEF k
  <2> DEFINE sum == SumOver(count, Counters(a))
  <2>2. sum \in Int /\ sum' = IF ip[k] = a THEN sum + (-1) ELSE sum
    BY <2>1, <2>a, ExplainedMoves
  <2>3. CASE ip[c] # a
    <3>1. Owners(a)' = Owners(a) /\ Debtors(a)' = Debtors(a)
      BY <1>0, <2>1, <2>3 DEF Owners, Debtors
    <3> QED  BY <2>1, <2>2, <2>3, <3>1 DEF Explained
  <2>4. CASE ip[c] = a /\ conn[c] = "releasing"
    <3>1. Owners(a)' = Owners(a) \ {c} /\ c \in Owners(a) /\ Debtors(a)' = Debtors(a)
      BY <1>0, <2>1, <2>4 DEF Owners, Debtors
    <3>2. Cardinality(Owners(a)') = Cardinality(Owners(a)) - 1
      BY <3>1, ConnectionsFinite, FS_RemoveElement
    <3> HIDE DEF sum
    <3>3. sum = Cardinality(Owners(a)) - Cardinality(Debtors(a))
      BY DEF Explained, sum
    <3>4. sum' = Cardinality(Owners(a)') - Cardinality(Debtors(a)')
      BY <1>0, <2>1, <2>2, <2>4, <3>1, <3>2, <3>3
    <3> QED  BY <3>4 DEF Explained, sum
  <2>5. CASE ip[c] = a /\ conn[c] = "over-releasing"
    <3>1. Owners(a)' = Owners(a) /\ c \notin Debtors(a) /\ Debtors(a)' = Debtors(a) \cup {c}
      BY <1>0, <2>1, <2>5 DEF Owners, Debtors
    <3>2. Cardinality(Debtors(a)') = Cardinality(Debtors(a)) + 1
      BY <3>1, ConnectionsFinite, FS_AddElement
    <3> HIDE DEF sum
    <3>3. sum = Cardinality(Owners(a)) - Cardinality(Debtors(a))
      BY DEF Explained, sum
    <3>4. sum' = Cardinality(Owners(a)') - Cardinality(Debtors(a)')
      BY <1>0, <2>1, <2>2, <2>5, <3>1, <3>2, <3>3
    <3> QED  BY <3>4 DEF Explained, sum
  <2> QED  BY <2>1, <2>3, <2>4, <2>5
<1>5. CASE Cleanup \/ UNCHANGED connVars
  <2>1. UNCHANGED <<count, ip, conn>>
    BY <1>5 DEF Cleanup, connVars
  <2>2. Owners(a)' = Owners(a) /\ Debtors(a)' = Debtors(a)
    BY <2>1 DEF Owners, Debtors
  <2> QED  BY <2>1, <2>2, ExplainedStays
<1> QED
  BY <1>1, <1>2, <1>3, <1>4, <1>5 DEF Next, ConnState, Middleware, vars

(* The counters of an address add up to its open connections and those     *)
(* that closed while it had no counter, less the rejected ones that gave   *)
(* back what they did not have: the two ways the code loses count, and     *)
(* no other.                                                               *)
THEOREM CountsAddUp == Spec => []CountsExplained
<1> DEFINE Inv == \A a \in IP : Explained(a)
<1>1. Init => Inv
  <2> SUFFICES ASSUME Init, NEW a \in IP PROVE Explained(a)
    OBVIOUS
  <2>1. Owners(a) = {} /\ Debtors(a) = {}
    BY DEF Init, Owners, Debtors
  <2>2. \A c \in Counters(a) : count[c] = 0
    BY DEF Init, Counters
  <2>3. SumOver(count, Counters(a)) = 0
    BY <2>2, ConnectionsFinite, SumZero
  <2> QED  BY <2>1, <2>3, FS_EmptySet DEF Explained
<1>2. CountersInv /\ Addressed /\ Inv /\ [Next]_vars => Inv'
  BY ExplainedStep
<1>3. Inv => CountsExplained
  BY DEF CountsExplained, Explained, SumOver, Counters, In, Owners, Debtors
<1>4. CountersInv /\ Addressed /\ [Next]_vars => Addressed'
  BY AddressedStep
<1> HIDE DEF Inv
<1> QED
  BY <1>1, <1>2, <1>3, <1>4, AddressedInit, CountersInvariant, PTL DEF Spec

=============================================================================
