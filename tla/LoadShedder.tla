---------------------------- MODULE LoadShedder ----------------------------
(***************************************************************************)
(* internal/server/loadshed.go: the middleware that sheds requests above   *)
(* maxActiveRequests, and the per-IP connection counters kept by the       *)
(* connection-state hook of net/http.  Requests and connections share no   *)
(* state here.                                                             *)
(***************************************************************************)
EXTENDS Integers, FiniteSets, FiniteSetsExt

CONSTANTS
  Request,        \* goroutines that bring requests, one after the other
  Conn,           \* connections, each opened and closed once
  IP,
  MaxActive,      \* maxActiveRequests; not positive means no limit
  MaxPerIP,       \* maxConnectionsPerIP, positive
  NoCounter

ASSUME FiniteAssumption == IsFiniteSet(Request) /\ IsFiniteSet(Conn)
ASSUME LimitAssumption == MaxActive \in Int /\ MaxPerIP \in Nat \ {0}

VARIABLES
  active,         \* activeRequests
  pc,             \* where each request is in the middleware
  connectionsPerIP, \* the counter in the map; a counter is named by the
                  \* connection that created it
  count,          \* the value of each counter
  conn,           \* where each connection is
  ip,             \* its address
  counter,        \* the counter its goroutine has looked up
  current         \* the value it has loaded, while it has not swapped it

reqVars  == <<active, pc>>
connVars == <<connectionsPerIP, count, conn, ip, counter, current>>
vars     == <<reqVars, connVars>>

Init == /\ active = 0
        /\ pc = [r \in Request |-> "idle"]
        /\ connectionsPerIP = [a \in IP |-> NoCounter]
        /\ count = [c \in Conn |-> 0]
        /\ conn = [c \in Conn |-> "new"]
        /\ ip \in [Conn -> IP]
        /\ counter = [c \in Conn |-> NoCounter]
        /\ current = [c \in Conn |-> 0]

-----------------------------------------------------------------------------
(* Middleware: the load and the increment are separate atomic operations.  *)
ShouldShed == MaxActive > 0 /\ active >= MaxActive

Shed(r) == pc[r] = "idle" /\ ShouldShed /\ UNCHANGED reqVars

Pass(r) == /\ pc[r] = "idle" /\ ~ShouldShed
           /\ pc' = [pc EXCEPT ![r] = "checked"]
           /\ UNCHANGED active

Enter(r) == /\ pc[r] = "checked"
            /\ pc' = [pc EXCEPT ![r] = "active"]
            /\ active' = active + 1

LeaveUncounted(r) == /\ pc[r] = "active"
                     /\ pc' = [pc EXCEPT ![r] = "idle"]
                     /\ UNCHANGED active

(* The deferred decrement, also when the handler panics.                   *)
Leave(r) == /\ pc[r] = "active"
            /\ pc' = [pc EXCEPT ![r] = "idle"]
            /\ active' = active - 1

Middleware(r) == (Shed(r) \/ Pass(r) \/ Enter(r) \/ Leave(r)) /\ UNCHANGED connVars

-----------------------------------------------------------------------------
(* TrackConnection, called with StateNew.                                  *)
Goto(c, from, to) == conn[c] = from /\ conn' = [conn EXCEPT ![c] = to]

LookUp(c) ==
  /\ IF connectionsPerIP[ip[c]] # NoCounter
     THEN /\ Goto(c, "new", "found")
          /\ counter' = [counter EXCEPT ![c] = connectionsPerIP[ip[c]]]
     ELSE Goto(c, "new", "missing") /\ UNCHANGED counter
  /\ UNCHANGED <<connectionsPerIP, count, ip, current>>

(* The double-checked creation under connMu.                               *)
Create(c) ==
  LET k == IF connectionsPerIP[ip[c]] # NoCounter THEN connectionsPerIP[ip[c]] ELSE c
  IN  /\ Goto(c, "missing", "found")
      /\ connectionsPerIP' = [connectionsPerIP EXCEPT ![ip[c]] = k]
      /\ counter' = [counter EXCEPT ![c] = k]
      /\ UNCHANGED <<count, ip, current>>

(* The loop of TrackConnection, which does not hold connMu: the load, which *)
(* rejects at the limit, and the compare-and-swap, which starts again when *)
(* others have changed the counter since.                                  *)
LoadCount(c) ==
  LET v == count[counter[c]]
      full == v >= MaxPerIP
  IN  /\ Goto(c, "found", IF full THEN "rejected" ELSE "loaded")
      /\ current' = [current EXCEPT ![c] = IF full THEN 0 ELSE v]
      /\ UNCHANGED <<connectionsPerIP, count, ip, counter>>

(* A faulty loop that adds one to a counter it has checked before.         *)
AddOne(c) ==
  /\ Goto(c, "loaded", "open")
  /\ count' = [count EXCEPT ![counter[c]] = @ + 1]
  /\ current' = [current EXCEPT ![c] = 0]
  /\ UNCHANGED <<connectionsPerIP, ip, counter>>

CompareAndSwap(c) ==
  LET same == count[counter[c]] = current[c]
  IN  /\ Goto(c, "loaded", IF same THEN "open" ELSE "found")
      /\ count' = IF same THEN [count EXCEPT ![counter[c]] = current[c] + 1] ELSE count
      /\ current' = [current EXCEPT ![c] = 0]
      /\ UNCHANGED <<connectionsPerIP, ip, counter>>

(* StateClosed comes for every connection, also for one that the hook      *)
(* rejected and closed: ReleaseConnection looks the counter up again.      *)
Close(c) ==
  LET accepted == conn[c] = "open"
      k == connectionsPerIP[ip[c]]
  IN  /\ conn[c] \in {"open", "rejected"}
      /\ conn' = [conn EXCEPT ![c] =
           IF k = NoCounter THEN IF accepted THEN "lost" ELSE "closed"
                            ELSE IF accepted THEN "releasing" ELSE "over-releasing"]
      /\ counter' = [counter EXCEPT ![c] = k]
      /\ UNCHANGED <<connectionsPerIP, count, ip, current>>

ReleaseNothing(c) ==
  /\ Goto(c, "releasing", "closed") \/ Goto(c, "over-releasing", "over-released")
  /\ UNCHANGED <<connectionsPerIP, count, ip, counter, current>>

ReleaseConnection(c) ==
  /\ Goto(c, "releasing", "closed") \/ Goto(c, "over-releasing", "over-released")
  /\ count' = [count EXCEPT ![counter[c]] = @ - 1]
  /\ UNCHANGED <<connectionsPerIP, ip, counter, current>>

(* One tick of cleanupLoop, under connMu: counters at zero leave the map,  *)
(* although a TrackConnection may be about to use them.                    *)
Cleanup ==
  /\ connectionsPerIP' = [a \in IP |->
       IF connectionsPerIP[a] # NoCounter /\ count[connectionsPerIP[a]] = 0
       THEN NoCounter ELSE connectionsPerIP[a]]
  /\ UNCHANGED <<count, conn, ip, counter, current>>

ConnState(c) == LookUp(c) \/ Create(c) \/ LoadCount(c) \/ CompareAndSwap(c)
                \/ Close(c) \/ ReleaseConnection(c)

Next == \/ \E r \in Request : Middleware(r)
        \/ ((\E c \in Conn : ConnState(c)) \/ Cleanup) /\ UNCHANGED reqVars

Spec == Init /\ [][Next]_vars

-----------------------------------------------------------------------------
(* The active requests are the ones being served: none is lost or counted  *)
(* twice.                                                                  *)
ActiveMatches == active = Cardinality({r \in Request : pc[r] = "active"})

(* No counter passes the limit, although connections of an address load it *)
(* below the limit at the same time and close between a load and its swap. *)
CountWithinLimit == \A c \in Conn : count[c] <= MaxPerIP

In(a, places) == Cardinality({c \in Conn : ip[c] = a /\ conn[c] \in places})

(* What the counters of an address add up to: the open connections, those  *)
(* closed while cleanup had removed the counter (never given back), less   *)
(* the rejected ones that gave back a slot they did not have.              *)
CountsExplained ==
  \A a \in IP :
    MapThenSumSet(LAMBDA c : count[c], {c \in Conn : ip[c] = a}) =
      In(a, {"open", "releasing", "lost"}) - In(a, {"over-released"})

(* config.go: "Max connections per IP".                                    *)
ConnectionsWithinLimit == \A a \in IP : In(a, {"open"}) <= MaxPerIP

=============================================================================
