--------------------------- MODULE Budget_proofs ---------------------------
(***************************************************************************)
(* The rolling windows, for any number of requests, any prices, limits,    *)
(* window lengths and buckets: what a window's sum is worth, by how much a *)
(* limit can be passed, and that nobody is rejected below one.             *)
(***************************************************************************)
EXTENDS Budget, Sums_proofs

Window == [Time -> Nat]

Types == /\ now \in Time
         /\ config \in Configs
         /\ hourlyWindow \in Window /\ dailyWindow \in Window
         /\ recorded \in Window /\ streamed \in Window
         /\ pc \in [Request -> {"idle", "routing"}]
         /\ kind \in [Request -> {"chat", "stream"}]

-----------------------------------------------------------------------------
(* Costs are natural numbers.                                              *)
LEMMA CostType == Costs \subseteq Nat
<1> SUFFICES ASSUME NEW model \in Models, NEW usage \in Usages
             PROVE  Calculate(model, usage) \in Nat
  BY DEF Costs
<1>1. usage.prompt \in Nat /\ usage.completion \in Nat
  BY PricesAssumption
<1>2. Pricing(model) \in [prompt : Nat, completion : Nat]
  BY PricesAssumption DEF Pricing, Range
<1>3. Pricing(model).prompt \in Nat /\ Pricing(model).completion \in Nat
  BY <1>2
<1>4. \A m, n \in Nat : m * n \in Nat
  OBVIOUS
<1> QED  BY <1>1, <1>3, <1>4 DEF Calculate

(* There are finitely many, and there is one.                              *)
LEMMA CostsFinite == IsFiniteSet(Costs) /\ Costs # {}
<1> DEFINE f == [p \in Models \X Usages |-> Calculate(p[1], p[2])]
<1>1. IsFiniteSet(Models \X Usages)
  BY PricesAssumption, FS_Product
<1>2. f \in Surjection(Models \X Usages, Costs)
  <2>1. ASSUME NEW p \in Models \X Usages PROVE f[p] \in Costs
    BY DEF Costs
  <2>2. ASSUME NEW cost \in Costs PROVE \E p \in Models \X Usages : f[p] = cost
    <3>1. PICK model \in Models, usage \in Usages : cost = Calculate(model, usage)
      BY DEF Costs
    <3>2. f[<<model, usage>>] = cost
      BY <3>1
    <3> QED  BY <3>2
  <2>3. f \in [Models \X Usages -> Costs]
    BY <2>1
  <2> HIDE DEF f
  <2> QED  BY <2>2, <2>3 DEF Surjection
<1>3. IsFiniteSet(Costs)
  BY <1>1, <1>2, FS_Surjection
<1>4. PICK model \in Models, usage \in Usages : TRUE
  BY PricesAssumption
<1>5. Calculate(model, usage) \in Costs
  BY DEF Costs
<1> QED  BY <1>3, <1>5

(* No answer costs more than the largest of the costs.                     *)
LEMMA CostAtMost == Max(Costs) \in Nat /\ \A cost \in Costs : cost =< Max(Costs)
<1>1. \A cost \in Costs : cost \in Int
  BY CostType
<1>2. Max(Costs) \in Costs /\ \A cost \in Costs : Max(Costs) >= cost
  BY <1>1, CostsFinite, Largest
<1> HIDE DEF Max
<1>3. Max(Costs) \in Nat
  BY <1>2, CostType
<1> QED  BY <1>1, <1>2, <1>3

-----------------------------------------------------------------------------
(* Every variable keeps its type.                                          *)
LEMMA CleanType ==
  ASSUME NEW w \in Window, NEW size \in Nat, now \in Time
  PROVE  CleanExpired(w, size) \in Window
BY DEF CleanExpired, Window

(* A bucket starts at or before what it holds, and less than its length    *)
(* before.                                                                 *)
LEMMA StartOfBucket ==
  ASSUME NEW t \in Nat, NEW bucket \in Nat \ {0}
  PROVE  /\ (t \div bucket) * bucket \in Nat
         /\ (t \div bucket) * bucket =< t
         /\ (t \div bucket) * bucket > t - bucket
OBVIOUS

(* The clock's readings are finitely many natural numbers.                 *)
LEMMA TimeType == Time \subseteq Nat /\ IsFiniteSet(Time) /\ 0 \in Time
BY WindowsAssumption, FS_Interval DEF Time

(* A bucket that starts now starts at a reading of the clock.              *)
LEMMA BucketInTime ==
  ASSUME now \in Time, NEW bucket \in Nat \ {0}
  PROVE  BucketTime(bucket) \in Time
<1> DEFINE start == (now \div bucket) * bucket
<1>1. now \in Nat /\ now =< MaxTime /\ MaxTime \in Nat
  BY WindowsAssumption DEF Time
<1>2. start \in Nat /\ start =< now
  BY <1>1, StartOfBucket
<1> HIDE DEF start
<1>3. start \in Time
  BY <1>1, <1>2 DEF Time
<1> QED  BY <1>3 DEF BucketTime, start

(* Adding a cost to a window keeps its type.                               *)
LEMMA AddType ==
  ASSUME NEW w \in Window, NEW size \in Nat, NEW bucket \in Nat \ {0}, NEW cost \in Nat,
         now \in Time
  PROVE  Add(w, size, bucket, cost) \in Window
<1> DEFINE v == CleanExpired(w, size)
<1>1. v \in Window /\ BucketTime(bucket) \in Time
  BY CleanType, BucketInTime
<1> HIDE DEF v
<1>2. [v EXCEPT ![BucketTime(bucket)] = @ + cost] \in Window
  BY <1>1 DEF Window
<1> QED  BY <1>2 DEF Add, v

(* The initial state has the types.                                        *)
LEMMA TypesInit == Init => Types
BY WindowsAssumption DEF Init, Types, Nothing, Window, Time

(* Every step keeps the types.                                             *)
LEMMA TypesStep == Types /\ [Next]_vars => Types'
<1> SUFFICES ASSUME Types, [Next]_vars PROVE Types'
  OBVIOUS
<1> USE WindowsAssumption
<1>1. ASSUME NEW r \in Request, NEW k \in {"chat", "stream"}, Allow(r, k) \/ Reject(r, k)
      PROVE  Types'
  <2>1. hourlyWindow' \in Window /\ dailyWindow' \in Window
    BY <1>1, CleanType DEF Allow, Reject, Check, Types
  <2> QED  BY <1>1, <2>1 DEF Allow, Reject, Check, Types
<1>2. ASSUME NEW r \in Request, NEW cost \in Costs, Serve(r, cost) PROVE Types'
  <2>1. cost \in Nat
    BY CostType
  <2>2. hourlyWindow' \in Window /\ dailyWindow' \in Window
    <3>1. /\ Add(hourlyWindow, HourWindow, HourBucket, cost) \in Window
          /\ Add(dailyWindow, DayWindow, DayBucket, cost) \in Window
      BY <2>1, AddType DEF Types
    <3> QED  BY <1>2, <3>1 DEF Serve, Record, Types
  <2>3. recorded' \in Window
    BY <1>2, <2>1 DEF Serve, Record, Types, Window
  <2> QED  BY <1>2, <2>2, <2>3 DEF Serve, Finish, Types
<1>3. ASSUME NEW r \in Request, NEW cost \in Costs, ServeStream(r, cost) PROVE Types'
  <2>1. streamed' \in Window
    BY <1>3, CostType DEF ServeStream, Types, Window
  <2> QED  BY <1>3, <2>1 DEF ServeStream, Finish, Types
<1>4. ASSUME NEW r \in Request, Fail(r) PROVE Types'
  BY <1>4 DEF Fail, Finish, Types
<1>5. CASE Status
  BY <1>5, CleanType DEF Status, Types
<1>6. CASE NewTracker
  BY <1>6 DEF NewTracker, Types, Nothing, Window
<1>7. CASE Tick
  BY <1>7 DEF Tick, Types, Time
<1>8. CASE UNCHANGED vars
  BY <1>8 DEF vars, Types
<1> QED
  BY <1>1, <1>2, <1>3, <1>4, <1>5, <1>6, <1>7, <1>8 DEF Next

-----------------------------------------------------------------------------
(* The sum of a window is that of its buckets that have not expired.       *)
From(k) == {t \in Time : t >= k}

(* A sum from a time on is a number.                                       *)
LEMMA FromType ==
  ASSUME NEW w \in Window, NEW k
  PROVE  /\ IsFiniteSet(From(k)) /\ From(k) \subseteq Time
         /\ \A t \in Time : w[t] \in Nat
         /\ SumOver(w, From(k)) \in Int
<1>1. IsFiniteSet(From(k)) /\ From(k) \subseteq Time
  BY TimeType, FS_Subset DEF From
<1>2. \A t \in Time : w[t] \in Nat
  BY DEF Window
<1>3. \A t \in From(k) : w[t] \in Int
  BY <1>1, <1>2
<1>4. SumOver(w, From(k)) \in Int
  BY <1>1, <1>3, SumType
<1> QED  BY <1>1, <1>2, <1>4

(* Total adds up a window from a time on.                                  *)
LEMMA TotalFrom ==
  ASSUME NEW w, NEW k
  PROVE  Total(w, k) = SumOver(w, From(k))
BY DEF Total, SumOver, From

(* The sum of a window is the total of what has not expired.               *)
LEMMA SumIsTotal ==
  ASSUME NEW w \in Window, NEW size \in Nat, now \in Time
  PROVE  Sum(w, size) = SumOver(w, From(now - size + 1))
<1> DEFINE v == CleanExpired(w, size)
           k == now - size + 1
<1>1. /\ \A t \in From(k) : v[t] = w[t]
      /\ \A t \in Time \ From(k) : v[t] = 0
  BY TimeType DEF From, CleanExpired
<1>2. v \in Window
  BY CleanType
<1> HIDE DEF v, k
<1>3. From(0) = Time
  <2>1. \A t \in Time : t >= 0
    BY TimeType
  <2> QED  BY <2>1 DEF From
<1>4. SumOver(v, Time) = SumOver(v, From(k))
  <2>1. \A t \in Time : v[t] \in Int
    BY <1>2, FromType
  <2> QED  BY <1>1, <1>2, <2>1, FromType, TimeType, SumSupport
<1>5. SumOver(v, From(k)) = SumOver(w, From(k))
  BY <1>1, FromType, SumSame
<1>6. Sum(w, size) = SumOver(v, From(0))
  BY TotalFrom DEF Sum, v
<1> QED  BY <1>3, <1>4, <1>5, <1>6 DEF k

(* What expires is not part of the sum, and what is added is.              *)
LEMMA CleanKeeps ==
  ASSUME NEW w \in Window, NEW size \in Nat, now \in Time, NEW k \in Int, k > now - size
  PROVE  SumOver(CleanExpired(w, size), From(k)) = SumOver(w, From(k))
<1> DEFINE v == CleanExpired(w, size)
<1>1. \A t \in From(k) : v[t] = w[t]
  BY TimeType DEF From, CleanExpired
<1> HIDE DEF v
<1>2. SumOver(v, From(k)) = SumOver(w, From(k))
  BY <1>1, FromType, SumSame
<1> QED  BY <1>2 DEF v

(* A cost is added to every sum that its bucket is part of.                *)
LEMMA AddAdds ==
  ASSUME NEW w \in Window, NEW size \in Nat, NEW bucket \in Nat \ {0}, NEW cost \in Nat,
         now \in Time, NEW k \in Int, k > now - size
  PROVE  SumOver(Add(w, size, bucket, cost), From(k)) =
           SumOver(w, From(k)) + (IF BucketTime(bucket) >= k THEN cost ELSE 0)
<1> DEFINE v == CleanExpired(w, size)
           u == Add(w, size, bucket, cost)
           start == BucketTime(bucket)
<1>1. v \in Window /\ u \in Window /\ start \in Time
  BY CleanType, AddType, BucketInTime
<1>2. SumOver(v, From(k)) = SumOver(w, From(k))
  BY CleanKeeps
<1>3. u = [v EXCEPT ![start] = @ + cost]
  BY DEF Add
<1> HIDE DEF v, u, start
<1>4. /\ u[start] = v[start] + cost /\ v[start] \in Int
      /\ \A t \in Time : t # start => u[t] = v[t]
  BY <1>1, <1>3 DEF Window
<1>5. \A t \in From(k) : u[t] \in Int /\ v[t] \in Int
  BY <1>1, FromType
<1>6. SumOver(v, From(k)) \in Int /\ IsFiniteSet(From(k))
  BY <1>1, FromType
<1>7. CASE start >= k
  <2>1. start \in From(k) /\ \A t \in From(k) \ {start} : v[t] = u[t]
    BY <1>1, <1>4, <1>7 DEF From
  <2>2. SumOver(u, From(k)) = SumOver(v, From(k)) + (u[start] - v[start])
    BY <1>5, <1>6, <2>1, SumChange
  <2>3. u[start] - v[start] = cost
    BY <1>4
  <2> QED  BY <1>2, <1>7, <2>2, <2>3 DEF u, start
<1>8. CASE ~ (start >= k)
  <2>1. \A t \in From(k) : u[t] = v[t]
    BY <1>1, <1>4, <1>8 DEF From
  <2>2. SumOver(u, From(k)) = SumOver(v, From(k))
    BY <1>6, <2>1, SumSame
  <2> QED  BY <1>2, <1>6, <1>8, <2>2 DEF u, start
<1> QED  BY <1>7, <1>8

-----------------------------------------------------------------------------
(* A bucket that has not expired holds what was recorded in its time: from *)
(* any time on that is still in the window, the buckets that start then or *)
(* later add up to what was recorded in them.                              *)
Started(k, bucket) == {t \in Time : (t \div bucket) * bucket >= k}

Kept(w, spent, from, bucket) ==
  \A k \in Int : k > from => SumOver(w, From(k)) = SumOver(spent, Started(k, bucket))

Accounted == /\ Kept(hourlyWindow, recorded, now - HourWindow, HourBucket)
             /\ Kept(dailyWindow, recorded, now - DayWindow, DayBucket)

(* What was recorded in the buckets from a time on is a number.            *)
LEMMA StartedType ==
  ASSUME NEW w \in Window, NEW k, NEW bucket
  PROVE  /\ IsFiniteSet(Started(k, bucket)) /\ Started(k, bucket) \subseteq Time
         /\ \A t \in Started(k, bucket) : w[t] \in Int
         /\ SumOver(w, Started(k, bucket)) \in Int
<1>1. IsFiniteSet(Started(k, bucket)) /\ Started(k, bucket) \subseteq Time
  BY TimeType, FS_Subset DEF Started
<1>2. \A t \in Started(k, bucket) : w[t] \in Int
  BY <1>1, FromType
<1>3. SumOver(w, Started(k, bucket)) \in Int
  BY <1>1, <1>2, SumType
<1> QED  BY <1>1, <1>2, <1>3

(* What is recorded now was recorded in the bucket of now.                 *)
LEMMA SpentAdds ==
  ASSUME now \in Time, NEW spent \in Window, NEW cost \in Nat, NEW bucket, NEW k
  PROVE  SumOver([spent EXCEPT ![now] = @ + cost], Started(k, bucket)) =
           SumOver(spent, Started(k, bucket)) + (IF BucketTime(bucket) >= k THEN cost ELSE 0)
<1> DEFINE more == [spent EXCEPT ![now] = @ + cost]
<1>1. /\ more \in Window /\ more[now] = spent[now] + cost /\ spent[now] \in Int
      /\ \A t \in Time : t # now => more[t] = spent[t]
  BY DEF Window
<1> HIDE DEF more
<1>2. /\ IsFiniteSet(Started(k, bucket)) /\ Started(k, bucket) \subseteq Time
      /\ \A t \in Started(k, bucket) : spent[t] \in Int /\ more[t] \in Int
      /\ SumOver(spent, Started(k, bucket)) \in Int
  BY <1>1, StartedType
<1>3. CASE BucketTime(bucket) >= k
  <2>1. now \in Started(k, bucket)
    BY <1>3 DEF Started, BucketTime
  <2>2. \A t \in Started(k, bucket) \ {now} : spent[t] = more[t]
    BY <1>1, <1>2
  <2>3. SumOver(more, Started(k, bucket)) =
          SumOver(spent, Started(k, bucket)) + (more[now] - spent[now])
    BY <1>2, <2>1, <2>2, SumChange
  <2>4. more[now] - spent[now] = cost
    BY <1>1
  <2> QED  BY <1>3, <2>3, <2>4 DEF more
<1>4. CASE ~ (BucketTime(bucket) >= k)
  <2>1. now \notin Started(k, bucket)
    BY <1>4 DEF Started, BucketTime
  <2>2. \A t \in Started(k, bucket) : more[t] = spent[t]
    BY <1>1, <1>2, <2>1
  <2>3. SumOver(more, Started(k, bucket)) = SumOver(spent, Started(k, bucket))
    BY <1>2, <2>2, SumSame
  <2> QED  BY <1>2, <1>4, <2>3 DEF more
<1> QED  BY <1>3, <1>4

(* Cleaning, recording, the passing of time and a new tracker.             *)
LEMMA KeptByCleaning ==
  ASSUME now \in Time, NEW w \in Window, NEW spent, NEW size \in Nat, NEW bucket,
         Kept(w, spent, now - size, bucket)
  PROVE  Kept(CleanExpired(w, size), spent, now - size, bucket)
BY CleanKeeps DEF Kept

(* Recording a cost in the window and in the history keeps them in step.   *)
LEMMA KeptByRecording ==
  ASSUME now \in Time, NEW w \in Window, NEW spent \in Window, NEW size \in Nat,
         NEW bucket \in Nat \ {0}, NEW cost \in Nat,
         Kept(w, spent, now - size, bucket)
  PROVE  Kept(Add(w, size, bucket, cost), [spent EXCEPT ![now] = @ + cost],
              now - size, bucket)
BY AddAdds, SpentAdds DEF Kept

(* What holds from a time on holds from a later one on.                    *)
LEMMA KeptLater ==
  ASSUME NEW w, NEW spent, NEW bucket, NEW from \in Int, NEW later \in Int, from =< later,
         Kept(w, spent, from, bucket)
  PROVE  Kept(w, spent, later, bucket)
BY DEF Kept

(* A new tracker has nothing in its windows and recorded nothing.          *)
LEMMA KeptNew ==
  ASSUME NEW from, NEW bucket
  PROVE  Kept(Nothing, Nothing, from, bucket)
<1> SUFFICES ASSUME NEW k \in Int
             PROVE  SumOver(Nothing, From(k)) = SumOver(Nothing, Started(k, bucket))
  BY DEF Kept
<1>1. /\ IsFiniteSet(From(k)) /\ IsFiniteSet(Started(k, bucket))
      /\ From(k) \subseteq Time /\ Started(k, bucket) \subseteq Time
  BY TimeType, FS_Subset DEF From, Started
<1>2. SumOver(Nothing, From(k)) = 0
  BY <1>1, SumZero DEF Nothing
<1>3. SumOver(Nothing, Started(k, bucket)) = 0
  BY <1>1, SumZero DEF Nothing
<1> QED  BY <1>2, <1>3

(* Every step keeps both windows in step with the history.                 *)
LEMMA AccountedStep == Types /\ Accounted /\ [Next]_vars => Accounted'
<1> SUFFICES ASSUME Types, Accounted, [Next]_vars PROVE Accounted'
  OBVIOUS
<1> DEFINE Hour(w, spent, time) == Kept(w, spent, time - HourWindow, HourBucket)
           Day(w, spent, time) == Kept(w, spent, time - DayWindow, DayBucket)
<1>0. /\ Hour(hourlyWindow, recorded, now) /\ Day(dailyWindow, recorded, now)
      /\ now \in Time /\ now \in Int
      /\ hourlyWindow \in Window /\ dailyWindow \in Window /\ recorded \in Window
      /\ {HourWindow, DayWindow} \subseteq Nat /\ {HourBucket, DayBucket} \subseteq Nat \ {0}
  BY TimeType, WindowsAssumption DEF Accounted, Types
<1>e. ASSUME Hour(hourlyWindow', recorded', now'), Day(dailyWindow', recorded', now')
      PROVE  Accounted'
  BY <1>e DEF Accounted
<1>1. ASSUME hourlyWindow' = CleanExpired(hourlyWindow, HourWindow),
             dailyWindow' = CleanExpired(dailyWindow, DayWindow),
             UNCHANGED <<now, recorded>>
      PROVE  Accounted'
  BY <1>0, <1>1, <1>e, KeptByCleaning
<1>2. ASSUME UNCHANGED <<hourlyWindow, dailyWindow, now, recorded>> PROVE Accounted'
  BY <1>0, <1>2, <1>e
<1>3. ASSUME NEW cost \in Nat, Record(cost), UNCHANGED now PROVE Accounted'
  <2>1. /\ hourlyWindow' = Add(hourlyWindow, HourWindow, HourBucket, cost)
        /\ dailyWindow' = Add(dailyWindow, DayWindow, DayBucket, cost)
        /\ recorded' = [recorded EXCEPT ![now] = @ + cost] /\ now' = now
    BY <1>3 DEF Record
  <2>2. Hour(Add(hourlyWindow, HourWindow, HourBucket, cost),
             [recorded EXCEPT ![now] = @ + cost], now)
    BY <1>0, KeptByRecording
  <2>3. Day(Add(dailyWindow, DayWindow, DayBucket, cost),
            [recorded EXCEPT ![now] = @ + cost], now)
    BY <1>0, KeptByRecording
  <2> QED  BY <2>1, <2>2, <2>3, <1>e
<1>4. CASE Tick
  <2>1. /\ now' = now + 1 /\ now' - HourWindow \in Int /\ now' - DayWindow \in Int
        /\ now - HourWindow =< now' - HourWindow /\ now - DayWindow =< now' - DayWindow
        /\ now - HourWindow \in Int /\ now - DayWindow \in Int
        /\ UNCHANGED <<hourlyWindow, dailyWindow, recorded>>
    BY <1>0, <1>4 DEF Tick
  <2>2. Hour(hourlyWindow, recorded, now') /\ Day(dailyWindow, recorded, now')
    BY <1>0, <2>1, KeptLater
  <2> QED  BY <2>1, <2>2, <1>e
<1>5. CASE NewTracker
  BY <1>5, <1>e, KeptNew DEF NewTracker
<1> HIDE DEF Hour, Day
<1>6. ASSUME NEW r \in Request, NEW k \in {"chat", "stream"}, Allow(r, k) \/ Reject(r, k)
      PROVE  Accounted'
  BY <1>1, <1>2, <1>6 DEF Allow, Reject, Check
<1>7. ASSUME NEW r \in Request, NEW cost \in Costs, Serve(r, cost) PROVE Accounted'
  BY <1>2, <1>3, <1>7, CostType DEF Serve, Finish
<1>8. ASSUME NEW r \in Request, NEW cost \in Costs, ServeStream(r, cost) PROVE Accounted'
  BY <1>2, <1>8 DEF ServeStream, Finish
<1>9. ASSUME NEW r \in Request, Fail(r) PROVE Accounted'
  BY <1>2, <1>9 DEF Fail, Finish
<1>10. CASE Status
  BY <1>1, <1>10 DEF Status
<1>11. CASE UNCHANGED vars
  BY <1>2, <1>11 DEF vars
<1> QED
  BY <1>4, <1>5, <1>6, <1>7, <1>8, <1>9, <1>10, <1>11 DEF Next

(* The windows' invariant holds in every reachable state.                  *)
LEMMA WindowsInvariant == Spec => [](Types /\ Accounted)
<1>1. Init => Accounted
  BY KeptNew DEF Init, Accounted
<1> QED  BY <1>1, TypesInit, TypesStep, AccountedStep, PTL DEF Spec

(* Buckets start at or before, and less than their length before, what     *)
(* they hold.                                                              *)
LEMMA KeptIsAccurate ==
  ASSUME now \in Time, recorded \in Window, NEW w \in Window, NEW size \in Nat,
         NEW bucket \in Nat \ {0}, Kept(w, recorded, now - size, bucket)
  PROVE  Accurate(w, size, bucket)
<1> DEFINE k == now - size + 1
<1>1. /\ k \in Int /\ k > now - size
      /\ now - size + bucket \in Int /\ now - size + bucket = k + bucket - 1
  BY TimeType
<1>2. Sum(w, size) = SumOver(recorded, Started(k, bucket))
  BY <1>1, SumIsTotal DEF Kept
<1> HIDE DEF k
<1>3. /\ From(now - size + bucket) \subseteq Started(k, bucket)
      /\ Started(k, bucket) \subseteq From(k)
  <2>1. ASSUME NEW t \in Time
        PROVE  /\ t >= now - size + bucket => (t \div bucket) * bucket >= k
               /\ (t \div bucket) * bucket >= k => t >= k
    <3> DEFINE start == (t \div bucket) * bucket
    <3>1. t \in Nat /\ start \in Nat /\ start =< t /\ start > t - bucket
      BY TimeType, StartOfBucket
    <3> HIDE DEF start
    <3>2. /\ t >= now - size + bucket => start >= k
          /\ start >= k => t >= k
      BY <1>1, <3>1
    <3> QED  BY <3>2 DEF start
  <2> QED  BY <2>1 DEF From, Started
<1>4. /\ IsFiniteSet(Started(k, bucket)) /\ IsFiniteSet(From(k))
      /\ \A t \in Started(k, bucket) : recorded[t] \in Int /\ recorded[t] >= 0
      /\ \A t \in From(k) : recorded[t] \in Int /\ recorded[t] >= 0
  BY FromType, StartedType
<1>5. SumOver(recorded, From(now - size + bucket)) =< SumOver(recorded, Started(k, bucket))
  BY <1>3, <1>4, SumSubset
<1>6. SumOver(recorded, Started(k, bucket)) =< SumOver(recorded, From(k))
  BY <1>3, <1>4, SumSubset
<1>7. /\ SumOver(recorded, From(now - size + bucket)) \in Int
      /\ SumOver(recorded, Started(k, bucket)) \in Int
      /\ SumOver(recorded, From(k)) \in Int
  BY FromType, StartedType
<1> QED  BY <1>2, <1>5, <1>6, <1>7, TotalFrom DEF Accurate, k

(* The invariant gives both bounds of both windows.                        *)
LEMMA AccountedIsAccurate == Types /\ Accounted => WindowsAccurate
BY KeptIsAccurate, WindowsAssumption DEF Types, Accounted, WindowsAccurate

(* A window's sum holds all that was recorded in the last window less one  *)
(* bucket, and nothing older than the window.                              *)
THEOREM SumsAccurate == Spec => []WindowsAccurate
BY WindowsInvariant, AccountedIsAccurate, PTL

(* A rejected request was over a limit, and a sum that reaches a limit was *)
(* spent in the window.                                                    *)
THEOREM RejectionsJustified == Spec => RejectedOverBudget
<1> DEFINE Justified == \/ /\ config.maxHour > 0
                           /\ Total(recorded, now - HourWindow + 1) >= config.maxHour
                        \/ /\ config.maxDay > 0
                           /\ Total(recorded, now - DayWindow + 1) >= config.maxDay
<1>1. ASSUME Types, WindowsAccurate, Exceeded PROVE Justified
  <2> DEFINE hour == Sum(hourlyWindow, HourWindow)
             day == Sum(dailyWindow, DayWindow)
             spentHour == Total(recorded, now - HourWindow + 1)
             spentDay == Total(recorded, now - DayWindow + 1)
  <2>1. hour =< spentHour /\ day =< spentDay
    BY <1>1 DEF WindowsAccurate, Accurate
  <2>2. hour \in Int /\ day \in Int /\ spentHour \in Int /\ spentDay \in Int
    BY <1>1, SumIsTotal, TotalFrom, FromType, WindowsAssumption DEF Types
  <2>3. config.maxHour \in Int /\ config.maxDay \in Int
    BY <1>1, ConfigsAssumption DEF Types
  <2>4. \/ config.maxHour > 0 /\ hour >= config.maxHour
        \/ config.maxDay > 0 /\ day >= config.maxDay
    BY <1>1 DEF Exceeded, Exceeds
  <2> HIDE DEF hour, day, spentHour, spentDay
  <2>5. \/ config.maxHour > 0 /\ spentHour >= config.maxHour
        \/ config.maxDay > 0 /\ spentDay >= config.maxDay
    BY <2>1, <2>2, <2>3, <2>4
  <2> QED  BY <2>5 DEF spentHour, spentDay
<1>2. Types /\ WindowsAccurate /\ [Next]_vars =>
        [(\E r \in Request, k \in {"chat", "stream"} : Reject(r, k)) => Justified]_vars
  BY <1>1 DEF Reject, Rejects
<1> QED
  BY <1>2, WindowsInvariant, SumsAccurate, PTL DEF Spec, RejectedOverBudget

-----------------------------------------------------------------------------
(* What is spent never leaves more than the requests checked before the    *)
(* limit was reached may still add.                                        *)
SpentHour == SumOver(hourlyWindow, From(now - HourWindow + 1))
SpentDay  == SumOver(dailyWindow, From(now - DayWindow + 1))

Flying == {r \in Request : pc[r] = "routing" /\ kind[r] = "chat"}

Within(spent, flying, limit) ==
  limit > 0 => spent + flying * Max(Costs) <= limit - 1 + Cardinality(Request) * Max(Costs)

Bounded ==
  config.enabled /\ config.action = "reject" =>
    /\ Within(SpentHour, Cardinality(Flying), config.maxHour)
    /\ Within(SpentDay, Cardinality(Flying), config.maxDay)

(* What is spent is a number.                                              *)
LEMMA SpentType == Types => SpentHour \in Int /\ SpentDay \in Int
BY FromType DEF Types, SpentHour, SpentDay

(* There are at most as many chat requests under way as requests.          *)
LEMMA FlyingType ==
  /\ IsFiniteSet(Flying) /\ Cardinality(Flying) \in Nat
  /\ Cardinality(Request) \in Nat /\ Cardinality(Flying) <= Cardinality(Request)
BY RequestAssumption, FS_Subset, FS_CardinalityType DEF Flying

(* The bound in terms of sums over buckets is the property.                *)
LEMMA BoundedIsOvershoot == Types /\ Bounded => OvershootBounded
<1> SUFFICES ASSUME Types, Bounded PROVE OvershootBounded
  OBVIOUS
<1>1. Sum(hourlyWindow, HourWindow) = SpentHour /\ Sum(dailyWindow, DayWindow) = SpentDay
  BY SumIsTotal, WindowsAssumption DEF Types, SpentHour, SpentDay
<1>2. InFlight = Cardinality(Flying)
  BY DEF InFlight, Flying
<1> QED  BY <1>1, <1>2 DEF Bounded, Within, OvershootBounded, Overshoot

(* A bound survives what spends no more, what a request spends that is     *)
(* answered, and a check that finds the spend below the limit.             *)
LEMMA WithinStays ==
  ASSUME NEW spent \in Int, NEW later \in Int, later =< spent, NEW limit \in Int,
         NEW flying \in Nat, NEW fewer \in Nat, fewer =< flying,
         Within(spent, flying, limit)
  PROVE  Within(later, fewer, limit)
<1> DEFINE M == Max(Costs)
           N == Cardinality(Request)
<1>1. M \in Nat /\ N \in Nat
  BY CostAtMost, FlyingType
<1> HIDE DEF M, N
<1>2. /\ fewer * M =< flying * M /\ fewer * M \in Int /\ flying * M \in Int
      /\ N * M \in Int
  BY <1>1
<1>3. limit > 0 => spent + flying * M <= limit - 1 + N * M
  BY DEF Within, M, N
<1>4. limit > 0 => later + fewer * M <= limit - 1 + N * M
  BY <1>2, <1>3
<1> QED  BY <1>4 DEF Within, M, N

(* An answered chat request adds its cost and is no longer under way.      *)
LEMMA WithinRecorded ==
  ASSUME NEW spent \in Int, NEW cost \in Costs, NEW later \in Int, later =< spent + cost,
         NEW limit \in Int, NEW flying \in Nat, NEW fewer \in Nat, fewer = flying - 1,
         Within(spent, flying, limit)
  PROVE  Within(later, fewer, limit)
<1> DEFINE M == Max(Costs)
           N == Cardinality(Request)
<1>1. M \in Nat /\ N \in Nat /\ cost \in Nat /\ cost =< M
  BY CostAtMost, CostType, FlyingType
<1> HIDE DEF M, N
<1>2. /\ fewer * M = flying * M - M /\ fewer * M \in Int /\ flying * M \in Int
      /\ N * M \in Int
  BY <1>1
<1>3. limit > 0 => spent + flying * M <= limit - 1 + N * M
  BY DEF Within, M, N
<1>4. limit > 0 => later + fewer * M <= limit - 1 + N * M
  BY <1>1, <1>2, <1>3
<1> QED  BY <1>4 DEF Within, M, N

(* Below the limit every request may pass its check.                       *)
LEMMA WithinChecked ==
  ASSUME NEW spent \in Int, NEW limit \in Int, limit > 0 => spent < limit,
         NEW flying \in Nat, flying =< Cardinality(Request)
  PROVE  Within(spent, flying, limit)
<1> DEFINE M == Max(Costs)
           N == Cardinality(Request)
<1>1. M \in Nat /\ N \in Nat /\ flying =< N
  BY CostAtMost, FlyingType
<1> HIDE DEF M, N
<1>2. flying * M =< N * M /\ flying * M \in Int /\ N * M \in Int
  BY <1>1
<1>3. limit > 0 => spent + flying * M <= limit - 1 + N * M
  BY <1>2
<1> QED  BY <1>3 DEF Within, M, N

(* What the steps do to the two sums.                                      *)
LEMMA SpentCleaned ==
  ASSUME Types, now' = now,
         hourlyWindow' = CleanExpired(hourlyWindow, HourWindow),
         dailyWindow' = CleanExpired(dailyWindow, DayWindow)
  PROVE  SpentHour' = SpentHour /\ SpentDay' = SpentDay
<1>1. now \in Int /\ HourWindow \in Nat /\ DayWindow \in Nat
  BY TimeType, WindowsAssumption DEF Types
<1>2. /\ SumOver(CleanExpired(hourlyWindow, HourWindow), From(now - HourWindow + 1)) = SpentHour
      /\ SumOver(CleanExpired(dailyWindow, DayWindow), From(now - DayWindow + 1)) = SpentDay
  BY <1>1, CleanKeeps DEF Types, SpentHour, SpentDay
<1>3. /\ SpentHour' = SumOver(hourlyWindow', From(now - HourWindow + 1))
      /\ SpentDay' = SumOver(dailyWindow', From(now - DayWindow + 1))
  BY DEF SpentHour, SpentDay
<1> QED  BY <1>2, <1>3

(* Recording a cost adds it to a sum at most once.                         *)
LEMMA SpentRecorded ==
  ASSUME Types, now' = now, NEW cost \in Costs, Record(cost)
  PROVE  SpentHour' =< SpentHour + cost /\ SpentDay' =< SpentDay + cost
<1>1. /\ now \in Int /\ HourWindow \in Nat /\ DayWindow \in Nat /\ cost \in Nat
      /\ HourBucket \in Nat \ {0} /\ DayBucket \in Nat \ {0}
      /\ SpentHour \in Int /\ SpentDay \in Int
  BY TimeType, WindowsAssumption, CostType, SpentType DEF Types
<1>2. /\ SumOver(Add(hourlyWindow, HourWindow, HourBucket, cost), From(now - HourWindow + 1))
           =< SpentHour + cost
      /\ SumOver(Add(dailyWindow, DayWindow, DayBucket, cost), From(now - DayWindow + 1))
           =< SpentDay + cost
  <2>1. SumOver(Add(hourlyWindow, HourWindow, HourBucket, cost), From(now - HourWindow + 1))
          = SpentHour + (IF BucketTime(HourBucket) >= now - HourWindow + 1 THEN cost ELSE 0)
    BY <1>1, AddAdds DEF Types, SpentHour
  <2>2. SumOver(Add(dailyWindow, DayWindow, DayBucket, cost), From(now - DayWindow + 1))
          = SpentDay + (IF BucketTime(DayBucket) >= now - DayWindow + 1 THEN cost ELSE 0)
    BY <1>1, AddAdds DEF Types, SpentDay
  <2> QED  BY <1>1, <2>1, <2>2
<1>3. /\ SpentHour' = SumOver(hourlyWindow', From(now - HourWindow + 1))
      /\ SpentDay' = SumOver(dailyWindow', From(now - DayWindow + 1))
  BY DEF SpentHour, SpentDay
<1> QED  BY <1>2, <1>3 DEF Record

(* As time passes, sums only shrink.                                       *)
LEMMA SpentTick ==
  ASSUME Types, Tick
  PROVE  SpentHour' =< SpentHour /\ SpentDay' =< SpentDay
<1>1. /\ now \in Int /\ HourWindow \in Nat /\ DayWindow \in Nat
      /\ now' = now + 1 /\ UNCHANGED <<hourlyWindow, dailyWindow>>
      /\ hourlyWindow \in Window /\ dailyWindow \in Window
  BY TimeType, WindowsAssumption DEF Types, Tick
<1>2. ASSUME NEW w \in Window, NEW k \in Int
      PROVE  SumOver(w, From(k + 1)) =< SumOver(w, From(k))
  <2>1. From(k + 1) \subseteq From(k)
    <3>1. \A t \in Time : t >= k + 1 => t >= k
      BY TimeType
    <3> QED  BY <3>1 DEF From
  <2>2. \A t \in From(k) : w[t] \in Int /\ w[t] >= 0
    BY FromType
  <2> QED  BY <2>1, <2>2, FromType, SumSubset
<1>3. /\ SpentHour' = SumOver(hourlyWindow, From((now - HourWindow + 1) + 1))
      /\ SpentDay' = SumOver(dailyWindow, From((now - DayWindow + 1) + 1))
  <2>1. /\ SpentHour' = SumOver(hourlyWindow', From(now' - HourWindow + 1))
        /\ SpentDay' = SumOver(dailyWindow', From(now' - DayWindow + 1))
    BY DEF SpentHour, SpentDay
  <2>2. /\ now' - HourWindow + 1 = (now - HourWindow + 1) + 1
        /\ now' - DayWindow + 1 = (now - DayWindow + 1) + 1
    BY <1>1
  <2> QED  BY <1>1, <2>1, <2>2
<1> QED  BY <1>1, <1>2, <1>3 DEF SpentHour, SpentDay

(* What leaves clock and windows alone leaves the sums alone.              *)
LEMMA SpentSame ==
  ASSUME UNCHANGED <<now, hourlyWindow, dailyWindow>>
  PROVE  SpentHour' = SpentHour /\ SpentDay' = SpentDay
BY DEF SpentHour, SpentDay

(* Every step keeps the bound.                                             *)
LEMMA BoundedStep == Types /\ Types' /\ Bounded /\ [Next]_vars => Bounded'
<1> SUFFICES ASSUME Types, Types', Bounded, [Next]_vars,
                    config'.enabled, config'.action = "reject"
             PROVE  /\ Within(SpentHour', Cardinality(Flying'), config'.maxHour)
                    /\ Within(SpentDay', Cardinality(Flying'), config'.maxDay)
  BY DEF Bounded, Within
<1> DEFINE Goal == /\ Within(SpentHour', Cardinality(Flying'), config'.maxHour)
                   /\ Within(SpentDay', Cardinality(Flying'), config'.maxDay)
<1>0. /\ SpentHour \in Int /\ SpentDay \in Int /\ SpentHour' \in Int /\ SpentDay' \in Int
      /\ config'.maxHour \in Int /\ config'.maxDay \in Int
      /\ IsFiniteSet(Flying) /\ IsFiniteSet(Flying')
      /\ Cardinality(Flying) \in Nat /\ Cardinality(Flying') \in Nat
      /\ Cardinality(Flying') <= Cardinality(Request)
  <2>1. SpentHour' \in Int /\ SpentDay' \in Int
    BY FromType DEF Types, SpentHour, SpentDay
  <2>2. Flying' \subseteq Request
    BY DEF Flying
  <2>3. IsFiniteSet(Flying') /\ Cardinality(Flying') <= Cardinality(Request)
    BY <2>2, RequestAssumption, FS_Subset
  <2> QED
    BY <2>1, <2>3, SpentType, FlyingType, ConfigsAssumption, FS_CardinalityType DEF Types
<1>1. ASSUME config' = config, Flying' \subseteq Flying,
             SpentHour' =< SpentHour, SpentDay' =< SpentDay
      PROVE  Goal
  <2>1. Cardinality(Flying') <= Cardinality(Flying)
    BY <1>0, <1>1, FS_Subset
  <2>2. /\ Within(SpentHour, Cardinality(Flying), config'.maxHour)
        /\ Within(SpentDay, Cardinality(Flying), config'.maxDay)
    BY <1>1 DEF Bounded
  <2> QED  BY <1>0, <1>1, <2>1, <2>2, WithinStays
<1> HIDE DEF Goal
<1>2. ASSUME NEW r \in Request, NEW k \in {"chat", "stream"}, Allow(r, k) PROVE Goal
  <2>1. SpentHour' = SpentHour /\ SpentDay' = SpentDay /\ config' = config
    BY <1>2, SpentCleaned, SpentSame DEF Allow, Check
  <2>2. ~ Exceeded
    BY <1>2, <2>1 DEF Allow, Rejects
  <2>3. Sum(hourlyWindow, HourWindow) = SpentHour /\ Sum(dailyWindow, DayWindow) = SpentDay
    BY SumIsTotal, WindowsAssumption DEF Types, SpentHour, SpentDay
  <2>4. /\ config'.maxHour > 0 => SpentHour' < config'.maxHour
        /\ config'.maxDay > 0 => SpentDay' < config'.maxDay
    BY <1>0, <2>1, <2>2, <2>3 DEF Exceeded, Exceeds
  <2> QED  BY <1>0, <2>4, WithinChecked DEF Goal
<1>3. ASSUME NEW r \in Request, NEW k \in {"chat", "stream"}, Reject(r, k) PROVE Goal
  <2>1. SpentHour' = SpentHour /\ SpentDay' = SpentDay /\ config' = config
    BY <1>3, SpentCleaned, SpentSame DEF Reject, Check
  <2>2. Flying' \subseteq Flying
    BY <1>3 DEF Reject, Check, Flying, Types
  <2> QED  BY <1>0, <1>1, <2>1, <2>2
<1>4. ASSUME NEW r \in Request, NEW cost \in Costs, Serve(r, cost) PROVE Goal
  <2>1. /\ config' = config /\ now' = now /\ config.enabled /\ cost \in Nat
    BY <1>4, CostType DEF Serve, Finish
  <2>2. SpentHour' =< SpentHour + cost /\ SpentDay' =< SpentDay + cost
    <3>1. CASE cost > 0
      BY <1>4, <2>1, <3>1, SpentRecorded DEF Serve
    <3>2. CASE ~ (cost > 0)
      BY <1>0, <1>4, <2>1, <3>2, SpentSame DEF Serve
    <3> QED  BY <3>1, <3>2
  <2>3. Flying' = Flying \ {r} /\ r \in Flying
    BY <1>4 DEF Serve, Finish, Flying, Types
  <2>4. Cardinality(Flying') = Cardinality(Flying) - 1
    BY <1>0, <2>3, FS_RemoveElement
  <2>5. /\ Within(SpentHour, Cardinality(Flying), config'.maxHour)
        /\ Within(SpentDay, Cardinality(Flying), config'.maxDay)
    BY <2>1 DEF Bounded
  <2> QED  BY <1>0, <2>2, <2>4, <2>5, WithinRecorded DEF Goal
<1>5. ASSUME NEW r \in Request, Fail(r) \/ \E cost \in Costs : ServeStream(r, cost)
      PROVE  Goal
  <2>1. config' = config /\ Flying' \subseteq Flying
    BY <1>5 DEF Fail, ServeStream, Finish, Flying, Types
  <2>2. SpentHour' = SpentHour /\ SpentDay' = SpentDay
    BY <1>5, SpentSame DEF Fail, ServeStream, Finish
  <2> QED  BY <1>0, <1>1, <2>1, <2>2
<1>6. CASE Status
  <2>1. config' = config /\ Flying' = Flying
    BY <1>6 DEF Status, Flying
  <2>2. SpentHour' = SpentHour /\ SpentDay' = SpentDay
    BY <1>6, SpentCleaned DEF Status
  <2>3. Goal
    BY <1>0, <1>1, <2>1, <2>2
  <2> QED  BY <2>3 DEF Goal
<1>7. CASE NewTracker
  <2>1. ASSUME NEW k PROVE SumOver(Nothing, From(k)) = 0
    <3>1. IsFiniteSet(From(k)) /\ From(k) \subseteq Time
      BY TimeType, FS_Subset DEF From
    <3> QED  BY <3>1, SumZero DEF Nothing
  <2>2. SpentHour' = 0 /\ SpentDay' = 0
    BY <1>7, <2>1 DEF NewTracker, SpentHour, SpentDay
  <2> QED  BY <1>0, <2>2, WithinChecked
<1>8. CASE Tick
  <2>1. config' = config /\ Flying' = Flying
    BY <1>8 DEF Tick, Flying
  <2>2. Goal
    BY <1>1, <1>8, <2>1, SpentTick
  <2> QED  BY <2>2 DEF Goal
<1>9. CASE UNCHANGED vars
  <2>1. config' = config /\ Flying' = Flying
    BY <1>9 DEF vars, Flying
  <2>2. SpentHour' = SpentHour /\ SpentDay' = SpentDay
    BY <1>9, SpentSame DEF vars
  <2>3. Goal
    BY <1>0, <1>1, <2>1, <2>2
  <2> QED  BY <2>3 DEF Goal
<1> QED
  BY <1>2, <1>3, <1>4, <1>5, <1>6, <1>7, <1>8, <1>9 DEF Next, Goal

(* A limit that rejects is passed at most by the chat requests that were   *)
(* checked before it was reached.                                          *)
THEOREM OvershootLimited == Spec => []OvershootBounded
<1>1. Init => Bounded
  <2> SUFFICES ASSUME Init PROVE Bounded
    OBVIOUS
  <2>1. Types
    BY TypesInit
  <2>2. ASSUME NEW k PROVE SumOver(Nothing, From(k)) = 0
    <3>1. IsFiniteSet(From(k)) /\ From(k) \subseteq Time
      BY TimeType, FS_Subset DEF From
    <3> QED  BY <3>1, SumZero DEF Nothing
  <2>3. SpentHour = 0 /\ SpentDay = 0
    BY <2>2 DEF Init, SpentHour, SpentDay
  <2>4. config.maxHour \in Int /\ config.maxDay \in Int
    BY <2>1, ConfigsAssumption DEF Types
  <2> QED  BY <2>3, <2>4, FlyingType, WithinChecked DEF Bounded
<1>2. Types /\ Accounted /\ [Next]_vars => Types'
  BY TypesStep
<1> QED
  BY <1>1, <1>2, WindowsInvariant, BoundedStep, BoundedIsOvershoot, PTL DEF Spec

=============================================================================
