------------------------ MODULE PublisherMetricsProofs ------------------------
(* What the gauges tell is never worse than what the worker has yet to     *)
(* hear of: the proofs that a publisher at rest misreports nothing.        *)
EXTENDS PublisherMetrics, LocationPublisherProofs, FiniteSetTheorems

-----------------------------------------------------------------------------
(* The inductive invariant.                                                *)

\* The names the worker is to look at, or is looking at.
Busy == {n \in Names : n \in queue \/ request = n}

\* Every other name was last counted as the caches have it.
CountInv ==
    refresh = NothingLeft =>
      \A kind \in FleetKinds :
        /\ Cardinality(FleetOf(kind, srcCache, hubCache) \ Busy) <= fleet[kind]
        /\ fleet[kind] <= Cardinality(FleetOf(kind, srcCache, hubCache) \cup Busy)

\* What the series say of n is right.
Reported(n) ==
    /\ source[n] # Absent => (n \in mismatch <=> source[n].topology \in Blank)
    /\ Publishable(n) /\ ~Taken(n) => publishedStamp[n] = hub[n].publishedAt /\ Blocked(n) = {}
    /\ source[n] = Absent /\ hub[n] = Absent =>
         /\ publishedStamp[n] = Absent /\ matchedClusters[n] = Absent
         /\ Blocked(n) = {} /\ n \notin mismatch

\* Besides, what a publication will report when it ends is right, and so will
\* be the count of clusters after it, unless the name will be looked at again.
SeriesInv ==
    /\ \A n \in Names : Quiet(n) /\ request # n => Reported(n)
    /\ step \in Publishing => request \notin mismatch /\ location.topology \notin Blank
    /\ step \in {"policy", "clear"} /\ Quiet(request) => publishedAt = hub[request].publishedAt
    /\ refresh.stage = "matched" =>
         /\ refresh.name \in Names
         /\ Quiet(refresh.name) => source[refresh.name] # Absent

MInv == IInv /\ WakeInv /\ MetricsTypeOK /\ CountInv /\ SeriesInv

-----------------------------------------------------------------------------
(* The publisher with its gauges is the publisher.                         *)

LEMMA MBeginIsBegin == ASSUME NEW n, MBegin(n) PROVE BeginReconcile(n)
BY DEF MBegin, BeginReconcile

LEMMA RefreshMatchedKeeps ==
    ASSUME IInv, WakeInv, RefreshMatchedClusters
    PROVE  IInv' /\ WakeInv'
<1>1. budget' \in 0 .. MaxDisturbances
  BY DisturbType DEF RefreshMatchedClusters, IInv, TypeOK
<1>2. UNCHANGED <<Untouched, workerVars, historyVars, queue>>
  BY DEF RefreshMatchedClusters
<1> USE DEF Untouched, sourceVars, hubVars, policyVars, cacheVars, workerVars, historyVars
<1>3. TypeOK'
  BY <1>1, <1>2 DEF IInv, TypeOK
<1>4. WorkerInv' /\ GuardInv' /\ GroundsInv'
  BY <1>2 DEF IInv, WorkerInv, GuardInv, GroundsInv, Grounds, OwnsObject
<1>5. WakeInv'
  BY <1>2 DEF WakeInv, Watched, UpToDate, Quiet, NothingForgotten, Awaited, Publishable, Taken, Current, OwnsObject
<1> QED
  BY <1>3, <1>4, <1>5 DEF IInv

LEMMA MPublisherKeeps == IInv /\ WakeInv /\ [MNext]_mvars => IInv' /\ WakeInv'
<1> SUFFICES ASSUME IInv, WakeInv, [MNext]_mvars PROVE IInv' /\ WakeInv'
  OBVIOUS
<1>1. CASE [Next]_vars
  BY <1>1, StepInv, StepWake
<1>2. CASE RefreshMatchedClusters
  BY <1>2, RefreshMatchedKeeps
<1>3. MNext => Next \/ UNCHANGED vars \/ RefreshMatchedClusters
  BY MBeginIsBegin DEF MNext, Next, Publisher, MCall, MCallFails, RefreshFleetMetrics, MRestart
<1> QED
  BY <1>1, <1>2, <1>3 DEF mvars

-----------------------------------------------------------------------------
(* The counts.                                                             *)

LEMMA SubsetsCount ==
    ASSUME NEW S \in SUBSET Names, NEW T \in SUBSET S
    PROVE  /\ Cardinality(S) \in 0 .. Cardinality(Names) /\ Cardinality(T) \in 0 .. Cardinality(Names)
           /\ Cardinality(T) <= Cardinality(S)
<1>1. IsFiniteSet(S) /\ IsFiniteSet(T) /\ T \in SUBSET Names
  BY FiniteAssumption, FS_Subset
<1> QED
  BY <1>1, FiniteAssumption, FS_Subset, FS_CardinalityType

LEMMA CountType ==
    /\ Cardinality(Names) \in Nat
    /\ fleet \in [FleetKinds -> 0 .. Cardinality(Names)] => \A kind \in FleetKinds : fleet[kind] \in Nat
<1>1. Cardinality(Names) \in Nat
  BY FiniteAssumption, FS_CardinalityType
<1> QED
  BY <1>1

LEMMA CountsAre ==
    ASSUME NEW locations, NEW copies
    PROVE  /\ FleetCounts(locations, copies) \in [FleetKinds -> 0 .. Cardinality(Names)]
           /\ \A kind \in FleetKinds :
                FleetCounts(locations, copies)[kind] = Cardinality(FleetOf(kind, locations, copies))
<1> DEFINE held == {n \in Names : OwnsObject(copies[n])}
           retained == {n \in held : copies[n].blocked # NotBlocked}
           publishable == {n \in Names : locations[n] # Absent /\ locations[n].topology \notin Blank}
<1>1. /\ publishable = FleetOf("publishable", locations, copies)
      /\ held \ retained = FleetOf("published", locations, copies)
      /\ retained = FleetOf("retained", locations, copies)
  BY DEF FleetOf
<1>2. FleetCounts(locations, copies) = [publishable |-> Cardinality(publishable),
                                        published   |-> Cardinality(held \ retained),
                                        retained    |-> Cardinality(retained)]
  BY DEF FleetCounts
<1> HIDE DEF held, retained, publishable
<1>3. \A kind : FleetOf(kind, locations, copies) \in SUBSET Names
  BY DEF FleetOf
<1>4. \A kind : Cardinality(FleetOf(kind, locations, copies)) \in 0 .. Cardinality(Names)
  BY <1>3, SubsetsCount
<1> QED
  BY <1>1, <1>2, <1>4 DEF FleetKinds

LEMMA MatchingType == ASSUME NEW n PROVE Cardinality(Matching(n)) \in 0 .. Cardinality(Clusters)
<1>1. Matching(n) \in SUBSET Clusters
  BY DEF Matching
<1> QED
  BY <1>1, FiniteAssumption, FS_Subset, FS_CardinalityType

\* A step that counts nothing, and changes the caches only at names the worker is
\* to look at.
LEMMA CountKept ==
    ASSUME CountInv, MetricsTypeOK, UNCHANGED <<fleet, refresh>>, Busy \subseteq Busy',
           \A n \in Names \ Busy' : srcCache'[n] = srcCache[n] /\ hubCache'[n] = hubCache[n]
    PROVE  CountInv'
<1> SUFFICES ASSUME refresh = NothingLeft, NEW kind \in FleetKinds
             PROVE  /\ Cardinality((FleetOf(kind, srcCache, hubCache) \ Busy)') <= fleet[kind]
                    /\ fleet[kind] <= Cardinality((FleetOf(kind, srcCache, hubCache) \cup Busy)')
  BY DEF CountInv
<1> DEFINE old == FleetOf(kind, srcCache, hubCache)
           new == FleetOf(kind, srcCache', hubCache')
<1>1. new = FleetOf(kind, srcCache, hubCache)'
  BY DEF FleetOf, OwnsObject
<1>2. \A n \in Names \ Busy' : n \in new <=> n \in old
  BY DEF FleetOf, OwnsObject
<1>3. old \in SUBSET Names /\ new \in SUBSET Names /\ Busy \in SUBSET Names /\ Busy' \in SUBSET Names
  BY DEF FleetOf, Busy
<1>4. fleet[kind] \in Nat /\ Cardinality(Names) \in Nat
  BY CountType DEF MetricsTypeOK
<1>5. Cardinality(old \ Busy) <= fleet[kind] /\ fleet[kind] <= Cardinality(old \cup Busy)
  BY DEF CountInv
<1> HIDE DEF old, new
<1>6. /\ old \ Busy \in SUBSET Names /\ new \ Busy' \in SUBSET (old \ Busy)
      /\ new \cup Busy' \in SUBSET Names /\ old \cup Busy \in SUBSET (new \cup Busy')
  BY <1>2, <1>3
<1>7. Cardinality(new \ Busy') <= fleet[kind]
  BY <1>4, <1>5, <1>6, SubsetsCount
<1>8. fleet[kind] <= Cardinality(new \cup Busy')
  BY <1>4, <1>5, <1>6, SubsetsCount
<1> QED
  BY <1>1, <1>7, <1>8

LEMMA CountStep == MInv /\ MNext => CountInv'
<1> SUFFICES ASSUME MInv, MNext PROVE CountInv'
  OBVIOUS
<1>0. CountInv /\ MetricsTypeOK /\ TypeOK /\ UpToDate
  BY DEF MInv, IInv, WakeInv
<1>1. FleetLeft # NothingLeft /\ \A n : Left("matched", n) # NothingLeft
  BY DEF FleetLeft, NothingLeft, Left
<1>2. CASE Interference /\ UNCHANGED metrics
  <2>1. UNCHANGED <<queue, request, srcCache, hubCache, fleet, refresh>>
    BY <1>2 DEF Interference, CreateLocation, EditLocation, DeleteLocation, MeddleHub, AnnotateOverride,
                MeddlePolicy, ClusterChange, Tick, cacheVars, workerVars, metrics
  <2> QED
    BY <1>0, <2>1, CountKept DEF Busy
<1>3. CASE (DeliverSource \/ DeliverHub \/ DeliverPolicy) /\ UNCHANGED metrics
  <2>1. UNCHANGED <<request, fleet, refresh>> /\ queue \subseteq queue'
    BY <1>3 DEF DeliverSource, DeliverHub, DeliverPolicy, EnqueueByName, EnqueuePolicyOwner, workerVars, metrics
  <2>2. \A n \in Names \ queue' : srcCache'[n] = srcCache[n] /\ hubCache'[n] = hubCache[n]
    BY <1>0, <1>3 DEF DeliverSource, DeliverHub, DeliverPolicy, EnqueueByName, cacheVars, TypeOK
  <2> QED
    BY <1>0, <2>1, <2>2, CountKept DEF Busy
<1>4. ASSUME NEW n \in Names, MBegin(n) PROVE CountInv'
  <2>1. CASE RefusePublish(n) \/ NothingToRemove(n)
    <3>1. refresh' = FleetLeft
      BY <1>4, <2>1 DEF MBegin, EndedAtOnce, BeginPublish, RefusePublish, BeginRemove, NothingToRemove, OwnsObject
    <3> QED
      BY <1>1, <3>1 DEF CountInv
  <2>2. CASE (BeginPublish(n) \/ BeginRemove(n)) /\ UNCHANGED refresh
    <3>1. /\ request = Absent /\ request' = n /\ queue' = queue \ {n}
          /\ UNCHANGED <<srcCache, hubCache, fleet>>
      BY <1>0, <1>4, <2>2 DEF MBegin, BeginPublish, BeginRemove, Begin, Untouched, cacheVars, UpToDate
    <3> QED
      BY <1>0, <2>2, <3>1, CountKept, AbsentAssumption DEF Busy
  <2> QED
    BY <1>4, <2>1, <2>2 DEF MBegin
<1>5. CASE MCall
  <2>1. CASE Ends
    BY <1>1, <1>5, <2>1 DEF MCall, Reports, CountInv
  <2>2. CASE ~Ends
    <3>1. UNCHANGED <<queue, request, srcCache, hubCache>>
      BY <1>5, <2>2 DEF MCall, PublisherCall, Apply, ApplyPropagationPolicy, ClearBlocked, Prune, Guard,
                        RecordBlocked, Delete, DeletePropagationPolicy, Then, Done, ReplyLost, BlockedRequeue,
                        Goto, Finish, Ends, Untouched, cacheVars
    <3>2. UNCHANGED <<fleet, refresh>>
      BY <1>5, <2>2 DEF MCall, Reports
    <3> QED
      BY <1>0, <3>1, <3>2, CountKept DEF Busy
  <2> QED
    BY <2>1, <2>2
<1>6. CASE MCallFails \/ RefreshMatchedClusters
  BY <1>1, <1>6 DEF MCallFails, RefreshMatchedClusters, CountInv
<1>7. CASE RefreshFleetMetrics
  <2>1. UNCHANGED <<srcCache, hubCache, queue, request>> /\ fleet' = FleetCounts(srcCache, hubCache)
    BY <1>7 DEF RefreshFleetMetrics, vars, cacheVars, workerVars
  <2> SUFFICES ASSUME NEW kind \in FleetKinds
               PROVE  /\ Cardinality((FleetOf(kind, srcCache, hubCache) \ Busy)') <= fleet'[kind]
                      /\ fleet'[kind] <= Cardinality((FleetOf(kind, srcCache, hubCache) \cup Busy)')
    BY DEF CountInv
  <2> DEFINE counted == FleetOf(kind, srcCache, hubCache)
  <2>2. counted = FleetOf(kind, srcCache, hubCache)' /\ Busy' = Busy
    BY <2>1 DEF FleetOf, OwnsObject, Busy
  <2>3. fleet'[kind] = Cardinality(counted)
    BY <2>1, CountsAre
  <2>4. counted \in SUBSET Names /\ Busy \in SUBSET Names
    BY DEF FleetOf, Busy
  <2> HIDE DEF counted
  <2>5. Cardinality(counted \ Busy) <= Cardinality(counted)
    BY <2>4, SubsetsCount
  <2>6. Cardinality(counted) <= Cardinality(counted \cup Busy)
    BY <2>4, SubsetsCount
  <2> QED
    BY <2>2, <2>3, <2>5, <2>6
<1>8. CASE MRestart
  <2> SUFFICES ASSUME NEW kind \in FleetKinds
               PROVE  /\ Cardinality((FleetOf(kind, srcCache, hubCache) \ Busy)') <= fleet'[kind]
                      /\ fleet'[kind] <= Cardinality((FleetOf(kind, srcCache, hubCache) \cup Busy)')
    BY DEF CountInv
  <2> DEFINE new == FleetOf(kind, srcCache', hubCache')
  <2>1. new = FleetOf(kind, srcCache, hubCache)'
    BY DEF FleetOf, OwnsObject
  <2>2. \A n \in new : n \in queue'
    BY <1>8 DEF MRestart, Restart, FleetOf, OwnsObject
  <2>3. new \in SUBSET Names /\ Busy' \in SUBSET Names /\ new \subseteq Busy'
    BY <2>2 DEF FleetOf, Busy
  <2>4. fleet'[kind] = 0
    BY <1>8 DEF MRestart, NobodyCounted, FleetKinds
  <2> HIDE DEF new
  <2>5. new \ Busy' = {}
    BY <2>3
  <2>6. Cardinality(new \cup Busy') \in Nat
    BY <2>3, SubsetsCount
  <2> QED
    BY <2>1, <2>4, <2>5, <2>6, FS_EmptySet
<1> QED
  BY <1>2, <1>3, <1>4, <1>5, <1>6, <1>7, <1>8 DEF MNext

-----------------------------------------------------------------------------
(* The types.                                                              *)

LEMMA MetricsTypeStep == MInv /\ MNext => MetricsTypeOK'
<1> SUFFICES ASSUME MInv, MNext PROVE MetricsTypeOK'
  OBVIOUS
<1>0. IInv /\ TypeOK /\ MetricsTypeOK
  BY DEF MInv, IInv
<1>1. FleetLeft \in Refresh /\ NothingLeft \in Refresh /\ \A n \in Names : Left("matched", n) \in Refresh
  BY DEF FleetLeft, NothingLeft, Left, Refresh
<1>2. CASE UNCHANGED metrics
  BY <1>0, <1>2 DEF metrics, series, MetricsTypeOK
<1>3. ASSUME NEW n \in Names, MBegin(n) PROVE MetricsTypeOK'
  <2>1. mismatch' \subseteq Names
    BY <1>0, <1>3 DEF MBegin, MismatchOf, ForgetSeries, series, MetricsTypeOK
  <2>2. /\ publishedStamp' \in [Names -> 0 .. MaxClock \cup {Absent}]
        /\ matchedClusters' \in [Names -> 0 .. Cardinality(Clusters) \cup {Absent}]
        /\ removalBlocked' \subseteq Names \X (Reasons \ {""})
    BY <1>0, <1>3 DEF MBegin, ForgetSeries, series, MetricsTypeOK
  <2>3. refresh' \in Refresh /\ UNCHANGED <<fleet, publishedAt>>
    BY <1>0, <1>1, <1>3 DEF MBegin, EndedAtOnce, MetricsTypeOK
  <2> QED
    BY <1>0, <2>1, <2>2, <2>3 DEF MetricsTypeOK
<1>4. CASE MCall
  <2>1. request \in Names
    BY <1>0, <1>4 DEF MCall, PublisherCall, Apply, ApplyPropagationPolicy, ClearBlocked, Prune, Guard,
                      RecordBlocked, Delete, DeletePropagationPolicy, IInv, WorkerInv
  <2>2. publishedAt' \in 0 .. MaxClock
    BY <1>0, <1>4 DEF MCall, MetricsTypeOK, PublishedAt, TypeOK, Copy
  <2>3. Refuses => EvaluateRemovalGuard(request).reason \in Reasons \ {""}
    BY <1>4 DEF MCall, Refuses, PublisherCall, Apply, ApplyPropagationPolicy, ClearBlocked, Prune, Guard,
                RecordBlocked, Delete, DeletePropagationPolicy, Goto, EvaluateRemovalGuard, Reasons, NotBlocked
  <2>4. /\ publishedStamp' \in [Names -> 0 .. MaxClock \cup {Absent}]
        /\ matchedClusters' \in [Names -> 0 .. Cardinality(Clusters) \cup {Absent}]
        /\ removalBlocked' \subseteq Names \X (Reasons \ {""})
        /\ mismatch' \subseteq Names
    <3>1. CASE PublishedSeries(request)
      BY <1>0, <2>1, <3>1 DEF PublishedSeries, MetricsTypeOK
    <3>2. CASE Refuses /\ RefusedSeries(request)
      <4>1. <<request, EvaluateRemovalGuard(request).reason>> \in Names \X (Reasons \ {""})
        BY <2>1, <2>3, <3>2
      <4> QED
        BY <1>0, <3>2, <4>1 DEF RefusedSeries, MetricsTypeOK
    <3>3. CASE ForgetSeries(request)
      BY <1>0, <2>1, <3>3 DEF ForgetSeries, MetricsTypeOK
    <3>4. CASE UNCHANGED series
      BY <1>0, <3>4 DEF series, MetricsTypeOK
    <3> QED
      BY <1>4, <3>1, <3>2, <3>3, <3>4 DEF MCall, Reports
  <2>5. refresh' \in Refresh
    BY <1>0, <1>1, <1>4, <2>1 DEF MCall, Reports, MetricsTypeOK
  <2> QED
    BY <1>0, <1>4, <2>2, <2>4, <2>5 DEF MCall, MetricsTypeOK
<1>5. CASE MCallFails
  BY <1>0, <1>1, <1>5 DEF MCallFails, series, MetricsTypeOK
<1>6. CASE RefreshMatchedClusters
  <2>1. Cardinality(Matching(refresh.name)) \in 0 .. Cardinality(Clusters)
    BY MatchingType
  <2>2. matchedClusters' \in [Names -> 0 .. Cardinality(Clusters) \cup {Absent}]
    BY <1>0, <1>6, <2>1 DEF RefreshMatchedClusters, MetricsTypeOK
  <2> QED
    BY <1>0, <1>1, <1>6, <2>2 DEF RefreshMatchedClusters, MetricsTypeOK
<1>7. CASE RefreshFleetMetrics
  BY <1>0, <1>1, <1>7, CountsAre DEF RefreshFleetMetrics, series, MetricsTypeOK
<1>8. CASE MRestart
  <2>1. NobodyCounted \in [FleetKinds -> 0 .. Cardinality(Names)]
    BY FiniteAssumption, FS_CardinalityType DEF NobodyCounted, FleetKinds
  <2> QED
    BY <1>1, <1>8, <2>1, BoundAssumption DEF MRestart, NoSeries, MetricsTypeOK
<1> QED
  BY <1>2, <1>3, <1>4, <1>5, <1>6, <1>7, <1>8 DEF MNext
-----------------------------------------------------------------------------
(* The series.                                                             *)

SameSeries(n) ==
    /\ publishedStamp'[n] = publishedStamp[n] /\ matchedClusters'[n] = matchedClusters[n]
    /\ n \in mismatch' <=> n \in mismatch
    /\ Blocked(n)' = Blocked(n)

LEMMA MisreportedOrNot == NothingMisreported <=> \A n \in Names : Quiet(n) /\ request # n => Reported(n)
<1>1. \A n : Awaited(n) <=> ~Quiet(n) \/ request = n
  BY DEF Awaited, Quiet
<1>2. NothingMisreported <=> \A n \in Names : ~Awaited(n) => Reported(n)
  BY Zenon DEF NothingMisreported, Reported
<1> QED
  BY <1>1, <1>2

\* What is reported of one name is not disturbed by what is reported of another.
LEMMA OnlyItsSeries ==
    ASSUME MetricsTypeOK, NEW n \in Names, NEW m \in Names, m # n,
           \/ PublishedSeries(n) \/ RefusedSeries(n) \/ ForgetSeries(n) \/ UNCHANGED series
    PROVE  SameSeries(m)
<1>1. CASE PublishedSeries(n)
  <2>1. Blocked(m)' = Blocked(m)
    BY <1>1 DEF PublishedSeries, Blocked
  <2> QED
    BY <1>1, <2>1 DEF PublishedSeries, SameSeries, MetricsTypeOK
<1>2. CASE RefusedSeries(n)
  <2>1. Blocked(m)' = Blocked(m)
    BY <1>2 DEF RefusedSeries, Blocked
  <2> QED
    BY <1>2, <2>1 DEF RefusedSeries, SameSeries, MetricsTypeOK
<1>3. CASE ForgetSeries(n)
  BY <1>3 DEF ForgetSeries, SameSeries, Blocked, MetricsTypeOK
<1>4. CASE UNCHANGED series
  BY <1>4 DEF series, SameSeries, Blocked
<1> QED
  BY <1>1, <1>2, <1>3, <1>4

LEMMA StillReported ==
    ASSUME NEW n \in Names, Reported(n), SameSeries(n), source'[n] = source[n], hub'[n] = hub[n]
    PROVE  Reported(n)'
BY DEF Reported, SameSeries, Publishable, Taken, OwnsObject

\* Others act, and are heard of.
LEMMA OthersReportNothing ==
    ASSUME MInv, (Interference \/ DeliverSource \/ DeliverHub \/ DeliverPolicy) /\ UNCHANGED metrics
    PROVE  SeriesInv'
<1>1. Heard /\ UNCHANGED workerVars
  BY InterferenceHeard, DeliveryHeard
     DEF MInv, IInv, WakeInv, DeliverSource, DeliverHub, DeliverPolicy
<1>2. UNCHANGED <<publishedStamp, removalBlocked, matchedClusters, mismatch, publishedAt, refresh>>
  BY DEF metrics, series
<1>3. ASSUME NEW n \in Names, Quiet(n)', (request # n)' PROVE Reported(n)'
  <2>1. Quiet(n) /\ request # n /\ source'[n] = source[n] /\ hub'[n] = hub[n]
    BY <1>1, <1>3 DEF Heard, workerVars
  <2>2. SameSeries(n)
    BY <1>2 DEF SameSeries, Blocked
  <2> QED
    BY <2>1, <2>2, StillReported DEF MInv, SeriesInv
<1>4. step # "idle" => request \in Names
  BY DEF MInv, IInv, WorkerInv
<1> QED
  BY <1>1, <1>2, <1>3, <1>4 DEF MInv, SeriesInv, Heard, workerVars, Publishing

\* A reconcile begins, and may end at once.
LEMMA BeginReports ==
    ASSUME MInv, NEW n \in Names, MBegin(n)
    PROVE  SeriesInv'
<1>0. /\ MetricsTypeOK /\ SeriesInv /\ step = "idle" /\ refresh = NothingLeft
      /\ queue' = queue \ {n} /\ UNCHANGED <<sourceVars, hubVars, policyVars, cacheVars>>
      /\ BeginReconcile(n)
  BY MBeginIsBegin DEF MInv, MBegin, BeginReconcile, BeginPublish, RefusePublish, BeginRemove,
                       NothingToRemove, Begin, Skip, Untouched
<1>1. ASSUME Quiet(n)' PROVE srcCache[n] = source[n] /\ hubCache[n] = hub[n]
  BY <1>0, <1>1 DEF Quiet, MInv, WakeInv, Watched, CatchesUp, sourceVars, hubVars, IInv, TypeOK
<1>2. ASSUME NEW m \in Names, m # n, Quiet(m)' PROVE Reported(m)'
  <2>1. Quiet(m) /\ source'[m] = source[m] /\ hub'[m] = hub[m]
    BY <1>0, <1>2 DEF Quiet, sourceVars, hubVars, policyVars
  <2>2. request # m
    BY <1>0, AbsentAssumption DEF MInv, WakeInv, UpToDate
  <2>3. SameSeries(m)
    <3>1. CASE ForgetSeries(n) \/ UNCHANGED series
      BY <1>0, <1>2, <3>1, OnlyItsSeries
    <3>2. CASE mismatch' = MismatchOf(n) /\ UNCHANGED <<publishedStamp, removalBlocked, matchedClusters>>
      BY <1>2, <3>2 DEF MismatchOf, SameSeries, Blocked
    <3> QED
      BY <3>1, <3>2 DEF MBegin
  <2> QED
    BY <1>0, <2>1, <2>2, <2>3, StillReported DEF SeriesInv
<1>3. ASSUME Quiet(n)', (request # n)' PROVE Reported(n)'
  <2>1. srcCache[n] = source[n] /\ hubCache[n] = hub[n] /\ UNCHANGED <<source, hub>>
    BY <1>0, <1>1, <1>3 DEF sourceVars, hubVars
  <2>2. \/ RefusePublish(n) /\ mismatch' = MismatchOf(n)
        \/ NothingToRemove(n) /\ (hubCache[n] = Absent => ForgetSeries(n))
    <3>1. ~BeginPublish(n) /\ ~BeginRemove(n)
      BY <1>3 DEF BeginPublish, BeginRemove, Begin
    <3>2. \/ RefusePublish(n) /\ mismatch' = MismatchOf(n)
          \/ NothingToRemove(n) /\ (IF hubCache[n] = Absent THEN ForgetSeries(n) ELSE UNCHANGED series)
      BY <3>1 DEF MBegin
    <3>3. (IF hubCache[n] = Absent THEN ForgetSeries(n) ELSE UNCHANGED series)
            => (hubCache[n] = Absent => ForgetSeries(n))
      OBVIOUS
    <3> QED
      BY <3>2, <3>3
  <2>3. CASE RefusePublish(n) /\ mismatch' = MismatchOf(n)
    <3>1. /\ source'[n] # Absent /\ (source'[n].topology \in Blank \/ Taken(n)')
          /\ n \in mismatch' <=> source'[n].topology \in Blank
      BY <2>1, <2>3 DEF RefusePublish, MismatchOf, Taken, OwnsObject
    <3> QED
      BY <3>1 DEF Reported, Publishable
  <2>4. CASE NothingToRemove(n) /\ (hubCache[n] = Absent => ForgetSeries(n))
    <3>1. source'[n] = Absent /\ (hub'[n] = Absent => ForgetSeries(n))
      BY <2>1, <2>4 DEF NothingToRemove
    <3>2. ForgetSeries(n) => /\ publishedStamp'[n] = Absent /\ matchedClusters'[n] = Absent
                             /\ Blocked(n)' = {} /\ n \notin mismatch'
      BY <1>0 DEF ForgetSeries, Blocked, MetricsTypeOK
    <3> QED
      BY <3>1, <3>2 DEF Reported, Publishable
  <2> QED
    BY <2>2, <2>3, <2>4
<1>4. step' \in Publishing => request' \notin mismatch' /\ location'.topology \notin Blank
  BY <1>0 DEF MBegin, BeginPublish, RefusePublish, BeginRemove, NothingToRemove, Begin, Skip, workerVars,
              MismatchOf, Publishing
<1>5. step' \notin {"policy", "clear"} /\ refresh'.stage # "matched"
  BY <1>0 DEF MBegin, BeginPublish, RefusePublish, BeginRemove, NothingToRemove, Begin, Skip, workerVars,
              EndedAtOnce, FleetLeft, NothingLeft, Left
<1> QED
  BY <1>2, <1>3, <1>4, <1>5 DEF SeriesInv

\* The clusters are counted under a name that is still published, or that will
\* be looked at again.
LEMMA RefreshReports ==
    ASSUME MInv, RefreshMatchedClusters \/ RefreshFleetMetrics
    PROVE  SeriesInv'
<1>0. /\ SeriesInv /\ MetricsTypeOK
      /\ UNCHANGED <<Untouched, workerVars, queue, publishedStamp, removalBlocked, mismatch, publishedAt>>
      /\ refresh'.stage # "matched"
  BY DEF MInv, RefreshMatchedClusters, RefreshFleetMetrics, vars, series, Untouched, FleetLeft, NothingLeft, Left
<1>1. ASSUME NEW n \in Names PROVE (Quiet(n)' <=> Quiet(n)) /\ UNCHANGED <<source[n], hub[n]>>
  BY <1>0 DEF Quiet, Untouched, sourceVars, hubVars, policyVars
<1>2. ASSUME NEW n \in Names, Quiet(n)', (request # n)' PROVE Reported(n)'
  <2>1. Reported(n) /\ Quiet(n)
    BY <1>0, <1>1, <1>2 DEF SeriesInv, workerVars
  <2>2. CASE matchedClusters'[n] = matchedClusters[n]
    <3>1. SameSeries(n)
      BY <1>0, <2>2 DEF SameSeries, Blocked
    <3> QED
      BY <1>1, <2>1, <3>1, StillReported
  <2>3. CASE matchedClusters'[n] # matchedClusters[n]
    <3>1. refresh.stage = "matched" /\ refresh.name = n
      BY <2>3, <1>0 DEF RefreshMatchedClusters, RefreshFleetMetrics, series, MetricsTypeOK
    <3>2. source[n] # Absent
      BY <1>0, <2>1, <3>1 DEF SeriesInv
    <3> QED
      BY <1>0, <1>1, <2>1, <3>2 DEF Reported, Publishable, Taken, OwnsObject, Blocked
  <2> QED
    BY <2>2, <2>3
<1>3. step # "idle" => request \in Names
  BY DEF MInv, IInv, WorkerInv
<1> QED
  BY <1>0, <1>1, <1>2, <1>3 DEF SeriesInv, workerVars, Publishing
\* A call after which nothing is on its way to the worker is the end of a
\* publication that went through.
LEMMA EndsQuietly ==
    ASSUME IInv, WakeInv, PublisherCall, NEW n \in Names, request = n, Ends, Quiet(n)'
    PROVE  Publishes
<1>1. n \notin queue'
  BY DEF Quiet
<1>2. ~Finish(TRUE)
  BY <1>1 DEF Finish
<1>3. ~ReplyLost /\ ~BlockedRequeue
  BY <1>2 DEF ReplyLost, BlockedRequeue
<1>4. \A next \in Steps \ {"idle"} : ~Goto(next)
  BY DEF Goto, Ends
<1>5. \A next \in Steps \ {"idle"} : ~Then(next)
  BY <1>3, <1>4 DEF Then
<1>6. step # "deletePolicy"
  <2>1. Heard
    BY CallHeard DEF WakeInv
  <2>2. Quiet(n)
    BY <2>1 DEF Heard
  <2> QED
    BY <2>2 DEF WakeInv, UpToDate
<1>7. ~Apply /\ ~Prune /\ ~Guard /\ ~RecordBlocked /\ ~Delete /\ ~DeletePropagationPolicy
  BY <1>2, <1>3, <1>4, <1>5, <1>6
     DEF Apply, Prune, Guard, RecordBlocked, Delete, DeletePropagationPolicy, Done, Steps
<1>8. CASE ApplyPropagationPolicy
  BY <1>3, <1>5, <1>8 DEF ApplyPropagationPolicy, Done, Publishes, Ends, Succeeds, Steps
<1>9. CASE ClearBlocked
  BY <1>2, <1>3, <1>9 DEF ClearBlocked, Done, Publishes, Ends, Succeeds
<1> QED
  BY <1>7, <1>8, <1>9 DEF PublisherCall

LEMMA CallReports ==
    ASSUME MInv, MCall
    PROVE  SeriesInv'
<1>0. step # "idle" /\ request \in Names
  BY DEF MCall, PublisherCall, Apply, ApplyPropagationPolicy, ClearBlocked, Prune, Guard, RecordBlocked,
         Delete, DeletePropagationPolicy, MInv, IInv, WorkerInv
<1>n. PICK n \in Names : request = n
  BY <1>0
<1>r. /\ request = n /\ step # "idle" /\ hub[n] \in Copy \cup {Absent}
      /\ IInv /\ TypeOK /\ WorkerInv /\ WakeInv /\ MetricsTypeOK /\ SeriesInv /\ PublisherCall
  BY <1>0, <1>n DEF MInv, IInv, TypeOK, MCall
<1>h. Heard
  BY <1>r, CallHeard DEF WakeInv
<1>1. \/ Ends /\ request' = Absent
      \/ ~Ends /\ request' = n /\ location' = location /\ step' # "idle"
  BY <1>r DEF PublisherCall, Apply, ApplyPropagationPolicy, ClearBlocked, Prune, Guard, RecordBlocked,
              Delete, DeletePropagationPolicy, Then, Done, ReplyLost, BlockedRequeue, Goto, Finish, Ends
<1>2. ASSUME NEW m \in Names, m # n, Quiet(m)' PROVE Reported(m)'
  <2>1. Quiet(m) /\ source'[m] = source[m] /\ hub'[m] = hub[m]
    BY <1>h, <1>2 DEF Heard
  <2>2. SameSeries(m)
    BY <1>r, <1>2, OnlyItsSeries DEF MCall, Reports
  <2> QED
    BY <1>r, <1>2, <2>1, <2>2, StillReported DEF SeriesInv
<1>3. ASSUME Ends, Quiet(n)'
      PROVE  /\ Publishes /\ Quiet(n) /\ source'[n] = source[n] /\ hub'[n] = hub[n]
             /\ source[n] = location /\ location \in Location /\ location.topology \notin Blank
             /\ publishedAt = hub[n].publishedAt /\ n \notin mismatch
  <2>1. Publishes
    BY <1>r, <1>3, EndsQuietly
  <2>2. Quiet(n) /\ source'[n] = source[n] /\ hub'[n] = hub[n]
    BY <1>h, <1>3 DEF Heard
  <2> QED
    BY <1>r, <2>1, <2>2 DEF Publishes, Publishing, SeriesInv, WakeInv, UpToDate, WorkerInv
<1>4. ASSUME Quiet(n)', (request # n)' PROVE Reported(n)'
  <2>1. Ends
    BY <1>1, <1>4
  <2>2. PublishedSeries(n)
    <3>1. ~Refuses /\ ~Removed
      BY <1>3, <1>4, <2>1 DEF Publishes, Refuses, Removed
    <3> QED
      BY <1>r, <1>3, <1>4, <2>1, <3>1 DEF MCall, Reports
  <2>3. publishedStamp'[n] = publishedAt /\ Blocked(n)' = {} /\ n \notin mismatch'
    BY <1>r, <1>3, <1>4, <2>1, <2>2 DEF PublishedSeries, Blocked, MetricsTypeOK
  <2> QED
    BY <1>3, <1>4, <2>1, <2>3, AbsentAssumption DEF Reported
<1>5. step' \in Publishing => request' \notin mismatch' /\ location'.topology \notin Blank
  <2> SUFFICES ASSUME step' \in Publishing PROVE request' \notin mismatch' /\ location'.topology \notin Blank
    OBVIOUS
  <2>1. ~Ends /\ step \in Publishing
    BY <1>r DEF PublisherCall, Apply, ApplyPropagationPolicy, ClearBlocked, Prune, Guard, RecordBlocked,
                Delete, DeletePropagationPolicy, Then, Done, ReplyLost, BlockedRequeue, Goto, Finish, Ends, Publishing
  <2>2. mismatch' = mismatch
    BY <2>1 DEF MCall, Reports, Publishes, Refuses, Removed, Publishing, series
  <2> QED
    BY <1>r, <1>1, <2>1, <2>2 DEF SeriesInv
<1>6. ASSUME step' \in {"policy", "clear"}, Quiet(n)' PROVE publishedAt' = hub'[n].publishedAt
  <2>1. Apply \/ ApplyPropagationPolicy
    BY <1>r, <1>6 DEF PublisherCall, Apply, ApplyPropagationPolicy, ClearBlocked, Prune, Guard, RecordBlocked,
                      Delete, DeletePropagationPolicy, Then, Done, ReplyLost, BlockedRequeue, Goto, Finish
  <2>2. CASE Apply
    <3>1. hub'[n] = Applied(hub[n]) /\ step = "apply"
      BY <1>r, <2>2 DEF Apply, WriteHub, hubVars, TypeOK
    <3>2. Applied(hub[n]).publishedAt = PublishedAt
      BY DEF Applied
    <3> QED
      BY <3>1, <3>2 DEF MCall
  <2>3. CASE ApplyPropagationPolicy
    BY <1>r, <1>h, <1>6, <2>3 DEF ApplyPropagationPolicy, MCall, SeriesInv, Heard
  <2> QED
    BY <2>1, <2>2, <2>3
<1>7. refresh'.stage = "matched" =>
        /\ refresh'.name \in Names
        /\ Quiet(refresh.name)' => source'[refresh'.name] # Absent
  <2>1. CASE ~Ends
    BY <1>r, <1>h, <2>1 DEF MCall, Reports, SeriesInv, Heard
  <2>2. CASE Ends /\ Publishes
    <3>1. refresh' = Left("matched", n) /\ refresh'.name = n
      BY <1>r, <2>2 DEF MCall, Reports, Left
    <3> QED
      BY <1>3, <2>2, <3>1, AbsentAssumption
  <2>3. CASE Ends /\ ~Publishes
    BY <2>3 DEF MCall, Reports, FleetLeft, Left
  <2> QED
    BY <2>1, <2>2, <2>3
<1>8. \A m \in Names : Quiet(m)' /\ (request # m)' => Reported(m)'
  BY <1>2, <1>4
<1>9. step' \in {"policy", "clear"} => request' = n
  BY <1>1 DEF Ends
<1> QED
  BY <1>5, <1>6, <1>7, <1>8, <1>9 DEF SeriesInv

LEMMA CallFailureReports ==
    ASSUME MInv, MCallFails
    PROVE  SeriesInv'
<1>0. /\ MetricsTypeOK /\ SeriesInv /\ CallFails /\ UNCHANGED <<sourceVars, hubVars, policyVars>>
      /\ Finish(TRUE) /\ step' = "idle" /\ refresh'.stage # "matched" /\ request \in Names
      /\ UNCHANGED <<publishedStamp, removalBlocked, matchedClusters, mismatch>>
  BY DEF MInv, MCallFails, CallFails, Untouched, Finish, FleetLeft, Left, series, IInv, WorkerInv
<1>1. ASSUME NEW m \in Names, Quiet(m)' PROVE Reported(m)'
  <2>1. Quiet(m) /\ m # request /\ source'[m] = source[m] /\ hub'[m] = hub[m]
    BY <1>0, <1>1 DEF Finish, Quiet, sourceVars, hubVars, policyVars
  <2>2. SameSeries(m)
    BY <1>0 DEF SameSeries, Blocked
  <2> QED
    BY <1>0, <2>1, <2>2, StillReported DEF SeriesInv
<1> QED
  BY <1>0, <1>1 DEF SeriesInv, Publishing

\* A new process reports nothing, and is woken for all there is to report.
LEMMA RestartReports ==
    ASSUME MRestart
    PROVE  SeriesInv'
<1>1. ASSUME NEW m \in Names, Quiet(m)' PROVE Reported(m)'
  <2>1. source'[m] = Absent /\ hub'[m] = Absent
    BY <1>1 DEF MRestart, Restart, Quiet
  <2>2. /\ publishedStamp'[m] = Absent /\ matchedClusters'[m] = Absent
        /\ Blocked(m)' = {} /\ m \notin mismatch'
    BY DEF MRestart, NoSeries, Blocked
  <2> QED
    BY <2>1, <2>2 DEF Reported, Publishable
<1> QED
  BY <1>1 DEF SeriesInv, MRestart, Restart, Publishing, NothingLeft, Left

-----------------------------------------------------------------------------
(* The invariant, and what follows from it.                                *)

LEMMA MInitInv == MInit => MInv
<1> SUFFICES ASSUME MInit PROVE MInv
  OBVIOUS
<1>1. IInv /\ WakeInv
  BY InitInv, InitWake DEF MInit
<1>2. MetricsTypeOK
  <2>1. NobodyCounted \in [FleetKinds -> 0 .. Cardinality(Names)]
    BY FiniteAssumption, FS_CardinalityType DEF NobodyCounted, FleetKinds
  <2> QED
    BY <2>1, BoundAssumption DEF MInit, NoSeries, MetricsTypeOK, NothingLeft, Left, Refresh
<1>3. CountInv
  <2> SUFFICES ASSUME NEW kind \in FleetKinds
               PROVE  /\ Cardinality(FleetOf(kind, srcCache, hubCache) \ Busy) <= fleet[kind]
                      /\ fleet[kind] <= Cardinality(FleetOf(kind, srcCache, hubCache) \cup Busy)
    BY DEF CountInv
  <2>1. FleetOf(kind, srcCache, hubCache) = {} /\ Busy = {}
    BY AbsentAssumption DEF MInit, Init, FleetOf, OwnsObject, Busy
  <2>2. fleet[kind] = 0
    BY DEF MInit, NobodyCounted, FleetKinds
  <2>3. FleetOf(kind, srcCache, hubCache) \ Busy = {} /\ FleetOf(kind, srcCache, hubCache) \cup Busy = {}
    BY <2>1
  <2> QED
    BY <2>2, <2>3, FS_EmptySet
<1>4. SeriesInv
  BY DEF MInit, Init, SeriesInv, Reported, NoSeries, Blocked, Publishable, Publishing, NothingLeft, Left
<1> QED
  BY <1>1, <1>2, <1>3, <1>4 DEF MInv

LEMMA MStutter == MInv /\ UNCHANGED mvars => MetricsTypeOK' /\ CountInv' /\ SeriesInv'
<1> SUFFICES ASSUME MInv, UNCHANGED mvars PROVE MetricsTypeOK' /\ CountInv' /\ SeriesInv'
  OBVIOUS
<1> USE DEF MInv, mvars, vars, metrics, series, sourceVars, hubVars, policyVars, cacheVars, workerVars
<1>1. MetricsTypeOK' /\ CountInv'
  BY DEF MetricsTypeOK, CountInv, FleetOf, OwnsObject, Busy
<1>2. SeriesInv'
  BY DEF SeriesInv, Reported, Quiet, Publishable, Taken, OwnsObject, Blocked
<1> QED
  BY <1>1, <1>2

LEMMA MStepInv == MInv /\ [MNext]_mvars => MInv'
<1> SUFFICES ASSUME MInv, [MNext]_mvars PROVE MInv'
  OBVIOUS
<1>1. IInv' /\ WakeInv'
  BY MPublisherKeeps DEF MInv
<1>2. CASE UNCHANGED mvars
  BY <1>1, <1>2, MStutter DEF MInv
<1>3. CASE MNext
  <2>1. MetricsTypeOK' /\ CountInv'
    BY <1>3, MetricsTypeStep, CountStep
  <2>2. SeriesInv'
    BY <1>3, OthersReportNothing, BeginReports, CallReports, CallFailureReports, RefreshReports, RestartReports
       DEF MNext
  <2> QED
    BY <1>1, <2>1, <2>2 DEF MInv
<1> QED
  BY <1>2, <1>3

LEMMA MInvariance == MSpec => []MInv
BY MInitInv, MStepInv, PTL DEF MSpec

\* Every state of the publisher's gauges is well formed.
THEOREM MetricsTypeCorrect == MSpec => []MetricsTypeOK
<1>1. MInv => MetricsTypeOK
  BY DEF MInv
<1> QED
  BY MInvariance, <1>1, PTL

\* The counts of the fleet are never wrong by more than the names that are under
\* way: for every number of names and clusters, and whatever was delivered or
\* restarted when.
THEOREM FleetIsKnown == MSpec => []FleetKnown
<1>1. MInv => FleetKnown
  <2> DEFINE underway == {n \in Names : Underway(n)}
  <2> SUFFICES ASSUME MInv, refresh = NothingLeft, NEW kind \in FleetKinds
               PROVE  /\ Cardinality(FleetOf(kind, source, hub) \ underway) <= fleet[kind]
                      /\ fleet[kind] <= Cardinality(FleetOf(kind, source, hub) \cup underway)
    BY DEF FleetKnown
  <2> DEFINE true == FleetOf(kind, source, hub)
             seen == FleetOf(kind, srcCache, hubCache)
  <2>1. ASSUME NEW n \in Names, n \notin underway
        PROVE  n \notin Busy /\ srcCache[n] = source[n] /\ hubCache[n] = hub[n]
    BY <2>1 DEF Underway, Busy, MInv, WakeInv, Watched, CatchesUp, IInv, TypeOK
  <2>2. \A n \in Names \ underway : n \notin Busy /\ (n \in true <=> n \in seen)
    BY <2>1 DEF FleetOf, OwnsObject
  <2>3. /\ true \in SUBSET Names /\ seen \in SUBSET Names
        /\ Busy \in SUBSET Names /\ underway \in SUBSET Names
    BY DEF FleetOf, Busy
  <2>4. fleet[kind] \in Nat /\ Cardinality(Names) \in Nat
    BY CountType DEF MInv, MetricsTypeOK
  <2>5. Cardinality(seen \ Busy) <= fleet[kind] /\ fleet[kind] <= Cardinality(seen \cup Busy)
    BY DEF MInv, CountInv
  <2> HIDE DEF true, seen, underway
  <2>6. /\ seen \ Busy \in SUBSET Names /\ true \ underway \in SUBSET (seen \ Busy)
        /\ true \cup underway \in SUBSET Names /\ seen \cup Busy \in SUBSET (true \cup underway)
    BY <2>2, <2>3
  <2>7. Cardinality(true \ underway) <= fleet[kind]
    BY <2>4, <2>5, <2>6, SubsetsCount
  <2>8. fleet[kind] <= Cardinality(true \cup underway)
    BY <2>4, <2>5, <2>6, SubsetsCount
  <2> QED
    BY <2>7, <2>8 DEF true, underway
<1> QED
  BY MInvariance, <1>1, PTL

\* Nothing is misreported of a name about which nothing is on its way to the
\* worker, whichever reconciles, failures and restarts came before.
THEOREM NothingIsMisreported == MSpec => []NothingMisreported
<1>1. MInv => NothingMisreported
  BY MisreportedOrNot DEF MInv, SeriesInv
<1> QED
  BY MInvariance, <1>1, PTL
=============================================================================
