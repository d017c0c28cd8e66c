--------------------------- MODULE PublisherMetrics ---------------------------
(* What the publisher reports of itself: gauges in the memory of its       *)
(* process, set on the way through a reconcile and refreshed at its end,   *)
(* and gone with the process.  The alerts know the publisher by nothing    *)
(* else.  The counter of conflicts only grows and is left out.             *)
EXTENDS LocationPublisher, FiniteSets

VARIABLES
    fleet,           \* locations_publishable, _published and _retained
    publishedStamp,  \* locations_publish_timestamp_seconds; Absent: no series
    removalBlocked,  \* the series of locations_removal_blocked: names and reasons
    matchedClusters, \* locations_matched_clusters; Absent: no series
    mismatch,        \* the series of locations_publish_mismatch
    publishedAt,     \* the timestamp this reconcile published
    refresh          \* what is left to do of a reconcile whose calls are over

series == <<publishedStamp, removalBlocked, matchedClusters, mismatch>>
metrics == <<fleet, series, publishedAt, refresh>>
mvars == <<vars, metrics>>

ASSUME FiniteAssumption == IsFiniteSet(Names) /\ IsFiniteSet(Clusters)

\* "matched": count the clusters of this name, and then the fleet; "fleet":
\* count the fleet; "none": the next reconcile may start.
Refresh == [stage : {"none", "matched", "fleet"}, name : Names \cup {Absent}]
Left(stage, n) == [stage |-> stage, name |-> n]
NothingLeft == Left("none", Absent)
FleetLeft == Left("fleet", Absent)

FleetKinds == {"publishable", "published", "retained"}

MetricsTypeOK ==
    /\ fleet \in [FleetKinds -> 0 .. Cardinality(Names)]
    /\ publishedStamp \in [Names -> 0 .. MaxClock \cup {Absent}]
    /\ removalBlocked \subseteq Names \X (Reasons \ {""})
    /\ matchedClusters \in [Names -> 0 .. Cardinality(Clusters) \cup {Absent}]
    /\ mismatch \subseteq Names
    /\ publishedAt \in 0 .. MaxClock
    /\ refresh \in Refresh

NobodyCounted == [publishable |-> 0, published |-> 0, retained |-> 0]
NoSeries == [n \in Names |-> Absent]

MInit ==
    /\ Init
    /\ fleet = NobodyCounted
    /\ publishedStamp = NoSeries /\ matchedClusters = NoSeries
    /\ removalBlocked = {} /\ mismatch = {}
    /\ publishedAt = 0 /\ refresh = NothingLeft

-----------------------------------------------------------------------------
(* The series of one name.                                                 *)

Blocked(n) == {s \in removalBlocked : s[1] = n}

\* Mutant: a copy that is gone is still said to be kept.
ForgetPublication(n) ==
    /\ publishedStamp' = [publishedStamp EXCEPT ![n] = Absent]
    /\ matchedClusters' = [matchedClusters EXCEPT ![n] = Absent]
    /\ mismatch' = mismatch \ {n}
    /\ UNCHANGED removalBlocked

\* Nothing is published under the name any more.
ForgetSeries(n) ==
    /\ publishedStamp' = [publishedStamp EXCEPT ![n] = Absent]
    /\ removalBlocked' = removalBlocked \ Blocked(n)
    /\ matchedClusters' = [matchedClusters EXCEPT ![n] = Absent]
    /\ mismatch' = mismatch \ {n}

\* A publication went through.
PublishedSeries(n) ==
    /\ publishedStamp' = [publishedStamp EXCEPT ![n] = publishedAt]
    /\ removalBlocked' = removalBlocked \ Blocked(n)
    /\ UNCHANGED <<matchedClusters, mismatch>>

\* Mutant: every refusal is reported for the same reason.
RefusedForServing(n) ==
    /\ removalBlocked' = removalBlocked \cup {<<n, "ClustersStillServing">>}
    /\ UNCHANGED <<publishedStamp, matchedClusters, mismatch>>

\* The guard refused a removal: reported before it is recorded.
RefusedSeries(n) ==
    /\ removalBlocked' = removalBlocked \cup {<<n, EvaluateRemovalGuard(n).reason>>}
    /\ UNCHANGED <<publishedStamp, matchedClusters, mismatch>>

-----------------------------------------------------------------------------
(* A reconcile, with what it reports.                                      *)

\* Even a reconcile that ends at once counts the fleet.
EndedAtOnce(n) == FleetLeft

\* Mutant: the mismatch is cleared after the look at the hub's object.
ClearedIfOurs(n) ==
    IF srcCache[n].topology \in Blank THEN mismatch \cup {n}
    ELSE IF hubCache[n] # Absent /\ ~OwnsObject(hubCache[n]) THEN mismatch
    ELSE mismatch \ {n}

MismatchOf(n) == IF srcCache[n].topology \in Blank THEN mismatch \cup {n} ELSE mismatch \ {n}

MBegin(n) ==
    /\ refresh = NothingLeft
    /\ \/ /\ BeginPublish(n)
          /\ mismatch' = MismatchOf(n)
          /\ UNCHANGED <<publishedStamp, removalBlocked, matchedClusters, refresh>>
       \/ /\ RefusePublish(n)
          /\ mismatch' = MismatchOf(n)
          /\ refresh' = EndedAtOnce(n)
          /\ UNCHANGED <<publishedStamp, removalBlocked, matchedClusters>>
       \/ BeginRemove(n) /\ UNCHANGED <<series, refresh>>
       \/ /\ NothingToRemove(n)
          /\ IF hubCache[n] = Absent THEN ForgetSeries(n) ELSE UNCHANGED series
          /\ refresh' = EndedAtOnce(n)
    /\ UNCHANGED <<fleet, publishedAt>>

\* The call the worker is in returns without an error.
Succeeds == budget' = budget /\ (step \in {"clear", "record"} => hub[request] # Absent)

Ends == step' = "idle"

\* Mutant: an answer of the guard is a refusal.
RefusesAlways == step = "guard"

Publishes == step \in {"policy", "clear"} /\ Ends /\ Succeeds
Refuses == step = "guard" /\ step' # "delete"
Removed == step = "deletePolicy" /\ Succeeds

Reports ==
    /\ \/ Publishes /\ PublishedSeries(request)
       \/ Refuses /\ RefusedSeries(request)
       \/ Removed /\ ForgetSeries(request)
       \/ ~(Publishes \/ Refuses \/ Removed) /\ UNCHANGED series
    /\ refresh' = IF ~Ends THEN refresh
                  ELSE IF Publishes THEN Left("matched", request) ELSE FleetLeft

MCall ==
    /\ PublisherCall
    /\ Reports
    /\ publishedAt' = IF step = "apply" THEN PublishedAt ELSE publishedAt
    /\ UNCHANGED fleet

MCallFails ==
    /\ CallFails
    /\ refresh' = FleetLeft
    /\ UNCHANGED <<fleet, series, publishedAt>>

Matching(n) == {c \in Clusters : clusters[c].ready /\ clusters[c].label = n}

\* A live list, at the end of a publication; if it fails the gauge stays.
RefreshMatchedClusters ==
    /\ refresh.stage = "matched"
    /\ \/ /\ matchedClusters' =
                [matchedClusters EXCEPT ![refresh.name] = Cardinality(Matching(refresh.name))]
          /\ UNCHANGED budget
       \/ Disturb("fault") /\ UNCHANGED matchedClusters
    /\ refresh' = FleetLeft
    /\ UNCHANGED <<Untouched, workerVars, historyVars, queue,
                   fleet, publishedStamp, removalBlocked, mismatch, publishedAt>>

\* Mutants: copies without the managed-by label are counted; a copy that is kept
\* is counted as published.
CountAnybodys(locations, copies) ==
    LET held == {n \in Names : copies[n] # Absent}
        retained == {n \in held : copies[n].blocked # NotBlocked}
    IN  [publishable |-> Cardinality({n \in Names : locations[n] # Absent
                                                    /\ locations[n].topology \notin Blank}),
         published   |-> Cardinality(held \ retained),
         retained    |-> Cardinality(retained)]
CountRetainedTwice(locations, copies) ==
    LET held == {n \in Names : OwnsObject(copies[n])}
        retained == {n \in held : copies[n].blocked # NotBlocked}
    IN  [publishable |-> Cardinality({n \in Names : locations[n] # Absent
                                                    /\ locations[n].topology \notin Blank}),
         published   |-> Cardinality(held),
         retained    |-> Cardinality(retained)]

\* The three counts of a fleet.
FleetCounts(locations, copies) ==
    LET held == {n \in Names : OwnsObject(copies[n])}
        retained == {n \in held : copies[n].blocked # NotBlocked}
    IN  [publishable |-> Cardinality({n \in Names : locations[n] # Absent
                                                    /\ locations[n].topology \notin Blank}),
         published   |-> Cardinality(held \ retained),
         retained    |-> Cardinality(retained)]

\* Counted in the caches, at the end of every reconcile.
RefreshFleetMetrics ==
    /\ refresh.stage = "fleet"
    /\ fleet' = FleetCounts(srcCache, hubCache)
    /\ refresh' = NothingLeft
    /\ UNCHANGED <<vars, series, publishedAt>>

\* The gauges are in memory, and start anew with the process.
MRestart ==
    /\ Restart
    /\ fleet' = NobodyCounted
    /\ publishedStamp' = NoSeries /\ matchedClusters' = NoSeries
    /\ removalBlocked' = {} /\ mismatch' = {}
    /\ publishedAt' = 0 /\ refresh' = NothingLeft

MNext ==
    \/ (Interference \/ DeliverSource \/ DeliverHub \/ DeliverPolicy) /\ UNCHANGED metrics
    \/ \E n \in Names : MBegin(n)
    \/ MCall \/ MCallFails
    \/ RefreshMatchedClusters \/ RefreshFleetMetrics
    \/ MRestart

MSpec == MInit /\ [][MNext]_mvars

\* As in LocationPublisher; and a reconcile ends.
MFairness ==
    /\ WF_mvars(DeliverSource /\ UNCHANGED metrics)
    /\ WF_mvars(DeliverHub /\ UNCHANGED metrics)
    /\ WF_mvars(DeliverPolicy /\ UNCHANGED metrics)
    /\ WF_mvars(MCall \/ RefreshMatchedClusters \/ RefreshFleetMetrics)
    /\ \A n \in Names : SF_mvars(MBegin(n))

FairMSpec == MSpec /\ MFairness

-----------------------------------------------------------------------------
(* What the gauges must tell.                                              *)

\* The names that a count of the fleet is about.
FleetOf(kind, locations, copies) ==
    {n \in Names :
       \/ kind = "publishable" /\ locations[n] # Absent /\ locations[n].topology \notin Blank
       \/ kind = "published" /\ OwnsObject(copies[n]) /\ copies[n].blocked = NotBlocked
       \/ kind = "retained" /\ OwnsObject(copies[n]) /\ copies[n].blocked # NotBlocked}

\* Once the interference stops, the three counts are those of the source and
\* of the hub, so that their difference is the number of Locations that are
\* not published (refreshFleetMetrics).
FleetSettles ==
    <>[](\A kind \in FleetKinds : fleet[kind] = Cardinality(FleetOf(kind, source, hub)))

\* A name whose event is in flight, or which the worker has yet to look at.
Underway(n) == n \in queue \/ request = n \/ InFlight(srcWatch, n) \/ InFlight(hubWatch, n)

\* Between two reconciles and while one is at work, the counts are wrong by no
\* more than the names that are under way: each name that is not is counted as
\* the source and the hub have it.  No count is overtaken by a delivery or lost
\* with a process, even if it was a reconcile of another name, or one without a
\* call, that should have made it (refreshFleetMetrics).
FleetKnown ==
    refresh = NothingLeft =>
      LET underway == {n \in Names : Underway(n)} IN
      \A kind \in FleetKinds :
        /\ Cardinality(FleetOf(kind, source, hub) \ underway) <= fleet[kind]
        /\ fleet[kind] <= Cardinality(FleetOf(kind, source, hub) \cup underway)

\* What the series of a name say is right whenever nothing about the name is on
\* its way to the worker: a missing city code is reported and nothing else is; a
\* published Location has the timestamp its copy carries and no refused removal;
\* and nothing is reported of a name with neither a Location nor a copy.
NothingMisreported ==
    \A n \in Names : ~Awaited(n) =>
      /\ source[n] # Absent => (n \in mismatch <=> source[n].topology \in Blank)
      /\ Publishable(n) /\ ~Taken(n) => publishedStamp[n] = hub[n].publishedAt /\ Blocked(n) = {}
      /\ source[n] = Absent /\ hub[n] = Absent =>
           /\ publishedStamp[n] = Absent /\ matchedClusters[n] = Absent
           /\ Blocked(n) = {} /\ n \notin mismatch

\* Once the interference stops, a copy that the guard keeps is reported as kept
\* for the reason that holds now; so the alert cannot miss it, not even after
\* a restart that found the refusal recorded already.
RefusalsReported ==
    <>[](\A n \in Names :
           /\ source[n] = Absent /\ OwnsObject(hub[n]) /\ ~hub[n].override
           /\ \E m \in Names : source[m] # Absent
           /\ EvaluateRemovalGuard(n) # NotBlocked
           => <<n, EvaluateRemovalGuard(n).reason>> \in removalBlocked)

\* Once the interference stops, a Location that is published as it is has the
\* count of its Ready clusters and, whenever no reconcile of it is under way, the
\* timestamp its copy carries (which need not settle: StampSettles); and no
\* removal of it is reported.  One that has no city code is reported, and only
\* such are.  The count rests on the safety resync: clusters are not watched.
PublicationsReported ==
    <>[](\A n \in Names : source[n] # Absent =>
           /\ n \in mismatch <=> source[n].topology \in Blank
           /\ Publishable(n) /\ Current(n) =>
                /\ request # n => publishedStamp[n] = hub[n].publishedAt
                /\ Resync => matchedClusters[n] = Cardinality(Matching(n))
                /\ Blocked(n) = {})

\* Once the interference stops, nothing is reported of a name that has neither
\* a Location nor a copy.
NothingReportedOfNothing ==
    <>[](\A n \in Names : source[n] = Absent /\ hub[n] = Absent =>
           /\ publishedStamp[n] = Absent /\ matchedClusters[n] = Absent
           /\ Blocked(n) = {} /\ n \notin mismatch)

-----------------------------------------------------------------------------
(* What the repository says and the code does not always keep: README.md,  *)
(* section 3.                                                              *)

\* "locations_removal_blocked exists only while a removal is blocked": once the
\* interference stops, no series names a reason for which the guard does not
\* refuse.
SeriesOnlyWhileBlocked ==
    <>[](\A s \in removalBlocked : source[s[1]] = Absent /\ EvaluateRemovalGuard(s[1]).reason = s[2])
=============================================================================
