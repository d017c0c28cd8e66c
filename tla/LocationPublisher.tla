-------------------------- MODULE LocationPublisher --------------------------
(***************************************************************************)
(* The location publisher: one worker copies the Locations of a control    *)
(* plane to a federation hub, as one ServingLocation (the copy) and one    *)
(* ClusterPropagationPolicy per Location, and takes them away again when   *)
(* the Location is gone and no cluster serves it any more.                 *)
(*                                                                         *)
(* The worker READS informer caches, which trail the API servers by the    *)
(* watch events still in flight, and WRITES to the hub itself.  Between    *)
(* two of its calls anything else may happen: Locations are edited, other  *)
(* actors write the hub, clusters are relabelled, a call fails or its      *)
(* reply is lost, the process restarts.  One call is one step here.        *)
(***************************************************************************)
EXTENDS Integers, Sequences, Watches

CONSTANTS
    Names,          \* names of Locations, and so of their copies and policies
    Clusters,       \* the clusters registered with the hub
    Topologies,     \* what spec.topology may hold
    Blank,          \* topologies whose city code is missing or only spaces
    Padded,         \* topologies whose city code has spaces around it
    Absent,         \* no such object
    Unlabelled,     \* a cluster with no location label, or an empty one
    Resync,         \* whether the safety resync ever comes due
    Disturbances,   \* kinds of interference this instance allows
    MaxGeneration,  \* bound on metadata.generation
    MaxClock,       \* bound on the clock
    MaxLag,         \* bound on the events in flight on one watch
    MaxDisturbances \* bound on the number of interferences

Kinds == {"create", "edit", "delete", "hub", "override", "policy", "cluster", "fault", "crash"}

ASSUME TopologyAssumption == Blank \subseteq Topologies /\ Padded \subseteq Topologies \ Blank
ASSUME BoundAssumption ==
    /\ MaxGeneration \in Nat \ {0}
    /\ MaxClock \in Nat
    /\ MaxLag \in Nat \ {0}
    /\ MaxDisturbances \in Nat
    /\ Resync \in BOOLEAN
    /\ Disturbances \subseteq Kinds
ASSUME UnlabelledAssumption == Unlabelled \notin Names

-----------------------------------------------------------------------------
(* Objects.                                                                *)

Location == [generation : 1 .. MaxGeneration, topology : Topologies]

Reasons == {"", "ClustersStillServing", "FleetNotFullyLabelled"}

\* What the removal-blocked annotation says; reason "" is no annotation.
Decision == [reason : Reasons, clusters : SUBSET Clusters]
NotBlocked == [reason |-> "", clusters |-> {}]

Copy ==
    [topology    : Topologies,             \* the keys the publisher writes
     foreignKey  : BOOLEAN,                \* a topology key someone else added
     generation  : 0 .. MaxGeneration,     \* spec.source.generation
     publishedAt : 0 .. MaxClock,          \* spec.source.publishedAt
     owned       : BOOLEAN,                \* carries the managed-by label
     blocked     : Decision,               \* the removal-blocked annotation
     override    : BOOLEAN]                \* removal-override = "true"

ASSUME AbsentAssumption == Absent \notin Location /\ Absent \notin Copy /\ Absent \notin Names

Cluster == [ready : BOOLEAN, label : Names \cup {Unlabelled}]

VARIABLES
    source,      \* the Locations of the source control plane
    srcWatch,    \* source events on their way to the cache, oldest first
    srcCache,    \* the publisher's cache of Locations
    hub,         \* the ServingLocations on the hub
    hubWatch,    \* hub events on their way to the cache, oldest first
    hubCache,    \* the publisher's cache of ServingLocations
    policy,      \* the ClusterPropagationPolicy of each name
    policyWatch, \* names whose policy changed and whose event is in flight
    clusters,    \* the hub's clusters; read live, never watched
    clock,       \* time.Now()
    queue,       \* the names the workqueue holds
    step,        \* the call the worker makes next
    request,     \* the name it is reconciling
    location,    \* the Location it read from the cache
    published,   \* the copy it read from the cache
    steady,      \* history: clusters untouched since this reconcile began
    grounds,     \* history: this reconcile saw grounds to believe a Location is gone
    budget       \* interferences left

sourceVars == <<source, srcWatch>>
hubVars    == <<hub, hubWatch>>
policyVars == <<policy, policyWatch>>
cacheVars  == <<srcCache, hubCache>>
workerVars == <<step, request, location, published>>
historyVars == <<steady, grounds>>
vars == <<sourceVars, hubVars, policyVars, cacheVars, workerVars, historyVars, clusters, clock, queue, budget>>

Steps == {"idle", "apply", "policy", "clear", "prune", "guard", "record", "delete", "deletePolicy"}

TypeOK ==
    /\ source \in [Names -> Location \cup {Absent}]
    /\ srcCache \in [Names -> Location \cup {Absent}]
    /\ srcWatch \in Seq([name : Names, object : Location \cup {Absent}])
    /\ hub \in [Names -> Copy \cup {Absent}]
    /\ hubCache \in [Names -> Copy \cup {Absent}]
    /\ hubWatch \in Seq([name : Names, object : Copy \cup {Absent}])
    /\ policy \in [Names -> {"absent", "applied", "altered"}]
    /\ policyWatch \subseteq Names
    /\ clusters \in [Clusters -> Cluster]
    /\ clock \in 0 .. MaxClock
    /\ queue \subseteq Names
    /\ step \in Steps
    /\ request \in Names \cup {Absent}
    /\ location \in Location \cup {Absent}
    /\ published \in Copy \cup {Absent}
    /\ steady \subseteq Clusters
    /\ grounds \in BOOLEAN
    /\ budget \in 0 .. MaxDisturbances

Init ==
    /\ source = [n \in Names |-> Absent] /\ srcCache = source /\ srcWatch = <<>>
    /\ hub = [n \in Names |-> Absent] /\ hubCache = hub /\ hubWatch = <<>>
    /\ policy = [n \in Names |-> "absent"] /\ policyWatch = {}
    /\ clusters \in [Clusters -> Cluster]
    /\ clock = 0
    /\ queue = {}
    /\ step = "idle" /\ request = Absent /\ location = Absent /\ published = Absent
    /\ steady = Clusters /\ grounds = FALSE
    /\ budget = MaxDisturbances

-----------------------------------------------------------------------------
(* Writes and the events they cause.  A write that changes nothing bumps   *)
(* no resourceVersion and causes no event.                                 *)

Event(n, object) == [name |-> n, object |-> object]

WriteSource(n, object) ==
    /\ Len(srcWatch) < MaxLag
    /\ source' = [source EXCEPT ![n] = object]
    /\ srcWatch' = Append(srcWatch, Event(n, object))

WriteHub(n, object) ==
    IF object = hub[n] THEN UNCHANGED hubVars
    ELSE /\ Len(hubWatch) < MaxLag
         /\ hub' = [hub EXCEPT ![n] = object]
         /\ hubWatch' = Append(hubWatch, Event(n, object))

WritePolicy(n, value) ==
    /\ policy' = [policy EXCEPT ![n] = value]
    /\ policyWatch' = IF value = policy[n] THEN policyWatch ELSE policyWatch \cup {n}

Disturb(kind) ==
    /\ kind \in Disturbances
    /\ budget > 0
    /\ budget' = budget - 1

-----------------------------------------------------------------------------
(* Everybody else: the people and programs that own the source, edit the   *)
(* hub and relabel clusters.                                               *)

CreateLocation(n) ==
    /\ Disturb("create")
    /\ source[n] = Absent
    /\ \E t \in Topologies : WriteSource(n, [generation |-> 1, topology |-> t])
    /\ UNCHANGED <<hubVars, policyVars, cacheVars, workerVars, historyVars, clusters, clock, queue>>

EditLocation(n) ==
    /\ Disturb("edit")
    /\ source[n] # Absent
    /\ source[n].generation < MaxGeneration
    /\ \E t \in Topologies :
         WriteSource(n, [generation |-> source[n].generation + 1, topology |-> t])
    /\ UNCHANGED <<hubVars, policyVars, cacheVars, workerVars, historyVars, clusters, clock, queue>>

DeleteLocation(n) ==
    /\ Disturb("delete")
    /\ source[n] # Absent
    /\ WriteSource(n, Absent)
    /\ UNCHANGED <<hubVars, policyVars, cacheVars, workerVars, historyVars, clusters, clock, queue>>

Stranger(t) ==
    [topology |-> t, foreignKey |-> FALSE, generation |-> 0, publishedAt |-> 0,
     owned |-> FALSE, blocked |-> NotBlocked, override |-> FALSE]

\* What someone with write access to the hub makes of a ServingLocation.
MeddledHub(n) ==
    IF hub[n] = Absent THEN {Stranger(t) : t \in Topologies \ Blank}
    ELSE {Absent,
          [hub[n] EXCEPT !.owned = FALSE],
          [hub[n] EXCEPT !.foreignKey = TRUE]}
         \cup {[hub[n] EXCEPT !.topology = t] : t \in Topologies \ Blank}

MeddleHub(n) ==
    /\ Disturb("hub")
    /\ \E object \in MeddledHub(n) \ {hub[n]} : WriteHub(n, object)
    /\ UNCHANGED <<sourceVars, policyVars, cacheVars, workerVars, historyVars, clusters, clock, queue>>

\* The runbook's way past the guard, and back.
AnnotateOverride(n) ==
    /\ Disturb("override")
    /\ hub[n] # Absent
    /\ WriteHub(n, [hub[n] EXCEPT !.override = ~@])
    /\ UNCHANGED <<sourceVars, policyVars, cacheVars, workerVars, historyVars, clusters, clock, queue>>

MeddlePolicy(n) ==
    /\ Disturb("policy")
    /\ policy[n] # "absent"
    /\ \E value \in {"absent", "altered"} : WritePolicy(n, value)
    /\ UNCHANGED <<sourceVars, hubVars, cacheVars, workerVars, historyVars, clusters, clock, queue>>

ClusterChange(c) ==
    /\ Disturb("cluster")
    /\ \E v \in Cluster \ {clusters[c]} : clusters' = [clusters EXCEPT ![c] = v]
    /\ steady' = IF step = "idle" THEN steady ELSE steady \ {c}
    /\ UNCHANGED <<sourceVars, hubVars, policyVars, cacheVars, workerVars, grounds, clock, queue>>

Tick ==
    /\ clock < MaxClock
    /\ clock' = clock + 1
    /\ UNCHANGED <<sourceVars, hubVars, policyVars, cacheVars, workerVars, historyVars, clusters, queue, budget>>

Interference ==
    \/ \E n \in Names : CreateLocation(n) \/ EditLocation(n) \/ DeleteLocation(n)
                        \/ MeddleHub(n) \/ AnnotateOverride(n) \/ MeddlePolicy(n)
    \/ \E c \in Clusters : ClusterChange(c)
    \/ Tick

-----------------------------------------------------------------------------

OwnsObject(object) == object # Absent /\ object.owned

\* History: these caches hold some Location, or no copy.
Grounds(locations, copies) ==
    \/ \E n \in Names : locations[n] # Absent
    \/ \A n \in Names : ~OwnsObject(copies[n])

(* The watches: an event updates the cache, then enqueues its name.        *)

EnqueueByName(n) == queue' = queue \cup {n}

\* Mutant: the policies are not watched.
EnqueuePolicyNever(n) == queue' = queue

EnqueuePolicyOwner(n) == queue' = queue \cup {n}

DeliverSource ==
    /\ srcWatch # <<>>
    /\ LET e == Head(srcWatch) IN
         /\ srcCache' = [srcCache EXCEPT ![e.name] = e.object]
         /\ EnqueueByName(e.name)
         /\ grounds' = (grounds \/ (step # "idle" /\ Grounds(srcCache', hubCache)))
    /\ srcWatch' = Tail(srcWatch)
    /\ UNCHANGED <<source, hubCache, hubVars, policyVars, workerVars, steady, clusters, clock, budget>>

DeliverHub ==
    /\ hubWatch # <<>>
    /\ LET e == Head(hubWatch) IN
         /\ hubCache' = [hubCache EXCEPT ![e.name] = e.object]
         /\ EnqueueByName(e.name)
         /\ grounds' = (grounds \/ (step # "idle" /\ Grounds(srcCache, hubCache')))
    /\ hubWatch' = Tail(hubWatch)
    /\ UNCHANGED <<hub, srcCache, sourceVars, policyVars, workerVars, steady, clusters, clock, budget>>

DeliverPolicy ==
    /\ \E n \in policyWatch :
         /\ policyWatch' = policyWatch \ {n}
         /\ EnqueuePolicyOwner(n)
    /\ UNCHANGED <<policy, cacheVars, sourceVars, hubVars, workerVars, historyVars, clusters, clock, budget>>

-----------------------------------------------------------------------------
(* The worker.  A reconcile starts by reading both caches; each later call *)
(* is a step of its own.  It ends idle, with the name requeued if the code *)
(* returned an error or asked for a requeue.                               *)

Untouched == <<sourceVars, hubVars, policyVars, cacheVars, clusters, clock>>

Begin(n, next) ==
    /\ step = "idle"
    /\ n \in queue
    /\ queue' = queue \ {n}
    /\ step' = next
    /\ request' = n
    /\ location' = srcCache[n]
    /\ published' = hubCache[n]
    /\ grounds' = Grounds(srcCache, hubCache)
    /\ UNCHANGED <<Untouched, steady, budget>>

\* Return without writing anything and without a requeue.
Skip(n) ==
    /\ step = "idle"
    /\ n \in queue
    /\ queue' = queue \ {n}
    /\ UNCHANGED <<Untouched, workerVars, historyVars, budget>>

Goto(next) ==
    /\ step' = next
    /\ UNCHANGED <<request, location, queue, historyVars>>

Finish(requeued) ==
    /\ step' = "idle" /\ request' = Absent /\ location' = Absent /\ published' = Absent
    /\ steady' = Clusters /\ grounds' = FALSE
    /\ queue' = queue \cup (IF requeued THEN {request} ELSE {})

\* How a write ends: its reply arrives and the reconcile goes on, or the
\* reply is lost and the reconcile returns an error.
ReplyLost == Disturb("fault") /\ Finish(TRUE)
Then(next) ==
    \/ Goto(next) /\ UNCHANGED <<published, budget>>
    \/ ReplyLost
Done(requeued) ==
    \/ Finish(requeued) /\ UNCHANGED budget
    \/ ReplyLost

-----------------------------------------------------------------------------
(* publish                                                                 *)

BeginPublish(n) ==
    /\ srcCache[n] # Absent
    /\ srcCache[n].topology \notin Blank
    /\ hubCache[n] = Absent \/ OwnsObject(hubCache[n])
    /\ Begin(n, "apply")

\* No city code, or a hub object of this name that someone else created.
RefusePublish(n) ==
    /\ srcCache[n] # Absent
    /\ \/ srcCache[n].topology \in Blank
       \/ hubCache[n] # Absent /\ ~OwnsObject(hubCache[n])
    /\ Skip(n)

\* Compares the copy's city code as it is with the Location's trimmed one,
\* and the number of keys before the keys.
PublishedContentEqual(copy, loc) ==
    /\ copy.generation = loc.generation
    /\ loc.topology \notin Padded
    /\ ~copy.foreignKey
    /\ copy.topology = loc.topology

\* Mutants: every publish restamps; the stamp is ahead of the clock.
PublishedAtNow == clock
PublishedAtNext == clock + 1

PublishedAt ==
    IF published # Absent /\ PublishedContentEqual(published, location)
    THEN published.publishedAt ELSE clock

\* Forced server-side apply: the publisher's fields are set on whatever
\* object is there; annotations and other people's keys stay.
Applied(object) ==
    [topology    |-> location.topology,
     foreignKey  |-> object # Absent /\ object.foreignKey,
     generation  |-> location.generation,
     publishedAt |-> PublishedAt,
     owned       |-> TRUE,
     blocked     |-> IF object = Absent THEN NotBlocked ELSE object.blocked,
     override    |-> object # Absent /\ object.override]

Apply ==
    /\ step = "apply"
    /\ WriteHub(request, Applied(hub[request]))
    /\ Then("policy")
    /\ UNCHANGED <<sourceVars, policyVars, cacheVars, clusters, clock>>

\* Mutant: the annotation outlives the removal it was about.
CarriesNothing == FALSE

CarriesBlocked == published # Absent /\ published.blocked # NotBlocked

\* Mutant: nothing is published again for having become old.
NeverResync == FALSE

SafetyResync == Resync

\* The policy, and then the return when there is no annotation to clear.
ApplyPropagationPolicy ==
    /\ step = "policy"
    /\ WritePolicy(request, "applied")
    /\ IF CarriesBlocked THEN Then("clear") ELSE Done(SafetyResync)
    /\ UNCHANGED <<sourceVars, hubVars, cacheVars, clusters, clock>>

\* A merge patch of one annotation: it fails if the object is gone.
ClearBlocked ==
    /\ step = "clear"
    /\ IF hub[request] = Absent
       THEN UNCHANGED <<hubVars, budget>> /\ Finish(TRUE)
       ELSE WriteHub(request, [hub[request] EXCEPT !.blocked = NotBlocked]) /\ Done(SafetyResync)
    /\ UNCHANGED <<sourceVars, policyVars, cacheVars, clusters, clock>>

-----------------------------------------------------------------------------
(* remove                                                                  *)

\* Mutant: no ownership check on removal.
BeginRemoveAny(n) ==
    /\ srcCache[n] = Absent
    /\ hubCache[n] # Absent
    /\ Begin(n, "prune")

BeginRemove(n) ==
    /\ srcCache[n] = Absent
    /\ OwnsObject(hubCache[n])
    /\ Begin(n, "prune")

\* Nothing published as far as the cache knows, or not ours to remove.
NothingToRemove(n) ==
    /\ srcCache[n] = Absent
    /\ ~OwnsObject(hubCache[n])
    /\ Skip(n)

\* Mutant: an empty source list is believed.
PruneAlways == TRUE

\* An empty source list is not grounds while copies are held.
PruneAllowed ==
    \/ \E n \in Names : srcCache[n] # Absent
    \/ \A n \in Names : ~OwnsObject(hubCache[n])

\* Mutant: a removal that was refused is not tried again.
BlockedForGood == Finish(FALSE)

BlockedRequeue == Finish(TRUE)

Prune ==
    /\ step = "prune"
    /\ IF PruneAllowed
       THEN Goto(IF published.override THEN "delete" ELSE "guard") /\ UNCHANGED published
       ELSE BlockedRequeue
    /\ UNCHANGED <<Untouched, budget>>

StillServing(n) == {c \in Clusters : clusters[c].ready /\ clusters[c].label = n}
NotLabelled == {c \in Clusters : clusters[c].ready /\ clusters[c].label = Unlabelled}

\* Mutant: clusters without a label are taken for clusters that serve nowhere.
EvaluateLabelledOnly(n) ==
    IF StillServing(n) # {}
    THEN [reason |-> "ClustersStillServing", clusters |-> StillServing(n)]
    ELSE NotBlocked

EvaluateRemovalGuard(n) ==
    IF StillServing(n) # {}
    THEN [reason |-> "ClustersStillServing", clusters |-> StillServing(n)]
    ELSE IF NotLabelled # {}
    THEN [reason |-> "FleetNotFullyLabelled", clusters |-> NotLabelled]
    ELSE NotBlocked

\* A live list of the clusters.  A refusal already recorded on the copy the
\* cache holds is not written again.
Guard ==
    /\ step = "guard"
    /\ LET decision == EvaluateRemovalGuard(request) IN
         \/ decision = NotBlocked /\ Goto("delete") /\ UNCHANGED published
         \/ /\ decision # NotBlocked
            /\ decision # published.blocked
            /\ Goto("record")
            /\ published' = [published EXCEPT !.blocked = decision]
         \/ /\ decision # NotBlocked
            /\ decision = published.blocked
            /\ BlockedRequeue
    /\ UNCHANGED <<Untouched, budget>>

\* A merge patch of one annotation: it fails if the object is gone.
RecordBlocked ==
    /\ step = "record"
    /\ IF hub[request] = Absent
       THEN UNCHANGED <<hubVars, budget>> /\ Finish(TRUE)
       ELSE /\ WriteHub(request, [hub[request] EXCEPT !.blocked = published.blocked])
            /\ Done(TRUE)
    /\ UNCHANGED <<sourceVars, policyVars, cacheVars, clusters, clock>>

\* Mutant: a delete whose reply is lost is sent again by itself.
DeleteInPlace ==
    /\ step = "delete"
    /\ WriteHub(request, Absent)
    /\ Goto("deletePolicy") \/ Goto("delete")
    /\ UNCHANGED <<published, budget, sourceVars, policyVars, cacheVars, clusters, clock>>

\* By name and without a precondition, whatever is there by now.
Delete ==
    /\ step = "delete"
    /\ WriteHub(request, Absent)
    /\ Then("deletePolicy")
    /\ UNCHANGED <<sourceVars, policyVars, cacheVars, clusters, clock>>

DeletePropagationPolicy ==
    /\ step = "deletePolicy"
    /\ WritePolicy(request, "absent")
    /\ Done(FALSE)
    /\ UNCHANGED <<sourceVars, hubVars, cacheVars, clusters, clock>>

-----------------------------------------------------------------------------
(* Failure                                                                 *)

\* Mutant: a call that failed is given up.
CallFailsForGood ==
    /\ step \in Steps \ {"idle", "prune"}
    /\ Disturb("fault")
    /\ Finish(FALSE)
    /\ UNCHANGED Untouched

\* The call the worker is making fails before it has any effect.
CallFails ==
    /\ step \in Steps \ {"idle", "prune"}
    /\ Disturb("fault")
    /\ Finish(TRUE)
    /\ UNCHANGED Untouched

\* The process dies and starts again: the caches are listed afresh, which
\* enqueues every object they find, before the worker starts.
Restart ==
    /\ Disturb("crash")
    /\ srcCache' = source /\ srcWatch' = <<>>
    /\ hubCache' = hub /\ hubWatch' = <<>>
    /\ policyWatch' = {}
    /\ queue' = {n \in Names : source[n] # Absent \/ hub[n] # Absent \/ policy[n] # "absent"}
    /\ step' = "idle" /\ request' = Absent /\ location' = Absent /\ published' = Absent
    /\ steady' = Clusters /\ grounds' = FALSE
    /\ UNCHANGED <<source, hub, policy, clusters, clock>>

-----------------------------------------------------------------------------

BeginReconcile(n) ==
    BeginPublish(n) \/ RefusePublish(n) \/ BeginRemove(n) \/ NothingToRemove(n)

PublisherCall ==
    \/ Apply \/ ApplyPropagationPolicy \/ ClearBlocked
    \/ Prune \/ Guard \/ RecordBlocked \/ Delete \/ DeletePropagationPolicy

Publisher == (\E n \in Names : BeginReconcile(n)) \/ PublisherCall

Next ==
    \/ Interference
    \/ DeliverSource \/ DeliverHub \/ DeliverPolicy
    \/ Publisher
    \/ CallFails
    \/ Restart

Spec == Init /\ [][Next]_vars

\* Watches deliver, calls return, and the workqueue starves no name.  Nothing
\* is asked of the interference, the faults and the clock.
Fairness ==
    /\ WF_vars(DeliverSource) /\ WF_vars(DeliverHub) /\ WF_vars(DeliverPolicy)
    /\ WF_vars(PublisherCall)
    /\ \A n \in Names : SF_vars(BeginReconcile(n))

FairSpec == Spec /\ Fairness

-----------------------------------------------------------------------------
(* What the publisher must do.                                             *)

\* The worker takes away the copy of n in this step.
Removes(n) == PublisherCall /\ hub[n] # Absent /\ hub'[n] = Absent

\* A copy whose override the worker did not see is never taken away while a
\* Ready cluster that has not changed since the reconcile began carries its
\* name, or carries no location label at all (evaluateRemovalGuard): no
\* interleaving of the worker's own calls loses the guard's answer.
GuardHonoured ==
    [][\A n \in Names : Removes(n) /\ ~published.override =>
         \A c \in steady : ~(clusters[c].ready /\ clusters[c].label \in {n, Unlabelled})]_vars

\* No copy is taken away by a reconcile during which the cached source list
\* was empty all along while the cache held copies: a source that suddenly
\* lists nothing empties no hub, whatever the override says (pruneAllowed).
EmptyListNotBelieved == [][\A n \in Names : Removes(n) => grounds]_vars

\* The worker changes an object without the managed-by label only if the
\* cache showed it none, or showed it a labelled one, when the reconcile
\* began: a stranger's object the cache knows is left alone (ownsObject).
NoBlindWrite ==
    [][\A n \in Names :
         PublisherCall /\ hub[n] # Absent /\ ~OwnsObject(hub[n]) /\ hub'[n] # hub[n]
            => published = Absent \/ OwnsObject(published)]_vars

Content(copy) == [topology |-> copy.topology, generation |-> copy.generation]

\* When the copy was read as it still is, publishing it again moves its
\* publishedAt exactly when its content changes, and then to the present;
\* padded city codes and foreign topology keys apart (publishedContentEqual).
StampTracksContent ==
    [][\A n \in Names :
         /\ Apply /\ request = n
         /\ hub[n] # Absent /\ hub[n] = published
         /\ ~published.foreignKey /\ location.topology \notin Padded
         => IF Content(hub'[n]) = Content(hub[n])
            THEN hub'[n].publishedAt = hub[n].publishedAt
            ELSE hub'[n].publishedAt = clock]_vars

Publishable(n) == source[n] # Absent /\ source[n].topology \notin Blank

\* The hub holds exactly what the source says of n, the policy that carries it
\* to the cells, and no notice of a removal that is no longer wanted.
Current(n) ==
    /\ OwnsObject(hub[n])
    /\ Content(hub[n]) = [topology |-> source[n].topology, generation |-> source[n].generation]
    /\ hub[n].blocked = NotBlocked
    /\ policy[n] = "applied"

\* A stranger's object holds the name.
Taken(n) == hub[n] # Absent /\ ~OwnsObject(hub[n])

\* Once the interference stops, every Location with a city code is published
\* as it is and stays so, unless its name is taken by a stranger's object;
\* through stale caches, overwritten copies, failed calls and restarts, and
\* with no help from the safety resync where Resync is FALSE.
LiveLocationsPublished ==
    \A n \in Names : <>[](Publishable(n) => Current(n) \/ Taken(n))

\* Something will make the worker look at n again.
Awaited(n) ==
    \/ n \in queue \/ request = n \/ n \in policyWatch
    \/ InFlight(srcWatch, n) \/ InFlight(hubWatch, n)

\* No wake-up is ever lost: a Location whose publication is missing, outdated or
\* altered, and a copy whose Location is gone, is queued, being reconciled or
\* about to be enqueued by an event.  The resync is not needed for it, and no
\* cache that lags, reconcile that overlaps an edit, lost reply or restart
\* leaves a name behind (Reconcile and the watches of SetupWithManager).
NothingForgotten ==
    \A n \in Names :
      /\ Publishable(n) /\ ~Taken(n) /\ ~Current(n) => Awaited(n)
      /\ source[n] = Absent /\ OwnsObject(hub[n]) => Awaited(n)

\* Why a copy without a Location is still there.
Retained(n) ==
    \/ \A m \in Names : source[m] = Absent
    \/ /\ ~hub[n].override
       /\ EvaluateRemovalGuard(n) # NotBlocked
       /\ hub[n].blocked = EvaluateRemovalGuard(n)

\* Once the interference stops, a copy whose Location is gone goes too, or is
\* kept for a reason that still holds, and then its annotation names that
\* reason and the clusters that are the cause (recordBlocked).
RemovalsResolved ==
    \A n \in Names : <>[](source[n] = Absent /\ OwnsObject(hub[n]) => Retained(n))

-----------------------------------------------------------------------------
(* What the repository says and the code does not always keep: README.md,  *)
(* section 3.                                                              *)

\* A copy and a policy "per source Location": once the interference stops, no
\* policy is left for a name that has neither a Location nor a copy.
NoOrphanPolicy ==
    \A n \in Names : <>[](source[n] = Absent /\ hub[n] = Absent => policy[n] = "absent")

\* No copy without the managed-by label is ever taken away by the publisher:
\* "The publisher only ever deletes objects carrying it".
OnlyLabelledDeleted == [][\A n \in Names : Removes(n) => OwnsObject(hub[n])]_vars

\* "A copy that is re-checked but not changed keeps its original timestamp."
StampKeptWhenUnchanged ==
    [][\A n \in Names :
         /\ Apply /\ request = n
         /\ OwnsObject(hub[n])
         /\ Content(hub'[n]) = Content(hub[n])
         => hub'[n].publishedAt = hub[n].publishedAt]_vars

\* The same, and moreover the cache showed the worker the copy as it is.
StampKeptWhenSeen ==
    [][\A n \in Names :
         /\ Apply /\ request = n
         /\ OwnsObject(hub[n]) /\ hub[n] = published
         /\ Content(hub'[n]) = Content(hub[n])
         => hub'[n].publishedAt = hub[n].publishedAt]_vars

\* The same in the end: once a copy's content stays, its timestamp does.
StampSettles ==
    <>[][\A n \in Names :
           /\ OwnsObject(hub[n]) /\ OwnsObject(hub'[n])
           /\ Content(hub'[n]) = Content(hub[n])
           => hub'[n].publishedAt = hub[n].publishedAt]_vars

\* "Everything downstream is a projection of that declaration, never an
\* independent copy."
CopiesAreProjections ==
    \A n \in Names :
      <>[](source[n] # Absent /\ OwnsObject(hub[n])
             => Content(hub[n]) = [topology |-> source[n].topology,
                                   generation |-> source[n].generation])

\* "SafetyResyncPeriod is how often the publisher re-reads both ends and
\* repairs any difference it finds."
DifferencesRepaired ==
    \A n \in Names :
      <>[](source[n] # Absent /\ OwnsObject(hub[n]) => ~hub[n].foreignKey)

\* "The publisher retries on its own and deletes the copy once the guard
\* allows it."
DeletedOnceAllowed ==
    \A n \in Names :
      <>[](source[n] = Absent /\ EvaluateRemovalGuard(n) = NotBlocked => ~OwnsObject(hub[n]))

=============================================================================
