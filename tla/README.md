# Specifications of milo-os/locations

TLA+ models of the operator that keeps the registry of locations, the TLC runs
that check them on small instances, and the proofs TLAPS checks for every
instance. The reference is the code; `PROJECT.json` maps each definition to the
lines it stands for, and lists the runs, the mutants of the code each property
catches, the findings, the hazards and the theorems.

    tlc -workers 2 -config publisher_removal.cfg MCPublisherProjection.tla
    tlapm LocationPublisherProofs.tla

## 1. The system

One operator process runs up to four reconcilers. Each has a workqueue of names
and one worker; each reads informer caches, which trail the API servers, and
writes to the API servers directly. They share objects, never memory, except for
the one cache of the manager.

| Component | Code | State it keeps | Operations |
|---|---|---|---|
| Location publisher | `location_publisher_controller.go` | caches of the source's Locations and of the hub's ServingLocations; on the hub, one ServingLocation (the copy) and one ClusterPropagationPolicy per Location, and the removal-blocked annotation | publish, remove, the prune check, the removal guard, record and clear a refusal |
| Location class controller | `location_class_controller.go` | a finalizer and a blocked annotation on every LocationClass | hold, release |
| Location readiness | `location_readiness_controller.go` | the Ready condition of claimed Locations, `locations_ready` | claim, evaluate, report |
| Class acceptance | same file, second reconciler | the Accepted condition of claimed classes, `locations_class_accepted` | accept |
| Cell identity | `pkg/locationidentity` | none; a pure function of what was delivered to a cell and its configuration | Resolve |
| Publisher metrics | `metrics.go`, `refreshFleetMetrics`, `refreshMatchedClusters` | seven gauges in the memory of the process, which the alerts read | set, delete, count |
| Operator | `cmd/locations`, `internal/config` | configuration read once, leader election | start, hand over |
| API types, roles, manifests, alerts | `api/`, `config/` | none | none |

How they interact. A Location created in the source control plane is published
to the federation hub; its policy makes Karmada carry the copy to every cluster
labelled with the Location's name; a service on such a cell asks Resolve which
location it serves. Deletion runs the other way, but only when the source list
can be believed and no Ready cluster serves the location, or might. Beside that,
the class controller keeps a class from being deleted while Locations name it,
readiness reports on Locations whose class names this operator, and acceptance
on those classes. Locations and classes meet only in the manager's cache, where
each arrives on a watch of its own.

What is hard:

- **stale reads**: every decision but one (the list of clusters, read live) rests
  on a cache, and writes follow several calls later;
- **unconditional writes**: forced server-side applies, merge patches and deletes
  by name, none with a resourceVersion or a UID;
- **partial failure**: a publication is three calls and a removal up to three;
  any may fail, lose its reply, or be the last before a restart;
- **handover**: a call of a publisher that stopped can land on what the next one
  has made of the hub;
- **gauges in memory**: set on one path and removed on another, counted from
  caches, and gone with the process, while what they report lives on the hub;
- **retries nothing else would trigger**: clusters are not watched, so a blocked
  removal lives on its requeue;
- **two watches, one decision**: readiness and class deletion combine objects
  whose events come in any order;
- **other writers**: operators and other controllers edit the hub copies, the
  policies, the labels, the finalizers and the conditions.

What makes each component correct is listed with its properties in section 3;
`hazards` in `PROJECT.json` places every one at its line.

## 2. The modules

| Module | Models | Composition |
|---|---|---|
| `LocationPublisher` | the publisher, its two clusters, their watches, everyone else | the core; `MCLocationPublisher` instantiates it for violations |
| `Projection` | what the publisher promises: an abstract specification without caches, events, calls or failures | refined by the next |
| `PublisherProjection` | the publisher with three history variables, and the refinement mapping | extends `LocationPublisher`, `INSTANCE Projection WITH`; `MCPublisherProjection` |
| `PublisherHandover` | publishers that follow one another, and the call of the former one that is still on its way | extends `LocationPublisher`; `MCPublisherHandover` |
| `PublisherMetrics` | the publisher with its gauges | extends `LocationPublisher`, each of whose steps it refines with what is reported; `MCPublisherMetrics` |
| `LocationClass` | the class controller, its gauge and its control plane | `MCLocationClass` |
| `LocationReadiness` | readiness and acceptance over one cache | `MCLocationReadiness` |
| `CellIdentity` | Resolve in a fleet, over an abstract publisher and an external Karmada | `MCCellIdentity` |
| `Watches` | what the caches of all of them have in common: events in flight, and a cache that catches up | extended by the controllers' modules |
| `...Proofs` | theorems about the module they are named for; `WatchProofs` has the lemmas about `Watches` the others rest on | section 4 |

All follow one scheme.

**Objects and watches.** An API server is a function from names to objects. A
write that changes something appends an event to the watch; a write that changes
nothing causes none, as with resourceVersions. `Deliver...` takes the oldest
event, updates the cache and enqueues names through the mapping the code
registers in `SetupWithManager`. The policies of the publisher are watched but
never read, so only the names of their pending events are kept. A cache is thus
always a past state of its server. (If a watch is full the write waits: `MaxLag`
bounds how far a cache can trail.)

**Workers.** Each controller has one worker. A reconcile starts by reading the
cache, and decides from it alone which call comes first; every call after that
is one step, so that anything may happen between two calls: that is where the
interleavings are. `step` is the call the worker makes next, `request` the name
it is reconciling, and `location`, `published` (publisher) or `read` (classes)
what it read. A reconcile that makes no call is one step (`Skip`, `NothingToDo`).

| `LocationPublisher` action | Code |
|---|---|
| `BeginPublish`, `RefusePublish` | `Reconcile`, the checks of `publish` up to the first write |
| `Apply` | the forced server-side apply, with the timestamp decided as in `publish` |
| `ApplyPropagationPolicy`, `ClearBlocked` | the calls of those names |
| `BeginRemove`, `NothingToRemove` | `Reconcile`, the early returns of `remove` |
| `Prune` | `pruneAllowed` and the test of the override |
| `Guard`, `RecordBlocked` | `evaluateRemovalGuard`, `recordBlocked` |
| `Delete`, `DeletePropagationPolicy` | the two deletions |
| `CallFails`, `ReplyLost`, `Restart` | a call that fails, one that took effect and reported an error, a new process |

`PublisherMetrics` names the same steps with what they report: `MBegin` sets or
removes the mismatch, `MCall` the series that the end of a publication, a refusal
or a removal sets or removes (`Reports`), in the order of the code: the gauge of
a refusal before it is recorded, every other after the last call went through.
When the calls are over, `RefreshMatchedClusters` lists the clusters live and may
fail, and `RefreshFleetMetrics` counts both caches; only then may the next
reconcile start (`refresh`). The other steps of a reconcile that read two caches
read them at once: a worker's reads write nothing, and a delivery between the two
could as well have come before the first or been overtaken by another.

`PublisherHandover` adds the one call that a publisher which died, or lost the
lease, may still have on the wire. A process has one call to the hub under way,
and its context is cancelled with the lease, so no second one is sent by it. The
call carries what it was given and reads no cache; it is lost, or lands at any
later moment on the object it then finds (`Landed`).

`LocationClass` has `Hold`, `ListReferencing`, `RecordBlockedDeletion` and
`Release` for the calls of `hold` and `release`. The API server refuses to add a
finalizer to a class that is being deleted and removes it with its last one. A
patch that touches the finalizers carries the whole list as it was read, so it
can bring back or lose another controller's: that is modelled.

`LocationReadiness` has one worker for each of its reconcilers
(`EvaluateReadiness` then `ReportReady`, `DecideAcceptance` then `Accept`); the
gauge is set in the first step and the patch made in the second.

`CellIdentity` keeps of the publisher what its hub shows: copies, policies, the
names condemned by the guard. A policy left without its copy (see the findings)
is a state it may stay in, and now and then it publishes a Location that is gone,
as its cache may make it do (`ApplyStale`). Karmada carries and takes one copy at a time, in any
order, on cells that are Ready.

**Data.** A topology is a model value; `Blank` and `Padded` say which of them
have a city code of spaces or one with spaces around it, the two cases the code
tells apart. A topology key added by somebody else is one flag. A condition is
its reason and observed generation; an annotation is the decision it words.

**Everybody else** is `Interference`: each kind (creating, editing, deleting,
meddling with the hub, relabelling, faults, crashes...) can be allowed or not by
an instance through `Disturbances`, and every one spends from a budget.

**Wording, events and logs** are left out, and so are requeue delays: a requeue
is immediate, which is one of the orders a delayed one may be overtaken in. The
safety resync is a constant, `Resync`. Defaults and validation make its period
positive (`config.go:249`), so TRUE is what an enabled publisher runs with; it is
FALSE in every passing run but one, so what they show does not lean on it. The
one is `publisher_gauges`: the count of matched clusters changes with labels that
nobody watches, and its mutant shows that nothing but the resync updates it.

## 3. The runs

Passing runs (each property is broken by a mutant of the code named in
`PROJECT.json`, under the same configuration):

| Run | Question | Properties |
|---|---|---|
| `publisher_removal` | can a removal slip past the guard or an empty source list; is a stranger's object written by a reconcile that knew it; does the publisher keep its promise? | `GuardHonoured`, `EmptyListNotBelieved`, `NoBlindWrite`, `KeepsPromise`, `TypeOK` |
| `publisher_converges` | does everything end where it should, through failed calls, lost replies, and calls of a former publisher that land late? | `NothingForgotten`, `LiveLocationsPublished`, `RemovalsResolved`, `LateTypeOK` |
| `publisher_gauges` | do the alerts learn what is published, what is kept and why, through restarts that lose every gauge; do they tell anything wrong on the way? | `NothingMisreported`, `FleetSettles`, `RefusalsReported`, `PublicationsReported`, `NothingReportedOfNothing`, `MetricsTypeOK` |
| `publisher_repairs` | do the watches alone repair what others change on the hub; does `publishedAt` move with the content and only then; do the gauges follow, and is the fleet counted right but for what is under way? | `FleetKnown`, `NothingMisreported`, `LiveLocationsPublished`, `StampTracksContent`, `PublicationsReported` |
| `class_deletion` | is every class held, gone, or explained and reported; is none released over a Location the cache showed; is none forgotten? | `NoClassForgotten`, `ClassesHeld`, `DeletionsComplete`, `BlockedDeletionsExplained`, `BlockedDeletionsReported`, `KnownNamesHonoured`, `TypeOK` |
| `readiness_settles` | do conditions and gauge end right whichever watch is faster; is what is not right yet always on its way to a reconcile? | `NoLocationForgotten`, `NoAcceptanceForgotten`, `ReadinessSettles`, `AcceptanceSettles`, `ReadyGaugeSettles`, `TypeOK` |
| `cell_identity` | does a cell end up answering for its label; can the removal of a Location and the label of a cell cross? | `AnswersFollowLabels`, `ServedCopyKept`, `TypeOK` |

What they show, in words. The guard's answer survives the steps after it for
every cluster nobody touches meanwhile; it does not, and cannot, for a cluster
that is relabelled between the list and the delete, which is why
`GuardHonoured` speaks of `steady` clusters. An empty source list can be
believed only if no copy is held, even by a worker that started before it was
empty. Ownership is only as good as the read it was checked on, which is why
`NoBlindWrite` speaks of what the cache showed. Liveness has the form "once the
interference stops": a budget bounds the interference, so `<>[]P` says that
every behaviour reaches states that satisfy P and stays there. A copy of a
Location that is gone may stay only for a reason that still holds and that its
annotation tells (`Retained`).

`KeepsPromise` is the refinement: whatever the caches, failures and other writers
do, a reader of the hub sees only copies of something the Location said, now or
before, and a copy taken away only after it was cleared for removal, by the fleet
at that moment or by an override that somebody set; and each clearance is good
for one removal. It does not say that the Location is still gone when its copy
is: a Location declared again while its removal is under way, or while the delete
of a former publisher is on its way, can lose its copy, and
`LiveLocationsPublished` shows that it gets it back. Nor that the override was set
for this copy: no apply removes it, so it outlives its Location being declared
again, and the next removal passes on it; a cache that lags may even show the one
of a copy that is gone. Nor that the copy is still the publisher's when it is
deleted: the label is checked when the reconcile begins (`OnlyLabelledDeleted`,
below).

`NothingForgotten`, `NoClassForgotten`, `NoLocationForgotten` and
`NoAcceptanceForgotten` are what stands behind the liveness, as invariants: at
every moment, not only in the end, whatever is not as it should be is in a queue,
at a worker, or the subject of an event that will put it in a queue. A mapping
that misses a name, a failure that is not retried, or a write that changes
something and sends no event would break them, and no fairness would help.
`FleetKnown` and `NothingMisreported` say the same of the gauges: whatever is not
on its way to the worker is reported as it is. A count is about all names at once, so
`FleetKnown` bounds it from both sides: it leaves out no name that is not under way
and counts none that should not be there. It is checked where `Resync` is FALSE, for
there a published name leaves the queue and has to be counted; a removal that is
refused stays in it, and that the copies kept are counted in the end is what
`FleetSettles` shows (its mutant counts them as published).

A gauge is right only once things are at rest, hence the `<>[]` of the others. Even then two kinds
of series may outlast their cause, and the properties leave them out: see
`two_reasons` and, below it, the series of a copy that stopped being the
publisher's.

Violations. Each checks a statement of a doc or a comment that the code does not
keep; TLC finds the trace, and `findings` quotes the statement with its place.

| Run | What the trace shows |
|---|---|
| `orphan_policy` | the copy is deleted, the deletion of its policy fails, the retry finds no copy and stops |
| `last_copy_kept` | the last Location is deleted; the empty list is refused on every retry |
| `stamps_chase` | one Location is created and nothing else happens; a second publication, caused by the policy's event, does not see the copy in its cache yet and stamps it anew; from then on each of the two events makes the worker write the other timestamp back, for as long as the watch stays one reconcile behind |
| `two_reasons` | a removal is refused for a cluster that serves the Location, then for one that has no label: both series stay |
| `readiness_not_found_stays` | LocationClassNotFound stays once the class exists for another controller |

The last section of each module states more of that kind. No run repeats them;
to see the trace, put the definition in the place of the properties of the run
named here (without SYMMETRY or invariant).

| Definition | Run | The statement | What the trace shows |
|---|---|---|---|
| `OnlyLabelledDeleted` | `publisher_removal` | `location_publisher_controller.go:36` "only ever deletes objects carrying it" | the copy loses its label between the read and the delete, and is deleted |
| `StampKeptWhenUnchanged` | `publisher_repairs` | `servinglocation_types.go:60` "re-checked but not changed keeps its original timestamp" | a publish that reads a copy the cache shows as it was stamps it anew |
| `StampKeptWhenSeen` | `stamps_chase`, `Padded <- OneTopology` | the same, where the cache showed the copy as it is | a city code with spaces around it never compares equal to the trimmed one, so every reconcile stamps the copy anew |
| `CopiesAreProjections` | `publisher_repairs` | `README.md:33` "a projection of that declaration, never an independent copy" | a Location loses its city code; its old copy stays |
| `DifferencesRepaired` | `publisher_repairs`, `Resync = TRUE` | `config.go:211` "repairs any difference it finds" | a topology key added by another manager survives every apply |
| `FinalizerStays`, `NamedClassStays` | `class_deletion` | `location_class_controller.go:26`, the finalizer is held "for as long as a Location in this control plane names it" | it is released on a stale list, or was never there |
| `OthersUntouched` | `readiness_settles` | `location_readiness_controller.go:29` "writes nothing on any other Location" | a patch decided on a stale class lands on another controller's Location |
| `UnclaimedHaveNoGauge`, `OtherClassesHaveNoGauge` | `readiness_settles` | `metrics.go:83` and `:91` "are absent" | the series of an object that is not claimed any more stays |
| `ReadyNeedsAcceptance` | `readiness_settles` | `location_types.go:20` "must exist and report Accepted=True before the location becomes Ready" | a Location is Ready while its class is not accepted yet |
| `UnreadableNotAccepted` | `readiness_settles` | `locationclass_types.go:36` "reports Accepted=False with reason InvalidParameters" | a class is accepted whatever its parameters name |
| `ReadyMeansPublishable` | `readiness_settles`, `"spaces"` among the `Cities` | `location_types.go:106`, `MissingTopology` | a city code of spaces is Ready and never published |
| `RefusesToGuess` | `cell_identity` | `README.md:73` "refuses to guess between them" | a cell with two copies answers with its configured name |

Two more of the gauges can be read off the code. `locations_removal_blocked`
stays when the blocked copy loses its managed-by label, or when the Location is
declared again without a city code, since both return before the series is
removed. `locations_publish_mismatch` stays when a Location without a city code is
deleted while a stranger's object has its name.

### Bounds

| Bound | Values | Why it is enough |
|---|---|---|
| names | 1 or 2 | prune and the queue relate a Location to the others: two suffice to have one that exists and one that goes |
| clusters | 1 | the guard and the placement concern one cluster at a time; the annotation names a set, which with one cluster still changes reason and content, and every initial label and readiness is tried |
| cells | 2 | one cell keeps, or loses, its copy because of what another does |
| classes | 2 (deletion), 1 (readiness) | a Location moves between two, or into another project and back |
| `MaxLag` | 2; 1 in `publisher_gauges`, `two_reasons` | two events of one watch in flight: a cache can skip a state, and a deletion and a creation can overtake a reconcile; the gauges add how far a reconcile is from its end, and one event in flight already makes a count stale |
| `MaxDisturbances` | 3 to 5; 2 in `readiness_not_found_stays`, 1 in `stamps_chase` | each violation needs 1 to 4; the passing runs have as many as the longest scenario of their question: two Locations created, one deleted, and a cluster relabelled or a call failed; a published Location deleted, declared again without a city code, and deleted; a class and a Location created, the class deleted and created again |
| late calls | 1 | one process has one call under way when it stops |
| initial states | of `publisher_converges`, two published Locations at rest, over any fleet; of `publisher_gauges` and `two_reasons`, an empty hub and a fleet that is Ready | the budget goes to the removals, handovers and relabellings the runs are about instead of to getting there; `publisher_removal` and `publisher_repairs` start from nothing |
| `MaxGeneration`, `MaxClock` | 1 or 2, 0 to 2 | equal and newer are told apart; generation 1 and clock 0 where nothing is edited and no stamp compared |
| `SampleSize` | 1 | the blocked message lists some of two names and counts both (the code lists ten) |

Symmetry (names) is used only in `publisher_removal`, which checks safety. The
system comes to rest when the budget is spent and everything has converged,
which is what the operator does; so deadlock is not checked
(`CHECK_DEADLOCK FALSE`), and that it does not stop too early is what the
liveness properties say.

### Fairness

- weak fairness of each watch: an informer delivers, and relists when it cannot;
- weak fairness of the worker's next call: calls return, or fail and are counted
  from the budget of faults;
- strong fairness of starting a reconcile of each name: the workqueue is first in
  first out, so a name that is queued again and again is served, although the
  worker is busy with another in between. Weak fairness would let one blocked
  name, requeued for ever, starve the rest;
- in `PublisherMetrics`, weak fairness of the end of a reconcile as of its calls;
- in `PublisherHandover`, weak fairness of the late call landing or being lost: a
  request has a deadline;
- in `CellIdentity`, weak fairness of the publisher, of Karmada on cells that are
  Ready, and of services asking.

None is asked of the interference (in `CellIdentity` the override of a refusal,
`CondemnOverridden`, is an action of its own for that reason), of faults, of the
clock, or of the resync.

## 4. The proofs

For every set of names, classes, clusters, cells and topologies, every kind of
interference and every value of the bounds:

| Module | Theorem | Statement |
|---|---|---|
| `LocationPublisherProofs` | `Invariance`, `TypeCorrect` | `Spec => []IInv`, `Spec => []TypeOK` |
| | `GuardIsHonoured` | `Spec => GuardHonoured` |
| | `EmptyListIsNotBelieved` | `Spec => EmptyListNotBelieved` |
| | `NoWriteIsBlind` | `Spec => NoBlindWrite` |
| | `StampsTrackContent` | `Spec => StampTracksContent` |
| | `NothingIsForgotten` | `Spec => []NothingForgotten` |
| `PublisherHandoverProofs` | `LateTypeCorrect` | `HSpec => []LateTypeOK` |
| | `HandoverForgetsNothing` | `HSpec => []NothingForgotten` |
| | `GuardIsHonouredAfterHandover`, `EmptyListIsNotBelievedAfterHandover`, `NoWriteIsBlindAfterHandover` | `HSpec => GuardHonoured`, `EmptyListNotBelieved`, `NoBlindWrite` |
| `PublisherMetricsProofs` | `MetricsTypeCorrect` | `MSpec => []MetricsTypeOK` |
| | `FleetIsKnown` | `MSpec => []FleetKnown` |
| | `NothingIsMisreported` | `MSpec => []NothingMisreported` |
| `PublisherProjectionProofs` | `Remembrance` | `RSpec => []RememberedInv` |
| | `PromiseIsKept` | `RSpec => KeepsPromise`, the refinement |
| | `CopiesAreFaithful` | `RSpec => []Promise!Faithful` |
| `LocationClassProofs` | `Invariance`, `TypeCorrect` | `Spec => []IInv`, `Spec => []TypeOK` |
| | `KnownNamesAreHonoured` | `Spec => KnownNamesHonoured` |
| | `NoClassIsForgotten` | `Spec => []NoClassForgotten` |
| `LocationReadinessProofs` | `Invariance`, `TypeCorrect` | `Spec => []IInv`, `Spec => []TypeOK` |
| | `NoLocationIsForgotten`, `NoAcceptanceIsForgotten` | `Spec => []NoLocationForgotten`, `Spec => []NoAcceptanceForgotten` |
| `CellIdentityProofs` | `Invariance`, `TypeCorrect` | `Spec => []IInv`, `Spec => []TypeOK` |
| | `ServedCopiesAreKept` | `Spec => ServedCopyKept` |

They rest on the assumptions about the constants that each module names (blank
and padded topologies are topologies and differ; the bounds are naturals; the
names of Locations, and the clusters, are finitely many where they are counted; `Absent`, `None` and
`Unlabelled` are not among the names or objects) and on nothing else.

**The publisher.** The action properties constrain one step of the worker but are
about what it learnt several steps before, so `TypeOK` alone does not imply them.
`IInv` says at each `step` what must have been seen on the way: that a worker in
the middle of a reconcile has a request, and on the publishing path the Location
it read, on the removal path a copy it owned (`WorkerInv`); that at `delete`,
unless the override was read, no cluster untouched since the reconcile began
stands in the way (`GuardInv`); and that beyond `prune` the caches showed grounds
for the removal at some moment of this reconcile (`GroundsInv`). `steady` and
`grounds` are history variables: they record what happened and constrain no
action. Each action preserves the conjuncts; then `OnlyDeleteRemoves` shows that
the copy can disappear in no other call, and each property follows from the
invariant at that step.

**The refinement.** Abstractly nothing stands between the declaration and the
hub; in the program there are two caches, two watches and the worker, each
holding something older than the last. `RememberedInv` says that all of it was
true once: whatever they hold of a Location is among the versions `declared` has
collected, and where a copy carries the override, its name was `overridden`. It
is preserved because a write enters the history and the watch in one step, and a
delivery only moves what is there. With it, `Apply` maps to `Publish` (what the
worker read was declared), the guard letting a removal pass to `Clear` (the live
list is the abstract fleet; an override read from a cache was once set), `Delete`
to `Retire`, a failure or a restart before it to `Lapse`, everybody else's writes
to `Declare`, `Intrude`, `Override` and `FleetChange`, and everything else to a
stutter. `cleared` is mapped to the request of a worker that stands before
`delete`, so a clearance is used once. The history variables constrain no action,
so what is proved of `RSpec` holds of `Spec` (`RStepIsStep` is the other
direction, which brings the invariant of `Spec` here).

**Classes.** `KnownInv` carries what `known`, the Locations the cache has shown
naming the class since the reconcile began, implies at each step: they are on the
list that is about to be made, and when the worker is about to release, there are
none. **Cells.** `UntouchedInv` says that a cell nobody touched since the guard was
asked does not stand in the way now either; so a cell that is Ready and labelled
cannot be among those whose copy may go.

**No wake-up is lost.** The four invariants say nothing of what the caches and
the worker hold, so none is inductive. What makes them so is the same everywhere.

- `CatchesUp` (module `Watches`): a cache is right about every name no event of
  which is in flight, and the last event of each other name carries what the
  server has. A write sends its event in the same step and a delivery takes the
  oldest, so both keep it (`SendCatchesUp`, `DeliveryCatchesUp`); a restart lists
  (`ListCatchesUp`).
- A name is *quiet* (`Quiet`, `LocationQuiet`, `ClassQuiet`; not `Woken`) when
  nothing on its way would enqueue it. For a quiet name the worker reads what is
  there, however the reads are spread over the two watches.
- What a reconcile has read and done of a quiet name is still right at each of
  its steps (`UpToDate`, `ReadinessInv`, `AcceptanceInv`, `AtWork`). So a
  reconcile of a name that is quiet throughout leaves it as it should be, and one
  whose name is woken meanwhile need not: it is looked at again.
- A step is *heard* (`Heard`) when every name that is quiet after it was quiet
  before it, and nothing about it has changed. Every step but the start of a
  reconcile is heard: everybody else's writes because they send events, a
  delivery because it enqueues, the worker's own writes because they come back to
  it, a failed call because it is retried. A heard step keeps the invariant by one
  lemma; the start of a reconcile, which takes its name out of the queue, and the
  end of one are argued from the two points above.

Of a Location two watches are concerned: it is quiet if neither its own event nor
one of the class it names is in flight. An event of the class enqueues those the
*cache* shows naming it (`EnqueueLocationsNamingClass`); that no Location is missed
between the two is the case `DeliverClass` of `DeliveryHeard`: a Location the cache
does not show naming the class has an event of its own to come. A class, in turn, is
woken by Locations that arrive at it or leave it. `Heralded` says that an event in
flight will enqueue it, be it from the object the event carries or from the one it
replaces in the cache. If none will, the Locations the cache shows naming the class
are those that name it (`QuietReads`), which needs that of the events of a name
there is a last one (`LastEvent`, by the well-foundedness of the naturals).

**The gauges.** A step of `MSpec` is a step of the publisher or, for the count of
matched clusters, a stutter or a fault (`MPublisherKeeps`), so `IInv` and the
invariant above hold under the gauges too. `SeriesInv` adds what a series says of a
name that is quiet and not under way, and what it will be set to at the end of the
publication under way; `EndsQuietly` is the heart of it: if a reconcile ends and its
name is quiet, it ends by publishing, because every removal that ends well is heard
of again. `CountInv` says that every name the
worker is neither to look at nor looking at is counted as the caches have it: a
delivery enqueues the name it changes, and a reconcile that ends, with a call or
without one, counts everybody (`EndedAtOnce`). Together with `CatchesUp`, which turns
the caches into the servers for every name without an event in flight, and the
monotonicity of cardinality (`SubsetsCount`), that is `FleetKnown`.

**Handover.** A late call changes the hub as anybody may, and is heard of; what it
carries is of the right type because the worker that sent it was (`SentType`). The
properties about what a reconcile may do speak of the worker's steps, which a late
call is not; so the invariants and the step lemmas of the publisher carry over.

Not proved. Liveness, which TLAPS does not reach, is model-checked only: the
properties of the form `<>[]` in `publisher_converges`, `publisher_gauges`,
`publisher_repairs`, `class_deletion`, `readiness_settles` and `cell_identity`;
that what is awaited is also reached is their part. `KeepsPromise` is stated and
proved of one process at a time: the mapping gives a clearance up with the process
that had it, so a delete of a former publisher that lands later is not covered.

## 5. What is not modelled

- two publishers at once, which the configuration forbids (`config.go:199`); one
  that follows another is;
- configuration (`internal/config`): one file, read once at start, defaulted and
  validated field by field. Nothing in it changes state or meets another actor;
  its one effect on the models is `Resync`. (Readiness is enabled by the trimmed
  `controllerName`, `config.go:332`, and compares classes with the untrimmed one:
  a unit test reaches that);
- the wiring of the manager, health checks, flags, roles, manifests, alerts,
  generated code: no state that changes;
- events, logs and the counter of conflicts (`reportForeignManagers`): written,
  never read;
- the wait for the caches in `pruneAllowed`: controller-runtime starts a worker
  only when its caches are synced;
- the location-scoped resources a policy also selects: the same placement for
  other kinds;
- the list error in `enqueueLocationsNamingClass` and in `refreshFleetMetrics`,
  which the manager's cache does not return;
- Karmada, the API servers, the workqueue: external, as the code uses them.

## 6. The plan

1. *(done)* `LocationPublisher`, its runs, its invariant and three safety
   properties proved.
2. *(done)* `LocationClass`, `LocationReadiness`, `CellIdentity` and their runs.
3. *(done)* `Projection` and the refinement, in a run and by proof.
4. *(done)* `PublisherMetrics`, and the gauge of the class controller.
5. *(done)* `PublisherHandover`: a publisher that follows another.
6. *(done)* `StampTracksContent`; the type invariants of the other three modules;
   `KnownNamesHonoured`; `ServedCopyKept`.
7. *(done)* The safety properties of the publisher under late calls; the type
   invariants of `PublisherMetrics` and `PublisherHandover`; that no controller
   forgets a name and that a gauge at rest is right, proved.
8. Next: a promise that also covers handovers (a clearance for each call that is
   on its way) and its refinement; what acceptance and readiness write, and the
   record of a blocked deletion, traced to a state that was true once, as `Remembrance`
   does for the publisher.
