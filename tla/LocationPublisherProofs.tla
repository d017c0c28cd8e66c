----------------------- MODULE LocationPublisherProofs -----------------------
(* What holds of the publisher for every set of names, clusters and        *)
(* topologies, every kind of interference and every bound.                 *)
EXTENDS LocationPublisher, WatchProofs

-----------------------------------------------------------------------------
(* The inductive invariant.                                                *)

Publishing == {"apply", "policy", "clear"}
Removing == {"prune", "guard", "record", "delete", "deletePolicy"}

\* What the worker knows at each of its steps.
WorkerInv ==
    /\ step # "idle" => request \in Names
    /\ step \in Publishing => /\ location \in Location
                              /\ published = Absent \/ OwnsObject(published)
    /\ step = "clear" => published # Absent
    /\ step \in Removing => OwnsObject(published)

\* Past the guard, no cluster that has stood still blocks the removal.
GuardInv ==
    step = "delete" /\ ~published.override =>
      \A c \in steady : ~(clusters[c].ready /\ clusters[c].label \in {request, Unlabelled})

\* Grounds seen in the caches are on record, and past the prune check there
\* are some.
GroundsInv ==
    /\ step # "idle" /\ Grounds(srcCache, hubCache) => grounds
    /\ step \in Removing \ {"prune"} => grounds

IInv == TypeOK /\ WorkerInv /\ GuardInv /\ GroundsInv

-----------------------------------------------------------------------------
(* Writes and deliveries keep the types.                                   *)

LEMMA WriteSourceType ==
    ASSUME TypeOK, NEW n \in Names, NEW object \in Location \cup {Absent},
           WriteSource(n, object)
    PROVE  /\ source' \in [Names -> Location \cup {Absent}]
           /\ srcWatch' \in Seq([name : Names, object : Location \cup {Absent}])
<1> DEFINE E == [name : Names, object : Location \cup {Absent}]
<1>1. Event(n, object) \in E
  BY DEF Event
<1>2. srcWatch \in Seq(E)
  BY DEF TypeOK
<1> QED
  BY <1>1, <1>2, AppendProperties DEF WriteSource, TypeOK

LEMMA WriteHubType ==
    ASSUME TypeOK, NEW n \in Names, NEW object \in Copy \cup {Absent},
           WriteHub(n, object)
    PROVE  /\ hub' \in [Names -> Copy \cup {Absent}]
           /\ hubWatch' \in Seq([name : Names, object : Copy \cup {Absent}])
<1> DEFINE E == [name : Names, object : Copy \cup {Absent}]
<1>1. Event(n, object) \in E
  BY DEF Event
<1>2. hubWatch \in Seq(E)
  BY DEF TypeOK
<1>3. CASE object = hub[n]
  BY <1>3, <1>2 DEF WriteHub, hubVars, TypeOK
<1>4. CASE object # hub[n]
  <2>1. hub' = [hub EXCEPT ![n] = object] /\ hubWatch' = Append(hubWatch, Event(n, object))
    BY <1>4 DEF WriteHub
  <2>2. hub' \in [Names -> Copy \cup {Absent}]
    BY <2>1 DEF TypeOK
  <2> QED
    BY <2>1, <2>2, <1>1, <1>2, AppendProperties
<1> QED
  BY <1>3, <1>4

LEMMA GuardType ==
    ASSUME NEW n
    PROVE  EvaluateRemovalGuard(n) \in Decision
BY DEF EvaluateRemovalGuard, Decision, Reasons, NotBlocked, StillServing, NotLabelled

LEMMA AppliedType ==
    ASSUME TypeOK, location \in Location, NEW object \in Copy \cup {Absent}
    PROVE  Applied(object) \in Copy
<1>1. PublishedAt \in 0 .. MaxClock
  BY DEF PublishedAt, TypeOK, Copy
<1>2. NotBlocked \in Decision
  BY DEF NotBlocked, Decision, Reasons
<1>3. object # Absent => object.foreignKey \in BOOLEAN /\ object.override \in BOOLEAN /\ object.blocked \in Decision
  BY DEF Copy
<1>4. location.generation \in 0 .. MaxGeneration /\ location.topology \in Topologies
  BY BoundAssumption DEF Location
<1> QED
  BY <1>1, <1>2, <1>3, <1>4 DEF Applied, Copy

LEMMA WritePolicyType ==
    ASSUME TypeOK, NEW n \in Names, NEW value \in {"absent", "applied", "altered"},
           WritePolicy(n, value)
    PROVE  policy' \in [Names -> {"absent", "applied", "altered"}] /\ policyWatch' \subseteq Names
BY DEF WritePolicy, TypeOK

LEMMA DisturbType ==
    ASSUME TypeOK, NEW kind, Disturb(kind)
    PROVE  budget' \in 0 .. MaxDisturbances
BY BoundAssumption DEF Disturb, TypeOK

-----------------------------------------------------------------------------
(* Everybody else keeps the types.                                         *)

LEMMA MeddledHubType ==
    ASSUME TypeOK, NEW n \in Names
    PROVE  MeddledHub(n) \subseteq Copy \cup {Absent}
<1>1. \A t \in Topologies : Stranger(t) \in Copy
  <2>1. NotBlocked \in Decision
    BY DEF NotBlocked, Decision, Reasons
  <2>2. 0 \in 0 .. MaxGeneration /\ 0 \in 0 .. MaxClock
    BY BoundAssumption
  <2> QED
    BY <2>1, <2>2 DEF Stranger, Copy
<1>2. CASE hub[n] = Absent
  BY <1>1, <1>2 DEF MeddledHub
<1>3. CASE hub[n] # Absent
  <2>1. hub[n] \in Copy
    BY <1>3 DEF TypeOK
  <2>2. /\ [hub[n] EXCEPT !.owned = FALSE] \in Copy
        /\ [hub[n] EXCEPT !.foreignKey = TRUE] \in Copy
        /\ \A t \in Topologies : [hub[n] EXCEPT !.topology = t] \in Copy
    BY <2>1 DEF Copy
  <2> QED
    BY <1>3, <2>2 DEF MeddledHub
<1> QED
  BY <1>2, <1>3

LEMMA InterferenceType == TypeOK /\ Interference => TypeOK'
<1> SUFFICES ASSUME TypeOK, Interference PROVE TypeOK'
  OBVIOUS
<1> USE DEF TypeOK, hubVars, policyVars, sourceVars, cacheVars, workerVars, historyVars
<1>1. ASSUME NEW n \in Names, CreateLocation(n) PROVE TypeOK'
  <2>1. PICK t \in Topologies : WriteSource(n, [generation |-> 1, topology |-> t])
    BY <1>1 DEF CreateLocation
  <2>2. [generation |-> 1, topology |-> t] \in Location
    BY BoundAssumption DEF Location
  <2> QED
    BY <1>1, <2>1, <2>2, WriteSourceType, DisturbType DEF CreateLocation
<1>2. ASSUME NEW n \in Names, EditLocation(n) PROVE TypeOK'
  <2>1. PICK t \in Topologies :
          WriteSource(n, [generation |-> source[n].generation + 1, topology |-> t])
    BY <1>2 DEF EditLocation
  <2>2. [generation |-> source[n].generation + 1, topology |-> t] \in Location
    BY <1>2, BoundAssumption DEF Location, EditLocation
  <2> QED
    BY <1>2, <2>1, <2>2, WriteSourceType, DisturbType DEF EditLocation
<1>3. ASSUME NEW n \in Names, DeleteLocation(n) PROVE TypeOK'
  BY <1>3, WriteSourceType, DisturbType DEF DeleteLocation
<1>4. ASSUME NEW n \in Names, MeddleHub(n) PROVE TypeOK'
  <2>1. PICK object \in MeddledHub(n) : WriteHub(n, object)
    BY <1>4 DEF MeddleHub
  <2>2. object \in Copy \cup {Absent}
    BY <2>1, MeddledHubType
  <2> QED
    BY <1>4, <2>1, <2>2, WriteHubType, DisturbType DEF MeddleHub
<1>5. ASSUME NEW n \in Names, AnnotateOverride(n) PROVE TypeOK'
  <2>1. [hub[n] EXCEPT !.override = ~@] \in Copy
    BY <1>5 DEF AnnotateOverride, Copy
  <2> QED
    BY <1>5, <2>1, WriteHubType, DisturbType DEF AnnotateOverride
<1>6. ASSUME NEW n \in Names, MeddlePolicy(n) PROVE TypeOK'
  BY <1>6, WritePolicyType, DisturbType DEF MeddlePolicy
<1>7. ASSUME NEW c \in Clusters, ClusterChange(c) PROVE TypeOK'
  BY <1>7, DisturbType DEF ClusterChange
<1>8. CASE Tick
  BY <1>8, BoundAssumption DEF Tick
<1> QED
  BY <1>1, <1>2, <1>3, <1>4, <1>5, <1>6, <1>7, <1>8 DEF Interference

-----------------------------------------------------------------------------
(* The watches keep the types.                                             *)

LEMMA DeliveryType == TypeOK /\ (DeliverSource \/ DeliverHub \/ DeliverPolicy) => TypeOK'
<1> USE DEF TypeOK, hubVars, policyVars, sourceVars, cacheVars, workerVars, EnqueueByName,
            EnqueuePolicyOwner, historyVars
<1>1. ASSUME TypeOK, DeliverSource PROVE TypeOK'
  <2> DEFINE E == [name : Names, object : Location \cup {Absent}]
  <2>1. Head(srcWatch) \in E /\ Tail(srcWatch) \in Seq(E)
    BY <1>1, HeadTailProperties DEF DeliverSource
  <2>2. grounds' \in BOOLEAN
    BY <1>1 DEF DeliverSource, Grounds
  <2> QED
    BY <1>1, <2>1, <2>2 DEF DeliverSource
<1>2. ASSUME TypeOK, DeliverHub PROVE TypeOK'
  <2> DEFINE E == [name : Names, object : Copy \cup {Absent}]
  <2>1. Head(hubWatch) \in E /\ Tail(hubWatch) \in Seq(E)
    BY <1>2, HeadTailProperties DEF DeliverHub
  <2>2. grounds' \in BOOLEAN
    BY <1>2 DEF DeliverHub, Grounds
  <2> QED
    BY <1>2, <2>1, <2>2 DEF DeliverHub
<1>3. ASSUME TypeOK, DeliverPolicy PROVE TypeOK'
  BY <1>3 DEF DeliverPolicy
<1> QED
  BY <1>1, <1>2, <1>3

-----------------------------------------------------------------------------
(* How a reconcile ends and goes on.                                       *)

\* The parts of TypeOK a call of the worker changes besides what it writes.
WorkerTypes ==
    /\ step \in Steps /\ request \in Names \cup {Absent}
    /\ location \in Location \cup {Absent} /\ published \in Copy \cup {Absent}
    /\ steady \subseteq Clusters /\ grounds \in BOOLEAN
    /\ queue \subseteq Names /\ budget \in 0 .. MaxDisturbances

LEMMA FinishKeeps ==
    ASSUME TypeOK, request \in Names, NEW requeued, Finish(requeued),
           budget' \in 0 .. MaxDisturbances
    PROVE  WorkerTypes' /\ WorkerInv' /\ GuardInv' /\ GroundsInv'
BY DEF Finish, TypeOK, Steps, WorkerTypes, WorkerInv, GuardInv, GroundsInv, Publishing, Removing

LEMMA DoneKeeps ==
    ASSUME TypeOK, request \in Names, NEW requeued, Done(requeued)
    PROVE  WorkerTypes' /\ WorkerInv' /\ GuardInv' /\ GroundsInv'
<1>1. CASE Finish(requeued) /\ UNCHANGED budget
  BY <1>1, FinishKeeps DEF TypeOK
<1>2. CASE ReplyLost
  BY <1>2, FinishKeeps, DisturbType DEF ReplyLost
<1> QED
  BY <1>1, <1>2 DEF Done

LEMMA ThenKeeps ==
    ASSUME IInv, request \in Names, NEW next \in Steps, Then(next),
           UNCHANGED <<cacheVars, clusters>>,
           next # "delete",
           next \in Publishing => step \in Publishing,
           next = "clear" => published # Absent,
           next \in Removing => step \in Removing \ {"prune"}
    PROVE  WorkerTypes' /\ WorkerInv' /\ GuardInv' /\ GroundsInv'
<1>1. CASE Goto(next) /\ UNCHANGED <<published, budget>>
  <2> USE <1>1 DEF Goto, IInv, historyVars, cacheVars, Publishing, Removing
  <2>1. WorkerTypes'
    BY DEF TypeOK, WorkerTypes
  <2>2. WorkerInv'
    <3>1. /\ step' = next /\ request' = request /\ location' = location /\ published' = published
      OBVIOUS
    <3>2. OwnsObject(published)' = OwnsObject(published)
      BY <3>1 DEF OwnsObject
    <3>3. step' # "idle" => request' \in Names
      BY <3>1
    <3>4. step' \in Publishing => location' \in Location /\ (published' = Absent \/ OwnsObject(published)')
      BY <3>1, <3>2 DEF WorkerInv
    <3>5. step' = "clear" => published' # Absent
      BY <3>1
    <3>6. step' \in Removing => OwnsObject(published)'
      BY <3>1, <3>2 DEF WorkerInv
    <3> QED
      BY <3>3, <3>4, <3>5, <3>6 DEF WorkerInv
  <2>3. GuardInv'
    BY DEF GuardInv
  <2>4. GroundsInv'
    <3>1. step' # "idle" => step # "idle"
      BY DEF Steps
    <3>2. Grounds(srcCache, hubCache)' = Grounds(srcCache, hubCache)
      BY DEF Grounds, OwnsObject
    <3>3. step' \in Removing \ {"prune"} => step \in Removing \ {"prune"}
      OBVIOUS
    <3> QED
      BY <3>1, <3>2, <3>3 DEF GroundsInv
  <2> QED
    BY <2>1, <2>2, <2>3, <2>4
<1>2. CASE ReplyLost
  BY <1>2, FinishKeeps, DisturbType DEF ReplyLost, IInv
<1> QED
  BY <1>1, <1>2 DEF Then

-----------------------------------------------------------------------------
(* The worker's steps keep the inductive invariant.                        *)

LEMMA BeginKeeps == ASSUME IInv, NEW n \in Names, BeginReconcile(n) PROVE IInv'
<1> USE DEF IInv, Untouched, hubVars, policyVars, sourceVars, cacheVars, historyVars, workerVars
<1>1. ASSUME NEW next \in {"apply", "prune"}, Begin(n, next),
             next = "apply" => srcCache[n] # Absent /\ (hubCache[n] = Absent \/ OwnsObject(hubCache[n])),
             next = "prune" => OwnsObject(hubCache[n])
      PROVE  IInv'
  <2>1. TypeOK'
    BY <1>1 DEF TypeOK, Begin, Steps, Grounds
  <2>2. WorkerInv'
    BY <1>1 DEF TypeOK, WorkerInv, Begin, Publishing, Removing, OwnsObject
  <2>3. GuardInv' /\ GroundsInv'
    BY <1>1 DEF GuardInv, GroundsInv, Begin, Removing, Grounds
  <2> QED
    BY <2>1, <2>2, <2>3
<1>2. CASE Skip(n)
  BY <1>2 DEF Skip, TypeOK, WorkerInv, GuardInv, GroundsInv
<1> QED
  BY <1>1, <1>2 DEF BeginReconcile, BeginPublish, RefusePublish, BeginRemove, NothingToRemove

LEMMA CallKeeps == IInv /\ PublisherCall => IInv'
<1> SUFFICES ASSUME IInv, PublisherCall PROVE IInv'
  OBVIOUS
<1>0. TypeOK /\ WorkerInv /\ GuardInv /\ GroundsInv
  BY DEF IInv
<1>r. step # "idle" => request \in Names /\ hub[request] \in Copy \cup {Absent}
  BY <1>0 DEF WorkerInv, TypeOK
<1> USE DEF Untouched, hubVars, policyVars, sourceVars, cacheVars
<1>1. CASE Apply
  <2>1. Applied(hub[request]) \in Copy
    BY <1>1, <1>0, <1>r, AppliedType DEF Apply, WorkerInv, Publishing
  <2>2. WorkerTypes' /\ WorkerInv' /\ GuardInv' /\ GroundsInv'
    BY <1>1, <1>r, ThenKeeps DEF Apply, Publishing, Removing, Steps
  <2> QED
    BY <1>1, <1>0, <1>r, <2>1, <2>2, WriteHubType DEF Apply, TypeOK, WorkerTypes, IInv
<1>2. CASE ApplyPropagationPolicy
  <2>1. WorkerTypes' /\ WorkerInv' /\ GuardInv' /\ GroundsInv'
    BY <1>2, <1>0, <1>r, ThenKeeps, DoneKeeps
       DEF ApplyPropagationPolicy, CarriesBlocked, Publishing, Removing, Steps
  <2> QED
    BY <1>2, <1>0, <1>r, <2>1, WritePolicyType DEF ApplyPropagationPolicy, TypeOK, WorkerTypes, IInv
<1>3. CASE ClearBlocked
  <2>1. WorkerTypes' /\ WorkerInv' /\ GuardInv' /\ GroundsInv'
    BY <1>3, <1>0, <1>r, FinishKeeps, DoneKeeps DEF ClearBlocked, TypeOK
  <2>2. hub[request] # Absent => [hub[request] EXCEPT !.blocked = NotBlocked] \in Copy
    BY <1>3, <1>r DEF ClearBlocked, Copy, NotBlocked, Decision, Reasons
  <2> QED
    BY <1>3, <1>0, <1>r, <2>1, <2>2, WriteHubType DEF ClearBlocked, TypeOK, WorkerTypes, IInv
<1>4. CASE Prune
  <2>1. PruneAllowed => grounds
    BY <1>4, <1>0 DEF Prune, PruneAllowed, Grounds, GroundsInv
  <2>2. CASE PruneAllowed
    BY <1>4, <1>0, <2>1, <2>2
       DEF Prune, Goto, TypeOK, WorkerInv, GuardInv, GroundsInv, IInv, historyVars, Steps,
           Publishing, Removing, Grounds
  <2>3. CASE ~PruneAllowed
    <3>1. WorkerTypes' /\ WorkerInv' /\ GuardInv' /\ GroundsInv'
      BY <1>4, <1>0, <1>r, <2>3, FinishKeeps DEF Prune, BlockedRequeue, TypeOK
    <3> QED
      BY <1>4, <1>0, <2>3, <3>1 DEF Prune, TypeOK, WorkerTypes, IInv
  <2> QED
    BY <2>2, <2>3
<1>5. CASE Guard
  <2> DEFINE decision == EvaluateRemovalGuard(request)
  <2>1. decision \in Decision
    BY GuardType
  <2>2. published \in Copy /\ OwnsObject(published)
    BY <1>5, <1>0 DEF Guard, WorkerInv, TypeOK, Removing, OwnsObject
  <2>3. CASE decision = NotBlocked /\ Goto("delete") /\ UNCHANGED published
    <3>1. StillServing(request) = {} /\ NotLabelled = {}
      BY <2>3 DEF EvaluateRemovalGuard, NotBlocked
    <3>2. GuardInv'
      BY <1>5, <1>0, <2>3, <3>1
         DEF Guard, GuardInv, Goto, historyVars, StillServing, NotLabelled, TypeOK
    <3> QED
      BY <1>5, <1>0, <2>3, <3>2
         DEF Guard, Goto, TypeOK, WorkerInv, GroundsInv, IInv, historyVars, Steps,
             Publishing, Removing, Grounds
  <2>4. CASE Goto("record") /\ published' = [published EXCEPT !.blocked = decision]
    <3>1. published' \in Copy /\ OwnsObject(published')
      BY <2>1, <2>2, <2>4, AbsentAssumption DEF Copy, OwnsObject
    <3> QED
      BY <1>5, <1>0, <2>4, <3>1
         DEF Guard, Goto, TypeOK, WorkerInv, GuardInv, GroundsInv, IInv, historyVars, Steps,
             Publishing, Removing, Grounds
  <2>5. CASE BlockedRequeue
    <3>1. WorkerTypes' /\ WorkerInv' /\ GuardInv' /\ GroundsInv'
      BY <1>5, <1>0, <1>r, <2>5, FinishKeeps DEF Guard, BlockedRequeue, TypeOK
    <3> QED
      BY <1>5, <1>0, <3>1 DEF Guard, TypeOK, WorkerTypes, IInv
  <2> QED
    BY <1>5, <2>3, <2>4, <2>5 DEF Guard
<1>6. CASE RecordBlocked
  <2>1. WorkerTypes' /\ WorkerInv' /\ GuardInv' /\ GroundsInv'
    BY <1>6, <1>0, <1>r, FinishKeeps, DoneKeeps DEF RecordBlocked, TypeOK
  <2>2. published.blocked \in Decision
    BY <1>6, <1>0 DEF RecordBlocked, WorkerInv, TypeOK, Removing, OwnsObject, Copy
  <2>3. hub[request] # Absent => [hub[request] EXCEPT !.blocked = published.blocked] \in Copy
    BY <1>6, <1>r, <2>2 DEF RecordBlocked, Copy
  <2> QED
    BY <1>6, <1>0, <1>r, <2>1, <2>3, WriteHubType DEF RecordBlocked, TypeOK, WorkerTypes, IInv
<1>7. CASE Delete
  <2>1. WorkerTypes' /\ WorkerInv' /\ GuardInv' /\ GroundsInv'
    BY <1>7, <1>r, ThenKeeps DEF Delete, Publishing, Removing, Steps
  <2> QED
    BY <1>7, <1>0, <1>r, <2>1, WriteHubType DEF Delete, TypeOK, WorkerTypes, IInv
<1>8. CASE DeletePropagationPolicy
  <2>1. WorkerTypes' /\ WorkerInv' /\ GuardInv' /\ GroundsInv'
    BY <1>8, <1>0, <1>r, DoneKeeps DEF DeletePropagationPolicy
  <2> QED
    BY <1>8, <1>0, <1>r, <2>1, WritePolicyType DEF DeletePropagationPolicy, TypeOK, WorkerTypes, IInv
<1> QED
  BY <1>1, <1>2, <1>3, <1>4, <1>5, <1>6, <1>7, <1>8 DEF PublisherCall

LEMMA FailureKeeps == IInv /\ (CallFails \/ Restart) => IInv'
<1> USE DEF Untouched, hubVars, policyVars, sourceVars, cacheVars
<1>1. ASSUME IInv, CallFails PROVE IInv'
  <2>1. WorkerTypes' /\ WorkerInv' /\ GuardInv' /\ GroundsInv'
    BY <1>1, FinishKeeps, DisturbType DEF CallFails, IInv, WorkerInv
  <2> QED
    BY <1>1, <2>1 DEF CallFails, TypeOK, WorkerTypes, IInv
<1>2. ASSUME IInv, Restart PROVE IInv'
  <2>1. budget' \in 0 .. MaxDisturbances
    BY <1>2, DisturbType DEF Restart, IInv
  <2>2. TypeOK'
    BY <1>2, <2>1, EmptySeq DEF Restart, TypeOK, IInv, Steps
  <2> QED
    BY <1>2, <2>2 DEF Restart, WorkerInv, GuardInv, GroundsInv, IInv, Publishing, Removing
<1> QED
  BY <1>1, <1>2

-----------------------------------------------------------------------------
(* Nobody else disturbs what the worker knows.                             *)

LEMMA InterferenceKeeps == IInv /\ Interference => IInv'
<1> SUFFICES ASSUME IInv, Interference PROVE IInv'
  OBVIOUS
<1> USE DEF IInv, cacheVars, workerVars, historyVars
<1>1. TypeOK'
  BY InterferenceType
<1>2. UNCHANGED <<cacheVars, workerVars, grounds>>
  BY DEF Interference, CreateLocation, EditLocation, DeleteLocation, MeddleHub, AnnotateOverride,
         MeddlePolicy, ClusterChange, Tick
<1>3. WorkerInv' /\ GroundsInv'
  BY <1>2 DEF WorkerInv, GroundsInv, Grounds, OwnsObject
<1>4. GuardInv'
  <2>1. CASE UNCHANGED <<clusters, steady>>
    BY <1>2, <2>1 DEF GuardInv
  <2>2. ASSUME NEW c \in Clusters, ClusterChange(c) PROVE GuardInv'
    <3>1. step = "delete" => steady' = steady \ {c}
      BY <2>2 DEF ClusterChange
    <3>2. \A d \in Clusters \ {c} : clusters'[d] = clusters[d]
      BY <2>2 DEF ClusterChange, TypeOK
    <3> QED
      BY <1>2, <3>1, <3>2 DEF GuardInv, TypeOK
  <2> QED
    BY <2>1, <2>2 DEF Interference, CreateLocation, EditLocation, DeleteLocation, MeddleHub,
                      AnnotateOverride, MeddlePolicy, Tick
<1> QED
  BY <1>1, <1>3, <1>4

LEMMA DeliveryKeeps == IInv /\ (DeliverSource \/ DeliverHub \/ DeliverPolicy) => IInv'
<1> SUFFICES ASSUME IInv, DeliverSource \/ DeliverHub \/ DeliverPolicy PROVE IInv'
  OBVIOUS
<1> USE DEF IInv, cacheVars, workerVars, historyVars
<1>1. TypeOK'
  BY DeliveryType
<1>2. UNCHANGED <<workerVars, steady, clusters>>
  BY DEF DeliverSource, DeliverHub, DeliverPolicy
<1>3. WorkerInv' /\ GuardInv'
  BY <1>2 DEF WorkerInv, GuardInv, OwnsObject
<1>4. GroundsInv'
  BY <1>2 DEF GroundsInv, DeliverSource, DeliverHub, DeliverPolicy, Grounds, OwnsObject
<1> QED
  BY <1>1, <1>3, <1>4

-----------------------------------------------------------------------------
(* The invariant, and what follows from it.                                *)

LEMMA InitInv == Init => IInv
<1> SUFFICES ASSUME Init PROVE IInv
  OBVIOUS
<1>1. TypeOK
  <2>1. /\ srcWatch \in Seq([name : Names, object : Location \cup {Absent}])
        /\ hubWatch \in Seq([name : Names, object : Copy \cup {Absent}])
    BY EmptySeq DEF Init
  <2>2. clock \in 0 .. MaxClock /\ budget \in 0 .. MaxDisturbances
    BY BoundAssumption DEF Init
  <2>3. \A f : f = [n \in Names |-> Absent] => f \in [Names -> Location \cup {Absent}]
                                           /\ f \in [Names -> Copy \cup {Absent}]
    OBVIOUS
  <2>4. /\ source \in [Names -> Location \cup {Absent}]
        /\ srcCache \in [Names -> Location \cup {Absent}]
        /\ hub \in [Names -> Copy \cup {Absent}]
        /\ hubCache \in [Names -> Copy \cup {Absent}]
    BY <2>3 DEF Init
  <2>5. policy \in [Names -> {"absent", "applied", "altered"}] /\ policyWatch \subseteq Names
    BY DEF Init
  <2> QED
    BY <2>1, <2>2, <2>4, <2>5 DEF Init, TypeOK, Steps
<1>2. WorkerInv /\ GuardInv /\ GroundsInv
  BY DEF Init, WorkerInv, GuardInv, GroundsInv, Publishing, Removing
<1> QED
  BY <1>1, <1>2 DEF IInv

LEMMA StepInv == IInv /\ [Next]_vars => IInv'
<1> SUFFICES ASSUME IInv, [Next]_vars PROVE IInv'
  OBVIOUS
<1>1. CASE UNCHANGED vars
  BY <1>1 DEF vars, sourceVars, hubVars, policyVars, cacheVars, workerVars, historyVars,
              IInv, TypeOK, WorkerInv, GuardInv, GroundsInv, Grounds, OwnsObject
<1>2. CASE Next
  BY <1>2, InterferenceKeeps, DeliveryKeeps, BeginKeeps, CallKeeps, FailureKeeps DEF Next, Publisher
<1> QED
  BY <1>1, <1>2

\* The inductive invariant: the types, what the worker knows at each step, and
\* that neither the guard's nor the prune check's answer is lost on the way to
\* the delete.
THEOREM Invariance == Spec => []IInv
BY InitInv, StepInv, PTL DEF Spec

\* Every reachable state of the publisher, its caches and the hub is well
\* formed.
THEOREM TypeCorrect == Spec => []TypeOK
<1>1. IInv => TypeOK
  BY DEF IInv
<1> QED
  BY Invariance, <1>1, PTL

\* Only the Delete call makes a hub object go away.
LEMMA OnlyDeleteRemoves ==
    ASSUME IInv, NEW n \in Names, Removes(n)
    PROVE  Delete /\ request = n
<1>1. step # "idle" => request \in Names
  BY DEF IInv, WorkerInv
<1>2. PublisherCall /\ hub[n] # Absent /\ hub'[n] = Absent /\ hub \in [Names -> Copy \cup {Absent}]
  BY DEF Removes, IInv, TypeOK
<1> USE DEF Untouched, hubVars
<1>4. ~Apply
  <2> SUFFICES ASSUME Apply PROVE FALSE
    OBVIOUS
  <2>1. Applied(hub[request]) \in Copy
    BY <1>1, <1>2, AppliedType DEF Apply, IInv, WorkerInv, Publishing
  <2> QED
    BY <1>2, <2>1, AbsentAssumption DEF Apply, WriteHub, hubVars
<1>5. ~ClearBlocked
  <2> SUFFICES ASSUME ClearBlocked PROVE FALSE
    OBVIOUS
  <2>1. hub[request] # Absent => [hub[request] EXCEPT !.blocked = NotBlocked] \in Copy
    BY <1>1, <1>2 DEF ClearBlocked, Copy, NotBlocked, Decision, Reasons
  <2> QED
    BY <1>2, <2>1, AbsentAssumption DEF ClearBlocked, WriteHub, hubVars
<1>6. ~RecordBlocked
  <2> SUFFICES ASSUME RecordBlocked PROVE FALSE
    OBVIOUS
  <2>1. published.blocked \in Decision
    BY DEF RecordBlocked, IInv, WorkerInv, TypeOK, Removing, OwnsObject, Copy
  <2>2. hub[request] # Absent => [hub[request] EXCEPT !.blocked = published.blocked] \in Copy
    BY <1>1, <1>2, <2>1 DEF RecordBlocked, Copy
  <2> QED
    BY <1>2, <2>2, AbsentAssumption DEF RecordBlocked, WriteHub, hubVars
<1>7. ~ApplyPropagationPolicy /\ ~Prune /\ ~Guard /\ ~DeletePropagationPolicy
  BY <1>2 DEF ApplyPropagationPolicy, Prune, Guard, DeletePropagationPolicy
<1>8. Delete
  BY <1>2, <1>4, <1>5, <1>6, <1>7 DEF PublisherCall
<1>9. request = n
  BY <1>2, <1>8 DEF Delete, WriteHub
<1> QED
  BY <1>8, <1>9

\* What the three checks of a reconcile are worth at its writes, whoever else may
\* have taken a step: the inductive invariant is all they need.
LEMMA GuardStep ==
    IInv => \A n \in Names : Removes(n) /\ ~published.override =>
              \A c \in steady : ~(clusters[c].ready /\ clusters[c].label \in {n, Unlabelled})
<1> SUFFICES ASSUME IInv, NEW n \in Names, Removes(n), ~published.override
             PROVE  \A c \in steady : ~(clusters[c].ready /\ clusters[c].label \in {n, Unlabelled})
  OBVIOUS
<1>1. step = "delete" /\ request = n
  BY OnlyDeleteRemoves DEF Delete
<1> QED
  BY <1>1 DEF IInv, GuardInv

LEMMA EmptyListStep == IInv => \A n \in Names : Removes(n) => grounds
<1> SUFFICES ASSUME IInv, NEW n \in Names, Removes(n) PROVE grounds
  OBVIOUS
<1>1. step = "delete"
  BY OnlyDeleteRemoves DEF Delete
<1> QED
  BY <1>1 DEF IInv, GroundsInv, Removing

LEMMA BlindWriteStep ==
    IInv => \A n \in Names :
              PublisherCall /\ hub[n] # Absent /\ ~OwnsObject(hub[n]) /\ hub'[n] # hub[n]
                => published = Absent \/ OwnsObject(published)
<1> SUFFICES ASSUME IInv, PublisherCall PROVE published = Absent \/ OwnsObject(published)
  OBVIOUS
<1>1. step \in Publishing \cup Removing
  BY DEF PublisherCall, Apply, ApplyPropagationPolicy, ClearBlocked, Prune, Guard, RecordBlocked,
         Delete, DeletePropagationPolicy, Publishing, Removing
<1> QED
  BY <1>1 DEF IInv, WorkerInv

\* No interleaving with other actors, lagging caches, failures or restarts
\* makes the worker take away, unasked, a copy that a Ready cluster which has
\* not changed since the reconcile began still claims or might claim.
THEOREM GuardIsHonoured == Spec => GuardHonoured
BY Invariance, GuardStep, PTL DEF Spec, GuardHonoured

\* A source that suddenly lists nothing empties no hub, whatever else happens.
THEOREM EmptyListIsNotBelieved == Spec => EmptyListNotBelieved
BY Invariance, EmptyListStep, PTL DEF Spec, EmptyListNotBelieved

\* The worker never writes a stranger's object that its cache had shown it.
THEOREM NoWriteIsBlind == Spec => NoBlindWrite
BY Invariance, BlindWriteStep, PTL DEF Spec, NoBlindWrite

\* Publishing a copy that was read as it is moves its publishedAt exactly with
\* its content (publishedContentEqual), for every topology without padding.
THEOREM StampsTrackContent == Spec => StampTracksContent
<1> DEFINE Tracks ==
             \A n \in Names :
               /\ Apply /\ request = n
               /\ hub[n] # Absent /\ hub[n] = published
               /\ ~published.foreignKey /\ location.topology \notin Padded
               => IF Content(hub'[n]) = Content(hub[n])
                  THEN hub'[n].publishedAt = hub[n].publishedAt
                  ELSE hub'[n].publishedAt = clock
<1>1. ASSUME IInv, NEW n \in Names, Apply, request = n, hub[n] # Absent, hub[n] = published,
             ~published.foreignKey, location.topology \notin Padded
      PROVE  IF Content(hub'[n]) = Content(hub[n])
             THEN hub'[n].publishedAt = hub[n].publishedAt
             ELSE hub'[n].publishedAt = clock
  <2> DEFINE object == Applied(hub[n])
  <2>1. hub'[n] = object
    BY <1>1 DEF Apply, WriteHub, hubVars, IInv, TypeOK
  <2>2. /\ object.topology = location.topology /\ object.generation = location.generation
        /\ object.publishedAt = PublishedAt
    BY DEF Applied
  <2>3. PublishedContentEqual(published, location)
          <=> published.generation = location.generation /\ published.topology = location.topology
    BY <1>1 DEF PublishedContentEqual
  <2>4. PublishedAt = IF Content(object) = Content(published) THEN published.publishedAt ELSE clock
    <3> HIDE DEF object
    <3>1. Content(object) = Content(published) <=> PublishedContentEqual(published, location)
      BY <2>2, <2>3 DEF Content
    <3> QED
      BY <1>1, <3>1 DEF PublishedAt
  <2> HIDE DEF object
  <2> QED
    BY <1>1, <2>1, <2>2, <2>4
<1>2. IInv /\ [Next]_vars => [Tracks]_vars
  BY <1>1
<1>3. Spec => [][Tracks]_vars
  <2> HIDE DEF Tracks
  <2> QED
    BY <1>2, Invariance, PTL DEF Spec
<1> QED
  BY <1>3 DEF StampTracksContent
-----------------------------------------------------------------------------
(* No wake-up is lost.  The worker may be told anything late, but never    *)
(* too late: whatever happens to a name leaves an event, an entry of the   *)
(* queue or the running reconcile behind, and what the worker has read of  *)
(* a name about which nothing is on its way is what the servers have.      *)

\* Nothing is on its way that would make the worker look at n again.
Quiet(n) ==
    /\ n \notin queue /\ n \notin policyWatch
    /\ ~InFlight(srcWatch, n) /\ ~InFlight(hubWatch, n)

\* There is nothing to do for n.
Rest(n) ==
    /\ Publishable(n) => Taken(n) \/ Current(n)
    /\ source[n] = Absent => ~OwnsObject(hub[n])

\* Both caches will be right.
Watched == CatchesUp(srcCache, srcWatch, source) /\ CatchesUp(hubCache, hubWatch, hub)

\* What the worker has read and done is right, unless something about the name
\* it is reconciling has happened since, and then it will look again.
UpToDate ==
    /\ step = "idle" => request = Absent
    /\ step # "idle" /\ Quiet(request) =>
         /\ location = source[request]
         /\ step # "record" => published = hub[request]
         /\ step \in {"policy", "clear"} =>
              /\ published # Absent
              /\ Content(published) = [topology |-> location.topology, generation |-> location.generation]
         /\ step = "clear" => policy[request] = "applied"
         /\ step # "deletePolicy"

WakeInv == Watched /\ UpToDate /\ NothingForgotten

\* A step in which no wake-up is consumed, and every change causes one.
Heard ==
    /\ \A n \in Names : Quiet(n)' => Quiet(n)
    /\ \A n \in Names : Quiet(n)' => source'[n] = source[n] /\ hub'[n] = hub[n] /\ policy'[n] = policy[n]

LEMMA ForgottenOrNot == NothingForgotten <=> \A n \in Names : Rest(n) \/ request = n \/ ~Quiet(n)
BY DEF NothingForgotten, Awaited, Rest, Quiet

LEMMA SourceWriteHeard ==
    ASSUME TypeOK, Watched, NEW n \in Names, NEW object \in Location \cup {Absent},
           WriteSource(n, object), UNCHANGED <<hubVars, policyVars, cacheVars, queue>>
    PROVE  Watched' /\ Heard
<1> DEFINE e == Event(n, object)
<1>1. srcWatch \in Seq(Events(Names, Location \cup {Absent})) /\ source \in [Names -> Location \cup {Absent}]
  BY DEF TypeOK, Events
<1>2. e \in Events(Names, Location \cup {Absent}) /\ e.name = n
  BY DEF Event, Events
<1>3. source' = [source EXCEPT ![n] = object] /\ srcWatch' = Append(srcWatch, e)
  BY DEF WriteSource
<1>4. CatchesUp(srcCache, srcWatch, source)'
  <2>1. CatchesUp(srcCache, srcWatch, source) /\ e.name = n /\ e.object = object
    BY DEF Watched, Event
  <2> HIDE DEF e
  <2>2. CatchesUp(srcCache, Append(srcWatch, e), [source EXCEPT ![e.name] = e.object])
    BY <1>1, <1>2, <2>1, SendCatchesUp
  <2> QED
    BY <1>3, <2>1, <2>2 DEF cacheVars
<1>5. InFlight(srcWatch, n)' /\ \A m : InFlight(srcWatch, m) => InFlight(srcWatch, m)'
  BY <1>1, <1>2, <1>3, SendKeepsInFlight
<1> QED
  BY <1>1, <1>3, <1>4, <1>5 DEF Watched, Heard, Quiet, hubVars, policyVars, cacheVars

LEMMA HubWriteHeard ==
    ASSUME TypeOK, Watched, NEW n \in Names, NEW object \in Copy \cup {Absent},
           WriteHub(n, object), UNCHANGED <<sourceVars, policyVars, cacheVars>>, queue \subseteq queue'
    PROVE  Watched' /\ Heard
<1> DEFINE e == Event(n, object)
<1>1. hubWatch \in Seq(Events(Names, Copy \cup {Absent})) /\ hub \in [Names -> Copy \cup {Absent}]
  BY DEF TypeOK, Events
<1>2. e \in Events(Names, Copy \cup {Absent}) /\ e.name = n
  BY DEF Event, Events
<1>3. CASE object = hub[n]
  BY <1>3 DEF WriteHub, Watched, Heard, Quiet, hubVars, sourceVars, policyVars, cacheVars
<1>4. CASE object # hub[n]
  <2>1. hub' = [hub EXCEPT ![n] = object] /\ hubWatch' = Append(hubWatch, e)
    BY <1>4 DEF WriteHub
  <2>2. CatchesUp(hubCache, hubWatch, hub)'
    <3>1. CatchesUp(hubCache, hubWatch, hub) /\ e.name = n /\ e.object = object
      BY DEF Watched, Event
    <3> HIDE DEF e
    <3>2. CatchesUp(hubCache, Append(hubWatch, e), [hub EXCEPT ![e.name] = e.object])
      BY <1>1, <1>2, <3>1, SendCatchesUp
    <3> QED
      BY <2>1, <3>1, <3>2 DEF cacheVars
  <2>3. InFlight(hubWatch, n)' /\ \A m : InFlight(hubWatch, m) => InFlight(hubWatch, m)'
    BY <1>1, <1>2, <2>1, SendKeepsInFlight
  <2> QED
    BY <1>1, <2>1, <2>2, <2>3 DEF Watched, Heard, Quiet, sourceVars, policyVars, cacheVars
<1> QED
  BY <1>3, <1>4

LEMMA PolicyWriteHeard ==
    ASSUME TypeOK, Watched, NEW n \in Names, NEW value, WritePolicy(n, value),
           UNCHANGED <<sourceVars, hubVars, cacheVars>>, queue \subseteq queue'
    PROVE  Watched' /\ Heard
BY DEF TypeOK, WritePolicy, Watched, Heard, Quiet, sourceVars, hubVars, cacheVars

LEMMA NothingWrittenHeard ==
    ASSUME Watched, UNCHANGED <<sourceVars, hubVars, policyVars, cacheVars>>, queue \subseteq queue'
    PROVE  Watched' /\ Heard
BY DEF Watched, Heard, Quiet, sourceVars, hubVars, policyVars, cacheVars

LEMMA DeliveryHeard ==
    ASSUME TypeOK, Watched, DeliverSource \/ DeliverHub \/ DeliverPolicy
    PROVE  Watched' /\ Heard
<1>1. CASE DeliverSource
  <2> DEFINE e == Head(srcWatch)
  <2>1. /\ srcWatch \in Seq(Events(Names, Location \cup {Absent})) /\ srcWatch # <<>>
        /\ source \in [Names -> Location \cup {Absent}] /\ srcCache \in [Names -> Location \cup {Absent}]
    BY <1>1 DEF TypeOK, Events, DeliverSource
  <2>2. /\ srcCache' = [srcCache EXCEPT ![e.name] = e.object] /\ srcWatch' = Tail(srcWatch)
        /\ queue' = queue \cup {e.name}
        /\ UNCHANGED <<source, hub, hubCache, hubWatch, policy, policyWatch>>
    BY <1>1 DEF DeliverSource, EnqueueByName, hubVars, policyVars
  <2>3. CatchesUp(srcCache, srcWatch, source)'
    <3>1. CatchesUp([srcCache EXCEPT ![e.name] = e.object], Tail(srcWatch), source)
      BY <2>1, DeliveryCatchesUp DEF Watched
    <3> QED
      BY <2>2, <3>1
  <2>4. \A n : InFlight(srcWatch, n) => InFlight(srcWatch, n)' \/ n = e.name
    BY <2>1, <2>2, DeliveryInFlight
  <2> HIDE DEF e
  <2> QED
    BY <2>2, <2>3, <2>4 DEF Watched, Heard, Quiet
<1>2. CASE DeliverHub
  <2> DEFINE e == Head(hubWatch)
  <2>1. /\ hubWatch \in Seq(Events(Names, Copy \cup {Absent})) /\ hubWatch # <<>>
        /\ hub \in [Names -> Copy \cup {Absent}] /\ hubCache \in [Names -> Copy \cup {Absent}]
    BY <1>2 DEF TypeOK, Events, DeliverHub
  <2>2. /\ hubCache' = [hubCache EXCEPT ![e.name] = e.object] /\ hubWatch' = Tail(hubWatch)
        /\ queue' = queue \cup {e.name}
        /\ UNCHANGED <<hub, source, srcCache, srcWatch, policy, policyWatch>>
    BY <1>2 DEF DeliverHub, EnqueueByName, sourceVars, policyVars
  <2>3. CatchesUp(hubCache, hubWatch, hub)'
    <3>1. CatchesUp([hubCache EXCEPT ![e.name] = e.object], Tail(hubWatch), hub)
      BY <2>1, DeliveryCatchesUp DEF Watched
    <3> QED
      BY <2>2, <3>1
  <2>4. \A n : InFlight(hubWatch, n) => InFlight(hubWatch, n)' \/ n = e.name
    BY <2>1, <2>2, DeliveryInFlight
  <2> HIDE DEF e
  <2> QED
    BY <2>2, <2>3, <2>4 DEF Watched, Heard, Quiet
<1>3. CASE DeliverPolicy
  BY <1>3 DEF DeliverPolicy, EnqueuePolicyOwner, Watched, Heard, Quiet, cacheVars, sourceVars, hubVars
<1> QED
  BY <1>1, <1>2, <1>3

LEMMA InterferenceHeard ==
    ASSUME TypeOK, Watched, Interference
    PROVE  Watched' /\ Heard /\ UNCHANGED workerVars
<1>1. ASSUME NEW n \in Names, CreateLocation(n) PROVE Watched' /\ Heard
  <2>1. PICK t \in Topologies : WriteSource(n, [generation |-> 1, topology |-> t])
    BY <1>1 DEF CreateLocation
  <2>2. [generation |-> 1, topology |-> t] \in Location
    BY BoundAssumption DEF Location
  <2> QED
    BY <1>1, <2>1, <2>2, SourceWriteHeard DEF CreateLocation
<1>2. ASSUME NEW n \in Names, EditLocation(n) PROVE Watched' /\ Heard
  <2>1. PICK t \in Topologies :
          WriteSource(n, [generation |-> source[n].generation + 1, topology |-> t])
    BY <1>2 DEF EditLocation
  <2>2. [generation |-> source[n].generation + 1, topology |-> t] \in Location
    BY <1>2, BoundAssumption DEF Location, EditLocation, TypeOK
  <2> QED
    BY <1>2, <2>1, <2>2, SourceWriteHeard DEF EditLocation
<1>3. ASSUME NEW n \in Names, DeleteLocation(n) PROVE Watched' /\ Heard
  BY <1>3, SourceWriteHeard DEF DeleteLocation
<1>4. ASSUME NEW n \in Names, MeddleHub(n) PROVE Watched' /\ Heard
  <2>1. PICK object \in MeddledHub(n) : WriteHub(n, object)
    BY <1>4 DEF MeddleHub
  <2>2. object \in Copy \cup {Absent}
    BY <2>1, MeddledHubType
  <2> QED
    BY <1>4, <2>1, <2>2, HubWriteHeard DEF MeddleHub
<1>5. ASSUME NEW n \in Names, AnnotateOverride(n) PROVE Watched' /\ Heard
  <2>1. [hub[n] EXCEPT !.override = ~@] \in Copy
    BY <1>5 DEF AnnotateOverride, Copy, TypeOK
  <2> QED
    BY <1>5, <2>1, HubWriteHeard DEF AnnotateOverride
<1>6. ASSUME NEW n \in Names, MeddlePolicy(n) PROVE Watched' /\ Heard
  <2>1. PICK value \in {"absent", "altered"} : WritePolicy(n, value)
    BY <1>6 DEF MeddlePolicy
  <2> QED
    BY <1>6, <2>1, PolicyWriteHeard DEF MeddlePolicy
<1>7. ASSUME NEW c \in Clusters, ClusterChange(c) PROVE Watched' /\ Heard
  BY <1>7, NothingWrittenHeard DEF ClusterChange
<1>8. CASE Tick
  BY <1>8, NothingWrittenHeard DEF Tick
<1>9. UNCHANGED workerVars
  BY DEF Interference, CreateLocation, EditLocation, DeleteLocation, MeddleHub, AnnotateOverride,
         MeddlePolicy, ClusterChange, Tick
<1> QED
  BY <1>1, <1>2, <1>3, <1>4, <1>5, <1>6, <1>7, <1>8, <1>9 DEF Interference
-----------------------------------------------------------------------------
(* The worker forgets no name either.                                      *)

LEMMA HeardForgetsNothing ==
    ASSUME NothingForgotten, Heard, UNCHANGED request
    PROVE  NothingForgotten'
<1>1. ASSUME NEW n \in Names, Quiet(n)', (request # n)' PROVE Rest(n)'
  <2>1. Quiet(n) /\ UNCHANGED <<source[n], hub[n], policy[n]>>
    BY <1>1 DEF Heard
  <2>2. Rest(n)
    BY <1>1, <2>1, ForgottenOrNot
  <2> QED
    BY <2>1, <2>2 DEF Rest, Publishable, Taken, Current, OwnsObject
<1> QED
  BY <1>1 DEF NothingForgotten, Awaited, Rest, Quiet

\* A reconcile that is over has left nothing to do, or is followed by another.
LEMMA FinishForgetsNothing ==
    ASSUME TypeOK, NothingForgotten, Heard, NEW n \in Names, request = n, NEW requeued, Finish(requeued),
           ~requeued /\ Quiet(n)' => Rest(n)'
    PROVE  NothingForgotten' /\ UpToDate'
<1>1. ASSUME NEW m \in Names, Quiet(m)' PROVE Rest(m)'
  <2>1. CASE m = n
    <3>1. ~requeued
      BY <1>1, <2>1 DEF Finish, Quiet
    <3> QED
      BY <1>1, <2>1, <3>1
  <2>2. CASE m # n
    <3>1. Quiet(m) /\ UNCHANGED <<source[m], hub[m], policy[m]>>
      BY <1>1 DEF Heard
    <3>2. Rest(m)
      BY <2>2, <3>1, ForgottenOrNot
    <3> QED
      BY <3>1, <3>2 DEF Rest, Publishable, Taken, Current, OwnsObject
  <2> QED
    BY <2>1, <2>2
<1> QED
  BY <1>1 DEF NothingForgotten, Awaited, Rest, Quiet, UpToDate, Finish

LEMMA DoneForgetsNothing ==
    ASSUME TypeOK, NothingForgotten, Heard, NEW n \in Names, request = n, NEW requeued, Done(requeued),
           ~requeued /\ Quiet(n)' => Rest(n)'
    PROVE  NothingForgotten' /\ UpToDate'
<1>1. CASE Finish(requeued)
  BY <1>1, FinishForgetsNothing
<1>2. CASE ReplyLost
  BY <1>2, FinishForgetsNothing DEF ReplyLost
<1> QED
  BY <1>1, <1>2 DEF Done

LEMMA ThenForgetsNothing ==
    ASSUME TypeOK, NothingForgotten, Heard, NEW n \in Names, request = n, NEW next, Then(next),
           Goto(next) /\ UNCHANGED published => UpToDate'
    PROVE  NothingForgotten' /\ UpToDate'
<1>1. CASE Goto(next) /\ UNCHANGED published
  BY <1>1, HeardForgetsNothing DEF Goto
<1>2. CASE ReplyLost
  BY <1>2, FinishForgetsNothing DEF ReplyLost
<1> QED
  BY <1>1, <1>2 DEF Then

LEMMA QueueGrows ==
    /\ \A next : Then(next) => queue \subseteq queue'
    /\ \A requeued : Done(requeued) \/ Finish(requeued) => queue \subseteq queue'
BY DEF Then, Done, ReplyLost, Goto, Finish

LEMMA BeginForgetsNothing ==
    ASSUME IInv, WakeInv, NEW n \in Names, BeginReconcile(n)
    PROVE  WakeInv'
<1> USE DEF Untouched
<1>1. /\ step = "idle" /\ queue' = queue \ {n}
      /\ UNCHANGED <<sourceVars, hubVars, policyVars, cacheVars>>
  BY DEF BeginReconcile, BeginPublish, RefusePublish, BeginRemove, NothingToRemove, Begin, Skip
<1>2. Watched'
  BY <1>1 DEF WakeInv, Watched, sourceVars, hubVars, cacheVars
<1>3. ASSUME Quiet(n)' PROVE srcCache[n] = source[n] /\ hubCache[n] = hub[n]
  BY <1>1, <1>3 DEF Quiet, WakeInv, Watched, CatchesUp, sourceVars, hubVars, IInv, TypeOK
<1>4. ASSUME NEW m \in Names, m # n, Quiet(m)' PROVE Rest(m)'
  <2>1. Quiet(m)
    BY <1>1, <1>4 DEF Quiet, sourceVars, hubVars, policyVars
  <2>2. request # m
    BY <1>1, AbsentAssumption DEF WakeInv, UpToDate
  <2>3. Rest(m)
    BY <2>1, <2>2, ForgottenOrNot DEF WakeInv
  <2> QED
    BY <1>1, <2>3 DEF Rest, Publishable, Taken, Current, OwnsObject, sourceVars, hubVars, policyVars
<1>5. ASSUME NEW next \in {"apply", "prune"}, Begin(n, next) PROVE UpToDate' /\ NothingForgotten'
  <2>1. UpToDate'
    BY <1>1, <1>3, <1>5 DEF Begin, UpToDate, sourceVars, hubVars
  <2>2. NothingForgotten'
    BY <1>4, <1>5 DEF Begin, NothingForgotten, Awaited, Rest, Quiet
  <2> QED
    BY <2>1, <2>2
<1>6. ASSUME RefusePublish(n) \/ NothingToRemove(n), Skip(n) PROVE UpToDate' /\ NothingForgotten'
  <2>1. ASSUME Quiet(n)' PROVE Rest(n)'
    <3>1. srcCache[n] = source[n] /\ hubCache[n] = hub[n] /\ UNCHANGED <<source, hub>>
      BY <1>1, <1>3, <2>1 DEF sourceVars, hubVars
    <3> QED
      BY <1>6, <3>1 DEF RefusePublish, NothingToRemove, Rest, Publishable, Taken, OwnsObject
  <2>2. NothingForgotten'
    BY <1>4, <2>1 DEF NothingForgotten, Awaited, Rest, Quiet
  <2>3. UpToDate'
    BY <1>1, <1>6 DEF Skip, WakeInv, UpToDate, workerVars
  <2> QED
    BY <2>2, <2>3
<1>7. UpToDate' /\ NothingForgotten'
  BY <1>5, <1>6 DEF BeginReconcile, BeginPublish, RefusePublish, BeginRemove, NothingToRemove
<1> QED
  BY <1>2, <1>7 DEF WakeInv

LEMMA CallHeard ==
    ASSUME IInv, Watched, PublisherCall \/ CallFails
    PROVE  Watched' /\ Heard
<1>r. request \in Names /\ hub[request] \in Copy \cup {Absent} /\ TypeOK
  BY DEF PublisherCall, Apply, ApplyPropagationPolicy, ClearBlocked, Prune, Guard, RecordBlocked, Delete,
         DeletePropagationPolicy, CallFails, IInv, WorkerInv, TypeOK
<1> USE DEF Untouched
<1>1. CASE Apply
  <2>1. Applied(hub[request]) \in Copy
    BY <1>1, <1>r, AppliedType DEF Apply, IInv, WorkerInv, Publishing
  <2> QED
    BY <1>1, <1>r, <2>1, HubWriteHeard, QueueGrows DEF Apply
<1>2. CASE ApplyPropagationPolicy
  BY <1>2, <1>r, PolicyWriteHeard, QueueGrows DEF ApplyPropagationPolicy
<1>3. CASE ClearBlocked
  <2>1. hub[request] # Absent => [hub[request] EXCEPT !.blocked = NotBlocked] \in Copy
    BY <1>r DEF Copy, NotBlocked, Decision, Reasons
  <2> QED
    BY <1>3, <1>r, <2>1, HubWriteHeard, NothingWrittenHeard, QueueGrows DEF ClearBlocked
<1>4. CASE Prune \/ Guard \/ CallFails
  <2>1. queue \subseteq queue'
    BY <1>4, QueueGrows DEF Prune, Guard, CallFails, BlockedRequeue, Goto
  <2> QED
    BY <1>4, <2>1, NothingWrittenHeard DEF Prune, Guard, CallFails
<1>5. CASE RecordBlocked
  <2>1. published.blocked \in Decision
    BY <1>5 DEF RecordBlocked, IInv, WorkerInv, TypeOK, Removing, OwnsObject, Copy
  <2>2. hub[request] # Absent => [hub[request] EXCEPT !.blocked = published.blocked] \in Copy
    BY <1>r, <2>1 DEF Copy
  <2> QED
    BY <1>5, <1>r, <2>2, HubWriteHeard, NothingWrittenHeard, QueueGrows DEF RecordBlocked
<1>6. CASE Delete
  BY <1>6, <1>r, HubWriteHeard, QueueGrows DEF Delete
<1>7. CASE DeletePropagationPolicy
  BY <1>7, <1>r, PolicyWriteHeard, QueueGrows DEF DeletePropagationPolicy
<1> QED
  BY <1>1, <1>2, <1>3, <1>4, <1>5, <1>6, <1>7 DEF PublisherCall
LEMMA CallForgetsNothing ==
    ASSUME IInv, WakeInv, PublisherCall \/ CallFails
    PROVE  WakeInv'
<1>0. step # "idle" /\ request \in Names
  BY DEF PublisherCall, Apply, ApplyPropagationPolicy, ClearBlocked, Prune, Guard, RecordBlocked, Delete,
         DeletePropagationPolicy, CallFails, IInv, WorkerInv
<1>n. PICK n \in Names : request = n
  BY <1>0
<1>r. /\ request = n /\ step # "idle" /\ hub[n] \in Copy \cup {Absent}
      /\ TypeOK /\ WorkerInv /\ NothingForgotten
  BY <1>0, <1>n DEF IInv, TypeOK, WakeInv
<1>h. Watched' /\ Heard
  BY CallHeard DEF WakeInv
<1>q. ASSUME Quiet(n)'
      PROVE  /\ Quiet(n) /\ UNCHANGED <<source[n], hub[n], policy[n]>>
             /\ location = source[n]
             /\ step # "record" => published = hub[n]
             /\ step \in {"policy", "clear"} =>
                  /\ published # Absent
                  /\ Content(published) = [topology |-> location.topology, generation |-> location.generation]
             /\ step = "clear" => policy[n] = "applied"
             /\ step # "deletePolicy"
  BY <1>r, <1>h, <1>q DEF Heard, WakeInv, UpToDate
<1> USE DEF Untouched
<1>1. CASE Apply
  <2>1. Applied(hub[n]) \in Copy
    BY <1>1, <1>r, AppliedType DEF Apply, WorkerInv, Publishing
  <2>2. hub'[n] = Applied(hub[n])
    BY <1>1, <1>r DEF Apply, WriteHub, hubVars, TypeOK
  <2>3. Content(Applied(hub[n])) = [topology |-> location.topology, generation |-> location.generation]
    BY DEF Applied, Content
  <2>4. ASSUME Goto("policy"), UNCHANGED published PROVE UpToDate'
    <3>1. ASSUME Quiet(n)'
          PROVE  /\ published = Applied(hub[n]) /\ published # Absent
                 /\ UNCHANGED <<source[n], hub[n]>> /\ location = source[n]
      BY <1>1, <1>q, <2>1, <2>2, <3>1, AbsentAssumption DEF Apply
    <3> QED
      BY <1>r, <2>2, <2>3, <2>4, <3>1 DEF UpToDate, Goto
  <2> QED
    BY <1>1, <1>r, <1>h, <2>4, ThenForgetsNothing DEF Apply, WakeInv
<1>2. CASE ApplyPropagationPolicy
  <2>1. policy'[n] = "applied" /\ step = "policy"
    BY <1>2, <1>r DEF ApplyPropagationPolicy, WritePolicy, TypeOK
  <2>2. ASSUME Goto("clear"), UNCHANGED published PROVE UpToDate'
    BY <1>r, <1>q, <2>1, <2>2 DEF UpToDate, Goto
  <2>3. ASSUME ~CarriesBlocked, Quiet(n)' PROVE Rest(n)'
    <3>1. /\ source'[n] = location /\ location \in Location
          /\ hub'[n] = published /\ OwnsObject(published) /\ published.blocked = NotBlocked
          /\ Content(published) = [topology |-> location.topology, generation |-> location.generation]
      BY <1>r, <1>q, <2>1, <2>3 DEF WorkerInv, Publishing, CarriesBlocked
    <3> QED
      BY <2>1, <3>1, AbsentAssumption DEF Rest, Current, OwnsObject
  <2> QED
    BY <1>2, <1>r, <1>h, <2>2, <2>3, ThenForgetsNothing, DoneForgetsNothing DEF ApplyPropagationPolicy, WakeInv
<1>3. CASE ClearBlocked
  <2>1. CASE hub[n] = Absent
    BY <1>3, <1>r, <1>h, <2>1, FinishForgetsNothing DEF ClearBlocked, WakeInv
  <2>2. CASE hub[n] # Absent
    <3>1. hub'[n] = [hub[n] EXCEPT !.blocked = NotBlocked] /\ hub[n] \in Copy
      BY <1>3, <1>r, <2>2 DEF ClearBlocked, WriteHub, hubVars, TypeOK
    <3>2. hub'[n].blocked = NotBlocked
      BY <3>1 DEF Copy
    <3>3. ASSUME Quiet(n)' PROVE Rest(n)'
      <4>1. /\ source'[n] = location /\ location \in Location
            /\ hub'[n] = published /\ OwnsObject(published) /\ policy'[n] = "applied"
            /\ Content(published) = [topology |-> location.topology, generation |-> location.generation]
        BY <1>3, <1>r, <1>q, <3>3 DEF ClearBlocked, WorkerInv, Publishing
      <4> QED
        BY <3>2, <4>1, AbsentAssumption DEF Rest, Current, OwnsObject
    <3> QED
      BY <1>3, <1>r, <1>h, <2>2, <3>3, DoneForgetsNothing DEF ClearBlocked, WakeInv
  <2> QED
    BY <2>1, <2>2
<1>4. CASE Prune
  <2>1. ASSUME NEW next \in {"delete", "guard"}, Goto(next), UNCHANGED published PROVE UpToDate'
    BY <1>4, <1>r, <1>q, <2>1 DEF Prune, UpToDate, Goto
  <2>2. CASE PruneAllowed
    BY <1>4, <1>r, <1>h, <2>1, <2>2, HeardForgetsNothing DEF Prune, Goto, WakeInv
  <2>3. CASE ~PruneAllowed
    BY <1>4, <1>r, <1>h, <2>3, FinishForgetsNothing DEF Prune, BlockedRequeue, WakeInv
  <2> QED
    BY <2>2, <2>3
<1>5. CASE Guard
  <2>1. ASSUME Goto("delete"), UNCHANGED published PROVE UpToDate'
    BY <1>5, <1>r, <1>q, <2>1 DEF Guard, UpToDate, Goto
  <2>2. ASSUME Goto("record") PROVE UpToDate'
    BY <1>5, <1>r, <1>q, <2>2 DEF Guard, UpToDate, Goto
  <2>3. CASE BlockedRequeue
    BY <1>r, <1>h, <2>3, FinishForgetsNothing DEF BlockedRequeue, WakeInv
  <2>4. CASE (Goto("delete") /\ UNCHANGED published) \/ Goto("record")
    BY <1>r, <1>h, <2>1, <2>2, <2>4, HeardForgetsNothing DEF Goto, WakeInv
  <2> QED
    BY <1>5, <2>3, <2>4 DEF Guard
<1>6. CASE RecordBlocked
  BY <1>6, <1>r, <1>h, FinishForgetsNothing, DoneForgetsNothing DEF RecordBlocked, WakeInv
<1>7. CASE Delete
  <2>1. hub'[n] = Absent
    BY <1>7, <1>r DEF Delete, WriteHub, hubVars, TypeOK
  <2>2. ~Quiet(n)'
    <3> SUFFICES ASSUME Quiet(n)' PROVE FALSE
      OBVIOUS
    <3>1. published = hub[n] /\ hub'[n] = hub[n]
      BY <1>7, <1>q DEF Delete
    <3>2. OwnsObject(published)
      BY <1>7, <1>r DEF Delete, WorkerInv, Removing
    <3> QED
      BY <2>1, <3>1, <3>2 DEF OwnsObject
  <2>3. ASSUME Goto("deletePolicy") PROVE UpToDate'
    BY <1>r, <2>2, <2>3 DEF UpToDate, Goto
  <2> QED
    BY <1>7, <1>r, <1>h, <2>3, ThenForgetsNothing DEF Delete, WakeInv
<1>8. CASE DeletePropagationPolicy
  <2>1. ~Quiet(n)'
    BY <1>8, <1>q DEF DeletePropagationPolicy
  <2> QED
    BY <1>8, <1>r, <1>h, <2>1, DoneForgetsNothing DEF DeletePropagationPolicy, WakeInv
<1>9. CASE CallFails
  BY <1>9, <1>r, <1>h, FinishForgetsNothing DEF CallFails, WakeInv
<1> QED
  BY <1>1, <1>2, <1>3, <1>4, <1>5, <1>6, <1>7, <1>8, <1>9 DEF PublisherCall

\* A new process lists what there is, and is woken for all of it.
LEMMA RestartForgetsNothing ==
    ASSUME Restart
    PROVE  WakeInv'
<1>1. Watched'
  <2>1. /\ srcCache' = source /\ srcWatch' = <<>> /\ source' = source
        /\ hubCache' = hub /\ hubWatch' = <<>> /\ hub' = hub
    BY DEF Restart
  <2>2. CatchesUp(source, <<>>, source) /\ CatchesUp(hub, <<>>, hub)
    BY ListCatchesUp
  <2> QED
    BY <2>1, <2>2 DEF Watched
<1>2. ASSUME NEW n \in Names, Quiet(n)' PROVE Rest(n)'
  <2>1. source'[n] = Absent /\ hub'[n] = Absent
    BY <1>2 DEF Restart, Quiet
  <2> QED
    BY <2>1 DEF Rest, Publishable, OwnsObject
<1>3. NothingForgotten'
  BY <1>2 DEF NothingForgotten, Awaited, Rest, Quiet
<1> QED
  BY <1>1, <1>3 DEF WakeInv, UpToDate, Restart

LEMMA OthersForgetNothing ==
    ASSUME IInv, WakeInv, Interference \/ DeliverSource \/ DeliverHub \/ DeliverPolicy
    PROVE  WakeInv'
<1>1. Watched' /\ Heard /\ UNCHANGED workerVars
  BY InterferenceHeard, DeliveryHeard DEF IInv, WakeInv, DeliverSource, DeliverHub, DeliverPolicy
<1>2. NothingForgotten'
  BY <1>1, HeardForgetsNothing DEF WakeInv, workerVars
<1>3. UpToDate'
  <2>1. step # "idle" => request \in Names
    BY DEF IInv, WorkerInv
  <2> QED
    BY <1>1, <2>1 DEF WakeInv, UpToDate, Heard, workerVars
<1> QED
  BY <1>1, <1>2, <1>3 DEF WakeInv

LEMMA InitWake == Init => WakeInv
<1> SUFFICES ASSUME Init PROVE WakeInv
  OBVIOUS
<1>1. Watched
  BY ListCatchesUp DEF Init, Watched
<1>2. NothingForgotten /\ UpToDate
  BY DEF Init, NothingForgotten, Publishable, OwnsObject, UpToDate
<1> QED
  BY <1>1, <1>2 DEF WakeInv

LEMMA StutterWake == WakeInv /\ UNCHANGED vars => WakeInv'
BY DEF vars, sourceVars, hubVars, policyVars, cacheVars, workerVars, WakeInv, Watched, UpToDate, Quiet,
       NothingForgotten, Awaited, Publishable, Taken, Current, OwnsObject

LEMMA StepWake == IInv /\ WakeInv /\ [Next]_vars => WakeInv'
BY StutterWake, OthersForgetNothing, BeginForgetsNothing, CallForgetsNothing, RestartForgetsNothing
   DEF Next, Publisher

\* No interleaving of edits, lagging caches, overlapping reconciles, failed calls,
\* lost replies and restarts leaves a name with something to do about it and
\* nothing on its way to the worker: what LiveLocationsPublished and
\* RemovalsResolved rest on, without any fairness.
THEOREM NothingIsForgotten == Spec => []NothingForgotten
<1>1. Spec => [](IInv /\ WakeInv)
  BY InitInv, StepInv, InitWake, StepWake, PTL DEF Spec
<1>2. WakeInv => NothingForgotten
  BY DEF WakeInv
<1> QED
  BY <1>1, <1>2, PTL
=============================================================================
