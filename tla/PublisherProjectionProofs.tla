---------------------- MODULE PublisherProjectionProofs ----------------------
(* The publisher keeps its promise, for every set of names, clusters and   *)
(* topologies, every kind of interference and every bound: each step of    *)
(* RSpec is a step of Projection, or none.                                 *)
EXTENDS PublisherProjection, LocationPublisherProofs

-----------------------------------------------------------------------------
(* The history variables change nothing: what was proved of LocationPublisher *)
(* holds here.                                                              *)

LEMMA RStepIsStep == [RNext]_allVars => [Next]_vars
BY DEF RNext, Next, Publisher, allVars

LEMMA RInvariance == RSpec => []IInv
<1>1. RInit => IInv
  BY InitInv DEF RInit
<1>2. IInv /\ [RNext]_allVars => IInv'
  BY StepInv, RStepIsStep
<1> QED
  BY <1>1, <1>2, PTL DEF RSpec

-----------------------------------------------------------------------------
(* What is remembered.                                                     *)

HInv == RecordedTypeOK /\ RememberedInv

\* Nothing is forgotten.
LEMMA Remembered ==
    ASSUME HInv, IInv, IInv', Remember
    PROVE  /\ declared' \in [Names -> SUBSET Location]
           /\ overridden' \subseteq Names
           /\ overridden \subseteq overridden'
           /\ \A n \in Names : declared[n] \subseteq declared'[n]
           /\ \A n \in Names : (Known(n, source[n]) /\ Permitted(n, hub[n]))'
BY DEF HInv, IInv, TypeOK, Remember, RecordedTypeOK, Known, Permitted

\* A step that changes neither control plane adds nothing.
LEMMA NothingNew ==
    ASSUME HInv, IInv, Remember
    PROVE  /\ UNCHANGED source => UNCHANGED declared
           /\ UNCHANGED hub => UNCHANGED overridden
BY DEF HInv, Remember, RecordedTypeOK, RememberedInv, Known, Permitted

\* Everyone writes the source, and the hub, through one event at a time.
SourceWritten == \/ UNCHANGED sourceVars
                 \/ \E n \in Names : WriteSource(n, source'[n])
HubWritten == \/ UNCHANGED hubVars
              \/ \E n \in Names : WriteHub(n, hub'[n])

LEMMA InterferenceWrites ==
    ASSUME IInv, Interference
    PROVE  SourceWritten /\ HubWritten /\ UNCHANGED <<cacheVars, workerVars>>
<1> USE DEF IInv, TypeOK, SourceWritten, HubWritten, WriteSource, WriteHub
<1>1. ASSUME NEW n \in Names, CreateLocation(n) \/ EditLocation(n) \/ DeleteLocation(n)
      PROVE  SourceWritten /\ UNCHANGED <<hubVars, cacheVars, workerVars>>
  BY <1>1 DEF CreateLocation, EditLocation, DeleteLocation
<1>2. ASSUME NEW n \in Names, MeddleHub(n) \/ AnnotateOverride(n)
      PROVE  HubWritten /\ UNCHANGED <<sourceVars, cacheVars, workerVars>>
  BY <1>2 DEF MeddleHub, AnnotateOverride
<1>3. ASSUME NEW n \in Names, MeddlePolicy(n)
      PROVE  UNCHANGED <<sourceVars, hubVars, cacheVars, workerVars>>
  BY <1>3 DEF MeddlePolicy
<1>4. ASSUME NEW c \in Clusters, ClusterChange(c)
      PROVE  UNCHANGED <<sourceVars, hubVars, cacheVars, workerVars>>
  BY <1>4 DEF ClusterChange
<1>5. CASE Tick
  BY <1>5 DEF Tick
<1> QED
  BY <1>1, <1>2, <1>3, <1>4, <1>5 DEF Interference

LEMMA CallWrites ==
    ASSUME IInv, PublisherCall
    PROVE  HubWritten /\ UNCHANGED <<sourceVars, cacheVars>>
<1>1. request \in Names /\ step # "idle"
  BY DEF IInv, WorkerInv, PublisherCall, Apply, ApplyPropagationPolicy, ClearBlocked, Prune, Guard,
         RecordBlocked, Delete, DeletePropagationPolicy
<1>2. ASSUME NEW object, WriteHub(request, object) PROVE HubWritten
  BY <1>1, <1>2 DEF HubWritten, WriteHub, IInv, TypeOK
<1>3. UNCHANGED hubVars => HubWritten
  BY DEF HubWritten
<1>4. CASE Apply \/ ClearBlocked \/ RecordBlocked \/ Delete
  BY <1>2, <1>3, <1>4 DEF Apply, ClearBlocked, RecordBlocked, Delete
<1>5. CASE ApplyPropagationPolicy \/ Prune \/ Guard \/ DeletePropagationPolicy
  BY <1>3, <1>5 DEF ApplyPropagationPolicy, Prune, Guard, DeletePropagationPolicy, Untouched
<1> QED
  BY <1>4, <1>5 DEF PublisherCall

\* What the caches and watches hold, after a write.
Seen ==
    /\ \A n \in Names : Known(n, srcCache[n]) /\ Permitted(n, hubCache[n])
    /\ srcWatch \in Seq(KnownEvents) /\ hubWatch \in Seq(PermittedEvents)

Held == step # "idle" => Known(request, location) /\ Permitted(request, published)

LEMMA SeqWidens ==
    ASSUME NEW S, NEW T, S \subseteq T, NEW seq \in Seq(S)
    PROVE  seq \in Seq(T)
OBVIOUS

LEMMA KnowledgeGrows ==
    ASSUME HInv, IInv, IInv', Remember
    PROVE  /\ KnownEvents \subseteq KnownEvents' /\ PermittedEvents \subseteq PermittedEvents'
           /\ srcWatch \in Seq(KnownEvents') /\ hubWatch \in Seq(PermittedEvents')
           /\ \A n \in Names : \A object :
                /\ Known(n, object) => Known(n, object)'
                /\ Permitted(n, object) => Permitted(n, object)'
<1>1. \A n \in Names : \A object :
        /\ Known(n, object) => Known(n, object)'
        /\ Permitted(n, object) => Permitted(n, object)'
  BY Remembered DEF Known, Permitted
<1>2. KnownEvents \subseteq KnownEvents' /\ PermittedEvents \subseteq PermittedEvents'
  BY Remembered DEF KnownEvents, PermittedEvents, Known, Permitted
<1>3. srcWatch \in Seq(KnownEvents) /\ hubWatch \in Seq(PermittedEvents)
  BY DEF HInv, RememberedInv
<1> QED
  BY <1>1, <1>2, <1>3, SeqWidens

LEMMA WritesSeen ==
    ASSUME HInv, IInv, IInv', Remember, SourceWritten, HubWritten, UNCHANGED cacheVars
    PROVE  Seen'
<1>1. \A n \in Names : (Known(n, srcCache[n]) /\ Permitted(n, hubCache[n]))'
  BY KnowledgeGrows DEF HInv, RememberedInv, cacheVars, Known, Permitted
<1>2. (srcWatch \in Seq(KnownEvents))'
  <2>1. CASE UNCHANGED sourceVars
    BY <2>1, KnowledgeGrows DEF sourceVars
  <2>2. ASSUME NEW n \in Names, WriteSource(n, source'[n]) PROVE (srcWatch \in Seq(KnownEvents))'
    <3>1. Event(n, source'[n]) \in KnownEvents'
      BY Remembered DEF Event, KnownEvents, Known, IInv, TypeOK
    <3> QED
      BY <2>2, <3>1, KnowledgeGrows, AppendProperties DEF WriteSource
  <2> QED
    BY <2>1, <2>2 DEF SourceWritten
<1>3. (hubWatch \in Seq(PermittedEvents))'
  <2>1. CASE UNCHANGED hubVars
    BY <2>1, KnowledgeGrows DEF hubVars
  <2>2. ASSUME NEW n \in Names, WriteHub(n, hub'[n]), ~ UNCHANGED hubVars
        PROVE  (hubWatch \in Seq(PermittedEvents))'
    <3>1. Event(n, hub'[n]) \in PermittedEvents'
      BY Remembered DEF Event, PermittedEvents, Permitted, IInv, TypeOK
    <3> QED
      BY <2>2, <3>1, KnowledgeGrows, AppendProperties DEF WriteHub
  <2> QED
    BY <2>1, <2>2 DEF HubWritten
<1> QED
  BY <1>1, <1>2, <1>3 DEF Seen

LEMMA DeliveriesSeen ==
    ASSUME HInv, IInv, IInv', Remember, DeliverSource \/ DeliverHub \/ DeliverPolicy
    PROVE  Seen'
<1>1. \A n \in Names : Known(n, srcCache[n]) /\ Permitted(n, hubCache[n])
  BY DEF HInv, RememberedInv
<1>2. CASE DeliverSource
  <2>1. /\ Head(srcWatch) \in KnownEvents' /\ (srcWatch \in Seq(KnownEvents))'
    BY <1>2, KnowledgeGrows, HeadTailProperties DEF DeliverSource
  <2>2. srcCache' = [srcCache EXCEPT ![Head(srcWatch).name] = Head(srcWatch).object]
        /\ UNCHANGED <<hubCache, hubWatch>>
    BY <1>2 DEF DeliverSource, hubVars
  <2>3. \A n \in Names : (Known(n, srcCache[n]) /\ Permitted(n, hubCache[n]))'
    BY <1>1, <2>1, <2>2, KnowledgeGrows DEF KnownEvents, Known, Permitted, IInv, TypeOK
  <2> QED
    BY <2>1, <2>2, <2>3, KnowledgeGrows DEF Seen
<1>3. CASE DeliverHub
  <2>1. /\ Head(hubWatch) \in PermittedEvents' /\ (hubWatch \in Seq(PermittedEvents))'
    BY <1>3, KnowledgeGrows, HeadTailProperties DEF DeliverHub
  <2>2. hubCache' = [hubCache EXCEPT ![Head(hubWatch).name] = Head(hubWatch).object]
        /\ UNCHANGED <<srcCache, srcWatch>>
    BY <1>3 DEF DeliverHub, sourceVars
  <2>3. \A n \in Names : (Known(n, srcCache[n]) /\ Permitted(n, hubCache[n]))'
    BY <1>1, <2>1, <2>2, KnowledgeGrows DEF PermittedEvents, Known, Permitted, IInv, TypeOK
  <2> QED
    BY <2>1, <2>2, <2>3, KnowledgeGrows DEF Seen
<1>4. CASE DeliverPolicy
  <2>1. UNCHANGED <<srcCache, srcWatch, hubCache, hubWatch>>
    BY <1>4 DEF DeliverPolicy, sourceVars, hubVars, cacheVars
  <2> QED
    BY <1>1, <2>1, KnowledgeGrows DEF Seen, Known, Permitted
<1> QED
  BY <1>2, <1>3, <1>4

\* What the worker holds comes from the caches and is not invented on the way.
LEMMA CallHolds ==
    ASSUME HInv, IInv, IInv', Remember, PublisherCall
    PROVE  Held'
<1>1. step # "idle" /\ request \in Names
  BY DEF IInv, WorkerInv, PublisherCall, Apply, ApplyPropagationPolicy, ClearBlocked, Prune, Guard,
         RecordBlocked, Delete, DeletePropagationPolicy
<1>2. Known(request, location) /\ Permitted(request, published)
  BY <1>1 DEF HInv, RememberedInv
<1>3. ASSUME NEW requeued, Finish(requeued) PROVE Held'
  BY <1>3 DEF Finish, Held
<1>4. ASSUME UNCHANGED <<request, location, published>> PROVE Held'
  BY <1>1, <1>2, <1>4, KnowledgeGrows DEF Held, Known, Permitted
<1>5. ASSUME NEW next, Then(next) PROVE Held'
  BY <1>3, <1>4, <1>5 DEF Then, Goto, ReplyLost
<1>6. ASSUME NEW requeued, Done(requeued) PROVE Held'
  BY <1>3, <1>6 DEF Done, ReplyLost
<1>7. CASE Apply \/ ApplyPropagationPolicy \/ ClearBlocked
  BY <1>3, <1>5, <1>6, <1>7 DEF Apply, ApplyPropagationPolicy, ClearBlocked
<1>8. CASE Prune
  BY <1>3, <1>4, <1>8 DEF Prune, Goto, BlockedRequeue
<1>9. CASE Guard
  <2>1. published \in Copy
    BY <1>9 DEF IInv, TypeOK, WorkerInv, Guard, Removing, OwnsObject
  <2>2. CASE published' = [published EXCEPT !.blocked = EvaluateRemovalGuard(request)] /\ Goto("record")
    <3>1. published # Absent /\ published'.override = published.override
      BY <2>1, <2>2, AbsentAssumption DEF Copy
    <3> QED
      BY <1>1, <1>2, <2>2, <3>1, KnowledgeGrows DEF Held, Known, Permitted, Goto
  <2> QED
    BY <1>3, <1>4, <1>9, <2>2 DEF Guard, Goto, BlockedRequeue
<1>10. CASE RecordBlocked \/ Delete \/ DeletePropagationPolicy
  BY <1>3, <1>5, <1>6, <1>10 DEF RecordBlocked, Delete, DeletePropagationPolicy
<1> QED
  BY <1>7, <1>8, <1>9, <1>10 DEF PublisherCall

LEMMA RememberedStep == HInv /\ IInv /\ IInv' /\ [RNext]_allVars => HInv'
<1> SUFFICES ASSUME HInv, IInv, IInv', [RNext]_allVars PROVE HInv'
  OBVIOUS
<1>1. CASE UNCHANGED allVars
  BY <1>1 DEF allVars, recorded, vars, sourceVars, hubVars, cacheVars, workerVars, HInv, RecordedTypeOK,
              RememberedInv, Known, Permitted, KnownEvents, PermittedEvents
<1>2. ASSUME RNext, Remember, foreign' \subseteq Names, Seen', Held' PROVE HInv'
  <2>1. \A n \in Names : (Known(n, source[n]) /\ Permitted(n, hub[n]))'
    BY <1>2, Remembered
  <2>2. RecordedTypeOK'
    BY <1>2, Remembered DEF RecordedTypeOK
  <2> QED
    BY <1>2, <2>1, <2>2 DEF HInv, RememberedInv, Seen, Held
<1>3. RNext => Remember
  BY DEF RNext
<1>4. foreign \subseteq Names
  BY DEF HInv, RecordedTypeOK
<1>5. ASSUME UNCHANGED workerVars, Remember PROVE Held'
  BY <1>5, KnowledgeGrows DEF workerVars, Held, HInv, RememberedInv, Known, Permitted, IInv, WorkerInv
<1>6. CASE Interference /\ TheirStep /\ Remember
  <2>1. SourceWritten /\ HubWritten /\ UNCHANGED <<cacheVars, workerVars>>
    BY <1>6, InterferenceWrites
  <2>2. Seen' /\ Held'
    BY <1>5, <1>6, <2>1, WritesSeen
  <2>3. foreign' \subseteq Names
    BY <1>4, <1>6 DEF TheirStep
  <2> QED
    BY <1>2, <1>6, <2>2, <2>3 DEF RNext
<1>7. CASE PublisherCall /\ OurStep /\ Remember
  <2>1. HubWritten /\ UNCHANGED <<sourceVars, cacheVars>>
    BY <1>7, CallWrites
  <2>2. Seen'
    BY <1>7, <2>1, WritesSeen DEF SourceWritten
  <2>3. foreign' \subseteq Names
    BY <1>4, <1>7 DEF OurStep
  <2> QED
    BY <1>2, <1>7, <2>2, <2>3, CallHolds DEF RNext
<1>8. CASE (DeliverSource \/ DeliverHub \/ DeliverPolicy) /\ UNCHANGED foreign /\ Remember
  <2>1. Held'
    BY <1>5, <1>8 DEF DeliverSource, DeliverHub, DeliverPolicy
  <2> QED
    BY <1>2, <1>4, <1>8, <2>1, DeliveriesSeen DEF RNext
<1>9. ASSUME NEW n \in Names, BeginReconcile(n), UNCHANGED foreign, Remember PROVE HInv'
  <2>1. UNCHANGED <<sourceVars, hubVars, cacheVars>>
    BY <1>9 DEF BeginReconcile, BeginPublish, RefusePublish, BeginRemove, NothingToRemove, Begin, Skip,
                Untouched
  <2>2. Seen'
    BY <1>9, <2>1, WritesSeen DEF SourceWritten, HubWritten
  <2>3. \/ request' = n /\ location' = srcCache[n] /\ published' = hubCache[n]
        \/ UNCHANGED workerVars
    BY <1>9 DEF BeginReconcile, BeginPublish, RefusePublish, BeginRemove, NothingToRemove, Begin, Skip
  <2>4. Held'
    <3>1. Known(n, srcCache[n])' /\ Permitted(n, hubCache[n])'
      BY <2>2 DEF Seen
    <3> QED
      BY <1>5, <1>9, <2>1, <2>3, <3>1 DEF Held, cacheVars, Known, Permitted
  <2> QED
    BY <1>2, <1>4, <1>9, <2>2, <2>4 DEF RNext
<1>10. CASE CallFails /\ UNCHANGED foreign /\ Remember
  <2>1. UNCHANGED <<sourceVars, hubVars, cacheVars>> /\ step' = "idle"
    BY <1>10 DEF CallFails, Untouched, Finish
  <2>2. Seen' /\ Held'
    BY <1>10, <2>1, WritesSeen DEF SourceWritten, HubWritten, Held
  <2> QED
    BY <1>2, <1>4, <1>10, <2>2 DEF RNext
<1>11. CASE Restart /\ UNCHANGED foreign /\ Remember
  <2>1. srcCache' = source' /\ hubCache' = hub' /\ srcWatch' = <<>> /\ hubWatch' = <<>> /\ step' = "idle"
    BY <1>11 DEF Restart
  <2>2. \A n \in Names : (Known(n, srcCache[n]) /\ Permitted(n, hubCache[n]))'
    BY <1>11, <2>1, Remembered DEF Known, Permitted
  <2>3. Seen' /\ Held'
    BY <2>1, <2>2, EmptySeq DEF Seen, Held
  <2> QED
    BY <1>2, <1>4, <1>11, <2>3 DEF RNext
<1> QED
  BY <1>1, <1>6, <1>7, <1>8, <1>9, <1>10, <1>11 DEF RNext

\* The caches, the watches and the worker hold nothing of a Location that was
\* never declared and no override that was never set.
THEOREM Remembrance == RSpec => []RememberedInv
<1>1. RInit => HInv
  <2>1. srcWatch = <<>> => srcWatch \in Seq(KnownEvents)
    BY EmptySeq
  <2>2. hubWatch = <<>> => hubWatch \in Seq(PermittedEvents)
    BY EmptySeq
  <2> QED
    BY <2>1, <2>2 DEF RInit, Init, HInv, RecordedTypeOK, RememberedInv, Known, Permitted
<1>2. HInv => RememberedInv
  BY DEF HInv
<1> QED
  BY <1>1, <1>2, RInvariance, RememberedStep, PTL DEF RSpec

-----------------------------------------------------------------------------
(* The refinement: what a step means to those who read the hub.            *)

\* What the mapping shows of the hub, and of a removal under way.
Shown == [n \in Names |-> Said(hub[n])]
Pending == IF step = "delete" THEN {request} ELSE {}

LEMMA PromiseVars ==
    Promise!vars = <<declared, Shown, foreign, overridden, clusters, Pending>>
BY DEF Promise!vars, Shown, Pending

\* A write of one name shows in that name alone.
LEMMA ShownWrite ==
    ASSUME IInv, IInv', NEW n \in Names, NEW object, hub' = [hub EXCEPT ![n] = object]
    PROVE  Shown' = [Shown EXCEPT ![n] = Said(object)]
BY DEF Shown, IInv, TypeOK

LEMMA SaidVersion ==
    ASSUME IInv, NEW n \in Names
    PROVE  Said(hub[n]) \in [topology : Topologies, generation : 0 .. MaxGeneration] \cup {Absent}
BY DEF IInv, TypeOK, Said, Content, Copy

\* A step that writes neither control plane, touches no cluster and leaves a
\* removal as far as it was cannot be seen.
LEMMA Unseen ==
    ASSUME HInv, IInv, Remember,
           UNCHANGED <<source, hub, clusters, foreign>>, UNCHANGED Pending
    PROVE  UNCHANGED Promise!vars
<1>1. UNCHANGED <<declared, overridden, Shown>>
  BY NothingNew DEF Shown
<1> QED
  BY <1>1, PromiseVars DEF Shown, Pending, Promise!vars

LEMMA InterferenceRefines ==
    ASSUME HInv, IInv, IInv', Interference, TheirStep, Remember
    PROVE  [Promise!Next]_(Promise!vars)
<1> USE DEF sourceVars, hubVars, policyVars, cacheVars, workerVars, historyVars
<1>0. UNCHANGED Pending
  BY InterferenceWrites DEF Pending
<1>h. UNCHANGED hub => UNCHANGED <<Shown, foreign>>
  BY DEF Shown, TheirStep, HInv, RecordedTypeOK
<1>1. ASSUME NEW n \in Names, NEW v \in Location, source' = [source EXCEPT ![n] = v],
             UNCHANGED <<hub, clusters>>
      PROVE  Promise!Declare(n)
  <2>1. declared' = [declared EXCEPT ![n] = @ \cup {v}]
    <3>1. v # Absent
      BY AbsentAssumption
    <3>2. source \in [Names -> Location \cup {Absent}]
      BY DEF IInv, TypeOK
    <3>3. \A m \in Names : declared'[m] = IF m = n THEN declared[m] \cup {v} ELSE declared[m]
      BY <1>1, <3>1, <3>2 DEF Remember, HInv, RememberedInv, Known
    <3>4. declared \in [Names -> SUBSET Location] /\ declared' \in [Names -> SUBSET Location]
      BY Remembered DEF HInv, RecordedTypeOK
    <3> QED
      BY <3>3, <3>4
  <2>2. v \in [topology : Topologies, generation : 0 .. MaxGeneration]
    BY BoundAssumption DEF Location
  <2>3. UNCHANGED <<overridden, Shown, foreign>>
    BY <1>1, <1>h, NothingNew
  <2> QED
    BY <1>0, <1>1, <2>1, <2>2, <2>3 DEF Promise!Declare, Shown, Pending
<1>2. ASSUME NEW n \in Names, CreateLocation(n) PROVE Promise!Declare(n)
  <2>1. PICK t \in Topologies : WriteSource(n, [generation |-> 1, topology |-> t])
    BY <1>2 DEF CreateLocation
  <2>2. [generation |-> 1, topology |-> t] \in Location
    BY BoundAssumption DEF Location
  <2> QED
    BY <1>1, <1>2, <2>1, <2>2 DEF CreateLocation, WriteSource
<1>3. ASSUME NEW n \in Names, EditLocation(n) PROVE Promise!Declare(n)
  <2>1. PICK t \in Topologies :
          WriteSource(n, [generation |-> source[n].generation + 1, topology |-> t])
    BY <1>3 DEF EditLocation
  <2>2. [generation |-> source[n].generation + 1, topology |-> t] \in Location
    BY <1>3, BoundAssumption DEF EditLocation, IInv, TypeOK, Location
  <2> QED
    BY <1>1, <1>3, <2>1, <2>2 DEF EditLocation, WriteSource
<1>4. ASSUME NEW n \in Names, DeleteLocation(n) PROVE UNCHANGED Promise!vars
  <2>1. source' = [source EXCEPT ![n] = Absent] /\ UNCHANGED <<hub, clusters>>
    BY <1>4 DEF DeleteLocation, WriteSource
  <2>2. UNCHANGED declared
    <3>1. declared \in [Names -> SUBSET Location] /\ declared' \in [Names -> SUBSET Location]
      BY Remembered DEF HInv, RecordedTypeOK
    <3>2. \A m \in Names : declared'[m] = declared[m]
      BY <2>1 DEF Remember, HInv, RememberedInv, Known, IInv, TypeOK
    <3> QED
      BY <3>1, <3>2
  <2> QED
    BY <1>0, <1>h, <2>1, <2>2, NothingNew, PromiseVars DEF Promise!vars, Shown, Pending
<1>5. ASSUME NEW n \in Names, NEW object \in Copy \cup {Absent}, WriteHub(n, object),
             UNCHANGED <<source, clusters>>, object # Absent => ~object.override \/ n \in overridden
      PROVE  Promise!Intrude(n) \/ UNCHANGED Promise!vars
  <2>1. hub' = [hub EXCEPT ![n] = object]
    BY <1>5 DEF WriteHub, IInv, TypeOK
  <2>2. Shown' = [Shown EXCEPT ![n] = Said(object)]
    BY <2>1, ShownWrite
  <2>3. foreign' = IF Said(object) = Said(hub[n]) THEN foreign ELSE foreign \cup {n}
    BY <2>1 DEF TheirStep, IInv, TypeOK
  <2>4. UNCHANGED <<declared, overridden>>
    <3>1. overridden' = overridden
      BY <1>5, <2>1 DEF Remember, HInv, RememberedInv, Permitted, IInv, TypeOK
    <3> QED
      BY <1>5, <3>1, NothingNew
  <2>5. Said(object) \in [topology : Topologies, generation : 0 .. MaxGeneration] \cup {Absent}
    BY DEF Said, Content, Copy
  <2>6. CASE Said(object) = Said(hub[n])
    <3>1. UNCHANGED <<Shown, foreign>>
      BY <2>2, <2>3, <2>6 DEF Shown
    <3> QED
      BY <1>0, <1>5, <2>4, <3>1 DEF Promise!vars, Shown, Pending
  <2>7. CASE Said(object) # Said(hub[n])
    BY <1>0, <1>5, <2>2, <2>3, <2>4, <2>5, <2>7 DEF Promise!Intrude, Shown, Pending
  <2> QED
    BY <2>6, <2>7
<1>6. ASSUME NEW n \in Names, MeddleHub(n) PROVE Promise!Intrude(n) \/ UNCHANGED Promise!vars
  <2>1. PICK object \in MeddledHub(n) : WriteHub(n, object)
    BY <1>6 DEF MeddleHub
  <2>2. hub' = [hub EXCEPT ![n] = object]
    BY <2>1 DEF WriteHub, IInv, TypeOK
  <2>3. object \in Copy \cup {Absent}
    BY <2>2 DEF IInv, TypeOK
  <2>4. object # Absent => ~object.override \/ n \in overridden
    <3>1. CASE hub[n] = Absent
      BY <2>1, <3>1 DEF MeddledHub, Stranger
    <3>2. CASE hub[n] # Absent
      <4>1. hub[n] \in Copy /\ Permitted(n, hub[n])
        BY <3>2 DEF IInv, TypeOK, HInv, RememberedInv
      <4>2. object # Absent => object.override = hub[n].override
        BY <2>1, <3>2, <4>1 DEF MeddledHub, Copy
      <4> QED
        BY <3>2, <4>1, <4>2 DEF Permitted, Copy
    <3> QED
      BY <3>1, <3>2
  <2> QED
    BY <1>5, <1>6, <2>1, <2>3, <2>4 DEF MeddleHub
<1>7. ASSUME NEW n \in Names, AnnotateOverride(n)
      PROVE  Promise!Override(n) \/ UNCHANGED Promise!vars
  <2> DEFINE object == [hub[n] EXCEPT !.override = ~@]
  <2>1. WriteHub(n, object) /\ hub[n] \in Copy /\ UNCHANGED <<source, clusters>>
    BY <1>7 DEF AnnotateOverride, IInv, TypeOK
  <2>2. hub' = [hub EXCEPT ![n] = object]
    BY <2>1 DEF WriteHub, IInv, TypeOK
  <2>3. object \in Copy /\ Said(object) = Said(hub[n]) /\ object.override = ~hub[n].override
    BY <2>1, AbsentAssumption DEF Copy, Said, Content
  <2>4. UNCHANGED <<Shown, foreign, declared>>
    <3>1. \A m \in Names : Said(hub'[m]) = Said(hub[m])
      BY <2>2, <2>3 DEF IInv, TypeOK
    <3>2. UNCHANGED Shown
      BY <3>1 DEF Shown
    <3>3. UNCHANGED foreign
      BY <2>2, <2>3 DEF TheirStep, IInv, TypeOK
    <3> QED
      BY <2>1, <3>2, <3>3, NothingNew
  <2>5. overridden' = IF object.override THEN overridden \cup {n} ELSE overridden
    <3>1. \A m \in Names : (hub'[m] # Absent /\ hub'[m].override) =>
            m \in overridden \/ (m = n /\ object.override)
      BY <2>2, <2>3 DEF HInv, RememberedInv, Permitted, IInv, TypeOK
    <3>2. object.override => hub'[n] # Absent /\ hub'[n].override
      BY <2>2, <2>3, AbsentAssumption DEF IInv, TypeOK
    <3> QED
      BY <2>3, <3>1, <3>2 DEF Remember
  <2>6. CASE object.override
    BY <1>0, <2>1, <2>4, <2>5, <2>6 DEF Promise!Override, Shown, Pending
  <2>7. CASE ~object.override
    BY <1>0, <2>1, <2>4, <2>5, <2>7 DEF Promise!vars, Shown, Pending
  <2> QED
    BY <2>6, <2>7
<1>8. ASSUME NEW n \in Names, MeddlePolicy(n) PROVE UNCHANGED Promise!vars
  BY <1>0, <1>8, <1>h, Unseen DEF MeddlePolicy
<1>9. ASSUME NEW c \in Clusters, ClusterChange(c) PROVE Promise!FleetChange(c)
  <2>1. PICK v \in Cluster : clusters' = [clusters EXCEPT ![c] = v]
    BY <1>9 DEF ClusterChange
  <2>2. v \in Promise!Cluster
    BY DEF Cluster, Promise!Cluster
  <2>3. UNCHANGED <<declared, overridden, Shown, foreign>>
    BY <1>9, <1>h, NothingNew DEF ClusterChange
  <2> QED
    BY <1>0, <2>1, <2>2, <2>3 DEF Promise!FleetChange, Shown, Pending
<1>10. CASE Tick
  BY <1>0, <1>10, <1>h, Unseen DEF Tick
<1> QED
  BY <1>2, <1>3, <1>4, <1>6, <1>7, <1>8, <1>9, <1>10 DEF Interference, Promise!Next

\* The worker's calls.
LEMMA CallRefines ==
    ASSUME HInv, IInv, IInv', PublisherCall, OurStep, Remember
    PROVE  [Promise!Next]_(Promise!vars)
<1> USE DEF sourceVars, hubVars, policyVars, cacheVars, Untouched
<1>0. step # "idle" /\ request \in Names /\ hub[request] \in Copy \cup {Absent} /\ UNCHANGED source
  BY CallWrites DEF IInv, TypeOK, WorkerInv, PublisherCall, Apply, ApplyPropagationPolicy, ClearBlocked,
         Prune, Guard, RecordBlocked, Delete, DeletePropagationPolicy
<1>f. foreign \in SUBSET Names /\ declared \in [Names -> SUBSET Location]
  BY DEF HInv, RecordedTypeOK
<1>k. Known(request, location) /\ Permitted(request, published)
  BY <1>0 DEF HInv, RememberedInv
<1>t. /\ \A next : Then(next) => step' \in {next, "idle"}
      /\ \A requeued : (Done(requeued) => step' = "idle") /\ (Finish(requeued) => step' = "idle")
  BY DEF Then, Done, ReplyLost, Goto, Finish
\* A write that keeps what the copy says and the override it carries.
<1>w. ASSUME NEW object \in Copy, WriteHub(request, object), hub[request] # Absent,
             Said(object) = Said(hub[request]), object.override = hub[request].override
      PROVE  UNCHANGED <<Shown, declared, overridden>>
  <2>1. hub' = [hub EXCEPT ![request] = object]
    BY <1>w DEF WriteHub, IInv, TypeOK
  <2>2. \A m \in Names : Said(hub'[m]) = Said(hub[m])
    BY <1>w, <2>1 DEF IInv, TypeOK
  <2>3. UNCHANGED overridden
    BY <1>0, <1>w, <2>1 DEF Remember, HInv, RememberedInv, Permitted, IInv, TypeOK
  <2> QED
    BY <1>0, <2>2, <2>3, NothingNew DEF Shown
<1>1. CASE Apply
  <2> DEFINE object == Applied(hub[request])
  <2>1. location \in Location /\ location # Absent /\ object \in Copy
    BY <1>0, <1>1, AppliedType, AbsentAssumption DEF Apply, IInv, WorkerInv, Publishing
  <2>2. hub' = [hub EXCEPT ![request] = object]
    BY <1>1, <1>0 DEF Apply, WriteHub, IInv, TypeOK
  <2>3. Said(object) = location /\ location \in declared[request]
    <3>1. object # Absent
      BY <2>1, AbsentAssumption
    <3>2. Said(object) = [topology |-> location.topology, generation |-> location.generation]
      BY <3>1 DEF Said, Content, Applied
    <3> QED
      BY <2>1, <3>2, <1>k DEF Known, Location
  <2>4. Shown' = [Shown EXCEPT ![request] = location]
    BY <1>0, <2>2, <2>3, ShownWrite
  <2>5. UNCHANGED <<declared, overridden>>
    <3>1. object.override => request \in overridden
      BY <1>0 DEF Applied, HInv, RememberedInv, Permitted
    <3>2. UNCHANGED overridden
      BY <2>2, <3>1 DEF Remember, HInv, RememberedInv, Permitted, IInv, TypeOK
    <3> QED
      BY <1>0, <3>2, NothingNew
  <2>6. foreign' = foreign \ {request} /\ UNCHANGED <<clusters, Pending>>
    BY <1>1, <1>t DEF Apply, OurStep, Pending
  <2>7. Promise!Publish(request)
    BY <2>3, <2>4, <2>5, <2>6 DEF Promise!Publish, Shown, Pending
  <2> QED
    BY <1>0, <2>7 DEF Promise!Next
<1>2. CASE ApplyPropagationPolicy \/ DeletePropagationPolicy
  <2>1. step # "delete" /\ step' # "delete" /\ UNCHANGED <<hub, clusters, foreign>>
    <3>1. CASE ApplyPropagationPolicy
      <4>1. Then("clear") \/ Done(SafetyResync)
        BY <3>1 DEF ApplyPropagationPolicy
      <4> QED
        BY <3>1, <4>1, <1>t DEF ApplyPropagationPolicy, OurStep
    <3>2. CASE DeletePropagationPolicy
      BY <3>2, <1>t DEF DeletePropagationPolicy, OurStep
    <3> QED
      BY <1>2, <3>1, <3>2
  <2> QED
    BY <1>0, <2>1, Unseen DEF Pending
<1>3. CASE ClearBlocked
  <2>1. UNCHANGED <<clusters, foreign, Pending>>
    BY <1>3, <1>t DEF ClearBlocked, OurStep, Pending
  <2>2. CASE UNCHANGED hub
    BY <1>0, <2>1, <2>2, Unseen
  <2>3. CASE hub[request] # Absent /\ WriteHub(request, [hub[request] EXCEPT !.blocked = NotBlocked])
    <3> DEFINE object == [hub[request] EXCEPT !.blocked = NotBlocked]
    <3>0. NotBlocked \in Decision
      BY DEF NotBlocked, Decision, Reasons
    <3>1. object \in Copy /\ Said(object) = Said(hub[request]) /\ object.override = hub[request].override
      BY <1>0, <2>3, <3>0, AbsentAssumption DEF Copy, Said, Content
    <3>2. UNCHANGED <<Shown, declared, overridden>>
      BY <1>w, <2>3, <3>1
    <3> QED
      BY <2>1, <3>2 DEF Promise!vars, Shown, Pending
  <2> QED
    BY <1>3, <2>2, <2>3 DEF ClearBlocked
<1>4. CASE Prune
  <2>1. UNCHANGED <<hub, clusters, foreign>> /\ step = "prune"
    BY <1>4 DEF Prune, OurStep
  <2>2. UNCHANGED <<declared, overridden, Shown>>
    BY <1>0, <2>1, NothingNew DEF Shown
  <2>3. CASE step' # "delete"
    BY <1>0, <2>1, <2>3, Unseen DEF Pending
  <2>4. CASE step' = "delete"
    <3>1. published.override /\ request' = request
      BY <1>4, <2>4 DEF Prune, Goto, BlockedRequeue, Finish
    <3>2. published # Absent
      BY <2>1 DEF IInv, WorkerInv, Removing, OwnsObject
    <3>3. request \in overridden
      BY <1>k, <3>1, <3>2 DEF Permitted
    <3>4. Promise!Clear(request)
      BY <2>1, <2>2, <2>4, <3>1, <3>3 DEF Promise!Clear, Shown
    <3> QED
      BY <1>0, <3>4 DEF Promise!Next
  <2> QED
    BY <2>3, <2>4
<1>5. CASE Guard
  <2>1. UNCHANGED <<hub, clusters, foreign>> /\ step = "guard"
    BY <1>5 DEF Guard, OurStep
  <2>2. UNCHANGED <<declared, overridden, Shown>>
    BY <1>0, <2>1, NothingNew DEF Shown
  <2>3. CASE step' # "delete"
    BY <1>0, <2>1, <2>3, Unseen DEF Pending
  <2>4. CASE step' = "delete"
    <3>1. EvaluateRemovalGuard(request) = NotBlocked /\ request' = request
      BY <1>5, <2>4 DEF Guard, Goto, BlockedRequeue, Finish
    <3>2. StillServing(request) = {} /\ NotLabelled = {}
      BY <3>1 DEF EvaluateRemovalGuard, NotBlocked
    <3>3. Promise!InTheWay(request) = {}
      BY <3>2 DEF Promise!InTheWay, StillServing, NotLabelled
    <3>4. Promise!Clear(request)
      BY <2>1, <2>2, <2>4, <3>1, <3>3 DEF Promise!Clear, Shown
    <3> QED
      BY <1>0, <3>4 DEF Promise!Next
  <2> QED
    BY <2>3, <2>4
<1>6. CASE RecordBlocked
  <2>1. UNCHANGED <<clusters, foreign, Pending>>
    BY <1>6, <1>t DEF RecordBlocked, OurStep, Pending
  <2>2. CASE UNCHANGED hub
    BY <1>0, <2>1, <2>2, Unseen
  <2>3. CASE hub[request] # Absent /\ WriteHub(request, [hub[request] EXCEPT !.blocked = published.blocked])
    <3> DEFINE object == [hub[request] EXCEPT !.blocked = published.blocked]
    <3>0. published.blocked \in Decision
      BY <1>6 DEF RecordBlocked, IInv, WorkerInv, TypeOK, Removing, OwnsObject, Copy
    <3>1. object \in Copy /\ Said(object) = Said(hub[request]) /\ object.override = hub[request].override
      BY <1>0, <2>3, <3>0, AbsentAssumption DEF Copy, Said, Content
    <3>2. UNCHANGED <<Shown, declared, overridden>>
      BY <1>w, <2>3, <3>1
    <3> QED
      BY <2>1, <3>2 DEF Promise!vars, Shown, Pending
  <2> QED
    BY <1>6, <2>2, <2>3 DEF RecordBlocked
<1>7. CASE Delete
  <2>1. hub' = [hub EXCEPT ![request] = Absent]
    BY <1>0, <1>7 DEF Delete, WriteHub, IInv, TypeOK
  <2>2. Shown' = [Shown EXCEPT ![request] = Absent]
    <3>1. Shown' = [Shown EXCEPT ![request] = Said(Absent)]
      BY <1>0, <2>1, ShownWrite
    <3> QED
      BY <3>1 DEF Said
  <2>3. UNCHANGED <<declared, overridden>>
    <3>1. UNCHANGED overridden
      BY <2>1 DEF Remember, HInv, RememberedInv, Permitted, IInv, TypeOK
    <3> QED
      BY <1>0, <3>1, NothingNew
  <2>4. foreign' = foreign \ {request} /\ UNCHANGED clusters /\ Pending = {request} /\ Pending' = {}
    BY <1>7, <1>t DEF Delete, OurStep, Pending
  <2>5. Promise!Retire(request)
    BY <2>2, <2>3, <2>4 DEF Promise!Retire, Shown, Pending
  <2> QED
    BY <1>0, <2>5 DEF Promise!Next
<1> QED
  BY <1>1, <1>2, <1>3, <1>4, <1>5, <1>6, <1>7 DEF PublisherCall

\* A removal under way is lost by a failure or a restart.
LEMMA FailureRefines ==
    ASSUME HInv, IInv, CallFails \/ Restart, UNCHANGED foreign, Remember
    PROVE  [Promise!Next]_(Promise!vars)
<1>1. UNCHANGED <<source, hub, clusters>> /\ step' = "idle"
  BY DEF CallFails, Restart, Untouched, Finish, sourceVars, hubVars
<1>2. UNCHANGED <<declared, overridden, Shown>>
  BY <1>1, NothingNew DEF Shown
<1>3. CASE step = "delete"
  <2>1. request \in Names /\ Pending' = Pending \ {request}
    BY <1>1, <1>3 DEF IInv, WorkerInv, Pending
  <2>2. Promise!Lapse(request)
    BY <1>1, <1>2, <2>1 DEF Promise!Lapse, Shown, Pending
  <2> QED
    BY <2>1, <2>2 DEF Promise!Next
<1>4. CASE step # "delete"
  BY <1>1, <1>4, Unseen DEF Pending
<1> QED
  BY <1>3, <1>4

LEMMA StepRefines == HInv /\ IInv /\ IInv' /\ [RNext]_allVars => [Promise!Next]_(Promise!vars)
<1> SUFFICES ASSUME HInv, IInv, IInv', [RNext]_allVars PROVE [Promise!Next]_(Promise!vars)
  OBVIOUS
<1>1. CASE UNCHANGED allVars
  BY <1>1 DEF allVars, recorded, vars, hubVars, workerVars, Promise!vars
<1>2. CASE (DeliverSource \/ DeliverHub \/ DeliverPolicy) /\ UNCHANGED foreign /\ Remember
  <2>1. UNCHANGED <<source, hub, clusters, foreign, Pending>>
    BY <1>2 DEF DeliverSource, DeliverHub, DeliverPolicy, sourceVars, hubVars, workerVars, Pending
  <2> QED
    BY <1>2, <2>1, Unseen
<1>3. ASSUME NEW n \in Names, BeginReconcile(n), UNCHANGED foreign, Remember
      PROVE  UNCHANGED Promise!vars
  <2>1. UNCHANGED <<source, hub, clusters, Pending>>
    BY <1>3 DEF BeginReconcile, BeginPublish, RefusePublish, BeginRemove, NothingToRemove, Begin, Skip,
                Untouched, sourceVars, hubVars, workerVars, Pending
  <2> QED
    BY <1>3, <2>1, Unseen
<1>4. CASE RNext
  BY <1>2, <1>3, <1>4, InterferenceRefines, CallRefines, FailureRefines DEF RNext
<1> QED
  BY <1>1, <1>4

\* Whatever the caches, the watches, the failures and everybody else do, what
\* readers of the hub see is what Projection allows: copies of what was
\* declared, and removals that were cleared.
THEOREM PromiseIsKept == RSpec => KeepsPromise
<1>1. RInit => Promise!Init
  BY DEF RInit, Init, Promise!Init, Said, Cluster, Promise!Cluster
<1>2. RInit => HInv
  BY EmptySeq DEF RInit, Init, HInv, RecordedTypeOK, RememberedInv, Known, Permitted
<1> QED
  BY <1>1, <1>2, RInvariance, RememberedStep, StepRefines, PTL DEF RSpec, KeepsPromise, Promise!Spec

\* Every copy on the hub that nobody else wrote says something its Location
\* said: the abstract specification's invariant, and so the publisher's.
THEOREM CopiesAreFaithful == RSpec => []Promise!Faithful
<1>1. RInit => Promise!Faithful
  BY DEF RInit, Init, Promise!Faithful, Said
<1>2. HInv /\ Promise!Faithful /\ [Promise!Next]_(Promise!vars) => Promise!Faithful'
  <2> SUFFICES ASSUME HInv, Promise!Faithful, [Promise!Next]_(Promise!vars), NEW n \in Names
               PROVE  Shown'[n] = Absent \/ n \in foreign' \/ Shown'[n] \in declared'[n]
    BY DEF Promise!Faithful, Shown
  <2>1. declared \in [Names -> SUBSET Location] /\ Shown \in [Names -> {Shown[m] : m \in Names}]
    BY DEF HInv, RecordedTypeOK, Shown
  <2>2. Shown[n] = Absent \/ n \in foreign \/ Shown[n] \in declared[n]
    BY DEF Promise!Faithful, Shown
  <2>3. CASE UNCHANGED Promise!vars
    BY <2>2, <2>3, PromiseVars DEF Promise!vars, Shown
  <2>4. ASSUME NEW m \in Names, Promise!Declare(m) \/ Promise!Override(m) \/ Promise!Clear(m) \/ Promise!Lapse(m)
        PROVE  Shown'[n] = Absent \/ n \in foreign' \/ Shown'[n] \in declared'[n]
    BY <2>1, <2>2, <2>4 DEF Promise!Declare, Promise!Override, Promise!Clear, Promise!Lapse, Shown
  <2>5. ASSUME NEW m \in Names, Promise!Intrude(m) \/ Promise!Publish(m) \/ Promise!Retire(m)
        PROVE  Shown'[n] = Absent \/ n \in foreign' \/ Shown'[n] \in declared'[n]
    BY <2>1, <2>2, <2>5 DEF Promise!Intrude, Promise!Publish, Promise!Retire, Shown
  <2>6. ASSUME NEW c \in Clusters, Promise!FleetChange(c)
        PROVE  Shown'[n] = Absent \/ n \in foreign' \/ Shown'[n] \in declared'[n]
    BY <2>2, <2>6 DEF Promise!FleetChange, Shown
  <2> QED
    BY <2>3, <2>4, <2>5, <2>6 DEF Promise!Next
<1>3. RInit => HInv
  BY EmptySeq DEF RInit, Init, HInv, RecordedTypeOK, RememberedInv, Known, Permitted
<1> QED
  BY <1>1, <1>2, <1>3, RInvariance, RememberedStep, StepRefines, PTL DEF RSpec
=============================================================================
