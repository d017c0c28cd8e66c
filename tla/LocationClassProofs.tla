------------------------- MODULE LocationClassProofs -------------------------
(* What holds of the class controller for every set of classes and         *)
(* Locations, every kind of interference and every bound.                  *)
EXTENDS LocationClass, WatchProofs, FiniteSetTheorems

-----------------------------------------------------------------------------
(* The inductive invariant.                                                *)

\* A reconcile in progress is of a class it read.
WorkerInv == step # "idle" => request \in Classes /\ read \in Class

\* A Location that the cache has shown naming the class all along is in the
\* list the worker is about to make; and the list was empty before a release.
KnownInv ==
    /\ step = "list" => known \subseteq ReferencingLocations(request)
    /\ step = "release" => known = {}

IInv == TypeOK /\ WorkerInv /\ KnownInv

-----------------------------------------------------------------------------
(* Objects and writes keep the types.                                      *)

LEMMA MessageType ==
    ASSUME NEW referencing \in SUBSET Names
    PROVE  BlockedMessage(referencing) \in Message
<1>1. IsFiniteSet(referencing)
  BY NamesAssumption, FS_Subset
<1>2. Cardinality(referencing) \in Nat
  BY <1>1, FS_CardinalityType
<1>3. Sample(referencing) \subseteq Names
  BY DEF Sample
<1> QED
  BY <1>2, <1>3 DEF BlockedMessage, Message

LEMMA NotBlockedType == NotBlocked \in Message
BY DEF NotBlocked, Message

LEMMA WriteClassType ==
    ASSUME TypeOK, NEW c \in Classes, NEW object \in Class \cup {Absent},
           WriteClass(c, object)
    PROVE  /\ class' \in [Classes -> Class \cup {Absent}]
           /\ classWatch' \in Seq([name : Classes, object : Class \cup {Absent}])
<1> DEFINE E == [name : Classes, object : Class \cup {Absent}]
           stored == Stored(object)
<1>1. stored \in Class \cup {Absent}
  BY DEF Stored
<1>2. [name |-> c, object |-> stored] \in E
  BY <1>1
<1>3. classWatch \in Seq(E)
  BY DEF TypeOK
<1>4. CASE stored = class[c]
  BY <1>4, <1>3 DEF WriteClass, classVars, TypeOK
<1>5. CASE stored # class[c]
  <2>1. /\ class' = [class EXCEPT ![c] = stored]
        /\ classWatch' = Append(classWatch, [name |-> c, object |-> stored])
    BY <1>5 DEF WriteClass
  <2>2. class' \in [Classes -> Class \cup {Absent}]
    BY <2>1, <1>1 DEF TypeOK
  <2> HIDE DEF stored
  <2> QED
    BY <2>1, <2>2, <1>2, <1>3, AppendProperties
<1> QED
  BY <1>4, <1>5

LEMMA WriteLocationType ==
    ASSUME TypeOK, NEW n \in Names, NEW ref \in Ref \cup {Absent}, WriteLocation(n, ref)
    PROVE  /\ location' \in [Names -> Ref \cup {Absent}]
           /\ locWatch' \in Seq([name : Names, object : Ref \cup {Absent}])
<1> DEFINE E == [name : Names, object : Ref \cup {Absent}]
<1>1. [name |-> n, object |-> ref] \in E /\ locWatch \in Seq(E)
  BY DEF TypeOK
<1> QED
  BY <1>1, AppendProperties DEF WriteLocation, TypeOK

LEMMA DisturbType ==
    ASSUME TypeOK, NEW kind, Disturb(kind)
    PROVE  budget' \in 0 .. MaxDisturbances
BY BoundsAssumption DEF Disturb, TypeOK

LEMMA FinishType ==
    ASSUME TypeOK, WorkerInv, step # "idle", NEW requeued \in BOOLEAN, Finish(requeued)
    PROVE  /\ step' = "idle" /\ request' = Absent /\ read' = Absent /\ known' = {}
           /\ queue' \subseteq Classes
BY DEF Finish, TypeOK, WorkerInv

LEMMA DoneType ==
    ASSUME TypeOK, WorkerInv, step # "idle", NEW requeued \in BOOLEAN, Done(requeued)
    PROVE  /\ step' = "idle" /\ request' = Absent /\ read' = Absent /\ known' = {}
           /\ queue' \subseteq Classes
           /\ budget' \in 0 .. MaxDisturbances
<1>1. Finish(requeued) \/ Finish(TRUE)
  BY DEF Done
<1>2. budget' = budget \/ Disturb("fault")
  BY DEF Done
<1> QED
  BY <1>1, <1>2, FinishType, DisturbType DEF TypeOK

\* A step after which the worker is idle needs no more than its types.
LEMMA IdleKnowsNothing == step' = "idle" => WorkerInv' /\ KnownInv'
BY DEF WorkerInv, KnownInv

-----------------------------------------------------------------------------
(* Every action keeps the invariant.                                       *)

LEMMA InterferenceKeeps == IInv /\ Interference => IInv'
<1> SUFFICES ASSUME IInv, Interference PROVE IInv'
  OBVIOUS
<1>1. UNCHANGED <<cacheVars, workerVars, deletionBlocked, queue>>
  BY DEF Interference, CreateClass, DeleteClass, TheirFinalizer, ChangeLocation
<1>2. WorkerInv' /\ KnownInv'
  BY <1>1 DEF IInv, WorkerInv, KnownInv, ReferencingLocations, cacheVars, workerVars
<1>3. budget' \in 0 .. MaxDisturbances
  BY DisturbType DEF IInv, Interference, CreateClass, DeleteClass, TheirFinalizer, ChangeLocation
<1>4. ASSUME NEW c \in Classes, CreateClass(c) PROVE TypeOK'
  <2>1. [deleting |-> FALSE, finalizers |-> {}, blocked |-> NotBlocked] \in Class
    BY NotBlockedType DEF Class
  <2> QED
    BY <1>4, <1>1, <1>3, <2>1, WriteClassType
    DEF CreateClass, IInv, TypeOK, locationVars, cacheVars, workerVars
<1>5. ASSUME NEW c \in Classes, DeleteClass(c) PROVE TypeOK'
  <2>1. [class[c] EXCEPT !.deleting = TRUE] \in Class
    BY <1>5 DEF DeleteClass, IInv, TypeOK, Class
  <2> QED
    BY <1>5, <1>1, <1>3, <2>1, WriteClassType
    DEF DeleteClass, IInv, TypeOK, locationVars, cacheVars, workerVars
<1>6. ASSUME NEW c \in Classes, TheirFinalizer(c) PROVE TypeOK'
  <2>1. /\ [class[c] EXCEPT !.finalizers = @ \cup {Theirs}] \in Class
        /\ [class[c] EXCEPT !.finalizers = @ \ {Theirs}] \in Class
    BY <1>6 DEF TheirFinalizer, IInv, TypeOK, Class
  <2> QED
    BY <1>6, <1>1, <1>3, <2>1, WriteClassType
    DEF TheirFinalizer, IInv, TypeOK, locationVars, cacheVars, workerVars
<1>7. ASSUME NEW n \in Names, ChangeLocation(n) PROVE TypeOK'
  <2>1. PICK ref \in Ref \cup {Absent} : WriteLocation(n, ref)
    BY <1>7 DEF ChangeLocation
  <2> QED
    BY <1>7, <1>1, <1>3, <2>1, WriteLocationType
    DEF ChangeLocation, IInv, TypeOK, classVars, cacheVars, workerVars
<1> QED
  BY <1>2, <1>4, <1>5, <1>6, <1>7 DEF Interference, IInv

LEMMA DeliverClassKeeps == IInv /\ DeliverClass => IInv'
<1> SUFFICES ASSUME IInv, DeliverClass PROVE IInv'
  OBVIOUS
<1> DEFINE E == [name : Classes, object : Class \cup {Absent}]
<1>1. classWatch \in Seq(E) /\ classWatch # <<>>
  BY DEF IInv, TypeOK, DeliverClass
<1>2. Head(classWatch) \in E /\ Tail(classWatch) \in Seq(E)
  BY <1>1, HeadTailProperties
<1>3. TypeOK'
  BY <1>2 DEF IInv, TypeOK, DeliverClass, locationVars, workerVars
<1>4. WorkerInv' /\ KnownInv'
  BY DEF DeliverClass, IInv, WorkerInv, KnownInv, ReferencingLocations, workerVars
<1> QED
  BY <1>3, <1>4 DEF IInv

LEMMA DeliverLocationKeeps == IInv /\ DeliverLocation => IInv'
<1> SUFFICES ASSUME IInv, DeliverLocation PROVE IInv'
  OBVIOUS
<1> DEFINE E == [name : Names, object : Ref \cup {Absent}]
           e == Head(locWatch)
<1>1. locWatch \in Seq(E) /\ locWatch # <<>>
  BY DEF IInv, TypeOK, DeliverLocation
<1>2. e \in E /\ Tail(locWatch) \in Seq(E)
  BY <1>1, HeadTailProperties
<1>3. /\ locCache' = [locCache EXCEPT ![e.name] = e.object]
      /\ queue' = queue \cup EnqueueLocalClass(locCache[e.name], e.object)
      /\ known' = known \ {e.name}
      /\ locWatch' = Tail(locWatch)
      /\ UNCHANGED <<location, classCache, classVars, step, request, read, deletionBlocked, budget>>
  BY DEF DeliverLocation
<1>4. \A ref \in Ref \cup {Absent} : IndexLocationsByClass(ref) \subseteq Classes
  BY DEF IndexLocationsByClass, Ref
<1>5. EnqueueLocalClass(locCache[e.name], e.object) \subseteq Classes
  BY <1>2, <1>4 DEF EnqueueLocalClass, IInv, TypeOK
<1> HIDE DEF e
<1>6. TypeOK'
  BY <1>2, <1>3, <1>5 DEF IInv, TypeOK, classVars
<1>7. WorkerInv'
  BY <1>3 DEF IInv, WorkerInv
<1>8. ASSUME step' = "list" PROVE known' \subseteq ReferencingLocations(request)'
  <2>1. \A n \in Names \ {e.name} : locCache'[n] = locCache[n]
    BY <1>3 DEF IInv, TypeOK
  <2>2. known' \subseteq ReferencingLocations(request) \ {e.name}
    BY <1>3, <1>8 DEF IInv, KnownInv
  <2> QED
    BY <2>1, <2>2, <1>3 DEF ReferencingLocations
<1>9. KnownInv'
  BY <1>3, <1>8 DEF IInv, KnownInv
<1> QED
  BY <1>6, <1>7, <1>9 DEF IInv

LEMMA BeginKeeps ==
    ASSUME IInv, NEW c \in Classes, BeginReconcile(c)
    PROVE  IInv'
<1>0. NotReported(c) \/ UNCHANGED deletionBlocked
  BY DEF BeginReconcile, NothingToDo, BeginHold, BeginRelease
<1>1. deletionBlocked' \subseteq Classes
  BY <1>0 DEF NotReported, IInv, TypeOK
<1>2. CASE NothingToDo(c)
  <2>1. TypeOK'
    BY <1>1, <1>2 DEF NothingToDo, IInv, TypeOK, classVars, locationVars, cacheVars, workerVars
  <2> QED
    BY <1>2, <2>1
    DEF NothingToDo, IInv, WorkerInv, KnownInv, ReferencingLocations, cacheVars, workerVars
<1>3. ASSUME NEW next \in {"hold", "list"}, Begin(c, next), classCache[c] # Absent
      PROVE  IInv'
  <2>1. /\ step' = next /\ request' = c /\ read' = classCache[c] /\ known' = Shown(c)
        /\ queue' = queue \ {c}
        /\ UNCHANGED <<classVars, locationVars, cacheVars, budget>>
    BY <1>3 DEF Begin
  <2>2. read' \in Class
    BY <2>1, <1>3 DEF IInv, TypeOK
  <2>3. Shown(c) = ReferencingLocations(c)
    BY DEF Shown, ReferencingLocations
  <2>4. Shown(c) \subseteq Names
    BY DEF Shown
  <2>5. TypeOK'
    BY <2>1, <2>2, <2>4, <1>1 DEF IInv, TypeOK, Steps, classVars, locationVars, cacheVars
  <2>6. WorkerInv'
    BY <2>1, <2>2 DEF WorkerInv
  <2>7. ReferencingLocations(request)' = ReferencingLocations(c)
    BY <2>1 DEF ReferencingLocations, cacheVars
  <2>8. KnownInv'
    BY <2>1, <2>3, <2>7 DEF KnownInv
  <2> QED
    BY <2>5, <2>6, <2>8 DEF IInv
<1>4. CASE BeginHold(c)
  BY <1>3, <1>4 DEF BeginHold
<1>5. CASE BeginRelease(c)
  BY <1>3, <1>5 DEF BeginRelease
<1> QED
  BY <1>2, <1>4, <1>5 DEF BeginReconcile

LEMMA HoldKeeps == IInv /\ Hold => IInv'
<1> SUFFICES ASSUME IInv, Hold PROVE IInv'
  OBVIOUS
<1> DEFINE finalizers == Held(read.finalizers)
<1>1. step = "hold" /\ request \in Classes /\ read \in Class
  BY DEF Hold, IInv, WorkerInv
<1>2. UNCHANGED <<locationVars, cacheVars, deletionBlocked>>
  BY DEF Hold
<1>3. finalizers \in SUBSET {Ours, Theirs}
  BY <1>1 DEF Held, Class
<1> HIDE DEF finalizers
<1>4. CASE Refused(request, finalizers)
  <2>1. UNCHANGED <<classVars, budget>> /\ Finish(TRUE)
    BY <1>4 DEF Hold, finalizers
  <2> QED
    BY <1>1, <1>2, <2>1, FinishType, IdleKnowsNothing
    DEF IInv, TypeOK, Steps, classVars, locationVars, cacheVars
<1>5. CASE ~Refused(request, finalizers)
  <2>1. WriteClass(request, [class[request] EXCEPT !.finalizers = finalizers]) /\ Done(FALSE)
    BY <1>5 DEF Hold, finalizers
  <2>2. [class[request] EXCEPT !.finalizers = finalizers] \in Class
    BY <1>1, <1>3, <1>5 DEF Refused, IInv, TypeOK, Class
  <2> QED
    BY <1>1, <1>2, <2>1, <2>2, DoneType, WriteClassType, IdleKnowsNothing
    DEF IInv, TypeOK, Steps, locationVars, cacheVars
<1> QED
  BY <1>4, <1>5

LEMMA ListReferencingKeeps == IInv /\ ListReferencing => IInv'
<1> SUFFICES ASSUME IInv, ListReferencing PROVE IInv'
  OBVIOUS
<1> DEFINE referencing == ReferencingLocations(request)
           message == BlockedMessage(referencing)
<1>1. step = "list" /\ request \in Classes /\ read \in Class
  BY DEF ListReferencing, IInv, WorkerInv
<1>2. UNCHANGED <<classVars, locationVars, cacheVars, budget>>
  BY DEF ListReferencing
<1>3. deletionBlocked' \subseteq Classes
  BY <1>1 DEF ListReferencing, IInv, TypeOK
<1>4. message \in Message
  BY MessageType DEF ReferencingLocations
<1>5. ASSUME Finish(TRUE) \/ Finish(FALSE) PROVE IInv'
  BY <1>1, <1>2, <1>3, <1>5, FinishType, IdleKnowsNothing
  DEF IInv, TypeOK, Steps, classVars, locationVars, cacheVars
<1>6. ASSUME step' = "record", read' = [read EXCEPT !.blocked = message],
             UNCHANGED <<request, known, queue>>
      PROVE  IInv'
  <2>1. read' \in Class
    BY <1>1, <1>4, <1>6 DEF Class
  <2> HIDE DEF message
  <2> QED
    BY <1>1, <1>2, <1>3, <1>6, <2>1
    DEF IInv, TypeOK, WorkerInv, KnownInv, Steps, classVars, locationVars, cacheVars
<1>7. ASSUME referencing = {}, step' = "release", UNCHANGED <<request, read, known, queue>>
      PROVE  IInv'
  <2>1. known' = {}
    BY <1>1, <1>7 DEF IInv, KnownInv
  <2> HIDE DEF referencing
  <2> QED
    BY <1>1, <1>2, <1>3, <1>7, <2>1
    DEF IInv, TypeOK, WorkerInv, KnownInv, Steps, classVars, locationVars, cacheVars
<1> QED
  BY <1>5, <1>6, <1>7 DEF ListReferencing

LEMMA RecordKeeps == IInv /\ RecordBlockedDeletion => IInv'
<1> SUFFICES ASSUME IInv, RecordBlockedDeletion PROVE IInv'
  OBVIOUS
<1>1. step = "record" /\ request \in Classes /\ read \in Class
  BY DEF RecordBlockedDeletion, IInv, WorkerInv
<1>2. UNCHANGED <<locationVars, cacheVars, deletionBlocked>>
  BY DEF RecordBlockedDeletion
<1>3. CASE class[request] = Absent
  <2>1. UNCHANGED <<classVars, budget>> /\ Finish(TRUE)
    BY <1>3 DEF RecordBlockedDeletion
  <2> QED
    BY <1>1, <1>2, <2>1, FinishType, IdleKnowsNothing
    DEF IInv, TypeOK, Steps, classVars, locationVars, cacheVars
<1>4. CASE class[request] # Absent
  <2>1. WriteClass(request, [class[request] EXCEPT !.blocked = read.blocked]) /\ Done(TRUE)
    BY <1>4 DEF RecordBlockedDeletion
  <2>2. [class[request] EXCEPT !.blocked = read.blocked] \in Class
    BY <1>1, <1>4 DEF IInv, TypeOK, Class
  <2> QED
    BY <1>1, <1>2, <2>1, <2>2, DoneType, WriteClassType, IdleKnowsNothing
    DEF IInv, TypeOK, Steps, locationVars, cacheVars
<1> QED
  BY <1>3, <1>4

LEMMA ReleaseKeeps == IInv /\ Release => IInv'
<1> SUFFICES ASSUME IInv, Release PROVE IInv'
  OBVIOUS
<1> DEFINE finalizers == read.finalizers \ {Ours}
<1>1. step = "release" /\ request \in Classes /\ read \in Class
  BY DEF Release, IInv, WorkerInv
<1>2. UNCHANGED <<locationVars, cacheVars>>
  BY DEF Release
<1>3. finalizers \in SUBSET {Ours, Theirs}
  BY <1>1 DEF Class
<1> HIDE DEF finalizers
<1>4. CASE Refused(request, finalizers)
  <2>1. UNCHANGED <<classVars, budget, deletionBlocked>> /\ Finish(TRUE)
    BY <1>4 DEF Release, finalizers
  <2> QED
    BY <1>1, <1>2, <2>1, FinishType, IdleKnowsNothing
    DEF IInv, TypeOK, Steps, classVars, locationVars, cacheVars
<1>5. CASE ~Refused(request, finalizers)
  <2>1. /\ WriteClass(request, [class[request] EXCEPT !.finalizers = finalizers])
        /\ \/ Finish(FALSE) /\ NotReported(request) /\ UNCHANGED budget
           \/ Disturb("fault") /\ Finish(TRUE) /\ UNCHANGED deletionBlocked
    BY <1>5 DEF Release, finalizers
  <2>2. [class[request] EXCEPT !.finalizers = finalizers] \in Class
    BY <1>1, <1>3, <1>5 DEF Refused, IInv, TypeOK, Class
  <2>3. Finish(FALSE) \/ Finish(TRUE)
    BY <2>1
  <2>4. budget' \in 0 .. MaxDisturbances /\ deletionBlocked' \subseteq Classes
    BY <2>1, DisturbType DEF NotReported, IInv, TypeOK
  <2> QED
    BY <1>1, <1>2, <2>1, <2>2, <2>3, <2>4, FinishType, WriteClassType, IdleKnowsNothing
    DEF IInv, TypeOK, Steps, locationVars, cacheVars
<1> QED
  BY <1>4, <1>5

LEMMA FailureKeeps == IInv /\ (PatchFails \/ Restart) => IInv'
<1>1. ASSUME IInv, PatchFails PROVE IInv'
  <2>1. step # "idle" /\ Disturb("fault") /\ Finish(TRUE)
    BY <1>1 DEF PatchFails
  <2> QED
    BY <1>1, <2>1, FinishType, DisturbType, IdleKnowsNothing
    DEF PatchFails, IInv, TypeOK, Steps, classVars, locationVars, cacheVars
<1>2. ASSUME IInv, Restart PROVE IInv'
  <2>1. TypeOK'
    BY <1>2, DisturbType DEF Restart, IInv, TypeOK, Steps
  <2> QED
    BY <1>2, <2>1, IdleKnowsNothing DEF Restart, IInv
<1> QED
  BY <1>1, <1>2

LEMMA Inductive == IInv /\ [Next]_vars => IInv'
<1> SUFFICES ASSUME IInv, [Next]_vars PROVE IInv'
  OBVIOUS
<1>1. CASE UNCHANGED vars
  BY <1>1 DEF vars, classVars, locationVars, cacheVars, workerVars,
              IInv, TypeOK, WorkerInv, KnownInv, ReferencingLocations
<1>2. CASE Call
  BY <1>2, HoldKeeps, ListReferencingKeeps, RecordKeeps, ReleaseKeeps DEF Call
<1>3. CASE \E c \in Classes : BeginReconcile(c)
  BY <1>3, BeginKeeps
<1> QED
  BY <1>1, <1>2, <1>3, InterferenceKeeps, DeliverClassKeeps, DeliverLocationKeeps, FailureKeeps
  DEF Next

\* In every reachable state the types are right, a reconcile knows its class,
\* and a release rests on a list in which nobody was known to be missing.
THEOREM Invariance == Spec => []IInv
<1>1. Init => IInv
  BY BoundsAssumption DEF Init, IInv, TypeOK, WorkerInv, KnownInv, Steps
<1> QED
  BY <1>1, Inductive, PTL DEF Spec

\* Every reachable state of the class controller and its caches has the
\* declared type.
THEOREM TypeCorrect == Spec => []TypeOK
BY Invariance, PTL DEF IInv

-----------------------------------------------------------------------------
(* The finalizer.                                                          *)

\* Only the release takes our finalizer off.
LEMMA OnlyReleaseLetsGo ==
    ASSUME IInv, Call, NEW c \in Classes,
           class[c] # Absent, Ours \in class[c].finalizers,
           class'[c] = Absent \/ Ours \notin class'[c].finalizers
    PROVE  step = "release"
<1> SUFFICES ASSUME step # "release" PROVE FALSE
  OBVIOUS
<1>1. request \in Classes /\ class \in [Classes -> Class \cup {Absent}]
  BY DEF Call, Hold, ListReferencing, RecordBlockedDeletion, Release, IInv, WorkerInv, TypeOK
<1>2. ASSUME NEW object \in Class, Ours \in object.finalizers, WriteClass(request, object)
      PROVE  FALSE
  <2>1. Stored(object) = object
    BY <1>2, AbsentIsNoObject DEF Stored
  <2>2. class' = class \/ class' = [class EXCEPT ![request] = object]
    BY <1>2, <2>1 DEF WriteClass, classVars
  <2> QED
    BY <1>1, <1>2, <2>2, AbsentIsNoObject
<1>3. classVars' # classVars
  BY DEF classVars
<1>4. CASE Hold
  <2>1. class[request] \in Class
    BY <1>1, <1>3, <1>4 DEF Hold, Refused
  <2>2. WriteClass(request, [class[request] EXCEPT !.finalizers = Held(read.finalizers)])
    BY <1>3, <1>4 DEF Hold
  <2>3. [class[request] EXCEPT !.finalizers = Held(read.finalizers)] \in Class
    BY <1>4, <2>1 DEF Hold, IInv, WorkerInv, Class, Held
  <2>4. Ours \in [class[request] EXCEPT !.finalizers = Held(read.finalizers)].finalizers
    BY <2>1 DEF Class, Held
  <2> QED
    BY <1>2, <2>2, <2>3, <2>4
<1>5. CASE ListReferencing
  BY <1>3, <1>5 DEF ListReferencing
<1>6. CASE RecordBlockedDeletion
  <2>1. class[request] \in Class
    BY <1>1, <1>3, <1>6 DEF RecordBlockedDeletion
  <2>2. WriteClass(request, [class[request] EXCEPT !.blocked = read.blocked])
    BY <1>3, <1>6 DEF RecordBlockedDeletion
  <2>3. [class[request] EXCEPT !.blocked = read.blocked] \in Class
    BY <1>6, <2>1 DEF RecordBlockedDeletion, IInv, WorkerInv, Class
  <2>4. CASE c = request
    BY <1>2, <2>1, <2>2, <2>3, <2>4 DEF Class
  <2>5. CASE c # request
    BY <1>1, <2>2, <2>5 DEF WriteClass, classVars
  <2> QED
    BY <2>4, <2>5
<1>7. CASE Release
  BY <1>7 DEF Release
<1> QED
  BY <1>4, <1>5, <1>6, <1>7 DEF Call

\* The finalizer of the controller is never taken off by a reconcile that still
\* knows of a Location naming the class (release, referencingLocations).
THEOREM KnownNamesAreHonoured == Spec => KnownNamesHonoured
<1> DEFINE Honoured ==
             \A c \in Classes :
               /\ Call /\ class[c] # Absent /\ Ours \in class[c].finalizers
               /\ class'[c] = Absent \/ Ours \notin class'[c].finalizers
               => known = {}
<1>1. IInv => Honoured
  BY OnlyReleaseLetsGo DEF IInv, KnownInv
<1>2. IInv /\ [Next]_vars => [Honoured]_vars
  BY <1>1
<1>3. Spec => [][Honoured]_vars
  <2> HIDE DEF Honoured
  <2> QED
    BY <1>2, Invariance, PTL DEF Spec
<1> QED
  BY <1>3 DEF KnownNamesHonoured

-----------------------------------------------------------------------------
(* No wake-up is lost.                                                     *)

\* Both caches will be right.
Watched == CatchesUp(classCache, classWatch, class) /\ CatchesUp(locCache, locWatch, location)

\* The class is in the queue, or an event on its way will put it there.
Woken(c) == c \in queue \/ InFlight(classWatch, c) \/ Heralded(c)

\* There is nothing to do for c.
ClassRest(c) ==
    /\ c \notin deletionBlocked
    /\ class[c] # Absent => IF class[c].deleting THEN Ours \notin class[c].finalizers /\ Naming(c) = {}
                            ELSE Ours \in class[c].finalizers

\* The worker does what the class it is at needs.
AtWork ==
    /\ step \in {"hold", "list", "release"} => read = class[request]
    /\ step = "hold" => ~read.deleting /\ Ours \notin read.finalizers /\ request \notin deletionBlocked
    /\ step \in {"list", "release"} => read.deleting
    /\ step = "release" => Ours \in read.finalizers /\ Naming(request) = {}

\* The worker is at c.
Busy(c) == step # "idle" /\ request = c

WakeInv ==
    /\ Watched
    /\ \A c \in Classes : ~Woken(c) /\ ~Busy(c) => ClassRest(c)
    /\ step # "idle" /\ ~Woken(request) => AtWork

\* A step in which no wake-up is consumed, and every change causes one.
Heard ==
    \A c \in Classes : ~Woken(c)' =>
      ~Woken(c) /\ class'[c] = class[c] /\ Naming(c)' = Naming(c)

\* What the worker reads is what is there, unless it will look again.
LEMMA QuietReads ==
    ASSUME TypeOK, Watched, NEW c \in Classes, ~InFlight(classWatch, c), ~Heralded(c)
    PROVE  classCache[c] = class[c] /\ ReferencingLocations(c) = Naming(c)
<1>1. classCache[c] = class[c]
  BY DEF Watched, CatchesUp, TypeOK
<1>2. ASSUME NEW n \in Names
      PROVE  c \in IndexLocationsByClass(locCache[n]) <=> c \in IndexLocationsByClass(location[n])
  <2>1. CASE ~InFlight(locWatch, n)
    BY <2>1 DEF Watched, CatchesUp, TypeOK
  <2>2. CASE InFlight(locWatch, n)
    <3>1. PICK i \in 1 .. Len(locWatch) : locWatch[i].name = n /\ Latest(locWatch, i)
      <4>1. locWatch \in Seq(Events(Names, Ref \cup {Absent}))
        BY DEF TypeOK, Events
      <4> QED
        BY <2>2, <4>1, LastEvent
    <3>2. locWatch[i].object = location[n]
      BY <3>1 DEF Watched, CatchesUp
    <3> QED
      BY <3>1, <3>2 DEF Heralded, EnqueueLocalClass
  <2> QED
    BY <2>1, <2>2
<1> QED
  BY <1>1, <1>2 DEF ReferencingLocations, Naming

LEMMA NothingWrittenHeard ==
    ASSUME Watched, UNCHANGED <<classVars, locationVars, cacheVars>>, queue \subseteq queue'
    PROVE  Watched' /\ Heard
BY DEF Watched, Heard, Woken, Heralded, Naming, classVars, locationVars, cacheVars

LEMMA ClassWriteHeard ==
    ASSUME TypeOK, Watched, NEW c \in Classes, NEW object \in Class \cup {Absent},
           WriteClass(c, object), UNCHANGED <<locationVars, cacheVars>>, queue \subseteq queue'
    PROVE  Watched' /\ Heard
<1> DEFINE stored == Stored(object)
           e == [name |-> c, object |-> stored]
<1>1. classWatch \in Seq(Events(Classes, Class \cup {Absent})) /\ class \in [Classes -> Class \cup {Absent}]
  BY DEF TypeOK, Events
<1>2. stored \in Class \cup {Absent}
  BY DEF Stored
<1>3. e \in Events(Classes, Class \cup {Absent}) /\ e.name = c /\ e.object = stored
  BY <1>2 DEF Events
<1>4. CASE stored = class[c]
  BY <1>4, NothingWrittenHeard DEF WriteClass
<1>5. CASE stored # class[c]
  <2>1. class' = [class EXCEPT ![c] = stored] /\ classWatch' = Append(classWatch, e)
    BY <1>5 DEF WriteClass
  <2> HIDE DEF e, stored
  <2>2. CatchesUp(classCache, classWatch, class)'
    <3>1. CatchesUp(classCache, Append(classWatch, e), [class EXCEPT ![e.name] = e.object])
      BY <1>1, <1>3, SendCatchesUp DEF Watched
    <3> QED
      BY <1>3, <2>1, <3>1 DEF cacheVars
  <2>3. InFlight(classWatch, c)' /\ \A d : InFlight(classWatch, d) => InFlight(classWatch, d)'
    BY <1>1, <1>3, <2>1, SendKeepsInFlight
  <2>4. Heard
    BY <1>1, <2>1, <2>3 DEF Heard, Woken, Heralded, Naming, locationVars, cacheVars
  <2> QED
    BY <2>2, <2>4 DEF Watched, locationVars, cacheVars
<1> QED
  BY <1>4, <1>5

LEMMA LocationWriteHeard ==
    ASSUME TypeOK, Watched, NEW n \in Names, NEW ref \in Ref \cup {Absent},
           WriteLocation(n, ref), UNCHANGED <<classVars, cacheVars, queue>>
    PROVE  Watched' /\ Heard
<1> DEFINE e == [name |-> n, object |-> ref]
<1>1. locWatch \in Seq(Events(Names, Ref \cup {Absent})) /\ location \in [Names -> Ref \cup {Absent}]
  BY DEF TypeOK, Events
<1>2. e \in Events(Names, Ref \cup {Absent}) /\ e.name = n /\ e.object = ref
  BY DEF Events
<1>3. location' = [location EXCEPT ![n] = ref] /\ locWatch' = Append(locWatch, e)
  BY DEF WriteLocation
<1> HIDE DEF e
<1>4. CatchesUp(locCache, locWatch, location)'
  <2>1. CatchesUp(locCache, Append(locWatch, e), [location EXCEPT ![e.name] = e.object])
    BY <1>1, <1>2, SendCatchesUp DEF Watched
  <2> QED
    BY <1>2, <1>3, <2>1 DEF cacheVars
<1>5. Watched'
  BY <1>4 DEF Watched, classVars, cacheVars
<1>6. /\ Len(locWatch) \in Nat /\ Len(locWatch') = Len(locWatch) + 1
      /\ \A i \in 1 .. Len(locWatch) : locWatch'[i] = locWatch[i]
      /\ locWatch'[Len(locWatch) + 1] = e
  BY <1>1, <1>2, <1>3, AppendProperties, LenProperties
<1>7. ASSUME NEW c \in Classes, ~Woken(c)'
      PROVE  ~Woken(c) /\ class'[c] = class[c] /\ Naming(c)' = Naming(c)
  <2>1. c \notin queue /\ ~InFlight(classWatch, c) /\ class' = class /\ locCache' = locCache
    BY <1>7 DEF Woken, classVars, cacheVars
  <2>2. \A i \in 1 .. Len(locWatch) + 1 :
          c \notin EnqueueLocalClass(locCache[locWatch'[i].name], locWatch'[i].object)
    BY <1>6, <1>7, <2>1 DEF Woken, Heralded
  <2>3. ~Heralded(c)
    BY <1>6, <2>2 DEF Heralded
  <2>4. c \notin IndexLocationsByClass(locCache[n]) /\ c \notin IndexLocationsByClass(ref)
    BY <1>2, <1>6, <2>2 DEF EnqueueLocalClass
  <2>5. c \notin IndexLocationsByClass(location[n])
    <3>1. ReferencingLocations(c) = Naming(c)
      BY <2>1, <2>3, QuietReads
    <3> QED
      BY <2>4, <3>1 DEF ReferencingLocations, Naming
  <2>6. Naming(c)' = Naming(c)
    BY <1>1, <1>3, <2>4, <2>5 DEF Naming
  <2> QED
    BY <2>1, <2>3, <2>6 DEF Woken
<1> QED
  BY <1>5, <1>7 DEF Heard

LEMMA DeliverClassHeard ==
    ASSUME TypeOK, Watched, DeliverClass
    PROVE  Watched' /\ Heard
<1> DEFINE e == Head(classWatch)
<1>1. /\ classWatch \in Seq(Events(Classes, Class \cup {Absent})) /\ classWatch # <<>>
      /\ class \in [Classes -> Class \cup {Absent}] /\ classCache \in [Classes -> Class \cup {Absent}]
  BY DEF TypeOK, Events, DeliverClass
<1>2. /\ classCache' = [classCache EXCEPT ![e.name] = e.object] /\ classWatch' = Tail(classWatch)
      /\ queue' = queue \cup {e.name}
      /\ UNCHANGED <<class, location, locWatch, locCache>>
  BY DEF DeliverClass, locationVars
<1>3. CatchesUp(classCache, classWatch, class)'
  <2>1. CatchesUp([classCache EXCEPT ![e.name] = e.object], Tail(classWatch), class)
    BY <1>1, DeliveryCatchesUp DEF Watched
  <2> QED
    BY <1>2, <2>1
<1>4. \A c : InFlight(classWatch, c) => InFlight(classWatch, c)' \/ c = e.name
  BY <1>1, <1>2, DeliveryInFlight
<1> HIDE DEF e
<1> QED
  BY <1>2, <1>3, <1>4 DEF Watched, Heard, Woken, Heralded, Naming

LEMMA DeliverLocationHeard ==
    ASSUME TypeOK, Watched, DeliverLocation
    PROVE  Watched' /\ Heard
<1> DEFINE e == Head(locWatch)
<1>1. /\ locWatch \in Seq(Events(Names, Ref \cup {Absent})) /\ locWatch # <<>>
      /\ location \in [Names -> Ref \cup {Absent}] /\ locCache \in [Names -> Ref \cup {Absent}]
  BY DEF TypeOK, Events, DeliverLocation
<1>2. /\ locCache' = [locCache EXCEPT ![e.name] = e.object] /\ locWatch' = Tail(locWatch)
      /\ queue' = queue \cup EnqueueLocalClass(locCache[e.name], e.object)
      /\ UNCHANGED <<location, class, classWatch, classCache>>
  BY DEF DeliverLocation, classVars
<1>3. CatchesUp(locCache, locWatch, location)'
  <2>1. CatchesUp([locCache EXCEPT ![e.name] = e.object], Tail(locWatch), location)
    BY <1>1, DeliveryCatchesUp DEF Watched
  <2> QED
    BY <1>2, <2>1
<1>4. /\ Len(locWatch) \in Nat \ {0} /\ Len(locWatch') = Len(locWatch) - 1
      /\ \A i \in 1 .. Len(locWatch') : locWatch'[i] = locWatch[i + 1]
      /\ e = locWatch[1]
  BY <1>1, <1>2, HeadTailProperties, EmptySeq
<1> HIDE DEF e
<1>5. ASSUME NEW c \in Classes, ~Woken(c)' PROVE ~Woken(c)
  <2>1. /\ c \notin queue /\ ~InFlight(classWatch, c)
        /\ c \notin IndexLocationsByClass(locCache[e.name]) /\ c \notin IndexLocationsByClass(e.object)
    BY <1>2, <1>5 DEF Woken, EnqueueLocalClass
  <2>2. ASSUME NEW i \in 1 .. Len(locWatch)
        PROVE  c \notin EnqueueLocalClass(locCache[locWatch[i].name], locWatch[i].object)
    <3>1. CASE i = 1
      BY <1>4, <2>1, <3>1 DEF EnqueueLocalClass
    <3>2. CASE i # 1
      <4>1. i - 1 \in 1 .. Len(locWatch') /\ locWatch'[i - 1] = locWatch[i]
        BY <1>4, <3>2
      <4>2. c \notin EnqueueLocalClass(locCache'[locWatch[i].name], locWatch[i].object)
        BY <1>5, <4>1 DEF Woken, Heralded
      <4>3. locCache'[locWatch[i].name] = locCache[locWatch[i].name] \/ locWatch[i].name = e.name
        <5>1. locWatch[i] \in Events(Names, Ref \cup {Absent})
          BY <1>1, ElementOfSeq
        <5> QED
          BY <1>1, <1>2, <5>1 DEF Events
      <4> QED
        BY <2>1, <4>2, <4>3 DEF EnqueueLocalClass
    <3> QED
      BY <3>1, <3>2
  <2> QED
    BY <2>1, <2>2 DEF Woken, Heralded
<1> QED
  BY <1>2, <1>3, <1>5 DEF Watched, Heard, Naming

\* What is heard of and not acted upon leaves the worker right.
LEMMA HearingKeepsWake ==
    ASSUME TypeOK, WorkerInv, WakeInv, Watched', Heard, UNCHANGED <<step, request, read, deletionBlocked>>
    PROVE  WakeInv'
<1>1. ASSUME NEW c \in Classes, ~Woken(c)', ~Busy(c)' PROVE ClassRest(c)'
  <2>1. /\ ~Woken(c) /\ ~Busy(c)
        /\ class'[c] = class[c] /\ Naming(c)' = Naming(c)
    BY <1>1 DEF Heard, Busy
  <2> QED
    BY <2>1 DEF WakeInv, ClassRest
<1>2. ASSUME NEW c \in Classes, request = c, step # "idle", ~Woken(c)' PROVE AtWork'
  <2>1. ~Woken(c) /\ class'[c] = class[c] /\ Naming(c)' = Naming(c)
    BY <1>2 DEF Heard
  <2>2. AtWork
    BY <1>2, <2>1 DEF WakeInv
  <2> QED
    BY <1>2, <2>1, <2>2 DEF AtWork
<1>3. step # "idle" => request \in Classes
  BY DEF WorkerInv
<1>4. step' # "idle" /\ ~Woken(request)' => AtWork'
  <2> SUFFICES ASSUME step' # "idle", ~Woken(request)' PROVE AtWork'
    OBVIOUS
  <2>1. PICK c \in Classes : request = c /\ request' = c
    BY <1>3
  <2> QED
    BY <1>2, <2>1
<1> QED
  BY <1>1, <1>4 DEF WakeInv

LEMMA OthersKeepWake == IInv /\ WakeInv /\ (Interference \/ DeliverClass \/ DeliverLocation) => WakeInv'
<1> SUFFICES ASSUME IInv, WakeInv, Interference \/ DeliverClass \/ DeliverLocation PROVE WakeInv'
  OBVIOUS
<1>1. TypeOK /\ WorkerInv /\ Watched
  BY DEF IInv, WakeInv
<1>2. UNCHANGED <<step, request, read, deletionBlocked>>
  BY DEF Interference, CreateClass, DeleteClass, TheirFinalizer, ChangeLocation,
         DeliverClass, DeliverLocation, workerVars
<1>3. Watched' /\ Heard
  <2>1. ASSUME NEW c \in Classes, CreateClass(c) \/ DeleteClass(c) \/ TheirFinalizer(c)
        PROVE  Watched' /\ Heard
    <3>1. UNCHANGED <<locationVars, cacheVars>> /\ queue \subseteq queue'
      BY <2>1 DEF CreateClass, DeleteClass, TheirFinalizer
    <3>2. PICK object \in Class : WriteClass(c, object)
      <4>1. CASE CreateClass(c)
        <5>1. [deleting |-> FALSE, finalizers |-> {}, blocked |-> NotBlocked] \in Class
          BY NotBlockedType DEF Class
        <5> QED
          BY <4>1, <5>1 DEF CreateClass
      <4>2. CASE DeleteClass(c)
        <5>1. [class[c] EXCEPT !.deleting = TRUE] \in Class
          BY <1>1, <4>2 DEF DeleteClass, TypeOK, Class
        <5> QED
          BY <4>2, <5>1 DEF DeleteClass
      <4>3. CASE TheirFinalizer(c)
        <5>1. /\ [class[c] EXCEPT !.finalizers = @ \cup {Theirs}] \in Class
              /\ [class[c] EXCEPT !.finalizers = @ \ {Theirs}] \in Class
          BY <1>1, <4>3 DEF TheirFinalizer, TypeOK, Class
        <5> QED
          BY <4>3, <5>1 DEF TheirFinalizer
      <4> QED
        BY <2>1, <4>1, <4>2, <4>3
    <3> QED
      BY <1>1, <3>1, <3>2, ClassWriteHeard
  <2>2. ASSUME NEW n \in Names, ChangeLocation(n) PROVE Watched' /\ Heard
    BY <1>1, <2>2, LocationWriteHeard DEF ChangeLocation
  <2> QED
    BY <1>1, <2>1, <2>2, DeliverClassHeard, DeliverLocationHeard DEF Interference
<1> QED
  BY <1>1, <1>2, <1>3, HearingKeepsWake

LEMMA BeginKeepsWake ==
    ASSUME IInv, WakeInv, NEW c \in Classes, BeginReconcile(c)
    PROVE  WakeInv'
<1>1. TypeOK /\ Watched /\ step = "idle"
  BY DEF IInv, WakeInv, BeginReconcile, NothingToDo, BeginHold, BeginRelease, Begin
<1>2. /\ UNCHANGED <<class, classWatch, classCache, location, locWatch, locCache>>
      /\ queue' = queue \ {c}
  BY DEF BeginReconcile, NothingToDo, BeginHold, BeginRelease, Begin, classVars, locationVars, cacheVars
<1>3. Watched'
  BY <1>1, <1>2 DEF Watched
<1>4. deletionBlocked' \subseteq deletionBlocked
  BY DEF BeginReconcile, NothingToDo, BeginHold, BeginRelease, NotReported
<1>5. ASSUME NEW d \in Classes, d # c, ~Woken(d)' PROVE ClassRest(d)'
  <2>1. ~Woken(d) /\ ~Busy(d)
    BY <1>1, <1>2, <1>5 DEF Woken, Heralded, Busy
  <2> QED
    BY <1>2, <1>4, <2>1 DEF WakeInv, ClassRest, Naming
<1>6. ASSUME ~Woken(c)' PROVE classCache[c] = class[c]
  <2>1. ~InFlight(classWatch, c) /\ ~Heralded(c)
    BY <1>2, <1>6 DEF Woken, Heralded
  <2> QED
    BY <1>1, <2>1, QuietReads
<1>7. CASE NothingToDo(c)
  <2>1. step' = "idle" /\ c \notin deletionBlocked'
    BY <1>1, <1>7 DEF NothingToDo, NotReported, workerVars
  <2>2. ~Woken(c)' => ClassRest(c)'
    BY <1>2, <1>6, <1>7, <2>1 DEF NothingToDo, ClassRest
  <2> QED
    BY <1>3, <1>5, <2>1, <2>2 DEF WakeInv
<1>8. CASE BeginHold(c) \/ BeginRelease(c)
  <2>1. step' # "idle" /\ request' = c /\ read' = classCache[c]
    BY <1>8 DEF BeginHold, BeginRelease, Begin
  <2>2. \/ step' = "hold" /\ ~classCache[c].deleting /\ Ours \notin classCache[c].finalizers /\ c \notin deletionBlocked'
        \/ step' = "list" /\ classCache[c].deleting
    BY <1>8 DEF BeginHold, BeginRelease, Begin, NotReported
  <2>3. ~Woken(c)' => AtWork'
    BY <1>2, <1>6, <2>1, <2>2 DEF AtWork
  <2>4. ASSUME NEW d \in Classes, ~Woken(d)', ~Busy(d)' PROVE ClassRest(d)'
    BY <1>5, <2>1, <2>4 DEF Busy
  <2>5. ~Woken(request)' => AtWork'
    BY <2>1, <2>3 DEF Woken, Heralded
  <2> QED
    BY <1>3, <2>4, <2>5 DEF WakeInv
<1> QED
  BY <1>7, <1>8 DEF BeginReconcile

\* A reconcile ends: what it was at is at rest, or is looked at again.
LEMMA FinishKeepsWake ==
    ASSUME WakeInv, Watched', Heard, NEW c \in Classes, request = c, step' = "idle",
           deletionBlocked' \subseteq deletionBlocked \cup {c},
           ~Woken(c)' => ClassRest(c)'
    PROVE  WakeInv'
<1>1. ASSUME NEW d \in Classes, d # c, ~Woken(d)' PROVE ClassRest(d)'
  <2>1. ~Woken(d) /\ ~Busy(d) /\ class'[d] = class[d] /\ Naming(d)' = Naming(d)
    BY <1>1 DEF Heard, Busy
  <2> QED
    BY <1>1, <2>1 DEF WakeInv, ClassRest
<1> QED
  BY <1>1 DEF WakeInv

\* A patch that changes the class wakes it.
LEMMA PatchWakes ==
    ASSUME TypeOK, Watched, NEW c \in Classes, NEW object \in Class,
           WriteClass(c, object), UNCHANGED <<locationVars, cacheVars>>, queue \subseteq queue',
           ~Woken(c)'
    PROVE  Stored(object) = class[c]
<1>1. class'[c] = class[c]
  BY ClassWriteHeard DEF Heard
<1> QED
  BY <1>1 DEF WriteClass, TypeOK

\* A patch that comes back with an error is tried again.
LEMMA RetryKeepsWake ==
    ASSUME IInv, WakeInv, step # "idle", Watched', Heard, Finish(TRUE),
           deletionBlocked' \subseteq deletionBlocked \cup {request}
    PROVE  WakeInv'
<1>1. PICK c \in Classes : request = c
  BY DEF IInv, WorkerInv
<1>2. step' = "idle" /\ Woken(c)'
  BY <1>1 DEF Finish, Woken
<1> QED
  BY <1>1, <1>2, FinishKeepsWake

LEMMA HoldKeepsWake == IInv /\ WakeInv /\ Hold => WakeInv'
<1> SUFFICES ASSUME IInv, WakeInv, Hold PROVE WakeInv'
  OBVIOUS
<1>1. PICK c \in Classes : request = c
  BY DEF Hold, IInv, WorkerInv
<1>2. /\ TypeOK /\ Watched /\ step = "hold" /\ read \in Class
      /\ UNCHANGED <<locationVars, cacheVars, deletionBlocked>>
      /\ queue \subseteq queue'
  BY DEF Hold, IInv, WorkerInv, WakeInv, Done, Finish
<1>3. CASE UNCHANGED classVars /\ Finish(TRUE)
  BY <1>2, <1>3, NothingWrittenHeard, RetryKeepsWake
<1>4. CASE /\ class[c] # Absent
           /\ WriteClass(c, [class[c] EXCEPT !.finalizers = Held(read.finalizers)]) /\ Done(FALSE)
  <2> DEFINE object == [class[c] EXCEPT !.finalizers = Held(read.finalizers)]
  <2>1. class[c] \in Class /\ Held(read.finalizers) \in SUBSET {Ours, Theirs} /\ Ours \in Held(read.finalizers)
    BY <1>2, <1>4 DEF TypeOK, Class, Held
  <2>2. object \in Class /\ Ours \in object.finalizers
    BY <2>1 DEF Class
  <2>3. Stored(object) = object
    BY <2>2 DEF Stored
  <2> HIDE DEF object
  <2>4. Watched' /\ Heard
    BY <1>2, <1>4, <2>2, ClassWriteHeard DEF object
  <2>5. Woken(c)'
    <3> SUFFICES ASSUME ~Woken(c)' PROVE FALSE
      OBVIOUS
    <3>1. class[c] = object
      BY <1>2, <1>4, <2>2, <2>3, PatchWakes DEF object
    <3>2. ~Woken(c)
      BY <2>4 DEF Heard
    <3>3. Ours \notin class[c].finalizers
      BY <1>1, <1>2, <3>2 DEF WakeInv, AtWork
    <3> QED
      BY <2>2, <3>1, <3>3
  <2>6. step' = "idle"
    BY <1>4 DEF Done, Finish
  <2> QED
    BY <1>1, <1>2, <2>4, <2>5, <2>6, FinishKeepsWake
<1> QED
  BY <1>1, <1>3, <1>4 DEF Hold, Refused

LEMMA ListKeepsWake == IInv /\ WakeInv /\ ListReferencing => WakeInv'
<1> SUFFICES ASSUME IInv, WakeInv, ListReferencing PROVE WakeInv'
  OBVIOUS
<1>1. PICK c \in Classes : request = c
  BY DEF ListReferencing, IInv, WorkerInv
<1>2. /\ TypeOK /\ step = "list" /\ queue \subseteq queue'
      /\ UNCHANGED <<classVars, locationVars, cacheVars>>
      /\ deletionBlocked' \subseteq deletionBlocked \cup {c}
  BY <1>1 DEF ListReferencing, IInv, Finish
<1>3. Watched' /\ Heard
  BY <1>2, NothingWrittenHeard DEF WakeInv
<1>4. ASSUME ~Woken(c)'
      PROVE  /\ ~Woken(c) /\ read = class[c] /\ read.deleting /\ ReferencingLocations(c) = Naming(c)
             /\ class'[c] = class[c] /\ Naming(c)' = Naming(c)
  <2>1. ~Woken(c) /\ class'[c] = class[c] /\ Naming(c)' = Naming(c)
    BY <1>3, <1>4 DEF Heard
  <2>2. AtWork
    BY <1>1, <1>2, <2>1 DEF WakeInv
  <2>3. ReferencingLocations(c) = Naming(c)
    BY <1>2, <2>1, QuietReads DEF Woken, WakeInv
  <2> QED
    BY <1>1, <1>2, <2>1, <2>2, <2>3 DEF AtWork
<1>5. CASE Finish(TRUE)
  BY <1>1, <1>2, <1>3, <1>5, RetryKeepsWake
<1>6. CASE ReferencingLocations(c) = {} /\ Ours \notin read.finalizers /\ Finish(FALSE)
  <2>1. step' = "idle" /\ c \notin deletionBlocked'
    BY <1>1, <1>6 DEF ListReferencing, Finish
  <2>2. ~Woken(c)' => ClassRest(c)'
    BY <1>4, <1>6, <2>1 DEF ClassRest
  <2> QED
    BY <1>1, <1>2, <1>3, <2>1, <2>2, FinishKeepsWake
<1>7. ASSUME step' \in {"record", "release"}, request' = c, ~Woken(c)' => AtWork'
      PROVE  WakeInv'
  <2>1. ASSUME NEW d \in Classes, ~Woken(d)', ~Busy(d)' PROVE ClassRest(d)'
    <3>1. d # c
      BY <1>7, <2>1 DEF Busy
    <3>2. ~Woken(d) /\ ~Busy(d) /\ class'[d] = class[d] /\ Naming(d)' = Naming(d)
      BY <1>1, <1>3, <2>1, <3>1 DEF Heard, Busy
    <3> QED
      BY <1>2, <3>1, <3>2 DEF WakeInv, ClassRest
  <2>2. ~Woken(request)' => AtWork'
    BY <1>7 DEF Woken, Heralded
  <2> QED
    BY <1>3, <2>1, <2>2 DEF WakeInv
<1>8. CASE step' = "record" /\ UNCHANGED request
  BY <1>1, <1>7, <1>8 DEF AtWork
<1>9. CASE /\ ReferencingLocations(c) = {} /\ Ours \in read.finalizers
           /\ step' = "release" /\ UNCHANGED <<request, read>>
  <2>1. ~Woken(c)' => AtWork'
    <3> SUFFICES ASSUME ~Woken(c)' PROVE AtWork'
      OBVIOUS
    <3>1. class'[request'] = class[c] /\ Naming(request)' = Naming(c)
      BY <1>1, <1>2, <1>9 DEF Naming, classVars, locationVars
    <3> QED
      BY <1>1, <1>4, <1>9, <3>1 DEF AtWork
  <2> QED
    BY <1>1, <1>7, <1>9, <2>1
<1> QED
  BY <1>1, <1>5, <1>6, <1>8, <1>9 DEF ListReferencing

LEMMA RecordKeepsWake == IInv /\ WakeInv /\ RecordBlockedDeletion => WakeInv'
<1> SUFFICES ASSUME IInv, WakeInv, RecordBlockedDeletion PROVE WakeInv'
  OBVIOUS
<1>1. PICK c \in Classes : request = c
  BY DEF RecordBlockedDeletion, IInv, WorkerInv
<1>2. /\ TypeOK /\ Watched /\ step = "record" /\ read \in Class
      /\ UNCHANGED <<locationVars, cacheVars, deletionBlocked>>
      /\ queue \subseteq queue' /\ Finish(TRUE)
  BY DEF RecordBlockedDeletion, IInv, WorkerInv, WakeInv, Done, Finish
<1>3. CASE UNCHANGED classVars
  BY <1>2, <1>3, NothingWrittenHeard, RetryKeepsWake
<1>4. CASE class[c] # Absent /\ WriteClass(c, [class[c] EXCEPT !.blocked = read.blocked])
  <2>1. [class[c] EXCEPT !.blocked = read.blocked] \in Class
    BY <1>2, <1>4 DEF TypeOK, Class
  <2> QED
    BY <1>2, <1>4, <2>1, ClassWriteHeard, RetryKeepsWake
<1> QED
  BY <1>1, <1>3, <1>4 DEF RecordBlockedDeletion

LEMMA ReleaseKeepsWake == IInv /\ WakeInv /\ Release => WakeInv'
<1> SUFFICES ASSUME IInv, WakeInv, Release PROVE WakeInv'
  OBVIOUS
<1>1. PICK c \in Classes : request = c
  BY DEF Release, IInv, WorkerInv
<1>2. /\ TypeOK /\ Watched /\ step = "release" /\ read \in Class
      /\ UNCHANGED <<locationVars, cacheVars>>
      /\ queue \subseteq queue' /\ deletionBlocked' \subseteq deletionBlocked
  BY DEF Release, IInv, WorkerInv, WakeInv, NotReported, Finish
<1>3. CASE UNCHANGED classVars /\ Finish(TRUE)
  BY <1>2, <1>3, NothingWrittenHeard, RetryKeepsWake
<1>4. CASE /\ class[c] # Absent
           /\ WriteClass(c, [class[c] EXCEPT !.finalizers = read.finalizers \ {Ours}])
           /\ Finish(FALSE) \/ Finish(TRUE)
  <2> DEFINE object == [class[c] EXCEPT !.finalizers = read.finalizers \ {Ours}]
  <2>1. class[c] \in Class /\ read.finalizers \ {Ours} \in SUBSET {Ours, Theirs}
    BY <1>2, <1>4 DEF TypeOK, Class
  <2>2. object \in Class /\ Ours \notin object.finalizers
    BY <2>1 DEF Class
  <2> HIDE DEF object
  <2>3. Watched' /\ Heard
    BY <1>2, <1>4, <2>2, ClassWriteHeard DEF object
  <2>4. Woken(c)'
    <3> SUFFICES ASSUME ~Woken(c)' PROVE FALSE
      OBVIOUS
    <3>1. class[c] = Stored(object)
      BY <1>2, <1>4, <2>2, PatchWakes DEF object
    <3>2. Stored(object) = Absent \/ Stored(object) = object
      BY DEF Stored
    <3>3. ~Woken(c)
      BY <2>3 DEF Heard
    <3>4. Ours \in class[c].finalizers
      BY <1>1, <1>2, <3>3 DEF WakeInv, AtWork
    <3> QED
      BY <1>4, <2>2, <3>1, <3>2, <3>4
  <2>5. step' = "idle"
    BY <1>4 DEF Finish
  <2> QED
    BY <1>1, <1>2, <2>3, <2>4, <2>5, FinishKeepsWake
<1> QED
  BY <1>1, <1>3, <1>4 DEF Release, Refused

LEMMA FailureKeepsWake == IInv /\ WakeInv /\ (PatchFails \/ Restart) => WakeInv'
<1>1. ASSUME IInv, WakeInv, PatchFails PROVE WakeInv'
  <2>1. /\ step # "idle" /\ Finish(TRUE) /\ UNCHANGED <<classVars, locationVars, cacheVars, deletionBlocked>>
        /\ queue \subseteq queue' /\ Watched
    BY <1>1 DEF PatchFails, Finish, WakeInv
  <2> QED
    BY <1>1, <2>1, NothingWrittenHeard, RetryKeepsWake
<1>2. ASSUME Restart PROVE WakeInv'
  <2>1. Watched'
    BY <1>2, ListCatchesUp DEF Restart, Watched
  <2>2. ASSUME NEW c \in Classes, ~Woken(c)' PROVE ClassRest(c)'
    BY <1>2, <2>2 DEF Restart, Woken, ClassRest
  <2> QED
    BY <1>2, <2>1, <2>2 DEF WakeInv, Restart
<1> QED
  BY <1>1, <1>2

LEMMA StepWake == IInv /\ WakeInv /\ [Next]_vars => WakeInv'
<1> SUFFICES ASSUME IInv, WakeInv, [Next]_vars PROVE WakeInv'
  OBVIOUS
<1>1. CASE UNCHANGED vars
  <2>1. /\ UNCHANGED <<classVars, locationVars, cacheVars>> /\ queue \subseteq queue' /\ Watched
        /\ UNCHANGED <<step, request, read, deletionBlocked>>
    BY <1>1 DEF vars, workerVars, WakeInv
  <2> QED
    BY <2>1, NothingWrittenHeard, HearingKeepsWake DEF IInv
<1>2. CASE Call
  BY <1>2, HoldKeepsWake, ListKeepsWake, RecordKeepsWake, ReleaseKeepsWake DEF Call
<1>3. CASE \E c \in Classes : BeginReconcile(c)
  BY <1>3, BeginKeepsWake
<1> QED
  BY <1>1, <1>2, <1>3, OthersKeepWake, FailureKeepsWake DEF Next

LEMMA InitWake == Init => WakeInv
BY ListCatchesUp DEF Init, WakeInv, Watched, ClassRest

\* No wake-up of the controller is lost: a class it does not await is held, or
\* gone, or let go with no Location naming it, and is not reported as blocked
\* (enqueueLocalClass, the requeue of a refused deletion and of a failed patch).
THEOREM NoClassIsForgotten == Spec => []NoClassForgotten
<1>1. WakeInv => NoClassForgotten
  BY DEF WakeInv, NoClassForgotten, Awaited, Woken, Busy, ClassRest
<1> QED
  BY <1>1, InitWake, StepWake, Invariance, PTL DEF Spec
=============================================================================
