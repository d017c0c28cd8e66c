---------------------------- MODULE LocationClass ----------------------------
(* The location class controller: a finalizer on every LocationClass, let  *)
(* go only when no Location of this control plane names the class.         *)
(*                                                                         *)
(* The worker reads the manager's cache, in which Locations and classes    *)
(* arrive on watches of their own, and writes with merge patches computed  *)
(* from what it read: a patch that touches the finalizers replaces the     *)
(* whole list, and no write carries a resourceVersion.                     *)
EXTENDS Integers, Sequences, FiniteSets, Watches

CONSTANTS
    Classes,        \* names of LocationClasses
    Names,          \* names of Locations, numbered in the order they sort
    Absent,         \* no such object
    Disturbances,   \* kinds of interference this instance allows
    SampleSize,     \* how many names a blocked message lists
    MaxLag,         \* bound on the events in flight on one watch
    MaxDisturbances \* bound on the number of interferences

Kinds == {"class", "location", "finalizer", "fault", "crash"}

ASSUME NamesAssumption == Names \subseteq Nat /\ IsFiniteSet(Names)
ASSUME BoundsAssumption ==
    /\ SampleSize \in Nat /\ MaxLag \in Nat \ {0} /\ MaxDisturbances \in Nat
    /\ Disturbances \subseteq Kinds

-----------------------------------------------------------------------------
(* Objects.                                                                *)

Ours == "location-exists-finalizer.locations.miloapis.com"
Theirs == "another controller's finalizer"

\* "LocationsStillReference: <count> location(s) still name this class: <sample>";
\* count 0 is no annotation.
Message == [count : Nat, sample : SUBSET Names]
NotBlocked == [count |-> 0, sample |-> {}]

Class == [deleting : BOOLEAN, finalizers : SUBSET {Ours, Theirs}, blocked : Message]

\* spec.locationClassRef; a project of spaces only is no project.
Ref == [name : Classes, project : {"", "elsewhere"}]

ASSUME AbsentIsNoObject == Absent \notin Class /\ Absent \notin Ref /\ Absent \notin Classes

VARIABLES
    class,       \* the LocationClasses of the control plane
    classWatch,  \* class events on their way to the cache, oldest first
    classCache,  \* the manager's cache of classes
    location,    \* what each Location of the control plane names
    locWatch,    \* Location events on their way to the cache, oldest first
    locCache,    \* the manager's cache of Locations
    queue,       \* the class names the workqueue holds
    step,        \* the call the worker makes next
    request,     \* the name it is reconciling
    read,        \* the class it read from the cache
    known,       \* history: Locations the cache has shown naming it all along
    deletionBlocked, \* the series of locations_class_deletion_blocked
    budget       \* interferences left

classVars    == <<class, classWatch>>
locationVars == <<location, locWatch>>
cacheVars    == <<classCache, locCache>>
workerVars   == <<step, request, read, known>>
vars == <<classVars, locationVars, cacheVars, workerVars, deletionBlocked, queue, budget>>

Steps == {"idle", "hold", "list", "record", "release"}

TypeOK ==
    /\ class \in [Classes -> Class \cup {Absent}]
    /\ classCache \in [Classes -> Class \cup {Absent}]
    /\ classWatch \in Seq([name : Classes, object : Class \cup {Absent}])
    /\ location \in [Names -> Ref \cup {Absent}]
    /\ locCache \in [Names -> Ref \cup {Absent}]
    /\ locWatch \in Seq([name : Names, object : Ref \cup {Absent}])
    /\ queue \subseteq Classes
    /\ step \in Steps
    /\ request \in Classes \cup {Absent}
    /\ read \in Class \cup {Absent}
    /\ known \subseteq Names
    /\ deletionBlocked \subseteq Classes
    /\ budget \in 0 .. MaxDisturbances

Init ==
    /\ class = [c \in Classes |-> Absent] /\ classCache = class /\ classWatch = <<>>
    /\ location = [n \in Names |-> Absent] /\ locCache = location /\ locWatch = <<>>
    /\ queue = {}
    /\ step = "idle" /\ request = Absent /\ read = Absent /\ known = {}
    /\ deletionBlocked = {}
    /\ budget = MaxDisturbances

-----------------------------------------------------------------------------
(* The API server.                                                         *)

\* The local class a Location names; a reference with a project names none.
IndexLocationsByClass(ref) ==
    IF ref = Absent \/ ref.project = "elsewhere" THEN {} ELSE {ref.name}

\* A class that is being deleted goes when its last finalizer does.
Stored(object) ==
    IF object # Absent /\ object.deleting /\ object.finalizers = {} THEN Absent ELSE object

\* A write that changes nothing causes no event.
WriteClass(c, object) ==
    IF Stored(object) = class[c] THEN UNCHANGED classVars
    ELSE /\ Len(classWatch) < MaxLag
         /\ class' = [class EXCEPT ![c] = Stored(object)]
         /\ classWatch' = Append(classWatch, [name |-> c, object |-> Stored(object)])

WriteLocation(n, ref) ==
    /\ Len(locWatch) < MaxLag
    /\ location' = [location EXCEPT ![n] = ref]
    /\ locWatch' = Append(locWatch, [name |-> n, object |-> ref])

\* Refused: the object is gone, or is being deleted and would gain a finalizer.
Refused(c, finalizers) ==
    \/ class[c] = Absent
    \/ class[c].deleting /\ ~(finalizers \subseteq class[c].finalizers)

Disturb(kind) ==
    /\ kind \in Disturbances
    /\ budget > 0
    /\ budget' = budget - 1

-----------------------------------------------------------------------------
(* Everybody else.                                                         *)

CreateClass(c) ==
    /\ Disturb("class")
    /\ class[c] = Absent
    /\ WriteClass(c, [deleting |-> FALSE, finalizers |-> {}, blocked |-> NotBlocked])
    /\ UNCHANGED <<locationVars, cacheVars, workerVars, deletionBlocked, queue>>

DeleteClass(c) ==
    /\ Disturb("class")
    /\ class[c] # Absent /\ ~class[c].deleting
    /\ WriteClass(c, [class[c] EXCEPT !.deleting = TRUE])
    /\ UNCHANGED <<locationVars, cacheVars, workerVars, deletionBlocked, queue>>

\* Another controller takes its finalizer, or lets go of it.
TheirFinalizer(c) ==
    /\ Disturb("finalizer")
    /\ class[c] # Absent
    /\ \/ ~class[c].deleting /\ WriteClass(c, [class[c] EXCEPT !.finalizers = @ \cup {Theirs}])
       \/ Theirs \in class[c].finalizers
          /\ WriteClass(c, [class[c] EXCEPT !.finalizers = @ \ {Theirs}])
    /\ UNCHANGED <<locationVars, cacheVars, workerVars, deletionBlocked, queue>>

\* A Location is created, made to name another class, or deleted.
ChangeLocation(n) ==
    /\ Disturb("location")
    /\ \E ref \in (Ref \cup {Absent}) \ {location[n]} : WriteLocation(n, ref)
    /\ UNCHANGED <<classVars, cacheVars, workerVars, deletionBlocked, queue>>

Interference ==
    \/ \E c \in Classes : CreateClass(c) \/ DeleteClass(c) \/ TheirFinalizer(c)
    \/ \E n \in Names : ChangeLocation(n)

-----------------------------------------------------------------------------
(* The watches.                                                            *)

DeliverClass ==
    /\ classWatch # <<>>
    /\ LET e == Head(classWatch) IN
         /\ classCache' = [classCache EXCEPT ![e.name] = e.object]
         /\ queue' = queue \cup {e.name}
    /\ classWatch' = Tail(classWatch)
    /\ UNCHANGED <<class, locCache, locationVars, workerVars, deletionBlocked, budget>>

\* An update is mapped from the object before it and from the one after.
EnqueueLocalClass(old, new) == IndexLocationsByClass(old) \cup IndexLocationsByClass(new)

DeliverLocation ==
    /\ locWatch # <<>>
    /\ LET e == Head(locWatch) IN
         /\ locCache' = [locCache EXCEPT ![e.name] = e.object]
         /\ queue' = queue \cup EnqueueLocalClass(locCache[e.name], e.object)
         /\ known' = known \ {e.name}
    /\ locWatch' = Tail(locWatch)
    /\ UNCHANGED <<location, classCache, classVars, step, request, read, deletionBlocked, budget>>

-----------------------------------------------------------------------------
(* The worker.                                                             *)

\* History: the Locations the cache shows naming c.
Shown(c) == {n \in Names : c \in IndexLocationsByClass(locCache[n])}

Begin(c, next) ==
    /\ step = "idle"
    /\ c \in queue
    /\ queue' = queue \ {c}
    /\ step' = next
    /\ request' = c
    /\ read' = classCache[c]
    /\ known' = Shown(c)
    /\ UNCHANGED <<classVars, locationVars, cacheVars, budget>>

Finish(requeued) ==
    /\ step' = "idle" /\ request' = Absent /\ read' = Absent /\ known' = {}
    /\ queue' = queue \cup (IF requeued THEN {request} ELSE {})

\* A write returns, or its reply is lost and the reconcile returns an error.
Done(requeued) ==
    \/ Finish(requeued) /\ UNCHANGED budget
    \/ Disturb("fault") /\ Finish(TRUE)

\* Mutant: a series that is set stays.
NeverNotReported(c) == UNCHANGED deletionBlocked

NotReported(c) == deletionBlocked' = deletionBlocked \ {c}

\* Gone, or held already.
NothingToDo(c) ==
    /\ step = "idle"
    /\ c \in queue
    /\ classCache[c] # Absent => ~classCache[c].deleting /\ Ours \in classCache[c].finalizers
    /\ queue' = queue \ {c}
    /\ NotReported(c)
    /\ UNCHANGED <<classVars, locationVars, cacheVars, workerVars, budget>>

BeginHold(c) ==
    /\ classCache[c] # Absent /\ ~classCache[c].deleting
    /\ Ours \notin classCache[c].finalizers
    /\ Begin(c, "hold")
    /\ NotReported(c)

\* Mutant: the finalizer has another name.
HeldMisnamed(finalizers) == finalizers \cup {"location-exists-finalizer"}

\* What the patch sets: the finalizers that were read, and ours.
Held(finalizers) == finalizers \cup {Ours}

Hold ==
    /\ step = "hold"
    /\ LET finalizers == Held(read.finalizers) IN
         IF Refused(request, finalizers)
         THEN UNCHANGED <<classVars, budget>> /\ Finish(TRUE)
         ELSE WriteClass(request, [class[request] EXCEPT !.finalizers = finalizers]) /\ Done(FALSE)
    /\ UNCHANGED <<locationVars, cacheVars, deletionBlocked>>

BeginRelease(c) ==
    /\ classCache[c] # Absent /\ classCache[c].deleting
    /\ Begin(c, "list")
    /\ UNCHANGED deletionBlocked

Sample(names) == {n \in names : Cardinality({m \in names : m < n}) < SampleSize}

BlockedMessage(referencing) ==
    [count |-> Cardinality(referencing), sample |-> Sample(referencing)]

\* Mutants: nobody is listed; every Location is, whatever it names.
ListNobody(c) == {}
ListEveryone(c) == {n \in Names : locCache[n] # Absent}

ReferencingLocations(c) == {n \in Names : c \in IndexLocationsByClass(locCache[n])}

\* Mutant: any annotation will do.
AnnotatedAtAll(message) == read.blocked # NotBlocked

Annotated(message) == read.blocked = message

\* The Locations are listed from the cache; a refusal is reported at once.
\* What follows: nothing, if the refusal is on record or there is no finalizer
\* of ours to remove; otherwise a patch.
ListReferencing ==
    /\ step = "list"
    /\ LET referencing == ReferencingLocations(request)
           message == BlockedMessage(referencing)
       IN  \/ /\ referencing # {} /\ Annotated(message)
              /\ Finish(TRUE)
           \/ /\ referencing # {} /\ ~Annotated(message)
              /\ step' = "record"
              /\ read' = [read EXCEPT !.blocked = message]
              /\ UNCHANGED <<request, known, queue>>
           \/ /\ referencing = {} /\ Ours \in read.finalizers
              /\ step' = "release"
              /\ UNCHANGED <<request, read, known, queue>>
           \/ /\ referencing = {} /\ Ours \notin read.finalizers
              /\ Finish(FALSE)
    /\ deletionBlocked' =
         IF ReferencingLocations(request) # {} THEN deletionBlocked \cup {request}
         ELSE IF Ours \in read.finalizers THEN deletionBlocked
         ELSE deletionBlocked \ {request}
    /\ UNCHANGED <<classVars, locationVars, cacheVars, budget>>

RecordBlockedDeletion ==
    /\ step = "record"
    /\ IF class[request] = Absent
       THEN UNCHANGED <<classVars, budget>> /\ Finish(TRUE)
       ELSE WriteClass(request, [class[request] EXCEPT !.blocked = read.blocked]) /\ Done(TRUE)
    /\ UNCHANGED <<locationVars, cacheVars, deletionBlocked>>

\* The patch carries the finalizers that were read, without ours.
Release ==
    /\ step = "release"
    /\ LET finalizers == read.finalizers \ {Ours} IN
         IF Refused(request, finalizers)
         THEN UNCHANGED <<classVars, budget, deletionBlocked>> /\ Finish(TRUE)
         ELSE /\ WriteClass(request, [class[request] EXCEPT !.finalizers = finalizers])
              /\ \/ Finish(FALSE) /\ NotReported(request) /\ UNCHANGED budget
                 \/ Disturb("fault") /\ Finish(TRUE) /\ UNCHANGED deletionBlocked
    /\ UNCHANGED <<locationVars, cacheVars>>

\* Mutant: a failed patch is not retried.
PatchFailsForGood ==
    /\ step \in {"hold", "record", "release"}
    /\ Disturb("fault")
    /\ Finish(FALSE)
    /\ UNCHANGED <<classVars, locationVars, cacheVars, deletionBlocked>>

\* A patch fails before it has any effect.
PatchFails ==
    /\ step \in {"hold", "record", "release"}
    /\ Disturb("fault")
    /\ Finish(TRUE)
    /\ UNCHANGED <<classVars, locationVars, cacheVars, deletionBlocked>>

\* The process dies and starts again; listing the caches enqueues every class
\* and every class a Location names.
Restart ==
    /\ Disturb("crash")
    /\ classCache' = class /\ classWatch' = <<>>
    /\ locCache' = location /\ locWatch' = <<>>
    /\ queue' = {c \in Classes : \/ class[c] # Absent
                                 \/ \E n \in Names : c \in IndexLocationsByClass(location[n])}
    /\ step' = "idle" /\ request' = Absent /\ read' = Absent /\ known' = {}
    /\ deletionBlocked' = {}
    /\ UNCHANGED <<class, location>>

-----------------------------------------------------------------------------

BeginReconcile(c) == NothingToDo(c) \/ BeginHold(c) \/ BeginRelease(c)
Call == Hold \/ ListReferencing \/ RecordBlockedDeletion \/ Release

Next ==
    \/ Interference
    \/ DeliverClass \/ DeliverLocation
    \/ \E c \in Classes : BeginReconcile(c)
    \/ Call \/ PatchFails
    \/ Restart

Spec == Init /\ [][Next]_vars

\* Watches deliver, calls return, and the workqueue starves no class.
Fairness ==
    /\ WF_vars(DeliverClass) /\ WF_vars(DeliverLocation)
    /\ WF_vars(Call)
    /\ \A c \in Classes : SF_vars(BeginReconcile(c))

FairSpec == Spec /\ Fairness

-----------------------------------------------------------------------------
(* What the controller must do.                                            *)

Naming(c) == {n \in Names : c \in IndexLocationsByClass(location[n])}

\* The controller never takes its finalizer off a class while some Location
\* that the cache showed naming it when the reconcile began has not been
\* heard of since (release).
KnownNamesHonoured ==
    [][\A c \in Classes :
         /\ Call /\ class[c] # Absent /\ Ours \in class[c].finalizers
         /\ class'[c] = Absent \/ Ours \notin class'[c].finalizers
         => known = {}]_vars

\* A Location event on its way will enqueue the class: the Location names it, or
\* is the last the cache knew to have named it.
Heralded(c) ==
    \E i \in 1 .. Len(locWatch) :
      c \in EnqueueLocalClass(locCache[locWatch[i].name], locWatch[i].object)

\* Something will make the controller look at the class again.
Awaited(c) == c \in queue \/ request = c \/ InFlight(classWatch, c) \/ Heralded(c)

\* No wake-up is lost between the two watches, the requeues and the failures: a
\* class that lacks the finalizer, one being deleted that has it still or that
\* some Location names, and one reported as blocked, will be looked at again.
NoClassForgotten ==
    \A c \in Classes : ~Awaited(c) =>
      /\ c \notin deletionBlocked
      /\ class[c] # Absent => IF class[c].deleting THEN Ours \notin class[c].finalizers /\ Naming(c) = {}
                              ELSE Ours \in class[c].finalizers

\* Once the interference stops, every class that is not being deleted is held.
ClassesHeld ==
    \A c \in Classes :
      <>[](class[c] # Absent /\ ~class[c].deleting => Ours \in class[c].finalizers)

\* Once the interference stops, a class being deleted that no Location names
\* waits for nobody but other controllers, and is gone if there are none.
DeletionsComplete ==
    \A c \in Classes :
      <>[](class[c] # Absent /\ class[c].deleting /\ Naming(c) = {} => class[c].finalizers = {Theirs})

\* Once the interference stops, a class whose deletion is blocked says by how
\* many Locations, and by which.
BlockedDeletionsExplained ==
    \A c \in Classes :
      <>[](class[c] # Absent /\ class[c].deleting /\ Naming(c) # {} /\ Ours \in class[c].finalizers
             => class[c].blocked = BlockedMessage(Naming(c)))

\* Once the interference stops, the classes reported as held by their finalizer
\* are those that are being deleted while some Location names them
\* (locationClassDeletionBlocked), even if the process died in between or the
\* class is gone.
BlockedDeletionsReported ==
    <>[](deletionBlocked =
           {c \in Classes : class[c] # Absent /\ class[c].deleting /\ Naming(c) # {}})

-----------------------------------------------------------------------------
(* What the repository says and the code does not always keep: README.md,  *)
(* section 3.                                                              *)

\* The finalizer is "held on a LocationClass for as long as a Location in this
\* control plane names it, ..."
FinalizerStays ==
    [][\A c \in Classes :
         class[c] # Absent /\ Ours \in class[c].finalizers /\ Naming(c) # {}
           => class'[c] # Absent /\ Ours \in class'[c].finalizers]_vars

\* "... so the class cannot be deleted out from under the locations it backs."
NamedClassStays == [][\A c \in Classes : class[c] # Absent /\ Naming(c) # {} => class'[c] # Absent]_vars
=============================================================================
