-------------------------- MODULE LocationReadiness --------------------------
(* Two reconcilers of one manager, each with a worker of its own, over one *)
(* cache: readiness reports Ready on the Locations whose class names this  *)
(* controller, acceptance reports Accepted on those classes.  Each sets a  *)
(* gauge before it writes.                                                 *)
EXTENDS Integers, Sequences, Watches

CONSTANTS
    Classes,        \* names of LocationClasses
    Names,          \* names of Locations
    Absent,         \* no such object
    Cities,         \* what the city code of a Location may be
    Disturbances,   \* kinds of interference this instance allows
    MaxGeneration,  \* bound on metadata.generation
    MaxLag,         \* bound on the events in flight on one watch
    MaxDisturbances \* bound on the number of interferences

Kinds == {"class", "location", "edit", "other", "fault", "crash"}

ASSUME BoundsAssumption ==
    /\ Cities \subseteq {"code", "spaces", "empty"}
    /\ MaxGeneration \in Nat \ {0} /\ MaxLag \in Nat \ {0} /\ MaxDisturbances \in Nat
    /\ Disturbances \subseteq Kinds

-----------------------------------------------------------------------------
(* Objects.                                                                *)

\* accepted is the generation for which Accepted=True was reported, 0 if none;
\* parameters says that spec.parametersRef names something nobody can read.
Class == [controller : {"ours", "theirs"}, parameters : BOOLEAN, generation : 1 .. MaxGeneration,
          deleting : BOOLEAN, accepted : 0 .. MaxGeneration]

\* The Ready condition; its status is True for the reason Ready alone.  The
\* reason "none" is no condition, "Theirs" one that another controller reported.
Reasons == {"none", "Ready", "LocationClassNotFound", "MissingTopology", "Theirs"}
Condition == [reason : Reasons, observed : 0 .. MaxGeneration]
NoCondition == [reason |-> "none", observed |-> 0]

Location == [class : Classes, project : {"here", "elsewhere"}, city : Cities,
             generation : 1 .. MaxGeneration, deleting : BOOLEAN, ready : Condition]

ASSUME AbsentIsNoObject == Absent \notin Class \cup Location \cup Names \cup Classes

VARIABLES
    class, classWatch, classCache, \* the classes, their events, the cache
    location, locWatch, locCache,  \* the Locations, their events, the cache
    readyQueue,                    \* the Location names the readiness queue holds
    reporting,                     \* the Location it is about to patch
    report,                        \* and the condition it will write
    readyGauge,                    \* locations_ready
    acceptQueue,                   \* the class names the acceptance queue holds
    accepting,                     \* the class it is about to patch
    acceptance,                    \* and the generation it will report
    acceptedGauge,                 \* locations_class_accepted
    budget                         \* interferences left

classVars    == <<class, classWatch>>
locationVars == <<location, locWatch>>
cacheVars    == <<classCache, locCache>>
readyVars    == <<readyQueue, reporting, report, readyGauge>>
acceptVars   == <<acceptQueue, accepting, acceptance, acceptedGauge>>
vars == <<classVars, locationVars, cacheVars, readyVars, acceptVars, budget>>

TypeOK ==
    /\ class \in [Classes -> Class \cup {Absent}]
    /\ classCache \in [Classes -> Class \cup {Absent}]
    /\ classWatch \in Seq([name : Classes, object : Class \cup {Absent}])
    /\ location \in [Names -> Location \cup {Absent}]
    /\ locCache \in [Names -> Location \cup {Absent}]
    /\ locWatch \in Seq([name : Names, object : Location \cup {Absent}])
    /\ readyQueue \subseteq Names /\ reporting \in Names \cup {Absent} /\ report \in Condition
    /\ acceptQueue \subseteq Classes /\ accepting \in Classes \cup {Absent}
    /\ acceptance \in 0 .. MaxGeneration
    /\ readyGauge \in [Names -> {"absent", "0", "1"}]
    /\ acceptedGauge \in [Classes -> {"absent", "1"}]
    /\ budget \in 0 .. MaxDisturbances

Init ==
    /\ class = [c \in Classes |-> Absent] /\ classCache = class /\ classWatch = <<>>
    /\ location = [n \in Names |-> Absent] /\ locCache = location /\ locWatch = <<>>
    /\ readyQueue = {} /\ reporting = Absent /\ report = NoCondition
    /\ acceptQueue = {} /\ accepting = Absent /\ acceptance = 0
    /\ readyGauge = [n \in Names |-> "absent"]
    /\ acceptedGauge = [c \in Classes |-> "absent"]
    /\ budget = MaxDisturbances

-----------------------------------------------------------------------------
(* Everybody else.                                                         *)

WriteClass(c, object) ==
    IF object = class[c] THEN UNCHANGED classVars
    ELSE /\ Len(classWatch) < MaxLag
         /\ class' = [class EXCEPT ![c] = object]
         /\ classWatch' = Append(classWatch, [name |-> c, object |-> object])

WriteLocation(n, object) ==
    IF object = location[n] THEN UNCHANGED locationVars
    ELSE /\ Len(locWatch) < MaxLag
         /\ location' = [location EXCEPT ![n] = object]
         /\ locWatch' = Append(locWatch, [name |-> n, object |-> object])

Disturb(kind) ==
    /\ kind \in Disturbances
    /\ budget > 0
    /\ budget' = budget - 1

NewParameters(object) ==
    IF object.generation < MaxGeneration THEN BOOLEAN \ {object.parameters} ELSE {}

\* A class is created, given other parameters, marked deleted (its finalizer
\* is another controller's concern), and gone.  Its controllerName is immutable.
ChangedClass(c) ==
    IF class[c] = Absent
    THEN [controller : {"ours", "theirs"}, parameters : BOOLEAN, generation : {1},
          deleting : {FALSE}, accepted : {0}]
    ELSE IF class[c].deleting THEN {Absent}
    ELSE {[class[c] EXCEPT !.deleting = TRUE]}
         \cup {[class[c] EXCEPT !.parameters = p, !.generation = @ + 1] :
                 p \in NewParameters(class[c])}

ChangeClass(c) ==
    /\ Disturb("class")
    /\ \E object \in ChangedClass(c) : WriteClass(c, object)
    /\ UNCHANGED <<locationVars, cacheVars, readyVars, acceptVars>>

CreateLocation(n) ==
    /\ Disturb("location")
    /\ location[n] = Absent
    /\ \E c \in Classes, p \in {"here", "elsewhere"}, city \in Cities :
         WriteLocation(n, [class |-> c, project |-> p, city |-> city, generation |-> 1,
                           deleting |-> FALSE, ready |-> NoCondition])
    /\ UNCHANGED <<classVars, cacheVars, readyVars, acceptVars>>

EditLocation(n) ==
    /\ Disturb("edit")
    /\ location[n] # Absent /\ location[n].generation < MaxGeneration
    /\ \E c \in Classes, p \in {"here", "elsewhere"}, city \in Cities :
         WriteLocation(n, [location[n] EXCEPT !.class = c, !.project = p, !.city = city,
                                              !.generation = @ + 1])
    /\ UNCHANGED <<classVars, cacheVars, readyVars, acceptVars>>

\* At once, or held for a while by somebody's finalizer.
DeleteLocation(n) ==
    /\ Disturb("location")
    /\ location[n] # Absent
    /\ \E object \in {Absent, [location[n] EXCEPT !.deleting = TRUE]} : WriteLocation(n, object)
    /\ UNCHANGED <<classVars, cacheVars, readyVars, acceptVars>>

\* The controller of another class reports on a Location of that class.
OtherReports(n) ==
    /\ Disturb("other")
    /\ location[n] # Absent /\ location[n].project = "here"
    /\ class[location[n].class] # Absent
    /\ class[location[n].class].controller = "theirs"
    /\ WriteLocation(n, [location[n] EXCEPT !.ready =
                           [reason |-> "Theirs", observed |-> location[n].generation]])
    /\ UNCHANGED <<classVars, cacheVars, readyVars, acceptVars>>

Interference ==
    \/ \E c \in Classes : ChangeClass(c)
    \/ \E n \in Names : CreateLocation(n) \/ EditLocation(n) \/ DeleteLocation(n) \/ OtherReports(n)

-----------------------------------------------------------------------------
(* The watches.                                                            *)

IndexLocationsByClass(object) ==
    IF object = Absent \/ object.project = "elsewhere" THEN {} ELSE {object.class}

\* Mutant: a class wakes no Location.
EnqueueNoLocation(c) == {}

\* The Locations the cache shows naming the class by the time its event is
\* handled.
EnqueueLocationsNamingClass(c) == {n \in Names : c \in IndexLocationsByClass(locCache[n])}

DeliverClass ==
    /\ classWatch # <<>>
    /\ LET e == Head(classWatch) IN
         /\ classCache' = [classCache EXCEPT ![e.name] = e.object]
         /\ readyQueue' = readyQueue \cup EnqueueLocationsNamingClass(e.name)
         /\ acceptQueue' = acceptQueue \cup {e.name}
    /\ classWatch' = Tail(classWatch)
    /\ UNCHANGED <<class, locCache, locationVars, reporting, report, readyGauge,
                   accepting, acceptance, acceptedGauge, budget>>

DeliverLocation ==
    /\ locWatch # <<>>
    /\ LET e == Head(locWatch) IN
         /\ locCache' = [locCache EXCEPT ![e.name] = e.object]
         /\ readyQueue' = readyQueue \cup {e.name}
    /\ locWatch' = Tail(locWatch)
    /\ UNCHANGED <<location, classCache, classVars, reporting, report, readyGauge, acceptVars, budget>>

-----------------------------------------------------------------------------
(* Readiness.  A reconcile reads the Location and its class from the cache *)
(* and sets the gauge; the patch, if one is needed, is a step of its own.  *)

\* No Location, or one that is being deleted: the gauge goes.
ForgetReadiness(n) ==
    /\ reporting = Absent
    /\ n \in readyQueue
    /\ locCache[n] # Absent => locCache[n].deleting
    /\ readyQueue' = readyQueue \ {n}
    /\ readyGauge' = [readyGauge EXCEPT ![n] = "absent"]
    /\ UNCHANGED <<classVars, locationVars, cacheVars, reporting, report, acceptVars, budget>>

\* Whether the Location is this controller's to report on: its class is local,
\* and names this controller or does not exist.
Claims(object, classes) ==
    \E c \in IndexLocationsByClass(object) : classes[c] # Absent => classes[c].controller = "ours"

\* Mutant: the condition is reported for the next generation.
EvaluateAhead(object, classes) == [reason |-> "Ready", observed |-> object.generation + 1]

Evaluate(object, classes) ==
    [reason |-> IF classes[object.class] = Absent THEN "LocationClassNotFound"
                ELSE IF object.city = "empty" THEN "MissingTopology" ELSE "Ready",
     observed |-> object.generation]

\* Somebody else's Location: nothing is touched, the gauge neither.
LeaveUnclaimed(n) ==
    /\ reporting = Absent
    /\ n \in readyQueue
    /\ locCache[n] # Absent /\ ~locCache[n].deleting
    /\ ~Claims(locCache[n], classCache)
    /\ readyQueue' = readyQueue \ {n}
    /\ UNCHANGED <<classVars, locationVars, cacheVars, reporting, report, readyGauge, acceptVars, budget>>

\* Mutant: the gauge forgets the topology, and knows only a class not found.
GaugeOfClass(object, condition) == IF condition.reason # "LocationClassNotFound" THEN "1" ELSE "0"

GaugeOf(object, condition) == IF condition.reason = "Ready" THEN "1" ELSE "0"

\* The gauge is set; the patch follows unless the condition is there already.
EvaluateReadiness(n) ==
    /\ reporting = Absent
    /\ n \in readyQueue
    /\ locCache[n] # Absent /\ ~locCache[n].deleting
    /\ Claims(locCache[n], classCache)
    /\ LET condition == Evaluate(locCache[n], classCache) IN
         /\ readyGauge' = [readyGauge EXCEPT ![n] = GaugeOf(locCache[n], condition)]
         /\ IF condition = locCache[n].ready
            THEN UNCHANGED <<reporting, report>>
            ELSE reporting' = n /\ report' = condition
    /\ readyQueue' = readyQueue \ {n}
    /\ UNCHANGED <<classVars, locationVars, cacheVars, acceptVars, budget>>

Reported(requeued) ==
    /\ reporting' = Absent /\ report' = NoCondition
    /\ readyQueue' = readyQueue \cup (IF requeued THEN {reporting} ELSE {})
    /\ UNCHANGED readyGauge

\* A merge patch of the status by name: it fails if the Location is gone, and
\* lands on whatever Location has the name by now.
ReportReady ==
    /\ reporting # Absent
    /\ IF location[reporting] = Absent
       THEN UNCHANGED <<locationVars, budget>> /\ Reported(TRUE)
       ELSE /\ WriteLocation(reporting, [location[reporting] EXCEPT !.ready = report])
            /\ \/ Reported(FALSE) /\ UNCHANGED budget
               \/ Disturb("fault") /\ Reported(TRUE)
    /\ UNCHANGED <<classVars, cacheVars, acceptVars>>

ReportFails ==
    /\ reporting # Absent
    /\ Disturb("fault")
    /\ Reported(TRUE)
    /\ UNCHANGED <<classVars, locationVars, cacheVars, acceptVars>>

-----------------------------------------------------------------------------
(* Acceptance, in the same way.                                            *)

\* Gone: the gauge goes.  Another controller's: nothing is touched.  Being
\* deleted: the gauge goes.
NotAccepted(c) ==
    /\ accepting = Absent
    /\ c \in acceptQueue
    /\ classCache[c] # Absent => classCache[c].controller = "theirs" \/ classCache[c].deleting
    /\ acceptedGauge' =
         [acceptedGauge EXCEPT ![c] =
            IF classCache[c] # Absent /\ classCache[c].controller = "theirs" THEN @ ELSE "absent"]
    /\ acceptQueue' = acceptQueue \ {c}
    /\ UNCHANGED <<classVars, locationVars, cacheVars, readyVars, accepting, acceptance, budget>>

\* Mutant: a class that was accepted once stays so.
AcceptedOnce(object) == object.accepted # 0

\* SetStatusCondition finds nothing to change.
Accepted(object) == object.accepted = object.generation

\* The parameters are not read.
DecideAcceptance(c) ==
    /\ accepting = Absent
    /\ c \in acceptQueue
    /\ classCache[c] # Absent /\ classCache[c].controller = "ours" /\ ~classCache[c].deleting
    /\ acceptedGauge' = [acceptedGauge EXCEPT ![c] = "1"]
    /\ IF Accepted(classCache[c])
       THEN UNCHANGED <<accepting, acceptance>>
       ELSE accepting' = c /\ acceptance' = classCache[c].generation
    /\ acceptQueue' = acceptQueue \ {c}
    /\ UNCHANGED <<classVars, locationVars, cacheVars, readyVars, budget>>

AcceptDone(requeued) ==
    /\ accepting' = Absent /\ acceptance' = 0
    /\ acceptQueue' = acceptQueue \cup (IF requeued THEN {accepting} ELSE {})
    /\ UNCHANGED acceptedGauge

Accept ==
    /\ accepting # Absent
    /\ IF class[accepting] = Absent
       THEN UNCHANGED <<classVars, budget>> /\ AcceptDone(TRUE)
       ELSE /\ WriteClass(accepting, [class[accepting] EXCEPT !.accepted = acceptance])
            /\ \/ AcceptDone(FALSE) /\ UNCHANGED budget
               \/ Disturb("fault") /\ AcceptDone(TRUE)
    /\ UNCHANGED <<locationVars, cacheVars, readyVars>>

AcceptFails ==
    /\ accepting # Absent
    /\ Disturb("fault")
    /\ AcceptDone(TRUE)
    /\ UNCHANGED <<classVars, locationVars, cacheVars, readyVars>>

-----------------------------------------------------------------------------

\* The process dies, with its gauges, and lists everything afresh.
Restart ==
    /\ Disturb("crash")
    /\ classCache' = class /\ classWatch' = <<>>
    /\ locCache' = location /\ locWatch' = <<>>
    /\ readyQueue' = {n \in Names : location[n] # Absent}
    /\ acceptQueue' = {c \in Classes : class[c] # Absent}
    /\ reporting' = Absent /\ report' = NoCondition
    /\ accepting' = Absent /\ acceptance' = 0
    /\ readyGauge' = [n \in Names |-> "absent"]
    /\ acceptedGauge' = [c \in Classes |-> "absent"]
    /\ UNCHANGED <<class, location>>

ReconcileLocation(n) == ForgetReadiness(n) \/ LeaveUnclaimed(n) \/ EvaluateReadiness(n)
ReconcileClass(c) == NotAccepted(c) \/ DecideAcceptance(c)

Next ==
    \/ Interference
    \/ DeliverClass \/ DeliverLocation
    \/ \E n \in Names : ReconcileLocation(n)
    \/ ReportReady \/ ReportFails
    \/ \E c \in Classes : ReconcileClass(c)
    \/ Accept \/ AcceptFails
    \/ Restart

Spec == Init /\ [][Next]_vars

\* Watches deliver, patches return, and neither queue starves a name.
Fairness ==
    /\ WF_vars(DeliverClass) /\ WF_vars(DeliverLocation)
    /\ WF_vars(ReportReady) /\ WF_vars(Accept)
    /\ \A n \in Names : SF_vars(ReconcileLocation(n))
    /\ \A c \in Classes : SF_vars(ReconcileClass(c))

FairSpec == Spec /\ Fairness

-----------------------------------------------------------------------------
(* What the reconcilers must do.                                           *)

Live(n) == location[n] # Absent /\ ~location[n].deleting
Claimed(n) == Live(n) /\ Claims(location[n], class)
ClassOf(n) == class[location[n].class]

\* What a claimed Location's condition has to say of its present state.
Right(n) ==
    /\ location[n].ready.observed = location[n].generation
    /\ location[n].ready.reason =
         IF ClassOf(n) = Absent THEN "LocationClassNotFound"
         ELSE IF location[n].city = "empty" THEN "MissingTopology" ELSE "Ready"

\* Something will make readiness look at the Location again: an event of it, or
\* one of the class it names, which finds it in the cache.
Awaited(n) ==
    \/ n \in readyQueue \/ reporting = n \/ InFlight(locWatch, n)
    \/ \E c \in IndexLocationsByClass(location[n]) : InFlight(classWatch, c)

\* No wake-up is lost between the two watches: a claimed Location whose condition
\* or gauge is not that of its spec and its class, and a Location that is gone or
\* going and has a gauge, will be looked at again, whichever of the two events is
\* handled first (enqueueLocationsNamingClass).
NoLocationForgotten ==
    \A n \in Names : ~Awaited(n) =>
      /\ Claimed(n) => /\ Right(n)
                       /\ readyGauge[n] = IF location[n].ready.reason = "Ready" THEN "1" ELSE "0"
      /\ ~Live(n) => readyGauge[n] = "absent"

\* Something will make acceptance look at the class again.
AcceptanceAwaited(c) == c \in acceptQueue \/ accepting = c \/ InFlight(classWatch, c)

\* The same of acceptance: a class of this controller's that is not accepted for
\* its present generation, or lacks its gauge, and one that is gone or going and
\* has a gauge, will be looked at again.
NoAcceptanceForgotten ==
    \A c \in Classes : ~AcceptanceAwaited(c) =>
      /\ class[c] # Absent /\ class[c].controller = "ours" =>
           IF class[c].deleting THEN acceptedGauge[c] = "absent"
           ELSE class[c].accepted = class[c].generation /\ acceptedGauge[c] = "1"
      /\ class[c] = Absent => acceptedGauge[c] = "absent"

\* Once the interference stops, the Ready condition of every claimed Location
\* is that of its present spec and of its class as it is now, whichever of the
\* two changed last and on whichever watch it was heard of first.
ReadinessSettles == \A n \in Names : <>[](Claimed(n) => Right(n))

\* Once the interference stops, the gauge of a claimed Location shows its
\* condition, and a Location that is gone or going has none.
ReadyGaugeSettles ==
    \A n \in Names :
      <>[](/\ Claimed(n) => readyGauge[n] = (IF location[n].ready.reason = "Ready" THEN "1" ELSE "0")
           /\ ~Live(n) => readyGauge[n] = "absent")

\* Once the interference stops, every class naming this controller reports
\* Accepted for its present generation.
AcceptanceSettles ==
    \A c \in Classes :
      <>[](class[c] # Absent /\ class[c].controller = "ours" /\ ~class[c].deleting
             => class[c].accepted = class[c].generation)

-----------------------------------------------------------------------------
(* What the repository says and the code does not always keep: README.md,  *)
(* section 3.                                                              *)

\* "... and writes nothing on any other Location."
OthersUntouched ==
    [][\A n \in Names :
         /\ ReportReady /\ location[n] # Absent /\ location[n].project = "here"
         /\ ClassOf(n) # Absent /\ ClassOf(n).controller = "theirs"
         => location'[n] = location[n]]_vars

\* LocationClassNotFound "is set when spec.locationClassRef names a class that
\* does not exist in this control plane".
NotFoundMeansAbsent ==
    \A n \in Names :
      <>[](Live(n) /\ location[n].ready.reason = "LocationClassNotFound" => ClassOf(n) = Absent)

\* "The class must exist and report Accepted=True before the location becomes
\* Ready."
ReadyNeedsAcceptance ==
    [][\A n \in Names :
         /\ ReportReady /\ location[n] # Absent /\ ClassOf(n) # Absent
         /\ location'[n].ready # location[n].ready /\ location'[n].ready.reason = "Ready"
         => ClassOf(n).accepted # 0]_vars

\* "Locations this controller does not claim are absent."
UnclaimedHaveNoGauge == \A n \in Names : <>[](~Claimed(n) => readyGauge[n] = "absent")

\* "Classes naming another controller are absent."
OtherClassesHaveNoGauge ==
    \A c \in Classes :
      <>[](class[c] # Absent /\ class[c].controller = "theirs" => acceptedGauge[c] = "absent")

\* A class whose parameters cannot be read "reports Accepted=False with reason
\* InvalidParameters".
UnreadableNotAccepted ==
    \A c \in Classes : <>[](class[c] # Absent /\ class[c].parameters => class[c].accepted = 0)

\* MissingTopology "is set when the location does not carry the topology the
\* platform needs to place it, such as its city code", and the publisher takes
\* a city code of spaces for none.
ReadyMeansPublishable ==
    \A n \in Names : <>[](Claimed(n) /\ location[n].ready.reason = "Ready" => location[n].city = "code")
=============================================================================
