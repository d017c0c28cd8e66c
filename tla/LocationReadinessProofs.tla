----------------------- MODULE LocationReadinessProofs -----------------------
(* The types of readiness and acceptance, and that neither forgets a name, *)
(* for every set of classes and Locations, every kind of interference and  *)
(* every bound.                                                            *)
EXTENDS LocationReadiness, WatchProofs

-----------------------------------------------------------------------------
(* The inductive invariant.                                                *)

\* A patch under way is of a generation that was read.
WorkersInv == accepting # Absent => acceptance \in 1 .. MaxGeneration

IInv == TypeOK /\ WorkersInv

-----------------------------------------------------------------------------
(* Writes keep the types.                                                  *)

LEMMA WriteClassType ==
    ASSUME TypeOK, NEW c \in Classes, NEW object \in Class \cup {Absent},
           WriteClass(c, object)
    PROVE  /\ class' \in [Classes -> Class \cup {Absent}]
           /\ classWatch' \in Seq([name : Classes, object : Class \cup {Absent}])
<1> DEFINE E == [name : Classes, object : Class \cup {Absent}]
<1>1. [name |-> c, object |-> object] \in E /\ classWatch \in Seq(E)
  BY DEF TypeOK
<1>2. CASE object = class[c]
  BY <1>1, <1>2 DEF WriteClass, classVars, TypeOK
<1>3. CASE object # class[c]
  <2>1. /\ class' = [class EXCEPT ![c] = object]
        /\ classWatch' = Append(classWatch, [name |-> c, object |-> object])
    BY <1>3 DEF WriteClass
  <2>2. class' \in [Classes -> Class \cup {Absent}]
    BY <2>1 DEF TypeOK
  <2> QED
    BY <2>1, <2>2, <1>1, AppendProperties
<1> QED
  BY <1>2, <1>3

LEMMA WriteLocationType ==
    ASSUME TypeOK, NEW n \in Names, NEW object \in Location \cup {Absent},
           WriteLocation(n, object)
    PROVE  /\ location' \in [Names -> Location \cup {Absent}]
           /\ locWatch' \in Seq([name : Names, object : Location \cup {Absent}])
<1> DEFINE E == [name : Names, object : Location \cup {Absent}]
<1>1. [name |-> n, object |-> object] \in E /\ locWatch \in Seq(E)
  BY DEF TypeOK
<1>2. CASE object = location[n]
  BY <1>1, <1>2 DEF WriteLocation, locationVars, TypeOK
<1>3. CASE object # location[n]
  <2>1. /\ location' = [location EXCEPT ![n] = object]
        /\ locWatch' = Append(locWatch, [name |-> n, object |-> object])
    BY <1>3 DEF WriteLocation
  <2>2. location' \in [Names -> Location \cup {Absent}]
    BY <2>1 DEF TypeOK
  <2> QED
    BY <2>1, <2>2, <1>1, AppendProperties
<1> QED
  BY <1>2, <1>3

LEMMA DisturbType ==
    ASSUME TypeOK, NEW kind, Disturb(kind)
    PROVE  budget' \in 0 .. MaxDisturbances
BY BoundsAssumption DEF Disturb, TypeOK

LEMMA NoConditionType == NoCondition \in Condition
BY BoundsAssumption DEF NoCondition, Condition, Reasons

-----------------------------------------------------------------------------
(* Every action keeps the types.                                           *)

\* Whoever else acts writes one object, and touches nothing of the reconcilers'.
OthersWrite ==
    /\ \/ /\ \E c \in Classes, object \in Class \cup {Absent} : WriteClass(c, object)
          /\ UNCHANGED locationVars
       \/ /\ \E n \in Names, object \in Location \cup {Absent} : WriteLocation(n, object)
          /\ UNCHANGED classVars
    /\ UNCHANGED <<cacheVars, readyVars, acceptVars>>
    /\ budget' \in 0 .. MaxDisturbances

LEMMA InterferenceWrites == TypeOK /\ Interference => OthersWrite
<1> SUFFICES ASSUME TypeOK, Interference PROVE OthersWrite
  OBVIOUS
<1> USE DEF OthersWrite
<1>1. ASSUME NEW c \in Classes, ChangeClass(c) PROVE OthersWrite
  <2>1. PICK object \in ChangedClass(c) : WriteClass(c, object)
    BY <1>1 DEF ChangeClass
  <2>2. object \in Class \cup {Absent}
    <3>1. CASE class[c] = Absent
      <4>1. 1 \in 1 .. MaxGeneration /\ 0 \in 0 .. MaxGeneration
        BY BoundsAssumption
      <4> QED
        BY <2>1, <3>1, <4>1 DEF ChangedClass, Class
    <3>2. CASE class[c] # Absent
      <4>1. class[c] \in Class
        BY <3>2 DEF TypeOK
      <4>2. \/ object = Absent
            \/ object = [class[c] EXCEPT !.deleting = TRUE]
            \/ \E p \in NewParameters(class[c]) :
                 object = [class[c] EXCEPT !.parameters = p, !.generation = @ + 1]
        BY <2>1, <3>2 DEF ChangedClass
      <4>3. ASSUME NEW p \in NewParameters(class[c])
            PROVE  [class[c] EXCEPT !.parameters = p, !.generation = @ + 1] \in Class
        <5>1. p \in BOOLEAN /\ class[c].generation + 1 \in 1 .. MaxGeneration
          BY <4>1, BoundsAssumption DEF NewParameters, Class
        <5> QED
          BY <4>1, <5>1 DEF Class
      <4> QED
        BY <4>1, <4>2, <4>3 DEF Class
    <3> QED
      BY <3>1, <3>2
  <2> QED
    BY <1>1, <2>1, <2>2, DisturbType DEF ChangeClass
<1>2. ASSUME NEW n \in Names, CreateLocation(n) PROVE OthersWrite
  <2>1. PICK c \in Classes, p \in {"here", "elsewhere"}, city \in Cities :
          WriteLocation(n, [class |-> c, project |-> p, city |-> city, generation |-> 1,
                            deleting |-> FALSE, ready |-> NoCondition])
    BY <1>2 DEF CreateLocation
  <2>2. [class |-> c, project |-> p, city |-> city, generation |-> 1,
         deleting |-> FALSE, ready |-> NoCondition] \in Location
    BY BoundsAssumption, NoConditionType DEF Location
  <2> QED
    BY <1>2, <2>1, <2>2, DisturbType DEF CreateLocation
<1>3. ASSUME NEW n \in Names, EditLocation(n) PROVE OthersWrite
  <2>1. PICK c \in Classes, p \in {"here", "elsewhere"}, city \in Cities :
          WriteLocation(n, [location[n] EXCEPT !.class = c, !.project = p, !.city = city,
                                               !.generation = @ + 1])
    BY <1>3 DEF EditLocation
  <2>2. location[n] \in Location /\ location[n].generation + 1 \in 1 .. MaxGeneration
    BY <1>3, BoundsAssumption DEF EditLocation, TypeOK, Location
  <2>3. [location[n] EXCEPT !.class = c, !.project = p, !.city = city, !.generation = @ + 1]
          \in Location
    BY <2>2 DEF Location
  <2> QED
    BY <1>3, <2>1, <2>3, DisturbType DEF EditLocation
<1>4. ASSUME NEW n \in Names, DeleteLocation(n) PROVE OthersWrite
  <2>1. PICK object \in {Absent, [location[n] EXCEPT !.deleting = TRUE]} :
          WriteLocation(n, object)
    BY <1>4 DEF DeleteLocation
  <2>2. object \in Location \cup {Absent}
    BY <1>4 DEF DeleteLocation, TypeOK, Location
  <2> QED
    BY <1>4, <2>1, <2>2, DisturbType DEF DeleteLocation
<1>5. ASSUME NEW n \in Names, OtherReports(n) PROVE OthersWrite
  <2> DEFINE theirs == [reason |-> "Theirs", observed |-> location[n].generation]
  <2>1. location[n] \in Location
    BY <1>5 DEF OtherReports, TypeOK
  <2>2. theirs \in Condition
    BY <2>1, BoundsAssumption DEF Location, Condition, Reasons
  <2>3. [location[n] EXCEPT !.ready = theirs] \in Location
    BY <2>1, <2>2 DEF Location
  <2> QED
    BY <1>5, <2>3, DisturbType DEF OtherReports
<1> QED
  BY <1>1, <1>2, <1>3, <1>4, <1>5 DEF Interference

LEMMA InterferenceType == TypeOK /\ Interference => TypeOK'
<1> SUFFICES ASSUME TypeOK, OthersWrite PROVE TypeOK'
  BY InterferenceWrites
<1> USE DEF OthersWrite, cacheVars, readyVars, acceptVars, TypeOK
<1>1. ASSUME NEW c \in Classes, NEW object \in Class \cup {Absent}, WriteClass(c, object), UNCHANGED locationVars
      PROVE  TypeOK'
  BY <1>1, WriteClassType DEF locationVars
<1>2. ASSUME NEW n \in Names, NEW object \in Location \cup {Absent}, WriteLocation(n, object), UNCHANGED classVars
      PROVE  TypeOK'
  BY <1>2, WriteLocationType DEF classVars
<1> QED
  BY <1>1, <1>2

LEMMA DeliveryType == TypeOK /\ (DeliverClass \/ DeliverLocation) => TypeOK'
<1>1. ASSUME TypeOK, DeliverClass PROVE TypeOK'
  <2> DEFINE E == [name : Classes, object : Class \cup {Absent}]
  <2>1. classWatch \in Seq(E) /\ classWatch # <<>>
    BY <1>1 DEF TypeOK, DeliverClass
  <2>2. Head(classWatch) \in E /\ Tail(classWatch) \in Seq(E)
    BY <2>1, HeadTailProperties
  <2>3. EnqueueLocationsNamingClass(Head(classWatch).name) \subseteq Names
    BY DEF EnqueueLocationsNamingClass
  <2> QED
    BY <1>1, <2>2, <2>3 DEF DeliverClass, TypeOK, locationVars
<1>2. ASSUME TypeOK, DeliverLocation PROVE TypeOK'
  <2> DEFINE E == [name : Names, object : Location \cup {Absent}]
  <2>1. locWatch \in Seq(E) /\ locWatch # <<>>
    BY <1>2 DEF TypeOK, DeliverLocation
  <2>2. Head(locWatch) \in E /\ Tail(locWatch) \in Seq(E)
    BY <2>1, HeadTailProperties
  <2> QED
    BY <1>2, <2>2 DEF DeliverLocation, TypeOK, classVars, acceptVars
<1> QED
  BY <1>1, <1>2

LEMMA ReconcileLocationType ==
    ASSUME TypeOK, NEW n \in Names, ReconcileLocation(n)
    PROVE  TypeOK'
<1> USE DEF classVars, locationVars, cacheVars, acceptVars
<1>1. CASE ForgetReadiness(n)
  BY <1>1 DEF ForgetReadiness, TypeOK
<1>2. CASE LeaveUnclaimed(n)
  BY <1>2 DEF LeaveUnclaimed, TypeOK
<1>3. CASE EvaluateReadiness(n)
  <2> DEFINE condition == Evaluate(locCache[n], classCache)
  <2>1. condition \in Condition
    BY <1>3, BoundsAssumption DEF EvaluateReadiness, Evaluate, Condition, Reasons, TypeOK, Location
  <2>2. GaugeOf(locCache[n], condition) \in {"absent", "0", "1"}
    BY DEF GaugeOf
  <2>3. /\ readyGauge' = [readyGauge EXCEPT ![n] = GaugeOf(locCache[n], condition)]
        /\ \/ UNCHANGED <<reporting, report>>
           \/ reporting' = n /\ report' = condition
    BY <1>3 DEF EvaluateReadiness
  <2> HIDE DEF condition
  <2> QED
    BY <1>3, <2>1, <2>2, <2>3 DEF EvaluateReadiness, TypeOK
<1> QED
  BY <1>1, <1>2, <1>3 DEF ReconcileLocation

LEMMA ReportedType ==
    ASSUME TypeOK, reporting # Absent, NEW requeued \in BOOLEAN, Reported(requeued)
    PROVE  /\ readyQueue' \subseteq Names /\ reporting' \in Names \cup {Absent}
           /\ report' \in Condition /\ readyGauge' = readyGauge
BY NoConditionType DEF Reported, TypeOK

LEMMA ReportType == TypeOK /\ (ReportReady \/ ReportFails) => TypeOK'
<1> USE DEF classVars, cacheVars, acceptVars
<1>1. ASSUME TypeOK, ReportFails PROVE TypeOK'
  BY <1>1, ReportedType, DisturbType DEF ReportFails, TypeOK, locationVars
<1>2. ASSUME TypeOK, ReportReady, location[reporting] = Absent PROVE TypeOK'
  BY <1>2, ReportedType DEF ReportReady, TypeOK, locationVars
<1>3. ASSUME TypeOK, ReportReady, location[reporting] # Absent PROVE TypeOK'
  <2> DEFINE object == [location[reporting] EXCEPT !.ready = report]
  <2>1. reporting \in Names /\ object \in Location
    BY <1>3 DEF ReportReady, TypeOK, Location
  <2>2. /\ WriteLocation(reporting, object)
        /\ \/ Reported(FALSE) /\ UNCHANGED budget
           \/ Disturb("fault") /\ Reported(TRUE)
        /\ UNCHANGED <<classVars, cacheVars, acceptVars>>
        /\ reporting # Absent
    BY <1>3 DEF ReportReady
  <2>3. budget' \in 0 .. MaxDisturbances
    BY <1>3, <2>2, DisturbType DEF TypeOK
  <2> HIDE DEF object
  <2> QED
    BY <1>3, <2>1, <2>2, <2>3, WriteLocationType, ReportedType DEF TypeOK
<1> QED
  BY <1>1, <1>2, <1>3

LEMMA ReconcileClassKeeps ==
    ASSUME IInv, NEW c \in Classes, ReconcileClass(c)
    PROVE  IInv'
<1> USE DEF classVars, locationVars, cacheVars, readyVars
<1>1. CASE NotAccepted(c)
  BY <1>1 DEF NotAccepted, IInv, TypeOK, WorkersInv
<1>2. CASE DecideAcceptance(c)
  <2>1. classCache[c].generation \in 1 .. MaxGeneration
    BY <1>2 DEF DecideAcceptance, IInv, TypeOK, Class
  <2>2. /\ acceptedGauge' = [acceptedGauge EXCEPT ![c] = "1"]
        /\ \/ UNCHANGED <<accepting, acceptance>>
           \/ accepting' = c /\ acceptance' = classCache[c].generation
        /\ acceptQueue' = acceptQueue \ {c}
        /\ UNCHANGED <<classVars, locationVars, cacheVars, readyVars, budget>>
    BY <1>2 DEF DecideAcceptance
  <2>3. acceptance' \in 0 .. MaxGeneration /\ WorkersInv'
    BY <2>1, <2>2, BoundsAssumption DEF IInv, TypeOK, WorkersInv
  <2> QED
    BY <2>2, <2>3 DEF IInv, TypeOK
<1> QED
  BY <1>1, <1>2 DEF ReconcileClass

LEMMA AcceptDoneKeeps ==
    ASSUME IInv, accepting # Absent, NEW requeued \in BOOLEAN, AcceptDone(requeued)
    PROVE  /\ acceptQueue' \subseteq Classes /\ accepting' \in Classes \cup {Absent}
           /\ acceptance' \in 0 .. MaxGeneration /\ acceptedGauge' = acceptedGauge
           /\ WorkersInv'
BY BoundsAssumption DEF AcceptDone, IInv, TypeOK, WorkersInv

LEMMA AcceptKeeps == IInv /\ (Accept \/ AcceptFails) => IInv'
<1> USE DEF locationVars, cacheVars, readyVars
<1>1. ASSUME IInv, AcceptFails PROVE IInv'
  BY <1>1, AcceptDoneKeeps, DisturbType DEF AcceptFails, IInv, TypeOK, classVars
<1>2. ASSUME IInv, Accept, class[accepting] = Absent PROVE IInv'
  BY <1>2, AcceptDoneKeeps DEF Accept, IInv, TypeOK, classVars
<1>3. ASSUME IInv, Accept, class[accepting] # Absent PROVE IInv'
  <2> DEFINE object == [class[accepting] EXCEPT !.accepted = acceptance]
  <2>1. accepting \in Classes /\ object \in Class
    BY <1>3 DEF Accept, IInv, TypeOK, Class
  <2>2. /\ WriteClass(accepting, object)
        /\ \/ AcceptDone(FALSE) /\ UNCHANGED budget
           \/ Disturb("fault") /\ AcceptDone(TRUE)
        /\ UNCHANGED <<locationVars, cacheVars, readyVars>>
        /\ accepting # Absent
    BY <1>3 DEF Accept
  <2>3. budget' \in 0 .. MaxDisturbances
    BY <1>3, <2>2, DisturbType DEF IInv, TypeOK
  <2> HIDE DEF object
  <2> QED
    BY <1>3, <2>1, <2>2, <2>3, WriteClassType, AcceptDoneKeeps DEF IInv, TypeOK
<1> QED
  BY <1>1, <1>2, <1>3

LEMMA RestartKeeps == IInv /\ Restart => IInv'
BY DisturbType, NoConditionType, BoundsAssumption DEF Restart, IInv, TypeOK, WorkersInv

LEMMA Inductive == IInv /\ [Next]_vars => IInv'
<1> SUFFICES ASSUME IInv, [Next]_vars PROVE IInv'
  OBVIOUS
<1>1. CASE UNCHANGED vars
  BY <1>1 DEF vars, classVars, locationVars, cacheVars, readyVars, acceptVars,
              IInv, TypeOK, WorkersInv
<1>2. ASSUME UNCHANGED acceptVars, TypeOK' PROVE IInv'
  BY <1>2 DEF acceptVars, IInv, WorkersInv
<1>3. CASE Interference
  BY <1>2, <1>3, InterferenceType
  DEF IInv, Interference, ChangeClass, CreateLocation, EditLocation, DeleteLocation, OtherReports
<1>4. CASE DeliverClass \/ DeliverLocation
  <2>1. TypeOK'
    BY <1>4, DeliveryType DEF IInv
  <2>2. UNCHANGED <<accepting, acceptance>>
    BY <1>4 DEF DeliverClass, DeliverLocation, acceptVars
  <2> QED
    BY <2>1, <2>2 DEF IInv, WorkersInv
<1>5. CASE \E n \in Names : ReconcileLocation(n)
  BY <1>2, <1>5, ReconcileLocationType
  DEF IInv, ReconcileLocation, ForgetReadiness, LeaveUnclaimed, EvaluateReadiness
<1>6. CASE ReportReady \/ ReportFails
  BY <1>2, <1>6, ReportType DEF IInv, ReportReady, ReportFails
<1> QED
  BY <1>1, <1>3, <1>4, <1>5, <1>6, ReconcileClassKeeps, AcceptKeeps, RestartKeeps DEF Next

\* In every reachable state of readiness and acceptance the types are right,
\* and what is about to be reported of a class is a generation it had.
THEOREM Invariance == Spec => []IInv
<1>1. Init => IInv
  BY BoundsAssumption, NoConditionType DEF Init, IInv, TypeOK, WorkersInv
<1> QED
  BY <1>1, Inductive, PTL DEF Spec

\* Every reachable state of readiness, acceptance and their cache has the
\* declared type.
THEOREM TypeCorrect == Spec => []TypeOK
BY Invariance, PTL DEF IInv
-----------------------------------------------------------------------------
(* No wake-up is lost.                                                     *)

\* Both caches will be right.
Watched == CatchesUp(classCache, classWatch, class) /\ CatchesUp(locCache, locWatch, location)

\* Nothing is on its way that would make readiness look at n again.
LocationQuiet(n) ==
    /\ n \notin readyQueue /\ ~InFlight(locWatch, n)
    /\ \A c \in IndexLocationsByClass(location[n]) : ~InFlight(classWatch, c)

\* Nor acceptance at c.
ClassQuiet(c) == c \notin acceptQueue /\ ~InFlight(classWatch, c)

\* Readiness has nothing to do for n.
LocationRest(n) ==
    /\ Claimed(n) => /\ Right(n)
                     /\ readyGauge[n] = IF location[n].ready.reason = "Ready" THEN "1" ELSE "0"
    /\ ~Live(n) => readyGauge[n] = "absent"

\* Acceptance has nothing to do for c.
ClassRest(c) ==
    /\ class[c] # Absent /\ class[c].controller = "ours" =>
         IF class[c].deleting THEN acceptedGauge[c] = "absent"
         ELSE class[c].accepted = class[c].generation /\ acceptedGauge[c] = "1"
    /\ class[c] = Absent => acceptedGauge[c] = "absent"

\* What readiness is about to report is right, unless it will look again.
ReadinessInv ==
    /\ \A n \in Names : LocationQuiet(n) /\ reporting # n => LocationRest(n)
    /\ reporting # Absent /\ LocationQuiet(reporting) =>
         /\ Claimed(reporting)
         /\ report = Evaluate(location[reporting], class)
         /\ readyGauge[reporting] = GaugeOf(location[reporting], report)

\* And so is what acceptance is about to report.
AcceptanceInv ==
    /\ \A c \in Classes : ClassQuiet(c) /\ accepting # c => ClassRest(c)
    /\ accepting # Absent /\ ClassQuiet(accepting) =>
         /\ class[accepting] # Absent /\ class[accepting].controller = "ours" /\ ~class[accepting].deleting
         /\ acceptance = class[accepting].generation
         /\ acceptedGauge[accepting] = "1"

WakeInv == Watched /\ ReadinessInv /\ AcceptanceInv

\* A step in which no wake-up is consumed, and every change causes one.
LocationsHeard ==
    \A n \in Names : LocationQuiet(n)' =>
      /\ LocationQuiet(n) /\ location'[n] = location[n]
      /\ \A c \in IndexLocationsByClass(location[n]) : class'[c] = class[c]
ClassesHeard == \A c \in Classes : ClassQuiet(c)' => ClassQuiet(c) /\ class'[c] = class[c]
Heard == LocationsHeard /\ ClassesHeard

QueuesGrow == readyQueue \subseteq readyQueue' /\ acceptQueue \subseteq acceptQueue'

LEMMA IndexType ==
    ASSUME TypeOK, NEW n \in Names
    PROVE  IndexLocationsByClass(location[n]) \subseteq Classes
BY DEF TypeOK, IndexLocationsByClass, Location

LEMMA NothingWrittenHeard ==
    ASSUME Watched, UNCHANGED <<classVars, locationVars, cacheVars>>, QueuesGrow
    PROVE  Watched' /\ Heard
BY DEF Watched, Heard, LocationsHeard, ClassesHeard, LocationQuiet, ClassQuiet, QueuesGrow,
       classVars, locationVars, cacheVars

LEMMA ClassWriteHeard ==
    ASSUME TypeOK, Watched, NEW c \in Classes, NEW object \in Class \cup {Absent},
           WriteClass(c, object), UNCHANGED <<locationVars, cacheVars>>, QueuesGrow
    PROVE  Watched' /\ Heard
<1> DEFINE e == [name |-> c, object |-> object]
<1>1. classWatch \in Seq(Events(Classes, Class \cup {Absent})) /\ class \in [Classes -> Class \cup {Absent}]
  BY DEF TypeOK, Events
<1>2. e \in Events(Classes, Class \cup {Absent}) /\ e.name = c /\ e.object = object
  BY DEF Events
<1>3. CASE object = class[c]
  BY <1>3, NothingWrittenHeard DEF WriteClass
<1>4. CASE object # class[c]
  <2>1. class' = [class EXCEPT ![c] = object] /\ classWatch' = Append(classWatch, e)
    BY <1>4 DEF WriteClass
  <2> HIDE DEF e
  <2>2. CatchesUp(classCache, classWatch, class)'
    <3>1. CatchesUp(classCache, classWatch, class)
      BY DEF Watched
    <3>2. CatchesUp(classCache, Append(classWatch, e), [class EXCEPT ![e.name] = e.object])
      BY <1>1, <1>2, <3>1, SendCatchesUp
    <3> QED
      BY <1>2, <2>1, <3>2 DEF cacheVars
  <2>3. InFlight(classWatch, c)' /\ \A d : InFlight(classWatch, d) => InFlight(classWatch, d)'
    BY <1>1, <1>2, <2>1, SendKeepsInFlight
  <2>4. ClassesHeard
    BY <1>1, <2>1, <2>3 DEF ClassesHeard, ClassQuiet, QueuesGrow
  <2>5. LocationsHeard
    <3> SUFFICES ASSUME NEW n \in Names, LocationQuiet(n)'
                 PROVE  /\ LocationQuiet(n) /\ location'[n] = location[n]
                        /\ \A d \in IndexLocationsByClass(location[n]) : class'[d] = class[d]
      BY DEF LocationsHeard
    <3>1. UNCHANGED <<location, locWatch>> /\ IndexLocationsByClass(location[n]) \subseteq Classes
      BY IndexType DEF locationVars
    <3>2. LocationQuiet(n)
      BY <2>3, <3>1 DEF LocationQuiet, QueuesGrow
    <3>3. c \notin IndexLocationsByClass(location[n])
      BY <2>3, <3>1 DEF LocationQuiet
    <3> QED
      BY <1>1, <2>1, <3>1, <3>2, <3>3
  <2> QED
    BY <2>2, <2>4, <2>5 DEF Watched, Heard, locationVars, cacheVars
<1> QED
  BY <1>3, <1>4

LEMMA LocationWriteHeard ==
    ASSUME TypeOK, Watched, NEW n \in Names, NEW object \in Location \cup {Absent},
           WriteLocation(n, object), UNCHANGED <<classVars, cacheVars>>, QueuesGrow
    PROVE  Watched' /\ Heard
<1> DEFINE e == [name |-> n, object |-> object]
<1>1. locWatch \in Seq(Events(Names, Location \cup {Absent})) /\ location \in [Names -> Location \cup {Absent}]
  BY DEF TypeOK, Events
<1>2. e \in Events(Names, Location \cup {Absent}) /\ e.name = n /\ e.object = object
  BY DEF Events
<1>3. CASE object = location[n]
  BY <1>3, NothingWrittenHeard DEF WriteLocation
<1>4. CASE object # location[n]
  <2>1. location' = [location EXCEPT ![n] = object] /\ locWatch' = Append(locWatch, e)
    BY <1>4 DEF WriteLocation
  <2> HIDE DEF e
  <2>2. CatchesUp(locCache, locWatch, location)'
    <3>1. CatchesUp(locCache, locWatch, location)
      BY DEF Watched
    <3>2. CatchesUp(locCache, Append(locWatch, e), [location EXCEPT ![e.name] = e.object])
      BY <1>1, <1>2, <3>1, SendCatchesUp
    <3> QED
      BY <1>2, <2>1, <3>2 DEF cacheVars
  <2>3. InFlight(locWatch, n)' /\ \A m : InFlight(locWatch, m) => InFlight(locWatch, m)'
    BY <1>1, <1>2, <2>1, SendKeepsInFlight
  <2>4. ClassesHeard
    BY DEF ClassesHeard, ClassQuiet, QueuesGrow, classVars
  <2>5. LocationsHeard
    <3> SUFFICES ASSUME NEW m \in Names, LocationQuiet(m)'
                 PROVE  /\ LocationQuiet(m) /\ location'[m] = location[m]
                        /\ \A d \in IndexLocationsByClass(location[m]) : class'[d] = class[d]
      BY DEF LocationsHeard
    <3>1. m # n /\ UNCHANGED <<class, classWatch>>
      BY <2>3 DEF LocationQuiet, classVars
    <3>2. location'[m] = location[m]
      BY <1>1, <2>1, <3>1
    <3> QED
      BY <2>3, <3>1, <3>2 DEF LocationQuiet, QueuesGrow
  <2> QED
    BY <2>2, <2>4, <2>5 DEF Watched, Heard, classVars, cacheVars
<1> QED
  BY <1>3, <1>4

LEMMA DeliveryHeard ==
    ASSUME TypeOK, Watched, DeliverClass \/ DeliverLocation
    PROVE  Watched' /\ Heard
<1>1. CASE DeliverClass
  <2> DEFINE e == Head(classWatch)
  <2>1. /\ classWatch \in Seq(Events(Classes, Class \cup {Absent})) /\ classWatch # <<>>
        /\ class \in [Classes -> Class \cup {Absent}] /\ classCache \in [Classes -> Class \cup {Absent}]
    BY <1>1 DEF TypeOK, Events, DeliverClass
  <2>2. /\ classCache' = [classCache EXCEPT ![e.name] = e.object] /\ classWatch' = Tail(classWatch)
        /\ readyQueue' = readyQueue \cup EnqueueLocationsNamingClass(e.name)
        /\ acceptQueue' = acceptQueue \cup {e.name}
        /\ UNCHANGED <<class, location, locWatch, locCache>>
    BY <1>1 DEF DeliverClass, locationVars
  <2>3. CatchesUp(classCache, classWatch, class)'
    <3>1. CatchesUp([classCache EXCEPT ![e.name] = e.object], Tail(classWatch), class)
      BY <2>1, DeliveryCatchesUp DEF Watched
    <3> QED
      BY <2>2, <3>1
  <2>4. \A c : InFlight(classWatch, c) => InFlight(classWatch, c)' \/ c = e.name
    BY <2>1, <2>2, DeliveryInFlight
  <2> HIDE DEF e
  <2>5. ASSUME NEW n \in Names, LocationQuiet(n)' PROVE LocationQuiet(n)
    <3>1. n \notin readyQueue /\ ~InFlight(locWatch, n)
      BY <2>2, <2>5 DEF LocationQuiet
    <3>2. locCache[n] = location[n]
      BY <3>1 DEF Watched, CatchesUp, TypeOK
    <3>3. e.name \notin IndexLocationsByClass(location[n])
      BY <2>2, <2>5, <3>2 DEF LocationQuiet, EnqueueLocationsNamingClass
    <3> QED
      BY <2>2, <2>4, <2>5, <3>1, <3>3 DEF LocationQuiet
  <2>6. ClassesHeard
    BY <2>2, <2>4 DEF ClassesHeard, ClassQuiet
  <2> QED
    BY <2>2, <2>3, <2>5, <2>6 DEF Watched, Heard, LocationsHeard
<1>2. CASE DeliverLocation
  <2> DEFINE e == Head(locWatch)
  <2>1. /\ locWatch \in Seq(Events(Names, Location \cup {Absent})) /\ locWatch # <<>>
        /\ location \in [Names -> Location \cup {Absent}] /\ locCache \in [Names -> Location \cup {Absent}]
    BY <1>2 DEF TypeOK, Events, DeliverLocation
  <2>2. /\ locCache' = [locCache EXCEPT ![e.name] = e.object] /\ locWatch' = Tail(locWatch)
        /\ readyQueue' = readyQueue \cup {e.name}
        /\ UNCHANGED <<location, class, classWatch, classCache, acceptQueue>>
    BY <1>2 DEF DeliverLocation, classVars, acceptVars
  <2>3. CatchesUp(locCache, locWatch, location)'
    <3>1. CatchesUp([locCache EXCEPT ![e.name] = e.object], Tail(locWatch), location)
      BY <2>1, DeliveryCatchesUp DEF Watched
    <3> QED
      BY <2>2, <3>1
  <2>4. \A n : InFlight(locWatch, n) => InFlight(locWatch, n)' \/ n = e.name
    BY <2>1, <2>2, DeliveryInFlight
  <2> HIDE DEF e
  <2>5. LocationsHeard /\ ClassesHeard
    BY <2>2, <2>4 DEF LocationsHeard, ClassesHeard, LocationQuiet, ClassQuiet
  <2> QED
    BY <2>2, <2>3, <2>5 DEF Watched, Heard
<1> QED
  BY <1>1, <1>2

\* What is heard of and not acted upon leaves the two reconcilers right.
LEMMA HeardKeepsRest ==
    ASSUME NEW n \in Names, LocationRest(n), LocationsHeard, LocationQuiet(n)', readyGauge'[n] = readyGauge[n]
    PROVE  LocationRest(n)'
<1>1. /\ location'[n] = location[n]
      /\ \A c \in IndexLocationsByClass(location[n]) : class'[c] = class[c]
  BY DEF LocationsHeard
<1> QED
  BY <1>1 DEF LocationRest, Claimed, Live, Claims, Right, ClassOf, IndexLocationsByClass

LEMMA HeardKeepsReadiness ==
    ASSUME TypeOK, ReadinessInv, LocationsHeard, UNCHANGED <<reporting, report, readyGauge>>
    PROVE  ReadinessInv'
<1>1. ASSUME NEW n \in Names, LocationQuiet(n)', (reporting # n)' PROVE LocationRest(n)'
  BY <1>1, HeardKeepsRest DEF ReadinessInv, LocationsHeard
<1>2. ASSUME NEW n \in Names, reporting = n, LocationQuiet(n)'
      PROVE  Claimed(n)' /\ report' = Evaluate(location[n], class)' /\ readyGauge'[n] = GaugeOf(location[n], report)'
  <2>1. /\ location'[n] = location[n] /\ LocationQuiet(n)
        /\ \A c \in IndexLocationsByClass(location[n]) : class'[c] = class[c]
    BY <1>2 DEF LocationsHeard
  <2>2. Claimed(n) /\ report = Evaluate(location[n], class) /\ readyGauge[n] = GaugeOf(location[n], report)
    BY <1>2, <2>1, AbsentIsNoObject DEF ReadinessInv
  <2> QED
    BY <2>1, <2>2 DEF Claimed, Live, Claims, IndexLocationsByClass, Evaluate, GaugeOf
<1>3. reporting \in Names \cup {Absent}
  BY DEF TypeOK
<1> QED
  BY <1>1, <1>2, <1>3 DEF ReadinessInv

LEMMA HeardKeepsAcceptance ==
    ASSUME TypeOK, AcceptanceInv, ClassesHeard, UNCHANGED <<accepting, acceptance, acceptedGauge>>
    PROVE  AcceptanceInv'
BY DEF TypeOK, AcceptanceInv, ClassesHeard, ClassRest

\* Everybody else, and the watches.
LEMMA HearingKeepsWake ==
    ASSUME TypeOK, WakeInv, Watched', Heard,
           UNCHANGED <<reporting, report, readyGauge, accepting, acceptance, acceptedGauge>>
    PROVE  WakeInv'
BY HeardKeepsReadiness, HeardKeepsAcceptance DEF WakeInv, Heard

LEMMA OthersKeepWake ==
    ASSUME TypeOK, WakeInv, OthersWrite
    PROVE  WakeInv'
<1>1. /\ UNCHANGED <<reporting, report, readyGauge, accepting, acceptance, acceptedGauge>>
      /\ UNCHANGED cacheVars /\ QueuesGrow /\ Watched
  BY DEF OthersWrite, readyVars, acceptVars, QueuesGrow, WakeInv
<1>2. ASSUME NEW c \in Classes, NEW object \in Class \cup {Absent}, WriteClass(c, object), UNCHANGED locationVars
      PROVE  WakeInv'
  BY <1>1, <1>2, ClassWriteHeard, HearingKeepsWake
<1>3. ASSUME NEW n \in Names, NEW object \in Location \cup {Absent}, WriteLocation(n, object), UNCHANGED classVars
      PROVE  WakeInv'
  BY <1>1, <1>3, LocationWriteHeard, HearingKeepsWake
<1> QED
  BY <1>2, <1>3 DEF OthersWrite

LEMMA DeliveryKeepsWake ==
    ASSUME TypeOK, WakeInv, DeliverClass \/ DeliverLocation
    PROVE  WakeInv'
<1>1. UNCHANGED <<reporting, report, readyGauge, accepting, acceptance, acceptedGauge>>
  BY DEF DeliverClass, DeliverLocation, acceptVars
<1> QED
  BY <1>1, DeliveryHeard, HearingKeepsWake DEF WakeInv

\* What readiness reads is what is there, unless it will look again.
LEMMA QuietReads ==
    ASSUME TypeOK, Watched, NEW n \in Names, ~InFlight(locWatch, n),
           \A c \in IndexLocationsByClass(location[n]) : ~InFlight(classWatch, c)
    PROVE  /\ locCache[n] = location[n]
           /\ \A c \in IndexLocationsByClass(location[n]) : classCache[c] = class[c]
BY IndexType DEF Watched, CatchesUp, TypeOK

LEMMA ReconcileLocationKeepsWake ==
    ASSUME TypeOK, WakeInv, NEW n \in Names, ReconcileLocation(n)
    PROVE  WakeInv'
<1>1. /\ UNCHANGED <<class, classWatch, classCache, location, locWatch, locCache>>
      /\ UNCHANGED <<acceptQueue, accepting, acceptance, acceptedGauge>>
      /\ reporting = Absent /\ readyQueue' = readyQueue \ {n}
  BY DEF ReconcileLocation, ForgetReadiness, LeaveUnclaimed, EvaluateReadiness,
         classVars, locationVars, cacheVars, acceptVars
<1>2. Watched' /\ AcceptanceInv'
  BY <1>1 DEF WakeInv, Watched, AcceptanceInv, ClassQuiet, ClassRest
<1>3. ASSUME NEW m \in Names, m # n, LocationQuiet(m)' PROVE LocationRest(m)'
  <2>1. LocationQuiet(m) /\ reporting # m
    BY <1>1, <1>3, AbsentIsNoObject DEF LocationQuiet
  <2>2. readyGauge'[m] = readyGauge[m]
    BY <1>3 DEF ReconcileLocation, ForgetReadiness, LeaveUnclaimed, EvaluateReadiness, TypeOK
  <2>3. LocationRest(m)
    BY <2>1 DEF WakeInv, ReadinessInv
  <2> QED
    BY <1>1, <2>2, <2>3 DEF LocationRest, Claimed, Live, Claims, Right, ClassOf, IndexLocationsByClass
<1>4. ASSUME LocationQuiet(n)'
      PROVE  \/ reporting' # n /\ LocationRest(n)'
             \/ /\ reporting' = n /\ Claimed(n)'
                /\ report' = Evaluate(location[n], class)'
                /\ readyGauge'[n] = GaugeOf(location[n], report)'
  <2>1. /\ locCache[n] = location[n]
        /\ \A c \in IndexLocationsByClass(location[n]) : classCache[c] = class[c]
    BY <1>1, <1>4, QuietReads DEF LocationQuiet, WakeInv
  <2>2. Claims(locCache[n], classCache) <=> Claimed(n) \/ (~Live(n) /\ Claims(location[n], class))
    BY <2>1 DEF Claimed, Claims
  <2>3. CASE ForgetReadiness(n)
    <3>1. ~Live(n) /\ reporting' = Absent /\ readyGauge'[n] = "absent"
      BY <1>1, <2>1, <2>3 DEF ForgetReadiness, Live, TypeOK
    <3> QED
      BY <1>1, <3>1, AbsentIsNoObject DEF LocationRest, Claimed, Live
  <2>4. CASE LeaveUnclaimed(n)
    <3>1. Live(n) /\ ~Claimed(n) /\ reporting' = Absent
      BY <1>1, <2>1, <2>2, <2>4 DEF LeaveUnclaimed, Live
    <3> QED
      BY <1>1, <3>1, AbsentIsNoObject DEF LocationRest, Claimed, Live, Claims
  <2>5. CASE EvaluateReadiness(n)
    <3> DEFINE condition == Evaluate(location[n], class)
    <3>1. Live(n) /\ Claimed(n) /\ location[n].class \in IndexLocationsByClass(location[n])
      BY <2>1, <2>2, <2>5 DEF EvaluateReadiness, Live, Claims, Claimed, IndexLocationsByClass
    <3>2. Evaluate(locCache[n], classCache) = condition
      BY <2>1, <3>1 DEF Evaluate
    <3>3. readyGauge'[n] = GaugeOf(location[n], condition)
      BY <2>1, <2>5, <3>2 DEF EvaluateReadiness, TypeOK
    <3>4. Claimed(n)' /\ condition' = condition /\ location'[n] = location[n] /\ class' = class
      BY <1>1, <3>1 DEF Claimed, Live, Claims, Evaluate
    <3>5. CASE condition = locCache[n].ready
      <4>1. reporting' # n /\ location[n].ready = condition
        BY <1>1, <2>1, <2>5, <3>2, <3>5, AbsentIsNoObject DEF EvaluateReadiness
      <4>2. Right(n)' /\ Live(n)'
        BY <1>1, <3>1, <4>1 DEF Right, Live, ClassOf, Evaluate
      <4> QED
        BY <3>3, <3>4, <4>1, <4>2 DEF LocationRest, GaugeOf
    <3>6. CASE condition # locCache[n].ready
      <4>1. reporting' = n /\ report' = condition
        BY <2>5, <3>2, <3>6 DEF EvaluateReadiness
      <4> QED
        BY <3>3, <3>4, <4>1 DEF GaugeOf
    <3> QED
      BY <3>5, <3>6
  <2> QED
    BY <2>3, <2>4, <2>5 DEF ReconcileLocation
<1>5. reporting' \in {n, Absent}
  BY <1>1 DEF ReconcileLocation, ForgetReadiness, LeaveUnclaimed, EvaluateReadiness
<1>6. ReadinessInv'
  <2>1. ASSUME NEW m \in Names, LocationQuiet(m)', (reporting # m)' PROVE LocationRest(m)'
    BY <1>3, <1>4, <2>1
  <2>2. ASSUME reporting' = n, LocationQuiet(n)'
        PROVE  /\ Claimed(n)' /\ report' = Evaluate(location[n], class)'
               /\ readyGauge'[n] = GaugeOf(location[n], report)'
    BY <1>4, <2>2
  <2> QED
    BY <1>5, <2>1, <2>2 DEF ReadinessInv
<1> QED
  BY <1>2, <1>6 DEF WakeInv

\* The patch returned: what it was about has the condition, or is looked at again.
LEMMA ReportedKeepsReadiness ==
    ASSUME TypeOK, ReadinessInv, LocationsHeard, NEW n \in Names, reporting = n, reporting' = Absent,
           readyGauge' = readyGauge, LocationQuiet(n)' => location[n].ready = report
    PROVE  ReadinessInv'
<1>1. ASSUME NEW m \in Names, m # n, LocationQuiet(m)' PROVE LocationRest(m)'
  <2>1. LocationQuiet(m) /\ LocationRest(m)
    BY <1>1 DEF LocationsHeard, ReadinessInv
  <2> QED
    BY <1>1, <2>1, HeardKeepsRest
<1>2. ASSUME LocationQuiet(n)' PROVE LocationRest(n)'
  <2>1. LocationQuiet(n) /\ location[n].ready = report
    BY <1>2 DEF LocationsHeard
  <2>2. Claimed(n) /\ report = Evaluate(location[n], class) /\ readyGauge[n] = GaugeOf(location[n], report)
    BY <2>1, AbsentIsNoObject DEF ReadinessInv
  <2>3. LocationRest(n)
    BY <2>1, <2>2 DEF LocationRest, Claimed, Right, ClassOf, Evaluate, GaugeOf
  <2> QED
    BY <1>2, <2>3, HeardKeepsRest
<1> QED
  BY <1>1, <1>2 DEF ReadinessInv

LEMMA ReportKeepsWake ==
    ASSUME TypeOK, WakeInv, ReportReady \/ ReportFails
    PROVE  WakeInv'
<1>1. PICK n \in Names : reporting = n
  BY DEF ReportReady, ReportFails, TypeOK
<1>2. /\ UNCHANGED <<classVars, cacheVars, acceptVars>> /\ reporting # Absent
      /\ reporting' = Absent /\ readyGauge' = readyGauge /\ readyQueue \subseteq readyQueue'
  BY DEF ReportReady, ReportFails, Reported
<1>3. QueuesGrow /\ Watched /\ ReadinessInv /\ AcceptanceInv
  BY <1>2 DEF QueuesGrow, acceptVars, WakeInv
<1>4. Watched' /\ Heard /\ (LocationQuiet(n)' => location[n].ready = report)
  <2>1. CASE UNCHANGED locationVars /\ Reported(TRUE)
    <3>1. n \in readyQueue'
      BY <1>1, <2>1 DEF Reported
    <3> QED
      BY <1>2, <1>3, <2>1, <3>1, NothingWrittenHeard DEF LocationQuiet
  <2>2. CASE /\ location[n] # Absent
             /\ WriteLocation(n, [location[n] EXCEPT !.ready = report])
    <3> DEFINE object == [location[n] EXCEPT !.ready = report]
    <3>1. location[n] \in Location /\ object \in Location /\ object.ready = report
      BY <2>2 DEF TypeOK, Location
    <3> HIDE DEF object
    <3>2. Watched' /\ Heard
      BY <1>2, <1>3, <2>2, <3>1, LocationWriteHeard DEF object
    <3>3. ASSUME LocationQuiet(n)' PROVE object = location[n]
      <4>1. location'[n] = location[n]
        BY <3>2, <3>3 DEF Heard, LocationsHeard
      <4> QED
        BY <2>2, <4>1 DEF WriteLocation, TypeOK, object
    <3> QED
      BY <3>1, <3>2, <3>3
  <2> QED
    BY <1>1, <2>1, <2>2 DEF ReportReady, ReportFails
<1>5. ReadinessInv'
  BY <1>1, <1>2, <1>3, <1>4, ReportedKeepsReadiness DEF Heard
<1>6. AcceptanceInv'
  BY <1>2, <1>3, <1>4, HeardKeepsAcceptance DEF Heard, acceptVars
<1> QED
  BY <1>4, <1>5, <1>6 DEF WakeInv

LEMMA ReconcileClassKeepsWake ==
    ASSUME TypeOK, WakeInv, NEW c \in Classes, ReconcileClass(c)
    PROVE  WakeInv'
<1>1. /\ UNCHANGED <<class, classWatch, classCache, location, locWatch, locCache>>
      /\ UNCHANGED <<readyQueue, reporting, report, readyGauge>>
      /\ accepting = Absent /\ acceptQueue' = acceptQueue \ {c}
  BY DEF ReconcileClass, NotAccepted, DecideAcceptance, classVars, locationVars, cacheVars, readyVars
<1>2. Watched' /\ ReadinessInv'
  BY <1>1 DEF WakeInv, Watched, ReadinessInv, LocationQuiet, LocationRest, Claimed, Live, Claims, Right,
              ClassOf, IndexLocationsByClass, Evaluate, GaugeOf
<1>3. ASSUME NEW d \in Classes, d # c, ClassQuiet(d)' PROVE ClassRest(d)'
  <2>1. ClassQuiet(d) /\ accepting # d
    BY <1>1, <1>3, AbsentIsNoObject DEF ClassQuiet
  <2>2. acceptedGauge'[d] = acceptedGauge[d]
    BY <1>3 DEF ReconcileClass, NotAccepted, DecideAcceptance, TypeOK
  <2> QED
    BY <1>1, <2>1, <2>2 DEF WakeInv, AcceptanceInv, ClassRest
<1>4. ASSUME ClassQuiet(c)'
      PROVE  \/ accepting' # c /\ ClassRest(c)'
             \/ /\ accepting' = c /\ class[c] # Absent /\ class[c].controller = "ours" /\ ~class[c].deleting
                /\ acceptance' = class[c].generation /\ acceptedGauge'[c] = "1"
  <2>1. classCache[c] = class[c]
    BY <1>1, <1>4 DEF ClassQuiet, WakeInv, Watched, CatchesUp, TypeOK
  <2>2. CASE NotAccepted(c)
    <3>1. accepting' # c
      BY <1>1, <2>2, AbsentIsNoObject DEF NotAccepted
    <3>2. (class[c] # Absent /\ class[c].controller = "theirs") \/ acceptedGauge'[c] = "absent"
      BY <2>1, <2>2 DEF NotAccepted, TypeOK
    <3>3. class[c] # Absent => class[c].controller = "theirs" \/ class[c].deleting
      BY <2>1, <2>2 DEF NotAccepted
    <3> QED
      BY <1>1, <3>1, <3>2, <3>3 DEF ClassRest
  <2>3. CASE DecideAcceptance(c)
    <3>1. class[c] # Absent /\ class[c].controller = "ours" /\ ~class[c].deleting /\ acceptedGauge'[c] = "1"
      BY <2>1, <2>3 DEF DecideAcceptance, TypeOK
    <3>2. CASE Accepted(class[c])
      <4>1. accepting' # c
        BY <1>1, <2>1, <2>3, <3>2, AbsentIsNoObject DEF DecideAcceptance
      <4> QED
        BY <1>1, <3>1, <3>2, <4>1 DEF ClassRest, Accepted
    <3>3. CASE ~Accepted(class[c])
      BY <2>1, <2>3, <3>1, <3>3 DEF DecideAcceptance
    <3> QED
      BY <3>2, <3>3
  <2> QED
    BY <2>2, <2>3 DEF ReconcileClass
<1>5. accepting' \in {c, Absent}
  BY <1>1 DEF ReconcileClass, NotAccepted, DecideAcceptance
<1>6. AcceptanceInv'
  <2>1. ASSUME NEW d \in Classes, ClassQuiet(d)', (accepting # d)' PROVE ClassRest(d)'
    BY <1>3, <1>4, <2>1
  <2> QED
    BY <1>1, <1>4, <1>5, <2>1 DEF AcceptanceInv
<1> QED
  BY <1>2, <1>6 DEF WakeInv

LEMMA AcceptDoneKeepsAcceptance ==
    ASSUME TypeOK, AcceptanceInv, ClassesHeard, NEW c \in Classes, accepting = c, accepting' = Absent,
           acceptedGauge' = acceptedGauge, ClassQuiet(c)' => class[c].accepted = acceptance
    PROVE  AcceptanceInv'
<1>1. ASSUME NEW d \in Classes, ClassQuiet(d)' PROVE ClassRest(d)'
  <2>1. ClassQuiet(d) /\ class'[d] = class[d]
    BY <1>1 DEF ClassesHeard
  <2>2. ClassRest(d)
    BY <1>1, <2>1, AbsentIsNoObject DEF AcceptanceInv, ClassRest
  <2> QED
    BY <2>1, <2>2 DEF ClassRest
<1> QED
  BY <1>1 DEF AcceptanceInv

LEMMA AcceptKeepsWake ==
    ASSUME IInv, WakeInv, Accept \/ AcceptFails
    PROVE  WakeInv'
<1> USE DEF IInv
<1>1. PICK c \in Classes : accepting = c
  BY DEF Accept, AcceptFails, TypeOK
<1>2. /\ UNCHANGED <<locationVars, cacheVars, readyVars>> /\ accepting # Absent
      /\ accepting' = Absent /\ acceptedGauge' = acceptedGauge /\ acceptQueue \subseteq acceptQueue'
  BY DEF Accept, AcceptFails, AcceptDone
<1>3. QueuesGrow /\ Watched /\ ReadinessInv /\ AcceptanceInv
  BY <1>2 DEF QueuesGrow, readyVars, WakeInv
<1>4. Watched' /\ Heard /\ (ClassQuiet(c)' => class[c].accepted = acceptance)
  <2>1. CASE UNCHANGED classVars /\ AcceptDone(TRUE)
    <3>1. c \in acceptQueue'
      BY <1>1, <2>1 DEF AcceptDone
    <3> QED
      BY <1>2, <1>3, <2>1, <3>1, NothingWrittenHeard DEF ClassQuiet
  <2>2. CASE /\ class[c] # Absent
             /\ WriteClass(c, [class[c] EXCEPT !.accepted = acceptance])
    <3> DEFINE object == [class[c] EXCEPT !.accepted = acceptance]
    <3>1. class[c] \in Class /\ object \in Class /\ object.accepted = acceptance
      BY <2>2 DEF TypeOK, Class
    <3> HIDE DEF object
    <3>2. Watched' /\ Heard
      BY <1>2, <1>3, <2>2, <3>1, ClassWriteHeard DEF object
    <3>3. ASSUME ClassQuiet(c)' PROVE object = class[c]
      <4>1. class'[c] = class[c]
        BY <3>2, <3>3 DEF Heard, ClassesHeard
      <4> QED
        BY <2>2, <4>1 DEF WriteClass, TypeOK, object
    <3> QED
      BY <3>1, <3>2, <3>3
  <2> QED
    BY <1>1, <2>1, <2>2 DEF Accept, AcceptFails
<1>5. AcceptanceInv'
  BY <1>1, <1>2, <1>3, <1>4, AcceptDoneKeepsAcceptance DEF Heard
<1>6. ReadinessInv'
  BY <1>2, <1>3, <1>4, HeardKeepsReadiness DEF Heard, readyVars
<1> QED
  BY <1>4, <1>5, <1>6 DEF WakeInv

LEMMA RestartKeepsWake ==
    ASSUME TypeOK, Restart
    PROVE  WakeInv'
<1>1. /\ UNCHANGED <<class, location>> /\ reporting' = Absent /\ accepting' = Absent
      /\ readyQueue' = {n \in Names : location[n] # Absent}
      /\ acceptQueue' = {c \in Classes : class[c] # Absent}
      /\ readyGauge' = [n \in Names |-> "absent"] /\ acceptedGauge' = [c \in Classes |-> "absent"]
  BY DEF Restart
<1>2. Watched'
  BY ListCatchesUp DEF Restart, Watched
<1>3. ReadinessInv'
  BY <1>1 DEF ReadinessInv, LocationQuiet, LocationRest, Claimed, Live
<1>4. AcceptanceInv'
  BY <1>1 DEF AcceptanceInv, ClassQuiet, ClassRest
<1> QED
  BY <1>2, <1>3, <1>4 DEF WakeInv

LEMMA StepWake == IInv /\ WakeInv /\ [Next]_vars => WakeInv'
<1> SUFFICES ASSUME IInv, WakeInv, [Next]_vars PROVE WakeInv'
  OBVIOUS
<1>1. TypeOK
  BY DEF IInv
<1>2. CASE UNCHANGED vars
  <2>1. /\ UNCHANGED <<classVars, locationVars, cacheVars>> /\ QueuesGrow /\ Watched
        /\ UNCHANGED <<reporting, report, readyGauge, accepting, acceptance, acceptedGauge>>
    BY <1>2 DEF vars, readyVars, acceptVars, QueuesGrow, WakeInv
  <2> QED
    BY <1>1, <2>1, NothingWrittenHeard, HearingKeepsWake
<1>3. CASE Interference
  BY <1>1, <1>3, InterferenceWrites, OthersKeepWake
<1>4. CASE DeliverClass \/ DeliverLocation
  BY <1>1, <1>4, DeliveryKeepsWake
<1>5. CASE \E n \in Names : ReconcileLocation(n)
  BY <1>1, <1>5, ReconcileLocationKeepsWake
<1>6. CASE ReportReady \/ ReportFails
  BY <1>1, <1>6, ReportKeepsWake
<1>7. CASE \E c \in Classes : ReconcileClass(c)
  BY <1>1, <1>7, ReconcileClassKeepsWake
<1>8. CASE Accept \/ AcceptFails
  BY <1>8, AcceptKeepsWake
<1>9. CASE Restart
  BY <1>1, <1>9, RestartKeepsWake
<1> QED
  BY <1>2, <1>3, <1>4, <1>5, <1>6, <1>7, <1>8, <1>9 DEF Next

LEMMA InitWake == Init => WakeInv
<1> SUFFICES ASSUME Init PROVE WakeInv
  OBVIOUS
<1>1. Watched
  BY ListCatchesUp DEF Init, Watched
<1>2. ReadinessInv /\ AcceptanceInv
  BY DEF Init, ReadinessInv, AcceptanceInv, LocationQuiet, ClassQuiet, LocationRest, ClassRest, Claimed, Live
<1> QED
  BY <1>1, <1>2 DEF WakeInv

LEMMA WakesAreKept == Spec => []WakeInv
BY InitWake, StepWake, Invariance, PTL DEF Spec

\* No wake-up of readiness is lost between the watches of the classes and of the
\* Locations: what it does not await has the condition and the gauge it should
\* (enqueueLocationsNamingClass, and the requeue after a failed patch).
THEOREM NoLocationIsForgotten == Spec => []NoLocationForgotten
<1>1. WakeInv => NoLocationForgotten
  BY DEF WakeInv, ReadinessInv, NoLocationForgotten, Awaited, LocationQuiet, LocationRest
<1> QED
  BY <1>1, WakesAreKept, PTL

\* Nor of acceptance: a class it does not await is accepted for its present
\* generation and has its gauge, or has none and should have none.
THEOREM NoAcceptanceIsForgotten == Spec => []NoAcceptanceForgotten
<1>1. WakeInv => NoAcceptanceForgotten
  BY DEF WakeInv, AcceptanceInv, NoAcceptanceForgotten, AcceptanceAwaited, ClassQuiet, ClassRest
<1> QED
  BY <1>1, WakesAreKept, PTL
=============================================================================
