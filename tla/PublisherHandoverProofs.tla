----------------------- MODULE PublisherHandoverProofs -----------------------
(* What survives a handover: every promise of the publisher that does not  *)
(* ask for a publisher to be alone with the hub.                           *)
EXTENDS PublisherHandover, LocationPublisherProofs

\* A call on its way that writes a whole copy, or takes an annotation from one,
\* carries that copy.
LateInv ==
    /\ late \in Call \cup {NoCall}
    /\ late # NoCall /\ late.kind \in {"apply", "record"} => late.object \in Copy

HInv == IInv /\ WakeInv /\ LateInv

LEMMA SentType ==
    ASSUME IInv, NEW call \in Sent
    PROVE  call \in Call /\ (call.kind \in {"apply", "record"} => call.object \in Copy)
<1>1. step \in Calls /\ request \in Names
  BY DEF Sent, Calls, IInv, WorkerInv
<1>2. step = "apply" => Applied(Absent) \in Copy
  BY AppliedType DEF IInv, WorkerInv, Publishing
<1>3. step = "record" => published \in Copy
  BY DEF IInv, WorkerInv, TypeOK, Removing, OwnsObject
<1>4. call = [kind   |-> step, name |-> request,
              object |-> CASE step = "apply" -> Applied(Absent)
                           [] step = "record" -> published
                           [] OTHER -> Absent]
  BY DEF Sent
<1>5. CASE step = "apply"
  BY <1>1, <1>2, <1>4, <1>5 DEF Call
<1>6. CASE step = "record"
  BY <1>1, <1>3, <1>4, <1>6 DEF Call
<1>7. CASE step \notin {"apply", "record"}
  BY <1>1, <1>4, <1>7 DEF Call
<1> QED
  BY <1>5, <1>6, <1>7

LEMMA LandedType ==
    ASSUME LateInv, late # NoCall, late.kind \notin {"policy", "deletePolicy"}, NEW object \in Copy \cup {Absent}
    PROVE  Landed(object) \in Copy \cup {Absent}
<1>1. late \in Call /\ NotBlocked \in Decision
  BY DEF LateInv, NotBlocked, Decision, Reasons
<1>2. CASE late.kind = "delete"
  BY <1>2 DEF Landed
<1>3. CASE late.kind = "apply"
  <2>1. late.object \in Copy
    BY <1>3 DEF LateInv
  <2>2. object # Absent => object.foreignKey \in BOOLEAN /\ object.override \in BOOLEAN /\ object.blocked \in Decision
    BY DEF Copy
  <2>3. [late.object EXCEPT !.foreignKey = object # Absent /\ object.foreignKey,
                            !.blocked = IF object = Absent THEN NotBlocked ELSE object.blocked,
                            !.override = object # Absent /\ object.override] \in Copy
    BY <1>1, <2>1, <2>2 DEF Copy
  <2> QED
    BY <1>3, <2>3 DEF Landed
<1>4. CASE late.kind = "record"
  <2>1. late.object.blocked \in Decision
    BY <1>4 DEF LateInv, Copy
  <2>2. object # Absent => [object EXCEPT !.blocked = late.object.blocked] \in Copy
    BY <2>1 DEF Copy
  <2> QED
    BY <1>4, <2>2 DEF Landed
<1>5. CASE late.kind = "clear"
  <2>1. object # Absent => [object EXCEPT !.blocked = NotBlocked] \in Copy
    BY <1>1 DEF Copy
  <2> QED
    BY <1>5, <2>1 DEF Landed
<1> QED
  BY <1>1, <1>2, <1>3, <1>4, <1>5 DEF Call, Calls

\* A call that lands late finds another hub than it was sent to, and neither the
\* caches nor the worker of the new process; but it is a write like any other, and
\* is heard of.
LEMMA LateCallKeeps ==
    ASSUME HInv, LateCallLands
    PROVE  HInv'
<1>1. late # NoCall /\ late \in Call /\ late.name \in Names /\ TypeOK
  BY DEF LateCallLands, HInv, LateInv, Call, IInv
<1>2. hub[late.name] \in Copy \cup {Absent}
  BY <1>1 DEF TypeOK
<1>3. UNCHANGED <<sourceVars, cacheVars, workerVars, historyVars, clusters, clock, queue, budget>> /\ late' = NoCall
  BY DEF LateCallLands
<1>4. /\ Watched' /\ Heard
      /\ hub' \in [Names -> Copy \cup {Absent}]
      /\ hubWatch' \in Seq([name : Names, object : Copy \cup {Absent}])
      /\ policy' \in [Names -> {"absent", "applied", "altered"}] /\ policyWatch' \subseteq Names
  <2>1. CASE late.kind \in {"policy", "deletePolicy"}
    <3>1. PICK value \in {"applied", "absent"} : WritePolicy(late.name, value) /\ UNCHANGED hubVars
      BY <2>1 DEF LateCallLands
    <3> QED
      BY <1>1, <1>3, <3>1, PolicyWriteHeard, WritePolicyType DEF HInv, WakeInv, TypeOK, hubVars
  <2>2. CASE late.kind \notin {"policy", "deletePolicy"}
    <3>1. WriteHub(late.name, Landed(hub[late.name])) /\ UNCHANGED policyVars
      BY <2>2 DEF LateCallLands
    <3>2. Landed(hub[late.name]) \in Copy \cup {Absent}
      BY <1>1, <1>2, <2>2, LandedType DEF HInv
    <3> QED
      BY <1>1, <1>3, <3>1, <3>2, HubWriteHeard, WriteHubType DEF HInv, WakeInv, TypeOK, policyVars
  <2> QED
    BY <2>1, <2>2
<1>5. IInv'
  <2>1. TypeOK'
    BY <1>1, <1>3, <1>4 DEF TypeOK, sourceVars, cacheVars, workerVars, historyVars
  <2>2. WorkerInv' /\ GuardInv' /\ GroundsInv'
    BY <1>3 DEF HInv, IInv, WorkerInv, GuardInv, GroundsInv, Grounds, OwnsObject, workerVars, cacheVars, historyVars
  <2> QED
    BY <2>1, <2>2 DEF IInv
<1>6. NothingForgotten'
  BY <1>3, <1>4, HeardForgetsNothing DEF HInv, WakeInv, workerVars
<1>7. UpToDate'
  <2>1. step # "idle" => request \in Names
    BY DEF HInv, IInv, WorkerInv
  <2> QED
    BY <1>3, <1>4, <2>1 DEF HInv, WakeInv, UpToDate, Heard, workerVars
<1>8. LateInv'
  BY <1>3 DEF LateInv
<1> QED
  BY <1>4, <1>5, <1>6, <1>7, <1>8 DEF HInv, WakeInv

LEMMA HInitInv == HInit => HInv
BY InitInv, InitWake DEF HInit, HInv, LateInv

LEMMA HStepInv == HInv /\ [HNext]_hvars => HInv'
<1> SUFFICES ASSUME HInv, [HNext]_hvars PROVE HInv'
  OBVIOUS
<1>1. CASE [Next]_vars /\ UNCHANGED late
  <2>1. IInv' /\ WakeInv'
    BY <1>1, StepInv, StepWake DEF HInv
  <2>2. LateInv'
    BY <1>1 DEF HInv, LateInv
  <2> QED
    BY <2>1, <2>2 DEF HInv
<1>2. CASE Handover
  <2>1. IInv' /\ WakeInv'
    BY <1>2, FailureKeeps, RestartForgetsNothing DEF Handover, HInv
  <2>2. LateInv'
    <3>1. CASE late' = late
      BY <3>1 DEF HInv, LateInv
    <3>2. CASE late' \in Sent
      BY <3>2, SentType DEF HInv, LateInv
    <3> QED
      BY <1>2, <3>1, <3>2 DEF Handover
  <2> QED
    BY <2>1, <2>2 DEF HInv
<1>3. CASE LateCallLands
  BY <1>3, LateCallKeeps
<1>4. CASE LateCallLost
  <2>1. IInv' /\ WakeInv'
    BY <1>4, StepInv, StepWake DEF HInv, LateCallLost
  <2>2. LateInv'
    BY <1>4 DEF LateCallLost, LateInv
  <2> QED
    BY <2>1, <2>2 DEF HInv
<1> QED
  BY <1>1, <1>2, <1>3, <1>4 DEF HNext, Next, hvars

LEMMA HInvariance == HSpec => []HInv
BY HInitInv, HStepInv, PTL DEF HSpec

\* Every state of a publisher, its successors and a call on its way from one to
\* the other's hub is well formed.
THEOREM LateTypeCorrect == HSpec => []LateTypeOK
<1>1. HInv => LateTypeOK
  BY DEF HInv, LateInv, LateTypeOK, IInv
<1> QED
  BY HInvariance, <1>1, PTL

\* No wake-up is lost by a handover, wherever in its reconcile the old publisher
\* stopped and whenever its last call lands.
THEOREM HandoverForgetsNothing == HSpec => []NothingForgotten
<1>1. HInv => NothingForgotten
  BY DEF HInv, WakeInv
<1> QED
  BY HInvariance, <1>1, PTL

LEMMA HandoverInv == HSpec => []IInv
<1>1. HInv => IInv
  BY DEF HInv
<1> QED
  BY HInvariance, <1>1, PTL

\* The worker of the new process honours its own guard, whatever lands meanwhile.
THEOREM GuardIsHonouredAfterHandover == HSpec => GuardHonoured
BY HandoverInv, GuardStep, PTL DEF GuardHonoured

\* It believes no empty source list either.
THEOREM EmptyListIsNotBelievedAfterHandover == HSpec => EmptyListNotBelieved
BY HandoverInv, EmptyListStep, PTL DEF EmptyListNotBelieved

\* And it writes no stranger's object that its cache had shown it.
THEOREM NoWriteIsBlindAfterHandover == HSpec => NoBlindWrite
BY HandoverInv, BlindWriteStep, PTL DEF NoBlindWrite
=============================================================================
