-------------------------- MODULE PublisherHandover --------------------------
(* A publisher dies, or loses the lease, while a call of its is on the way *)
(* to the hub; the next one lists its caches and starts.  The call may be  *)
(* lost, or land at any time after that, on whatever the next publisher    *)
(* has made of the hub since.                                              *)
EXTENDS LocationPublisher

VARIABLE
    late \* the call of a former publisher that is still on its way

hvars == <<vars, late>>

Calls == {"apply", "policy", "clear", "record", "delete", "deletePolicy"}

\* A call carries all it needs: no cache is read when it lands.
Call == [kind : Calls, name : Names, object : Copy \cup {Absent}]

NoCall == Absent

LateTypeOK == TypeOK /\ late \in Call \cup {NoCall}

HInit == Init /\ late = NoCall

\* The call the worker is making, if it is making one to the hub.
Sent ==
    IF step \in Calls
    THEN {[kind   |-> step,
           name   |-> request,
           object |-> CASE step = "apply" -> Applied(Absent)
                        [] step = "record" -> published
                        [] OTHER -> Absent]}
    ELSE {}

\* One publisher stops and the next one starts.
Handover ==
    /\ Restart
    /\ late' \in {late} \cup Sent

\* What a call makes of the object it finds.
Landed(object) ==
    CASE late.kind = "delete" -> Absent
      [] late.kind = "apply" ->
           [late.object EXCEPT !.foreignKey = object # Absent /\ object.foreignKey,
                               !.blocked = IF object = Absent THEN NotBlocked ELSE object.blocked,
                               !.override = object # Absent /\ object.override]
      [] late.kind = "record" /\ object # Absent -> [object EXCEPT !.blocked = late.object.blocked]
      [] late.kind = "clear" /\ object # Absent -> [object EXCEPT !.blocked = NotBlocked]
      [] OTHER -> Absent

LateCallLands ==
    /\ late # NoCall
    /\ IF late.kind \in {"policy", "deletePolicy"}
       THEN /\ WritePolicy(late.name, IF late.kind = "policy" THEN "applied" ELSE "absent")
            /\ UNCHANGED hubVars
       ELSE WriteHub(late.name, Landed(hub[late.name])) /\ UNCHANGED policyVars
    /\ late' = NoCall
    /\ UNCHANGED <<sourceVars, cacheVars, workerVars, historyVars, clusters, clock, queue, budget>>

LateCallLost ==
    /\ late # NoCall
    /\ late' = NoCall
    /\ UNCHANGED vars

HNext ==
    \/ /\ \/ Interference
          \/ DeliverSource \/ DeliverHub \/ DeliverPolicy
          \/ Publisher
          \/ CallFails
       /\ UNCHANGED late
    \/ Handover
    \/ LateCallLands \/ LateCallLost

HSpec == HInit /\ [][HNext]_hvars

\* As in LocationPublisher; and no call is on its way for ever.
HFairness ==
    /\ WF_hvars(DeliverSource /\ UNCHANGED late)
    /\ WF_hvars(DeliverHub /\ UNCHANGED late)
    /\ WF_hvars(DeliverPolicy /\ UNCHANGED late)
    /\ WF_hvars(PublisherCall /\ UNCHANGED late)
    /\ WF_hvars(LateCallLands \/ LateCallLost)
    /\ \A n \in Names : SF_hvars(BeginReconcile(n) /\ UNCHANGED late)

FairHSpec == HSpec /\ HFairness
=============================================================================
