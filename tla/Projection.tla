------------------------------ MODULE Projection ------------------------------
(* What the publisher promises to those who read the hub, whatever happens *)
(* between the two control planes: what it publishes was declared, and     *)
(* what it takes away it was cleared to take away, by a fleet that did not *)
(* need it at that moment or by somebody who said so.                      *)
(*                                                                         *)
(* There are no caches, events, calls or failures here: those are how      *)
(* LocationPublisher does it.                                              *)
EXTENDS Naturals

CONSTANTS
    Names,      \* names of Locations
    Versions,   \* what a Location, or a copy, may say
    Clusters,   \* the fleet
    Unlabelled, \* the label of a cluster that may serve anything
    None        \* no copy

Cluster == [ready : BOOLEAN, label : Names \cup {Unlabelled}]

VARIABLES
    declared,   \* all that each Location ever said
    copies,     \* what each copy on the hub says
    foreign,    \* the copies last written by somebody else
    overridden, \* the names somebody ever overrode the guard for
    fleet,      \* the clusters
    cleared     \* the removals under way that may go through

vars == <<declared, copies, foreign, overridden, fleet, cleared>>

Init ==
    /\ declared = [n \in Names |-> {}]
    /\ copies = [n \in Names |-> None]
    /\ foreign = {} /\ overridden = {} /\ cleared = {}
    /\ fleet \in [Clusters -> Cluster]

-----------------------------------------------------------------------------
(* Everybody else.                                                         *)

Declare(n) ==
    /\ \E v \in Versions : declared' = [declared EXCEPT ![n] = @ \cup {v}]
    /\ UNCHANGED <<copies, foreign, overridden, fleet, cleared>>

FleetChange(c) ==
    /\ \E v \in Cluster : fleet' = [fleet EXCEPT ![c] = v]
    /\ UNCHANGED <<declared, copies, foreign, overridden, cleared>>

Override(n) ==
    /\ overridden' = overridden \cup {n}
    /\ UNCHANGED <<declared, copies, foreign, fleet, cleared>>

Intrude(n) ==
    /\ \E v \in Versions \cup {None} : copies' = [copies EXCEPT ![n] = v]
    /\ foreign' = foreign \cup {n}
    /\ UNCHANGED <<declared, overridden, fleet, cleared>>

-----------------------------------------------------------------------------
(* The publisher.                                                          *)

\* The hub is given something the Location said, now or before.
Publish(n) ==
    /\ \E v \in declared[n] : copies' = [copies EXCEPT ![n] = v]
    /\ foreign' = foreign \ {n}
    /\ UNCHANGED <<declared, overridden, fleet, cleared>>

InTheWay(n) == {c \in Clusters : fleet[c].ready /\ fleet[c].label \in {n, Unlabelled}}

Clear(n) ==
    /\ n \in overridden \/ InTheWay(n) = {}
    /\ cleared' = cleared \cup {n}
    /\ UNCHANGED <<declared, copies, foreign, overridden, fleet>>

\* A clearance that was not used is lost, by a failure or a restart.
Lapse(n) ==
    /\ cleared' = cleared \ {n}
    /\ UNCHANGED <<declared, copies, foreign, overridden, fleet>>

\* A clearance is good for one removal.
Retire(n) ==
    /\ n \in cleared
    /\ copies' = [copies EXCEPT ![n] = None]
    /\ foreign' = foreign \ {n}
    /\ cleared' = cleared \ {n}
    /\ UNCHANGED <<declared, overridden, fleet>>

Next ==
    \/ \E n \in Names : Declare(n) \/ Override(n) \/ Intrude(n)
    \/ \E c \in Clusters : FleetChange(c)
    \/ \E n \in Names : Publish(n) \/ Clear(n) \/ Lapse(n) \/ Retire(n)

Spec == Init /\ [][Next]_vars

-----------------------------------------------------------------------------

\* A copy nobody else wrote says something its Location said: "Everything
\* downstream is a projection of that declaration".
Faithful == \A n \in Names : copies[n] = None \/ n \in foreign \/ copies[n] \in declared[n]
=============================================================================
