-------------------------- MODULE MCPublisherMetrics --------------------------
(* Instances of the publisher with its gauges: one in which removals are   *)
(* refused, for one reason and another, and the process dies; one in which *)
(* a single Location is published, edited and meddled with.                *)
EXTENDS PublisherMetrics

CONSTANTS n1, n2, c1, sjc, lax, blank

OneName == {n1}
TwoNames == {n1, n2}
OneCluster == {c1}
OneTopology == {sjc}
WithLaxAndBlank == {sjc, lax, blank}
JustBlank == {blank}
NoTopology == {}

\* At first every cluster is Ready: serving a Location, or not labelled yet.
ReadyFleet == MInit /\ \A c \in Clusters : clusters[c].ready
ReadyFleetSpec == ReadyFleet /\ [][MNext]_mvars /\ MFairness

Refusing == {"create", "delete", "cluster", "fault", "crash"}
Repair == {"create", "delete", "edit", "hub", "policy"}
=============================================================================
