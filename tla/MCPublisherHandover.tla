------------------------- MODULE MCPublisherHandover -------------------------
(* The instance in which publishers follow one another while Locations     *)
(* come and go.                                                            *)
EXTENDS PublisherHandover

CONSTANTS n1, n2, c1, sjc, blank

TwoNames == {n1, n2}
OneCluster == {c1}
WithBlank == {sjc, blank}
JustBlank == {blank}
NoTopology == {}

Failing == {"create", "delete", "cluster", "override", "hub", "fault", "crash"}

\* It starts where two Locations have been published and everything has come
\* to rest, with any fleet.
PublishedCopy ==
    [topology |-> sjc, foreignKey |-> FALSE, generation |-> 1, publishedAt |-> 0,
     owned |-> TRUE, blocked |-> NotBlocked, override |-> FALSE]

Settled ==
    /\ source = [n \in Names |-> [generation |-> 1, topology |-> sjc]]
    /\ srcCache = source /\ srcWatch = <<>>
    /\ hub = [n \in Names |-> PublishedCopy] /\ hubCache = hub /\ hubWatch = <<>>
    /\ policy = [n \in Names |-> "applied"] /\ policyWatch = {}
    /\ clusters \in [Clusters -> Cluster]
    /\ clock = 0
    /\ queue = {}
    /\ step = "idle" /\ request = Absent /\ location = Absent /\ published = Absent
    /\ steady = Clusters /\ grounds = FALSE
    /\ budget = MaxDisturbances
    /\ late = NoCall

SettledSpec == Settled /\ [][HNext]_hvars /\ HFairness
=============================================================================
