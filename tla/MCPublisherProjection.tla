------------------------ MODULE MCPublisherProjection ------------------------
(* The instance in which removals meet everything that could mislead them. *)
EXTENDS PublisherProjection, TLC

CONSTANTS n1, n2, c1, sjc

TwoNames == {n1, n2}
OneCluster == {c1}
OneTopology == {sjc}
NoTopology == {}

Interchangeable == Permutations(TwoNames)

Contending == {"crash", "create", "delete", "hub", "cluster", "override"}
=============================================================================
