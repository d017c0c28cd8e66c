------------------------- MODULE MCLocationPublisher -------------------------
(* Small instances of the publisher.  Each .cfg chooses the kinds of       *)
(* interference, and the bounds that make them meet.                       *)
EXTENDS LocationPublisher

CONSTANTS n1, n2, c1, sjc

OneName == {n1}
TwoNames == {n1, n2}
OneCluster == {c1}
OneTopology == {sjc}
NoTopology == {}

Failing == {"create", "delete", "cluster", "override", "fault", "crash"}
Creating == {"create"}
=============================================================================
