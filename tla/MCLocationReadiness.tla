------------------------- MODULE MCLocationReadiness -------------------------
(* Small instances of the readiness and acceptance reconcilers.            *)
EXTENDS LocationReadiness

CONSTANTS gold, n1

OneClass == {gold}
OneName == {n1}
Everyone == {"class", "location", "edit", "other", "fault", "crash"}
=============================================================================
