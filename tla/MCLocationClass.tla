--------------------------- MODULE MCLocationClass ---------------------------
(* A small instance of the class controller.                               *)
EXTENDS LocationClass

CONSTANTS gold, silver

TwoClasses == {gold, silver}
Everyone == {"class", "location", "finalizer", "fault", "crash"}
=============================================================================
