--------------------------- MODULE MCCellIdentity ---------------------------
(* A small fleet.                                                          *)
EXTENDS CellIdentity

CONSTANTS n1, n2, c1, c2

TwoNames == {n1, n2}
TwoCells == {c1, c2}
=============================================================================
