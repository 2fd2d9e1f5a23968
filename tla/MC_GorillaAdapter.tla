------------------------- MODULE MC_GorillaAdapter -------------------------
(* Small instance of GorillaAdapter for TLC: two Ping goroutines, two     *)
(* connections, three Ping calls and a pingRequests capacity of two.      *)
EXTENDS GorillaAdapter, TLC

CONSTANTS p1, p2

MCPingers == {p1, p2}

\* Ping goroutines are interchangeable: they only index functions.
MCSymmetry == Permutations(MCPingers)
=============================================================================
