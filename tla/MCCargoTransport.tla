-------------------------- MODULE MCCargoTransport --------------------------
(* An instance of CargoTransport small enough for TLC: one leg and one      *)
(* consignment in transit, two requests at a time.  With deadlines and      *)
(* arrivals on days 1 and 3 the margin takes each side of the threshold of  *)
(* two days, and is overrun.                                                *)
EXTENDS CargoTransport, TLC

CONSTANTS s1, s2, l1, c1

Symmetry == Permutations(Session)
=============================================================================
