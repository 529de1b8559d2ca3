--------------------------- MODULE MC_PriceSearch ---------------------------
(* Ticks of three units; a pool up to twice as deep as where it is least,  *)
(* which the first amount crosses from end to end.                         *)
EXTENDS PriceSearch

MCTargets == {-24, -3, 0, 3, 30}
MCLeast(a) == (a + 1) \div 2
=============================================================================
