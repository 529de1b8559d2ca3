------------------------ MODULE MC_GearboxRootVault ------------------------
(* Two users, a token of two decimals (pull existential 10), fees on every *)
(* elapsed time unit and on profits.                                       *)
EXTENDS GearboxRootVault
=============================================================================
