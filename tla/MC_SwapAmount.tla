--------------------------- MODULE MC_SwapAmount ---------------------------
(* Widths that are and are not twice the tick spacing, pools at both ends  *)
(* of the overlap and inside it, and shifts that stay in the positions and *)
(* that leave them.                                                        *)
EXTENDS SwapAmount

MCArguments ==
    [shift : {-4, 0, 1, 4, 15, 35}, width : {15, 10, 20, 40}, positionTick : {-10, 0, 5},
     poolTick : {-6, -1, 0, 2, 3, 5, 7, 10, 20}, tvl : {0, 1, 12}, verify : BOOLEAN]
=============================================================================
