--------------------------- MODULE LStrategyMath ---------------------------
(***************************************************************************)
(* The calculation LStrategy bases its orders and its rebalances on.       *)
(*                                                                         *)
(* An operator that stands before its namesake and is used nowhere is a    *)
(* wrong version of it, kept to show that the properties would notice.     *)
(***************************************************************************)
EXTENDS Integers

CONSTANT D  \* DENOMINATOR

ASSUME DenominatorAssumption == D \in Nat \ {0}

LiquidityDeltaReversed(lower, upper, targetD, minDeviation) ==
    LET target == (targetD * (lower + upper)) \div D
    IN  IF target > lower THEN [delta |-> target - lower, isNegative |-> FALSE]
        ELSE [delta |-> lower - target, isNegative |-> TRUE]

(* How much the lower amount is above or below (isNegative) its share of   *)
(* the total; nothing if it is closer than minDeviation.                   *)
LiquidityDelta(lower, upper, targetD, minDeviation) ==
    LET total == lower + upper
        target == (targetD * total) \div D
        ratioD == (lower * D) \div total
        deviation == IF targetD > ratioD THEN targetD - ratioD ELSE ratioD - targetD
    IN  IF minDeviation > 0 /\ deviation < minDeviation
        THEN [delta |-> 0, isNegative |-> FALSE]
        ELSE IF target > lower THEN [delta |-> target - lower, isNegative |-> TRUE]
        ELSE [delta |-> lower - target, isNegative |-> FALSE]

(* The deviation divides by the total, so there must be one.               *)
DeltaDefined(total, minDeviation) == minDeviation > 0 => total > 0
=============================================================================
