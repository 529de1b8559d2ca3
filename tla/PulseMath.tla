------------------------------- MODULE PulseMath -------------------------------
(***************************************************************************)
(* What the Pulse strategies of version 2 calculate: the interval of the   *)
(* next position and the swap that prepares the tokens for it.  The five   *)
(* strategies share these functions word for word.                         *)
(*                                                                         *)
(* An operator that stands before its namesake and is used nowhere is a    *)
(* wrong version of it, kept to show that the properties would notice.     *)
(***************************************************************************)
EXTENDS Integers, FiniteSetsExt

CONSTANTS
    D,           \* D9 of the source, the denominator of shares
    TickSpacing  \* of the pool

ASSUME DenominatorAssumption == D \in Nat \ {0}
ASSUME SpacingAssumption == TickSpacing \in Nat \ {0}

(* Solidity's remainder has the sign of the dividend.                      *)
Remainder(a, b) == IF a >= 0 THEN a % b ELSE -((-a) % b)

-----------------------------------------------------------------------------
(* The interval.                                                           *)

(* Below zero the center is the next multiple above, however far.          *)
CentralTick(spotTick) ==
    LET remainder == Remainder(spotTick, TickSpacing)
    IN  spotTick - remainder + (IF remainder * 2 > TickSpacing THEN TickSpacing ELSE 0)

FormPositionWithSpotTickInCenter(mp, spotTick) ==
    [tickLower |-> CentralTick(spotTick) - mp.defaultIntervalWidth \div 2,
     tickUpper |-> CentralTick(spotTick) + mp.defaultIntervalWidth \div 2]

Length(p) == p.tickUpper - p.tickLower
Neighborhood(mp, p) == (Length(p) * mp.neighborhoodFactorD) \div D
MinAcceptableTick(mp, p) == p.tickLower + Neighborhood(mp, p)
MaxAcceptableTick(mp, p) == p.tickUpper - Neighborhood(mp, p)
Acceptable(mp, p, spotTick) ==
    MinAcceptableTick(mp, p) <= spotTick /\ spotTick <= MaxAcceptableTick(mp, p)

(* To the next multiple; an interval that is replaced is always extended.  *)
RoundedUp(n) ==
    TickSpacing * (IF n = 0 THEN 1 ELSE (n + TickSpacing - 1) \div TickSpacing)
Closeness(mp, p, spotTick) ==
    LET below == MinAcceptableTick(mp, p) - spotTick
        above == spotTick - MaxAcceptableTick(mp, p)
    IN  IF above > below THEN above ELSE below
SideExtensionWithoutCloseness(mp, p, spotTick) ==
    RoundedUp((Neighborhood(mp, p) * mp.extensionFactorD) \div D)
SideExtension(mp, p, spotTick) ==
    RoundedUp(Closeness(mp, p, spotTick)
              + (Neighborhood(mp, p) * mp.extensionFactorD) \div D)
Extended(p, extension) ==
    [tickLower |-> p.tickLower - extension, tickUpper |-> p.tickUpper + extension]

CalculateNewPosition(mp, p, spotTick) ==
    LET extended == Extended(p, SideExtension(mp, p, spotTick))
    IN  IF Length(extended) > mp.maxPositionLengthInTicks
        THEN FormPositionWithSpotTickInCenter(mp, spotTick) ELSE extended

-----------------------------------------------------------------------------
(* The swap, both tokens being worth the same.  Ratios are in halves: the  *)
(* target is none, half or all of token 1.                                 *)

TargetRatioOfToken1(p, spotTick) ==
    IF p.tickLower >= spotTick THEN 0 ELSE IF p.tickUpper <= spotTick THEN 2 ELSE 1

(* The index of the token to sell, and how much of it.  Nothing is         *)
(* calculated for no tokens: the source divides by their sum.              *)
CalculateAmountsForSwap(amounts, ratio1) ==
    LET ratio0 == 2 - ratio1
    IN  IF 2 * amounts[2] > ratio1 * (amounts[1] + amounts[2])
        THEN [tokenIn |-> 2,
              amountIn |-> (amounts[2] * ratio0) \div 2 - (ratio1 * amounts[1]) \div 2]
        ELSE [tokenIn |-> 1,
              amountIn |-> (amounts[1] * ratio1) \div 2 - (ratio0 * amounts[2]) \div 2]

Share(n, lessD) == (n * (D - lessD)) \div D

(* What the strategy accepts of the router.                                *)
AcceptedUnpriced(mp, wanted, in, out) ==
    /\ in > 0 /\ out >= 0
    /\ Share(wanted, mp.swappingAmountsCoefficientD) <= in
    /\ Share(in, mp.swappingAmountsCoefficientD) <= wanted
Accepted(mp, wanted, in, out) ==
    /\ in > 0 /\ out >= 0
    /\ in * (D - mp.swapSlippageD) <= out * D
    /\ Share(wanted, mp.swappingAmountsCoefficientD) <= in
    /\ Share(in, mp.swappingAmountsCoefficientD) <= wanted

-----------------------------------------------------------------------------
(* checkMutableParams                                                      *)

CheckMutableParams(mp) ==
    /\ mp.defaultIntervalWidth > 0
    /\ mp.defaultIntervalWidth % (2 * TickSpacing) = 0
    /\ mp.maxDeviationForVaultPool > 0
    /\ mp.swapSlippageD <= D
    /\ mp.swappingAmountsCoefficientD <= D
=============================================================================
