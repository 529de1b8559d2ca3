------------------------- MODULE LStrategyPositions -------------------------
(***************************************************************************)
(* LStrategy's two Uniswap positions.  Both are W ticks wide and overlap   *)
(* by half; the nearer the target tick comes to the end of the overlap,    *)
(* the more liquidity the strategy shifts to that side.  When the target   *)
(* leaves the overlap, the position left behind is emptied, closed and     *)
(* opened again on the other side.  A second rebalance moves capital       *)
(* between the ERC20Vault and the two.                                     *)
(*                                                                         *)
(* Uniswap is external, and its curve replaced by a line: a unit of        *)
(* liquidity is one token per tick, of token 0 above the pool's tick and   *)
(* of token 1 below it.  So positions are worth the same at every tick,    *)
(* the price of both tokens is one, and nothing is rounded but by the      *)
(* strategy.  What a user's call leaves in the vaults, fees of the pool    *)
(* and the market are external too; what opens a position is the           *)
(* strategy's own.                                                         *)
(*                                                                         *)
(* An operator that stands before its namesake and is used nowhere is a    *)
(* wrong version of it, kept to show that the properties would notice.     *)
(***************************************************************************)
EXTENDS LStrategyMath, FiniteSetsExt

CONSTANTS
    Vault1, Vault2,  \* the two UniV3Vaults
    W,               \* intervalWidthInTicks
    Ticks,           \* where pool and target may be
    Existential,     \* pullExistentials
    OpeningLiquidity,  \* what minToken0ForOpening and minToken1ForOpening open
    erc20UniV3CapitalRatioD, minErc20UniV3CapitalRatioDeviationD,
    minUniV3LiquidityRatioDeviationD,  \* RatioParams
    SecondsBetweenRebalances,
    IdleBalances,        \* balances users may leave in the ERC20Vault
    MaxMoves         \* bound on what the environment and the admin do

(* Amounts of tokens[0] and tokens[1] are a pair.                          *)
TokenIndex == 1..2

ASSUME VaultAssumption == Vault1 # Vault2
Vault == {Vault1, Vault2}
(* The width is a multiple of an even tick spacing, so that its middle is  *)
(* a tick, and a uint16, far below DENOMINATOR.                            *)
ASSUME TickAssumption == W \in Nat \ {0} /\ W % 2 = 0 /\ W <= D /\ Ticks \subseteq Int
ASSUME PositionParamsAssumption ==
    /\ {Existential, SecondsBetweenRebalances, MaxMoves} \subseteq Nat
    /\ OpeningLiquidity \in Nat \ {0}
    /\ {erc20UniV3CapitalRatioD, minErc20UniV3CapitalRatioDeviationD,
        minUniV3LiquidityRatioDeviationD} \subseteq 0..D
    /\ IdleBalances \subseteq Nat

VARIABLES
    lowerVault, upperVault,
    position,  \* [Vault -> position], the NFT a vault holds
    idle,      \* tokens of the ERC20Vault
    tick,      \* of the pool
    target,    \* tick of the oracle's price
    sinceERC20UniV3, sinceUniV3,  \* time since the two kinds of rebalance
    moves

timeVars == <<sinceERC20UniV3, sinceUniV3>>
marketVars == <<tick, target>>
positionsVars == <<lowerVault, upperVault, position, idle, marketVars, timeVars, moves>>

Least(a, b) == IF a < b THEN a ELSE b
NoTokens == <<0, 0>>
Both(n) == <<n, n>>
Plus(a, b) == <<a[1] + b[1], a[2] + b[2]>>
Minus(a, b) == <<a[1] - b[1], a[2] - b[2]>>
AtMostAnything(a, b) == a
AtMost(a, b) == <<Least(a[1], b[1]), Least(a[2], b[2])>>

-----------------------------------------------------------------------------
(* Uniswap.                                                                *)

(* Ticks of the position above and below the pool's tick.                  *)
Within(t, p) == IF t < p.tickLower THEN p.tickLower
                ELSE IF t > p.tickUpper THEN p.tickUpper ELSE t
PerLiquidity(p) == <<p.tickUpper - Within(tick, p), Within(tick, p) - p.tickLower>>

(* liquidityToTokenAmounts, and the liquidity that some tokens amount to.  *)
TokenAmounts(p, liquidity) ==
    LET per == PerLiquidity(p) IN <<per[1] * liquidity, per[2] * liquidity>>
Liquidities(p, amounts) ==
    LET per == PerLiquidity(p)
    IN  {amounts[t] \div per[t] : t \in {u \in TokenIndex : per[u] > 0}}
Liquidity(p, amounts) == Min(Liquidities(p, amounts))

-----------------------------------------------------------------------------
(* The two kinds of vault.                                                 *)

(* A pull of a UniV3Vault takes everything owed with it, and nothing less  *)
(* than it was asked for unless the position has less.                     *)
NotEmptied(p) == p
Emptied(p) == [p EXCEPT !.owed = NoTokens]
Pulled(p, liquidity) == [Emptied(p) EXCEPT !.liquidity = @ - liquidity]
PullFunds(p, liquidity) == Plus(p.owed, TokenAmounts(p, liquidity))

(* A pull of the ERC20Vault offers as much of `amounts` as `funds` has,    *)
(* and reclaims what does not fit the position.                            *)
PushedLiquidity(p, amounts, funds) == Liquidity(p, AtMost(amounts, funds))
Pushed(p, liquidity) == [p EXCEPT !.liquidity = @ + liquidity]

-----------------------------------------------------------------------------
(* rebalanceERC20UniV3Vaults                                               *)

(* _getCapital, with what is owed.                                         *)
UniV3Capital(p) == p.liquidity * W + p.owed[1] + p.owed[2]
SumUniV3Capital(lower, upper) == UniV3Capital(lower) + UniV3Capital(upper)
ERC20Capital(funds) == funds[1] + funds[2]

(* Both positions give or get the same percentage.                         *)
Part(p, percentageD) == (percentageD * p.liquidity) \div D

GatherCapital(lower, upper, funds, percentageD) ==
    LET partLower == Part(lower, percentageD)  partUpper == Part(upper, percentageD)
    IN  /\ position' = [position EXCEPT ![lowerVault] = Pulled(lower, partLower),
                                        ![upperVault] = Pulled(upper, partUpper)]
        /\ idle' = Plus(Plus(funds, PullFunds(lower, partLower)), PullFunds(upper, partUpper))

SpreadCapital(lower, upper, funds, percentageD) ==
    LET toLower == IF lower.liquidity = 0 THEN 0
                   ELSE PushedLiquidity(lower, TokenAmounts(lower, Part(lower, percentageD)), funds)
        left == Minus(funds, TokenAmounts(lower, toLower))
        toUpper == IF upper.liquidity = 0 THEN 0
                   ELSE PushedLiquidity(upper, TokenAmounts(upper, Part(upper, percentageD)), left)
    IN  /\ position' = [position EXCEPT ![lowerVault] = Pushed(lower, toLower),
                                        ![upperVault] = Pushed(upper, toUpper)]
        /\ idle' = Minus(left, TokenAmounts(upper, toUpper))

MoveCapital(lower, upper, funds) ==
    LET sum == SumUniV3Capital(lower, upper)
        change == LiquidityDelta(ERC20Capital(funds), sum, erc20UniV3CapitalRatioD,
                                 minErc20UniV3CapitalRatioDeviationD)
        percentageD == (D * change.delta) \div sum
    IN  /\ DeltaDefined(ERC20Capital(funds) + sum, minErc20UniV3CapitalRatioDeviationD)
        /\ \/ /\ change.delta = 0
              /\ position' = [position EXCEPT ![lowerVault] = lower, ![upperVault] = upper]
              /\ idle' = funds
           \/ /\ change.delta > 0 /\ sum > 0
              /\ IF change.isNegative THEN GatherCapital(lower, upper, funds, percentageD)
                 ELSE SpreadCapital(lower, upper, funds, percentageD)

(* Positions that are both empty first get something to grow from.         *)
OpenAndMoveCapital(lower, upper) ==
    LET toLower == PushedLiquidity(lower, Both(Existential), idle)
        left == Minus(idle, TokenAmounts(lower, toLower))
        toUpper == PushedLiquidity(upper, Both(Existential), left)
    IN  MoveCapital(Pushed(lower, toLower), Pushed(upper, toUpper),
                    Minus(left, TokenAmounts(upper, toUpper)))

RebalanceERC20UniV3Vaults ==
    LET lower == position[lowerVault]  upper == position[upperVault]
    IN  /\ sinceERC20UniV3 >= SecondsBetweenRebalances
        /\ IF SumUniV3Capital(lower, upper) = 0 THEN OpenAndMoveCapital(lower, upper)
           ELSE MoveCapital(lower, upper, idle)
        /\ sinceERC20UniV3' = 0
        /\ UNCHANGED <<lowerVault, upperVault, marketVars, sinceUniV3, moves>>

-----------------------------------------------------------------------------
(* rebalanceUniV3Vaults                                                    *)

Mid(p) == (p.tickUpper + p.tickLower) \div 2

(* targetUniV3LiquidityRatio                                               *)
TargetIsBelow == Mid(position[lowerVault]) > target
TargetUniV3LiquidityRatioD ==
    LET p == position[lowerVault]
        distance == IF TargetIsBelow THEN Mid(p) - target ELSE target - Mid(p)
    IN  (distance * D) \div ((p.tickUpper - p.tickLower) \div 2)
TargetIsAbove == ~TargetIsBelow /\ TargetUniV3LiquidityRatioD > D

(* The liquidity for which the ERC20Vault can pay the difference between   *)
(* what the one position needs and the other one gives.                    *)
UncutLiquidity(from, to, liquidity) == liquidity
AffordableLiquidity(from, to, liquidity) ==
    LET deposit == TokenAmounts(to, D)
        withdraw == TokenAmounts(from, D)
        Cut(l, t) ==
            IF idle[t] + (withdraw[t] * l) \div D < (deposit[t] * l) \div D
            THEN Least(l, (idle[t] * D) \div (deposit[t] - withdraw[t]))
            ELSE l
    IN  Cut(Cut(liquidity, 1), 2)

(* _rebalanceUniV3Liquidity: `withdrawn` leaves the position of `from`, as *)
(* much as possible of `deposited` enters that of `to`.                    *)
MoveLiquidity(from, to, withdrawn, deposited) ==
    LET funds == Plus(idle, PullFunds(position[from], withdrawn))
        pushed == PushedLiquidity(position[to], TokenAmounts(position[to], deposited), funds)
    IN  /\ position' = [position EXCEPT ![from] = Pulled(@, withdrawn),
                                        ![to] = Pushed(@, pushed)]
        /\ idle' = Minus(funds, TokenAmounts(position[to], pushed))

UniV3Rebalanced ==
    /\ sinceUniV3' = 0
    /\ UNCHANGED <<marketVars, sinceERC20UniV3, moves>>

(* The target left the overlap: first all liquidity is taken to the        *)
(* position on its side, as far as that can be paid, ...                   *)
LeaveVault(from, to) ==
    LET all == position[from].liquidity
    IN  /\ all > 0
        /\ MoveLiquidity(from, to, all, AffordableLiquidity(position[from], position[to], all))
        /\ UniV3Rebalanced
        /\ UNCHANGED <<lowerVault, upperVault>>

(* ... then, in another call, _swapVaults.                                 *)
AdjacentInterval(p, positiveTickGrowth) ==
    IF positiveTickGrowth THEN <<p.tickUpper, p.tickUpper + W>>
    ELSE <<p.tickLower - W, p.tickLower>>
NextInterval(p, positiveTickGrowth) ==
    IF positiveTickGrowth THEN <<Mid(p), Mid(p) + W>> ELSE <<Mid(p) - W, Mid(p)>>

SwapVaults(from, to, positiveTickGrowth) ==
    LET interval == NextInterval(position[to], positiveTickGrowth)
    IN  /\ position[from].liquidity = 0
        /\ position' = [position EXCEPT ![from] =
                           [tickLower |-> interval[1], tickUpper |-> interval[2],
                            liquidity |-> OpeningLiquidity, owed |-> NoTokens]]
        /\ idle' = Plus(idle, position[from].owed)
        /\ lowerVault' = upperVault /\ upperVault' = lowerVault
        /\ UniV3Rebalanced

(* The target is in the overlap: the ratio of the liquidities follows it.  *)
ShiftLiquidity ==
    LET lower == position[lowerVault]  upper == position[upperVault]
        change == LiquidityDelta(lower.liquidity, upper.liquidity,
                      D - TargetUniV3LiquidityRatioD, minUniV3LiquidityRatioDeviationD)
        upwards == AffordableLiquidity(lower, upper, Least(change.delta, lower.liquidity))
        downwards == AffordableLiquidity(upper, lower, Least(change.delta, upper.liquidity))
    IN  /\ \/ /\ change.delta = 0
              /\ UNCHANGED <<position, idle>>
           \/ /\ change.delta > 0 /\ change.isNegative
              /\ MoveLiquidity(upperVault, lowerVault, downwards, downwards)
           \/ /\ change.delta > 0 /\ ~change.isNegative
              /\ MoveLiquidity(lowerVault, upperVault, upwards, upwards)
        /\ UniV3Rebalanced
        /\ UNCHANGED <<lowerVault, upperVault>>

(* What the call requires: the time has passed, the vault whose position   *)
(* is to be replaced is owed nothing after collectEarnings, and the        *)
(* deviation is not divided by zero.                                       *)
RebalanceSucceeds ==
    LET lower == position[lowerVault]  upper == position[upperVault]
        Replaceable(p) == p.liquidity = 0 => Emptied(p).owed = NoTokens
    IN  /\ sinceUniV3 >= SecondsBetweenRebalances
        /\ TargetIsBelow => Replaceable(upper)
        /\ TargetIsAbove => Replaceable(lower)
        /\ ~TargetIsBelow /\ ~TargetIsAbove =>
               DeltaDefined(lower.liquidity + upper.liquidity, minUniV3LiquidityRatioDeviationD)

RebalanceUniV3Vaults ==
    /\ RebalanceSucceeds
    /\ \/ TargetIsBelow /\ LeaveVault(upperVault, lowerVault)
       \/ TargetIsBelow /\ SwapVaults(upperVault, lowerVault, FALSE)
       \/ TargetIsAbove /\ LeaveVault(lowerVault, upperVault)
       \/ TargetIsAbove /\ SwapVaults(lowerVault, upperVault, TRUE)
       \/ ~TargetIsBelow /\ ~TargetIsAbove /\ ShiftLiquidity

-----------------------------------------------------------------------------
(* Everybody else.                                                         *)

Move == moves < MaxMoves /\ moves' = moves + 1

(* UniV3Vault.collectEarnings, for anybody.                                *)
CollectEarnings(v) ==
    /\ Move
    /\ position' = [position EXCEPT ![v] = Emptied(@)]
    /\ idle' = Plus(idle, position[v].owed)
    /\ UNCHANGED <<lowerVault, upperVault, marketVars, timeVars>>

CollectUniFees ==
    /\ Move
    /\ position' = [v \in Vault |-> Emptied(position[v])]
    /\ idle' = Plus(Plus(idle, position[lowerVault].owed), position[upperVault].owed)
    /\ UNCHANGED <<lowerVault, upperVault, marketVars, timeVars>>

(* manualPull by the admin, and what deposits and withdrawals of the root  *)
(* vault do to the positions.                                              *)
ManualPull(v) ==
    /\ Move
    /\ \/ /\ position' = [position EXCEPT ![v] = Pulled(@, @.liquidity)]
          /\ idle' = Plus(idle, PullFunds(position[v], position[v].liquidity))
       \/ LET pushed == PushedLiquidity(position[v], Both(Existential), idle)
          IN  /\ position' = [position EXCEPT ![v] = Pushed(@, pushed)]
              /\ idle' = Minus(idle, TokenAmounts(position[v], pushed))
    /\ UNCHANGED <<lowerVault, upperVault, marketVars, timeVars>>

(* Deposits, withdrawals and orders that are filled.                       *)
LeaveTokens(t, b) ==
    /\ Move
    /\ idle' = [idle EXCEPT ![t] = b]
    /\ UNCHANGED <<lowerVault, upperVault, position, marketVars, timeVars>>

EarnFees(v, t) ==
    /\ Move
    /\ position[v].liquidity > 0
    /\ position' = [position EXCEPT ![v].owed[t] = @ + 1]
    /\ UNCHANGED <<lowerVault, upperVault, idle, marketVars, timeVars>>

MoveMarket(poolTick, oracleTick) ==
    /\ Move
    /\ tick' = poolTick /\ target' = oracleTick
    /\ UNCHANGED <<lowerVault, upperVault, position, idle, timeVars>>

(* Times since a rebalance matter up to SecondsBetweenRebalances.          *)
PassTime ==
    /\ Least(sinceERC20UniV3, sinceUniV3) < SecondsBetweenRebalances
    /\ sinceERC20UniV3' = Least(sinceERC20UniV3 + 1, SecondsBetweenRebalances)
    /\ sinceUniV3' = Least(sinceUniV3 + 1, SecondsBetweenRebalances)
    /\ UNCHANGED <<lowerVault, upperVault, position, idle, marketVars, moves>>

(* The strategy is set up with two open positions around the price.        *)
PositionsInit ==
    /\ lowerVault = Vault1 /\ upperVault = Vault2
    /\ position = [v \in Vault |->
                      [tickLower |-> IF v = lowerVault THEN 0 ELSE W \div 2,
                       tickUpper |-> IF v = lowerVault THEN W ELSE W + W \div 2,
                       liquidity |-> OpeningLiquidity, owed |-> NoTokens]]
    /\ idle \in {Both(b) : b \in IdleBalances}
    /\ tick = W \div 2 /\ target = W \div 2
    /\ sinceERC20UniV3 = SecondsBetweenRebalances
    /\ sinceUniV3 = SecondsBetweenRebalances
    /\ moves = 0

PositionsNext ==
    \/ RebalanceERC20UniV3Vaults
    \/ RebalanceUniV3Vaults
    \/ \E v \in Vault : CollectEarnings(v)
    \/ CollectUniFees
    \/ \E v \in Vault : ManualPull(v)
    \/ \E t \in TokenIndex, b \in IdleBalances : LeaveTokens(t, b)
    \/ \E v \in Vault, t \in TokenIndex : EarnFees(v, t)
    \/ \E p, o \in Ticks : MoveMarket(p, o)
    \/ PassTime

(* Time passes, and the operator keeps rebalancing the positions: weak     *)
(* fairness of RebalanceUniV3Vaults, which is enabled if RebalanceSucceeds *)
(* and alone resets sinceUniV3, so that the fairness can be stated of that *)
(* variable.                                                               *)
Fairness == WF_positionsVars(PassTime) /\ WF_sinceUniV3(RebalanceSucceeds /\ sinceUniV3' = 0)

PositionsSpec == PositionsInit /\ [][PositionsNext]_positionsVars /\ Fairness

-----------------------------------------------------------------------------
(* Properties.                                                             *)

Position == [tickLower : Int, tickUpper : Int, liquidity : Nat, owed : Nat \X Nat]

PositionsTypeOK ==
    /\ {lowerVault, upperVault} = Vault
    /\ position \in [Vault -> Position]
    /\ idle \in Nat \X Nat
    /\ sinceERC20UniV3 \in Nat /\ sinceUniV3 \in Nat

(* Both intervals are W wide, and the upper one begins in the middle of    *)
(* the lower one, however often they have changed places.                  *)
IntervalsOverlapByHalf ==
    LET lower == position[lowerVault]  upper == position[upperVault]
    IN  /\ upper.tickLower = lower.tickLower + W \div 2
        /\ lower.tickUpper = lower.tickLower + W
        /\ upper.tickUpper = upper.tickLower + W

(* Inside the overlap a rebalance takes from one position exactly the      *)
(* liquidity it gives to the other, so that nothing is left in the         *)
(* ERC20Vault, and it does not go beyond the target ratio.                 *)
Lower == position[lowerVault].liquidity
Upper == position[upperVault].liquidity
LiquidityMovesWhole ==
    [][RebalanceUniV3Vaults /\ ~TargetIsBelow /\ ~TargetIsAbove =>
          LET share == (D - TargetUniV3LiquidityRatioD) * (Lower + Upper)
          IN  /\ Lower' + Upper' = Lower + Upper
              /\ Lower' > Lower => Lower' * D <= share
              /\ Lower' < Lower => Lower' * D > share - D]_positionsVars

(* A rebalance between the ERC20Vault and the positions never moves the    *)
(* ERC20Vault's share of the capital away from its target.  Past it, it    *)
(* moves by less than one token when it gives, and when it takes by no     *)
(* more than the fees it collects: they count as capital of the positions, *)
(* but all of them come with any percentage of the liquidity.              *)
CapitalMovesTowardsTarget ==
    [][LET sum == SumUniV3Capital(position[lowerVault], position[upperVault])
           total == ERC20Capital(idle) + sum
           excess == ERC20Capital(idle) * D - erc20UniV3CapitalRatioD * total
           excessThen == ERC20Capital(idle') * D - erc20UniV3CapitalRatioD * total
           fees == ERC20Capital(Plus(position[lowerVault].owed, position[upperVault].owed))
       IN  RebalanceERC20UniV3Vaults /\ sum > 0 =>
               IF excess >= 0 THEN -D < excessThen /\ excessThen <= excess
               ELSE excess <= excessThen /\ excessThen <= D * fees]_positionsVars

(* Once the market rests and capital is not moved to and from the          *)
(* ERC20Vault, the operator's rebalances bring the overlap of the two      *)
(* intervals to the target tick, and leave it there.  (Without the second  *)
(* condition they may not: if the ERC20Vault lacks the token the other     *)
(* position needs, that rebalance can open the position again that this    *)
(* one has just emptied to replace it.)                                    *)
OverlapHoldsTarget ==
    Mid(position[lowerVault]) <= target /\ target <= Mid(position[upperVault])
RebalancesSettle ==
    <>[][~RebalanceERC20UniV3Vaults]_positionsVars => <>[]OverlapHoldsTarget

(* The two positions fit each other.                                       *)
PositionsFit == PositionsTypeOK /\ IntervalsOverlapByHalf

(* Both kinds of rebalance move what they move towards their target, and   *)
(* the one between the positions leaves nothing behind.                    *)
RebalancesMeetTarget == LiquidityMovesWhole /\ CapitalMovesTowardsTarget
=============================================================================
