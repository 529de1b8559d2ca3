----------------------------- MODULE SwapAmount -----------------------------
(***************************************************************************)
(* The swap-amount task: how much must be swapped to shift the price by    *)
(* some ticks when LStrategy's two positions are in the pool.  It splits   *)
(* a TVL between the positions the way LStrategy would, adds up what every *)
(* position gives and takes over the shift, and then mints the positions   *)
(* on a fork and makes the swaps to see whether the price goes there.      *)
(*                                                                         *)
(* Uniswap is external, and its curve replaced by a line, as in            *)
(* LStrategyPositions: a unit of liquidity is one token per unit of price, *)
(* PerTick of these are a tick, and the price of both tokens is one.  The  *)
(* tokens the task gets for itself are enough.                             *)
(*                                                                         *)
(* An operator that stands before its namesake and is used nowhere is a    *)
(* wrong version of it, kept to show that the properties would notice.     *)
(***************************************************************************)
EXTENDS LStrategyMath, FiniteSets

CONSTANTS
    Arguments,      \* given to the task
    tickSpacing, PerTick,
    Ether,          \* tokens of a unit of TVL
    ForkTick,       \* of the pool when the task begins
    ForkOffset,     \* of its price above the lowest of that tick
    midLiquidity,   \* of the pool's own position and the two utility positions
    denom,          \* of splitByRatio
    yRatioD,        \* of splitTvlByRatio
    fee, feeDenominator,
    ratioDeviationD \* LStrategy's minUniV3LiquidityRatioDeviationD

ASSUME PoolAssumption ==
    /\ {tickSpacing, PerTick, Ether, midLiquidity, denom, yRatioD, feeDenominator}
           \subseteq Nat \ {0}
    /\ ForkTick \in Int /\ ForkOffset \in 2..PerTick-1
    /\ fee \in 0..feeDenominator /\ ratioDeviationD \in 1..D
ASSUME ArgumentsAssumption ==
    \A a \in Arguments :
        /\ {a.shift, a.width, a.positionTick, a.poolTick} \subseteq Int
        /\ a.tvl \in Nat /\ a.verify \in BOOLEAN

VARIABLES
    args,
    at,       \* what the task does next, or how it ended
    context,  \* what it has calculated
    minted,   \* LStrategy's positions in the pool
    price,    \* of the pool
    out       \* of the last swap
vars == <<args, at, context, minted, price, out>>

Position(lower, upper, liquidity) ==
    [tickLower |-> lower, tickUpper |-> upper, liquidity |-> liquidity]
Within(a, lower, upper) == IF a < lower THEN lower ELSE IF a > upper THEN upper ELSE a
Distance(a, b) == IF a < b THEN b - a ELSE a - b
Rounded(n, d) == (2 * n + d) \div (2 * d)

-----------------------------------------------------------------------------
(* Uniswap.                                                                *)

Tick(p) == p \div PerTick
\* What of either token a unit of liquidity is at a price in the position.
Above(p, pos) == pos.tickUpper * PerTick - Within(p, pos.tickLower * PerTick, pos.tickUpper * PerTick)
Below(p, pos) == Within(p, pos.tickLower * PerTick, pos.tickUpper * PerTick) - pos.tickLower * PerTick

(* What a swap that moves the price between p and q takes and gives.       *)
Between(p, q) ==
    LET Of(pos) == pos.liquidity * Distance(Below(p, pos), Below(q, pos))
    IN  midLiquidity * Distance(p, q) + Of(minted.lower) + Of(minted.upper)

(* An exact amount moves the price as far as it goes.                      *)
Moved(amount, sign) ==
    price + sign * CHOOSE d \in 0..amount :
                       /\ Between(price, price + sign * d) <= amount
                       /\ Between(price, price + sign * (d + 1)) > amount
Net(amount) == amount + (-amount * fee) \div feeDenominator

(* Liquidity that can be paid with the amounts.                            *)
Affordable(pos, amounts) ==
    LET x == Above(price, pos)  y == Below(price, pos)
    IN  IF y = 0 THEN amounts.x \div x
        ELSE IF x = 0 THEN amounts.y \div y
        ELSE IF amounts.x \div x < amounts.y \div y THEN amounts.x \div x ELSE amounts.y \div y

-----------------------------------------------------------------------------
(* The calculation.                                                        *)

liquidityToY(tick, lower, liquidity) == liquidity * (tick - lower) * PerTick
liquidityToX(tick, upper, liquidity) == liquidity * (upper - tick) * PerTick
xToLiquidity(tick, upper, xAmount) == xAmount \div ((upper - tick) * PerTick)

\* The upper position is [positionTick, positionTick + width]; the lower one
\* is half a width below.
Upper == [tickLower |-> args.positionTick, tickUpper |-> args.positionTick + args.width]
Lower == [tickLower |-> args.positionTick - args.width \div 2,
          tickUpper |-> args.positionTick + args.width \div 2]

(* What of the TVL belongs in either position: all in the lower one at the *)
(* lowest tick of the overlap, all in the upper one at its highest.        *)
SplitTheOtherWay(value) ==
    LET ratio == Distance(args.poolTick, Upper.tickLower + args.width \div 2)
        half == args.width \div 2
    IN  [lower |-> (value * Rounded(denom * (half - ratio), half)) \div denom,
         upper |-> (value * Rounded(denom * ratio, half)) \div denom]
splitByRatio(value) ==
    LET ratio == Distance(args.poolTick, Upper.tickLower + args.width \div 2)
        half == args.width \div 2
    IN  [lower |-> (value * Rounded(denom * ratio, half)) \div denom,
         upper |-> (value * Rounded(denom * (half - ratio), half)) \div denom]

(* y of x and y in a position at the pool's tick, of yRatioD.              *)
countYRatio(bounds) ==
    LET c == (yRatioD * (args.poolTick - bounds.tickLower)) \div (bounds.tickUpper - args.poolTick)
    IN  Rounded(yRatioD * c, yRatioD + c)
splitTvlByRatio(value, yRatioN) ==
    LET xAmount == value - (value * yRatioN) \div yRatioD
    IN  [x |-> xAmount, y |-> value - xAmount]
Amounts(bounds, value) == splitTvlByRatio(value, countYRatio(bounds))
Counted(bounds, amounts) ==
    Position(bounds.tickLower, bounds.tickUpper,
             xToLiquidity(args.poolTick, bounds.tickUpper, amounts.x))

(* tokenAmountsToShiftPosition: a position changes as long as the price is *)
(* in it.  midLiquidity is everywhere.                                     *)
ShiftsAll(newTick, pos) ==
    [x |-> Distance(liquidityToX(newTick, pos.tickUpper, pos.liquidity),
                    liquidityToX(args.poolTick, pos.tickUpper, pos.liquidity)),
     y |-> Distance(liquidityToY(newTick, pos.tickLower, pos.liquidity),
                    liquidityToY(args.poolTick, pos.tickLower, pos.liquidity))]
ToShiftPosition(newTick, pos) ==
    LET to == Within(newTick, pos.tickLower, pos.tickUpper)
    IN  [x |-> Distance(liquidityToX(to, pos.tickUpper, pos.liquidity),
                        liquidityToX(args.poolTick, pos.tickUpper, pos.liquidity)),
         y |-> Distance(liquidityToY(to, pos.tickLower, pos.liquidity),
                        liquidityToY(args.poolTick, pos.tickLower, pos.liquidity))]
ToShiftMid(from, to) == midLiquidity * Distance(from, to) * PerTick
WithFee(amount) == amount + (amount * fee) \div feeDenominator

(* Token 0 to lower the price by `shift` and token 1 to raise it.          *)
SwapAmounts(lower, upper) ==
    LET down == args.poolTick - args.shift  up == args.poolTick + args.shift
    IN  [down |-> WithFee(ToShiftPosition(down, lower).x + ToShiftPosition(down, upper).x
                              + ToShiftMid(args.poolTick, down)),
         up |-> WithFee(ToShiftPosition(up, lower).y + ToShiftPosition(up, upper).y
                            + ToShiftMid(args.poolTick, up))]

-----------------------------------------------------------------------------
(* The steps of the task.  What throws or reverts ends it.                 *)

Then(from, possible, to) == at = from /\ at' = IF possible THEN to ELSE "threw"
Swaps(p) == price' = p /\ out' = Between(price, p) /\ UNCHANGED <<args, context, minted>>

(* The message says what is accepted.  verify is used nowhere else: the    *)
(* simulation is always made.                                              *)
Accepted ==
    /\ args.width % 10 = 0
    /\ args.positionTick % 10 = 0
    /\ args.poolTick \in args.positionTick..(args.positionTick + args.width \div 2)
    /\ args.verify => args.tvl <= 10

Check ==
    /\ at = "check"
    /\ at' = IF Accepted THEN "count" ELSE "refused"
    /\ UNCHANGED <<args, context, minted, price, out>>

(* A pool at the end of the lower position is a division by zero.          *)
CountSwapAmount ==
    LET parts == splitByRatio(args.tvl * Ether)
        lower == Amounts(Lower, parts.lower)
        upper == Amounts(Upper, parts.upper)
        possible == args.poolTick < Lower.tickUpper
    IN  /\ Then("count", possible, "start")
        /\ context' = IF possible
                      THEN [lower |-> lower, upper |-> upper,
                            swap |-> SwapAmounts(Counted(Lower, lower), Counted(Upper, upper))]
                      ELSE context
        /\ UNCHANGED <<args, minted, price, out>>

(* Utility positions carry midLiquidity to all ticks; the price moves to   *)
(* just above the lowest of its tick.                                      *)
SetUpPool ==
    /\ Then("start", TRUE, "shift")
    /\ Swaps(Moved(midLiquidity * (price - Tick(price) * PerTick) - midLiquidity, -1))

(* Output of nothing reverts.                                              *)
ShiftToPoolTick ==
    LET from == Tick(price)  to == args.poolTick
        possible == from # to
    IN  /\ Then("shift", possible, "mintLower")
        /\ IF possible THEN Swaps(Moved(ToShiftMid(from, to), IF to > from THEN 1 ELSE -1))
           ELSE UNCHANGED <<args, context, minted, price, out>>

(* Mints need ticks of the spacing and some liquidity.                     *)
Mint(which, bounds, to) ==
    LET amounts == context[which]
        pos == Position(bounds.tickLower, bounds.tickUpper, Affordable(bounds, amounts))
        possible == /\ bounds.tickLower % tickSpacing = 0 /\ bounds.tickUpper % tickSpacing = 0
                    /\ pos.liquidity > 0
    IN  /\ Then(IF which = "lower" THEN "mintLower" ELSE "mintUpper", possible, to)
        /\ minted' = IF possible THEN [minted EXCEPT ![which] = pos] ELSE minted
        /\ UNCHANGED <<args, context, price, out>>
MintLower == Mint("lower", Lower, "mintUpper")
MintUpper == Mint("upper", Upper, "swapDown")

(* An input of nothing reverts; the tick must be where it was wanted, or   *)
(* next to it.                                                             *)
SwapDown ==
    LET amount == context.swap.down
    IN  /\ Swaps(Moved(Net(amount), -1))
        /\ Then("swapDown", amount > 0 /\ Distance(args.poolTick - Tick(price'), args.shift) <= 1,
                "unswap")

Unswap ==
    /\ Then("unswap", TRUE, "swapUp")
    /\ Swaps(Moved(Net(WithFee(out)), 1))

SwapUp ==
    LET amount == context.swap.up
    IN  /\ Swaps(Moved(Net(amount), 1))
        /\ Then("swapUp", Distance(Tick(price') - args.poolTick, args.shift) <= 1, "done")

Init ==
    /\ args \in Arguments
    /\ at = "check" /\ out = 0
    /\ context = [lower |-> [x |-> 0, y |-> 0], upper |-> [x |-> 0, y |-> 0],
                  swap |-> [down |-> 0, up |-> 0]]
    /\ minted = [lower |-> Position(0, 0, 0), upper |-> Position(0, 0, 0)]
    /\ price = ForkTick * PerTick + ForkOffset
Next ==
    \/ Check \/ CountSwapAmount \/ SetUpPool \/ ShiftToPoolTick \/ MintLower \/ MintUpper
    \/ SwapDown \/ Unswap \/ SwapUp
Spec == Init /\ [][Next]_vars

-----------------------------------------------------------------------------
(* Properties.                                                             *)

\* Not the ends of the interval, half a width of whole tick spacings, a pool
\* that is to move at all.
Inside ==
    /\ args.shift > 0 /\ args.tvl > 0
    /\ (args.width \div 2) % tickSpacing = 0
    /\ args.poolTick # args.positionTick
    /\ args.poolTick # args.positionTick + args.width \div 2
    /\ args.poolTick # ForkTick

(* The amounts shift the price by `shift` ticks, give or take one, both    *)
(* downwards and, from where it came back to, upwards: also when it leaves *)
(* a position on its way, and nothing else stops the task.                 *)
AmountsShiftThePrice == Inside => at # "threw"

(* The positions are those at which LStrategy is at rest: at the pool's    *)
(* tick, rebalanceUniV3Vaults would move no liquidity between them.        *)
PositionsAreAtRest ==
    at \in {"swapDown", "unswap", "swapUp", "done"} /\ Inside =>
        LET ratioD == (Distance(args.poolTick, args.positionTick) * D) \div (args.width \div 2)
        IN  LiquidityDelta(minted.lower.liquidity, minted.upper.liquidity, D - ratioD,
                           ratioDeviationD).delta = 0
=============================================================================
