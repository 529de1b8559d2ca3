------------------------------- MODULE AmmVaults -------------------------------
(***************************************************************************)
(* The vaults that hold one position of an AMM: UniV3Vault, CamelotVault,  *)
(* QuickSwapVault, KyberVault and PancakeSwapVault.  The last three keep   *)
(* the position's NFT in a farm; QuickSwap asks the farm whether it is     *)
(* there, Kyber and PancakeSwap remember it.                               *)
(*                                                                         *)
(* A transaction makes several calls in turn.  A call is an operator that  *)
(* maps what the vaults hold before it to the set of what they may hold    *)
(* after it: the empty set when it reverts, more than one when something   *)
(* outside decides.                                                        *)
(*                                                                         *)
(* The AMM and the farms are external.  The AMM's curve is replaced by     *)
(* steps: a unit of liquidity is worth two tokens, one of each inside the  *)
(* interval and both of one kind outside, so that a position is worth the  *)
(* same at every tick.  Fees and rewards come one at a time.               *)
(*                                                                         *)
(* An operator that stands before its namesake and is used nowhere is a    *)
(* wrong version of it, kept to show that the properties would notice.     *)
(***************************************************************************)
EXTENDS Integers, FiniteSetsExt

CONSTANTS
    Kinds,  \* the AMMs considered
    Farms,  \* Kyber's farm and pid, or QuickSwap's incentive key
    NoFarm,
    Ticks   \* where the pool's tick may be

ASSUME KindAssumption == Kinds \subseteq {"UniV3", "Camelot", "QuickSwap", "Kyber", "PancakeSwap"}
ASSUME FarmAssumption == NoFarm \notin Farms
ASSUME TickAssumption == Ticks \subseteq Int

VARIABLES
    kind,    \* which AMM the vault is for
    tick,    \* spot tick of the pool, its price exactly that tick's
    farm,    \* the farm that the vault's strategy params name
    vaults   \* what the vaults hold, a record:
             \*   positions  the position manager's, by NFT
             \*   nft        uniV3Nft, positionNft or kyberNft; 0 is none
             \*   inFarm     isLiquidityInFarm or _isPositionInFarm
             \*   stakedIn   the farm that has the NFT, the farm's own record
             \*   reward     what that farm owes
             \*   idle       the two tokens in the ERC20Vault
             \*   leaving    the two tokens in the root vault, in a withdrawal

(* A transaction holds two positions at most, but a wrong one might more.  *)
NFT == 1..3
NoPosition == [owner |-> "nobody"]

Owner == {"vault", "farm", "strategy"}
Zero == <<0, 0>>
Plus(a, b) == <<a[1] + b[1], a[2] + b[2]>>
Minus(a, b) == <<a[1] - b[1], a[2] - b[2]>>

(* Calls in sequence, one with a value calculated for it, and a condition  *)
(* for going on.                                                           *)
Then(results, Call(_)) == UNION {Call(v) : v \in results}
With(value, Call(_)) == Then({value}, Call)
Require(condition, v) == IF condition THEN {v} ELSE {}

Current(v) == v.positions[v.nft]
HasPosition(v) == v.nft # 0
Staked(v) == HasPosition(v) /\ Current(v).owner = "farm"

Pay(v, to, amounts) ==
    IF to = "erc20Vault" THEN [v EXCEPT !.idle = Plus(@, amounts)]
    ELSE [v EXCEPT !.leaving = Plus(@, amounts)]

-----------------------------------------------------------------------------
(* The AMM.                                                                *)

PerLiquidity(p) == IF tick <= p.tickLower THEN <<2, 0>>
                   ELSE IF tick >= p.tickUpper THEN <<0, 2>> ELSE <<1, 1>>
TokenAmounts(p, liquidity) ==
    LET per == PerLiquidity(p) IN <<per[1] * liquidity, per[2] * liquidity>>
Liquidities(p, amounts) ==
    LET per == PerLiquidity(p) IN {amounts[t] \div per[t] : t \in {u \in 1..2 : per[u] > 0}}
Liquidity(p, amounts) == Min(Liquidities(p, amounts))
MaximalLiquidity(p, amounts) == Max(Liquidities(p, amounts))

(* increaseLiquidity is open to everybody; what follows is not.            *)
IncreaseLiquidity(v, amounts) ==
    LET liquidity == Liquidity(Current(v), amounts)
    IN  [v EXCEPT !.positions[v.nft].liquidity = @ + liquidity,
                  !.idle = Minus(@, TokenAmounts(Current(v), liquidity))]

Collect(v, to) == Pay([v EXCEPT !.positions[v.nft].fees = Zero], to, Current(v).fees)
DecreaseLiquidity(v, liquidity, to) ==
    Pay([v EXCEPT !.positions[v.nft].liquidity = @ - liquidity],
        to, TokenAmounts(Current(v), liquidity))
TakeOutWithoutFees(v, liquidity, to) ==
    Require(Current(v).owner = "vault", DecreaseLiquidity(v, liquidity, to))
TakeOut(v, liquidity, to) ==
    Require(Current(v).owner = "vault", Collect(DecreaseLiquidity(v, liquidity, to), to))

(* What becomes of an NFT that moves.                                      *)
Moved(v, nft, to) == [v EXCEPT !.positions[nft].owner = to]
Cleared(p) == p.liquidity = 0 /\ p.fees = Zero

-----------------------------------------------------------------------------
(* The farms.  One that does not have the NFT reverts.                     *)

Harvested(v, to) == Pay([v EXCEPT !.reward = 0], to, <<v.reward, 0>>)
EnterFarm(v, nft, f) ==
    Require(f \in Farms /\ v.positions[nft].owner = "vault",
            [Moved(v, nft, "farm") EXCEPT !.stakedIn = f])
LeaveFarm(v, f) ==
    Require(f \in Farms /\ v.stakedIn = f,
            [Moved(v, v.nft, "vault") EXCEPT !.stakedIn = NoFarm])

-----------------------------------------------------------------------------
(* What a pull takes.  In KyberHelper the result for a pool below the      *)
(* interval is computed and dropped.                                       *)

LiquidityToPull(p, amounts) == Min({p.liquidity, MaximalLiquidity(p, amounts)})
KyberLiquidityToPull(p, amounts) ==
    IF tick <= p.tickLower THEN 0 ELSE LiquidityToPull(p, amounts)

PullUpTo(v, to, amounts) ==
    With(LiquidityToPull(Current(v), amounts), LAMBDA n : TakeOut(v, n, to))

(* A position that takes none of what is offered is left alone.            *)
NothingToPush(v, amounts) == ~HasPosition(v) \/ Liquidity(Current(v), amounts) = 0

-----------------------------------------------------------------------------
(* UniV3Vault                                                              *)

UniV3Push(v, amounts) ==
    IF NothingToPush(v, amounts) THEN {v} ELSE {IncreaseLiquidity(v, amounts)}

UniV3Pull(v, to, amounts) ==
    IF ~HasPosition(v) THEN {v} ELSE PullUpTo(v, to, amounts)

UniV3CollectEarnings(v) ==
    Require(HasPosition(v) /\ Current(v).owner = "vault", Collect(v, "erc20Vault"))

UniV3Received(v, new) ==
    IF ~HasPosition(v) THEN {[Moved(v, new, "vault") EXCEPT !.nft = new]}
    ELSE Require(/\ Cleared(Current(v))
                 /\ Current(v).owner = "vault",
                 [Moved(Moved(v, new, "vault"), v.nft, "strategy") EXCEPT !.nft = new])

-----------------------------------------------------------------------------
(* CamelotVault: fees of the old position are not asked for.               *)

CamelotPush(v, amounts) ==
    IF NothingToPush(v, amounts) THEN {v} ELSE {IncreaseLiquidity(v, amounts)}

CamelotPull(v, to, amounts) ==
    IF ~HasPosition(v) THEN {v} ELSE PullUpTo(v, to, amounts)

CamelotCollectEarnings(v) ==
    IF ~HasPosition(v) THEN {v}
    ELSE Require(Current(v).owner = "vault", Collect(v, "erc20Vault"))

CamelotReceived(v, new) ==
    IF ~HasPosition(v) THEN {[Moved(v, new, "vault") EXCEPT !.nft = new]}
    ELSE Require(/\ Current(v).liquidity = 0
                 /\ Current(v).owner = "vault",
                 [Moved(Moved(v, new, "vault"), v.nft, "strategy") EXCEPT !.nft = new])

-----------------------------------------------------------------------------
(* QuickSwapVault: rewards are looked up under the key in force, and so is *)
(* the farm to leave.                                                      *)

CollectRewards(v) ==
    IF Staked(v) /\ v.stakedIn = farm THEN {Harvested(v, "erc20Vault")} ELSE {v}

OpenFarmingPosition(v, nft) == EnterFarm(v, nft, farm)
BurnFarmingPosition(v) == LET Leave(w) == LeaveFarm(w, farm) IN Then(CollectRewards(v), Leave)

QuickSwapPush(v, amounts) ==
    IF NothingToPush(v, amounts) THEN {v} ELSE {IncreaseLiquidity(v, amounts)}

QuickSwapPull(v, to, amounts) ==
    LET Take(w) == PullUpTo(w, to, amounts)
        Reopen(w) == OpenFarmingPosition(w, w.nft)
    IN  IF ~HasPosition(v) THEN {v}
        ELSE IF Staked(v) THEN Then(Then(BurnFarmingPosition(v), Take), Reopen)
        ELSE Take(v)

(* Collected through the farming center, which must have the NFT.          *)
QuickSwapCollectEarnings(v) ==
    IF ~HasPosition(v) THEN {v} ELSE Require(Staked(v), Collect(v, "erc20Vault"))

QuickSwapReceived(v, new) ==
    LET arrived == Moved(v, new, "vault")
        Replace(w) == {[w EXCEPT !.nft = new]}
    IN  IF ~HasPosition(v) THEN Then(OpenFarmingPosition(arrived, new), Replace)
        ELSE Then(Then(Require(/\ Current(v).liquidity = 0
                               /\ Current(v).owner = "vault",
                               Moved(arrived, v.nft, "strategy")),
                       LAMBDA w : OpenFarmingPosition(w, new)),
                  Replace)

-----------------------------------------------------------------------------
(* KyberVault: a farm that is unset leaves the NFT where it is.            *)

DepositIntoFarm(v) ==
    IF farm = NoFarm \/ ~HasPosition(v) THEN {v}
    ELSE IF Current(v).liquidity = 0 THEN {v}
    ELSE EnterFarm([v EXCEPT !.inFarm = TRUE], v.nft, farm)

WithdrawFromFarm(v, to) ==
    IF farm = NoFarm \/ ~HasPosition(v) \/ ~v.inFarm THEN {v}
    ELSE LeaveFarm(Harvested([v EXCEPT !.inFarm = FALSE], to), farm)

KyberPush(v, amounts) ==
    LET Add(w) == {IncreaseLiquidity(w, amounts)}
    IN  IF NothingToPush(v, amounts) THEN {v}
        ELSE Then(Then(WithdrawFromFarm(v, "erc20Vault"), Add), DepositIntoFarm)

(* Fees come with the liquidity or not at all.                             *)
KyberPull(v, to, amounts) ==
    LET Take(w) == With(KyberLiquidityToPull(Current(w), amounts),
                        LAMBDA n : IF n = 0 THEN {w} ELSE TakeOut(w, n, to))
    IN  IF ~HasPosition(v) THEN {v}
        ELSE Then(Then(WithdrawFromFarm(v, to), Take), DepositIntoFarm)

(* It is the new position that has to be empty.                            *)
KyberReceived(v, new) ==
    LET arrived == Moved(v, new, "vault")
        Return(w) == Require(/\ Cleared(w.positions[new])
                             /\ Current(w).owner = "vault",
                             Moved(w, w.nft, "strategy"))
        Replace(w) == {[w EXCEPT !.nft = new]}
    IN  IF ~HasPosition(v) THEN Then(Replace(arrived), DepositIntoFarm)
        ELSE Then(Then(Then(WithdrawFromFarm(arrived, "erc20Vault"), Return), Replace),
                  DepositIntoFarm)

(* setStrategyParams passes a new farm on at once, whatever is staked.     *)
UpdateFarmInfo(f) == farm' = f

-----------------------------------------------------------------------------
(* PancakeSwapVault: whether MasterChef takes the NFT is its decision, and *)
(* a refusal is ignored.  It pays nothing for an NFT that it has not.      *)

Compound(v) == IF Staked(v) THEN {Harvested(v, "erc20Vault")} ELSE {v}

MasterChef == CHOOSE f \in Farms : TRUE
StakeUniV3Nft(v) ==
    IF v.inFarm \/ Current(v).liquidity = 0 THEN {v}
    ELSE {v} \cup EnterFarm([v EXCEPT !.inFarm = TRUE], v.nft, MasterChef)

UnstakeForgotten(v) ==
    IF ~v.inFarm THEN {v}
    ELSE Then(Compound(v), LAMBDA w : LeaveFarm(w, w.stakedIn))
UnstakeUniV3Nft(v) ==
    IF ~v.inFarm THEN {v}
    ELSE Then(Compound(v), LAMBDA w : LeaveFarm([w EXCEPT !.inFarm = FALSE], w.stakedIn))

PancakeSwapPush(v, amounts) ==
    LET Add(w) == {IncreaseLiquidity(w, amounts)}
    IN  IF NothingToPush(v, amounts) THEN {v}
        ELSE Then(Then(UnstakeUniV3Nft(v), Add), StakeUniV3Nft)

PancakeSwapPull(v, to, amounts) ==
    LET Take(w) == PullUpTo(w, to, amounts)
    IN  IF ~HasPosition(v) THEN {v}
        ELSE Then(Then(UnstakeUniV3Nft(v), Take), StakeUniV3Nft)

PancakeSwapCollectEarnings(v) ==
    Then(Compound(v), LAMBDA w : Require(Staked(w), Collect(w, "erc20Vault")))

PancakeSwapReceived(v, new) ==
    IF ~HasPosition(v) THEN {[Moved(v, new, "vault") EXCEPT !.nft = new]}
    ELSE Require(/\ Cleared(Current(v))
                 /\ Current(v).owner = "vault",
                 [Moved(Moved(v, new, "vault"), v.nft, "strategy") EXCEPT !.nft = new])

-----------------------------------------------------------------------------
(* The vault in use.                                                       *)

VaultPush(v, amounts) ==
    CASE kind = "UniV3" -> UniV3Push(v, amounts)
      [] kind = "Camelot" -> CamelotPush(v, amounts)
      [] kind = "QuickSwap" -> QuickSwapPush(v, amounts)
      [] kind = "Kyber" -> KyberPush(v, amounts)
      [] kind = "PancakeSwap" -> PancakeSwapPush(v, amounts)

VaultPull(v, to, amounts) ==
    CASE kind = "UniV3" -> UniV3Pull(v, to, amounts)
      [] kind = "Camelot" -> CamelotPull(v, to, amounts)
      [] kind = "QuickSwap" -> QuickSwapPull(v, to, amounts)
      [] kind = "Kyber" -> KyberPull(v, to, amounts)
      [] kind = "PancakeSwap" -> PancakeSwapPull(v, to, amounts)

(* ERC20Vault.pull to the vault: it pushes all it gets and takes back what *)
(* is left over.                                                           *)
PullIdle(v) == IF v.idle = Zero THEN {v} ELSE VaultPush(v, v.idle)
=============================================================================
