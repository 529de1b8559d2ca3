-------------------------------- MODULE PulseV2 --------------------------------
(***************************************************************************)
(* PulseStrategyV2 and its copies for Camelot, QuickSwap, Kyber and        *)
(* PancakeSwap: an operator's rebalance keeps one position around the      *)
(* pool's tick and all tokens in it.  Root vault holders deposit to and    *)
(* withdraw from the same vaults in between, the AMM trades and the farm   *)
(* pays.                                                                   *)
(*                                                                         *)
(* An operator that stands before its namesake and is used nowhere is a    *)
(* wrong version of it, kept to show that the properties would notice.     *)
(*                                                                         *)
(* The tokens are worth the same at every tick.  The new position is       *)
(* opened with the strategy's own tokens, of which it has enough.  What a  *)
(* caller may add to narrow the outcome of a rebalance, a deadline, a      *)
(* minimum for the swap or the interval expected, is left out.             *)
(***************************************************************************)
EXTENDS AmmVaults, PulseMath

CONSTANTS
    MutableParams,  \* params that the admin tries
    FirstFarm,      \* the one that QuickSwap's vault starts with
    Openings,       \* liquidity that desiredAmounts buys; 0 before they are set
    Deposits,       \* what holders add to the ERC20Vault
    Asks,           \* what holders and the admin ask to pull
    MaxMoves,       \* bound on the steps other than rebalances
    MaxValue        \* bound on what rebalances that do not settle may bring in

MutableParamsType ==
    [defaultIntervalWidth : Int, maxPositionLengthInTicks : Int, maxDeviationForVaultPool : Int,
     neighborhoodFactorD : Nat, extensionFactorD : Nat, swapSlippageD : Nat,
     swappingAmountsCoefficientD : Nat, minSwapAmount : Nat]

ASSUME MutableParamsAssumption ==
    MutableParams \subseteq MutableParamsType /\ \E mp \in MutableParams : CheckMutableParams(mp)
ASSUME FirstFarmAssumption == FirstFarm \in Farms
ASSUME OpeningsAssumption == Openings \subseteq Nat
ASSUME AmountsAssumption == Deposits \subseteq Nat \X Nat /\ Asks \subseteq Nat \X Nat

VARIABLES
    mutableParams,
    force,    \* forceRebalanceWidthFlag
    opening,  \* desiredAmounts
    moves

vars == <<kind, tick, farm, vaults, mutableParams, force, opening, moves>>
settings == <<farm, mutableParams, force, opening>>

(* The strategy may start with its desired amounts set and with tokens     *)
(* already deposited.                                                      *)
Init ==
    /\ kind \in Kinds
    /\ tick \in Ticks
    /\ farm \in CASE kind = "QuickSwap" -> {FirstFarm}
                  [] kind = "Kyber" -> {FirstFarm, NoFarm}
                  [] OTHER -> {NoFarm}
    /\ \E idle \in Deposits \cup {Zero} : vaults =
            [positions |-> [nft \in NFT |-> NoPosition], nft |-> 0, inFarm |-> FALSE,
             stakedIn |-> NoFarm, reward |-> 0, idle |-> idle, leaving |-> Zero]
    /\ mutableParams \in {mp \in MutableParams : CheckMutableParams(mp)}
    /\ force = FALSE
    /\ opening \in Openings
    /\ moves = 0

-----------------------------------------------------------------------------
(* The position.                                                           *)

NeedsNewInterval(v) ==
    ~HasPosition(v) \/ force \/ ~Acceptable(mutableParams, Current(v), tick)

NewInterval(v) ==
    IF ~HasPosition(v) \/ force
    THEN FormPositionWithSpotTickInCenter(mutableParams, tick)
    ELSE CalculateNewPosition(mutableParams, Current(v), tick)

(* All of it, whatever the tick.                                           *)
WholePosition(v) == <<2 * Current(v).liquidity, 2 * Current(v).liquidity>>
PullWhole(v) == With(WholePosition(v), LAMBDA whole : VaultPull(v, "erc20Vault", whole))

UnusedNft(v) == Min({nft \in NFT : v.positions[nft] = NoPosition})
Minted(interval) ==
    [owner |-> "strategy", liquidity |-> opening, fees |-> Zero,
     tickLower |-> interval.tickLower, tickUpper |-> interval.tickUpper]
Mint(v) ==
    LET Open(interval) == Require(opening > 0,
                                  [v EXCEPT !.positions[UnusedNft(v)] = Minted(interval)])
    IN  With(NewInterval(v), Open)
(* The position manager burns an empty position for its owner.             *)
BurnNothing(v, nft) == {v}
Burn(v, nft) ==
    IF nft = 0 THEN {v}
    ELSE Require(v.positions[nft].owner = "strategy" /\ Cleared(v.positions[nft]),
                 [v EXCEPT !.positions[nft] = NoPosition])

OnERC721Received(v, nft) ==
    CASE kind = "UniV3" -> UniV3Received(v, nft)
      [] kind = "Camelot" -> CamelotReceived(v, nft)
      [] kind = "QuickSwap" -> QuickSwapReceived(v, nft)
      [] kind = "Kyber" -> KyberReceived(v, nft)
      [] kind = "PancakeSwap" -> PancakeSwapReceived(v, nft)

(* The old position has been given up, or there was none.                  *)
MintAndBurn(v) ==
    LET new == UnusedNft(v)
        Send(w) == OnERC721Received(w, new)
        BurnOld(w) == Burn(w, v.nft)
    IN  Then(Then(Mint(v), Send), BurnOld)
Replace(v, GiveUp(_)) == Then(IF HasPosition(v) THEN GiveUp(v) ELSE {v}, MintAndBurn)

UniV3PositionsRebalance(v) ==
    IF NeedsNewInterval(v) THEN Replace(v, PullWhole) ELSE UniV3CollectEarnings(v)
CamelotPositionsRebalance(v) ==
    IF NeedsNewInterval(v) THEN Replace(v, PullWhole) ELSE CamelotCollectEarnings(v)
QuickSwapPositionsRebalance(v) ==
    IF NeedsNewInterval(v)
    THEN Replace(v, LAMBDA w : Then(BurnFarmingPosition(w), PullWhole))
    ELSE Then(CollectRewards(v), QuickSwapCollectEarnings)
KyberPositionsRebalance(v) ==
    IF NeedsNewInterval(v) THEN Replace(v, PullWhole) ELSE {v}
PancakeSwapPositionsRebalance(v) ==
    IF NeedsNewInterval(v)
    THEN Replace(v, LAMBDA w : Then(PullWhole(w), UnstakeUniV3Nft))
    ELSE PancakeSwapCollectEarnings(v)

PositionsRebalance(v) ==
    CASE kind = "UniV3" -> UniV3PositionsRebalance(v)
      [] kind = "Camelot" -> CamelotPositionsRebalance(v)
      [] kind = "QuickSwap" -> QuickSwapPositionsRebalance(v)
      [] kind = "Kyber" -> KyberPositionsRebalance(v)
      [] kind = "PancakeSwap" -> PancakeSwapPositionsRebalance(v)

-----------------------------------------------------------------------------
(* The swap and the push.                                                  *)

Other(t) == 3 - t
Swapped(v, t, in, out) == [v EXCEPT !.idle[t] = @ - in, !.idle[Other(t)] = @ + out]

AcceptedSwaps(v, t, wanted) ==
    {Swapped(v, t, x[1], x[2]) :
        x \in {y \in (1..v.idle[t]) \X (0..v.idle[t]) :
                y[2] <= y[1] /\ Accepted(mutableParams, wanted, y[1], y[2])}}
SwapToTarget(v) ==
    LET Swap(swap) == IF swap.amountIn < mutableParams.minSwapAmount THEN {v}
                      ELSE AcceptedSwaps(v, swap.tokenIn, swap.amountIn)
        target == TargetRatioOfToken1(Current(v), tick)
    IN  IF v.idle = Zero THEN {} ELSE With(CalculateAmountsForSwap(v.idle, target), Swap)

PushIntoQuickSwap(v) ==
    LET Reopen(w) == OpenFarmingPosition(w, w.nft)
    IN  IF Staked(v) THEN Then(Then(BurnFarmingPosition(v), PullIdle), Reopen) ELSE PullIdle(v)
PushIntoVault(v) == IF kind = "QuickSwap" THEN PushIntoQuickSwap(v) ELSE PullIdle(v)

-----------------------------------------------------------------------------
(* The operator.                                                           *)

CheckTickDeviation ==
    \E averageTick \in Ticks :
        LET deviation == Max({tick - averageTick, averageTick - tick})
        IN  deviation < mutableParams.maxDeviationForVaultPool

(* What the vaults, the position and the rewards in the farm are worth.    *)
Amount(pair) == pair[1] + pair[2]
Value(v) ==
    Amount(v.idle) + v.reward
    + (IF HasPosition(v) THEN 2 * Current(v).liquidity + Amount(Current(v).fees) ELSE 0)

(* Each new position brings in what it is opened with.  Params for which   *)
(* no interval is acceptable have one minted at each rebalance; the model  *)
(* stops there once the vaults have enough.                                *)
(* An extension makes the interval longer by two spacings or more.         *)
IntervalsChosen(mp, spotTick) ==
    LET chosen[n \in Nat] ==
            IF n = 0 THEN {FormPositionWithSpotTickInCenter(mp, spotTick)}
            ELSE UNION {{p, CalculateNewPosition(mp, p, spotTick)} : p \in chosen[n - 1]}
    IN  chosen[Max({0, mp.maxPositionLengthInTicks \div (2 * TickSpacing)})]
ParamsLetItSettle ==
    \E p \in IntervalsChosen(mutableParams, tick) : Acceptable(mutableParams, p, tick)
WithinBound == ParamsLetItSettle \/ Value(vaults) < MaxValue

RebalanceResults ==
    Then(Then(PositionsRebalance(vaults), SwapToTarget), PushIntoVault)

Rebalance ==
    /\ WithinBound
    /\ kind # "Kyber"
    /\ CheckTickDeviation
    /\ UNCHANGED <<kind, tick, farm, mutableParams, opening, moves>>
    /\ force' = FALSE
    /\ vaults' \in RebalanceResults

(* This copy never clears the flag.                                        *)
KyberRebalance ==
    /\ kind = "Kyber"
    /\ CheckTickDeviation
    /\ UNCHANGED <<kind, tick, farm, mutableParams, force, opening, moves>>
    /\ vaults' \in RebalanceResults

-----------------------------------------------------------------------------
(* The admin.                                                              *)

Move == moves < MaxMoves /\ moves' = moves + 1

SetForceRebalanceFlag(newValue) ==
    /\ Move
    /\ force' = newValue
    /\ UNCHANGED <<kind, tick, farm, vaults, mutableParams, opening>>

UpdateDesiredAmounts(new) ==
    /\ Move
    /\ new > 0
    /\ opening' = new
    /\ UNCHANGED <<kind, tick, farm, vaults, mutableParams, force>>

UpdateMutableParams(mp) ==
    /\ Move
    /\ CheckMutableParams(mp)
    /\ mutableParams' = mp
    /\ UNCHANGED <<kind, tick, farm, vaults, force, opening>>

(* The vault governance's setStrategyParams; Kyber's vault keeps a copy.   *)
SetStrategyParams(f) ==
    /\ Move
    /\ kind \in {"QuickSwap", "Kyber"}
    /\ UpdateFarmInfo(f)
    /\ UNCHANGED <<kind, tick, vaults, mutableParams, force, opening>>

(* Only PancakeSwap's strategy has manualPull.                             *)
ManualPull(amounts) ==
    /\ Move
    /\ kind = "PancakeSwap"
    /\ vaults' \in VaultPull(vaults, "erc20Vault", amounts)
    /\ UNCHANGED <<kind, tick, settings>>

-----------------------------------------------------------------------------
(* Holders of the root vault, and anyone.                                  *)

DepositCallback(v) ==
    IF kind = "PancakeSwap" THEN Then(PancakeSwapCollectEarnings(v), PushIntoVault) ELSE PushIntoVault(v)

(* The root vault may have no callback, and carries on when it reverts.    *)
Deposit(amounts) ==
    LET deposited == [vaults EXCEPT !.idle = Plus(@, amounts)]
    IN  /\ Move
        /\ vaults' \in {deposited} \cup DepositCallback(deposited)
        /\ UNCHANGED <<kind, tick, settings>>

CallDepositCallback ==
    /\ Move
    /\ vaults' \in DepositCallback(vaults)
    /\ UNCHANGED <<kind, tick, settings>>

(* The root vault asks the ERC20Vault first and the other for the rest;    *)
(* what comes beyond that goes to the ERC20Vault.                          *)
Lesser(a, b) == <<Min({a[1], b[1]}), Min({a[2], b[2]})>>
PulledByRootVault(v, asked) ==
    LET atHand == Lesser(v.idle, asked)
        rest == Minus(asked, atHand)
        first == [v EXCEPT !.idle = Minus(@, atHand), !.leaving = atHand]
        Settle(w) == LET paid == Lesser(w.leaving, asked)
                     IN  {[w EXCEPT !.idle = Plus(@, Minus(w.leaving, paid)), !.leaving = Zero]}
    IN  Then(IF rest = Zero THEN {first} ELSE VaultPull(first, "rootVault", rest), Settle)

Withdraw(asked) ==
    /\ Move
    /\ vaults' \in PulledByRootVault(vaults, asked)
    /\ UNCHANGED <<kind, tick, settings>>

CollectEarnings ==
    /\ Move
    /\ vaults' \in CASE kind = "UniV3" -> UniV3CollectEarnings(vaults)
                     [] kind = "Camelot" -> CamelotCollectEarnings(vaults)
                     [] kind = "QuickSwap" -> QuickSwapCollectEarnings(vaults)
                     [] kind = "PancakeSwap" -> PancakeSwapCollectEarnings(vaults)
                     [] OTHER -> {}
    /\ UNCHANGED <<kind, tick, settings>>

(* collectRewards or compound.                                             *)
CollectFarmRewards ==
    /\ Move
    /\ vaults' \in CASE kind = "QuickSwap" -> CollectRewards(vaults)
                     [] kind = "PancakeSwap" -> Compound(vaults)
                     [] OTHER -> {}
    /\ UNCHANGED <<kind, tick, settings>>

-----------------------------------------------------------------------------
(* The AMM and the farm.                                                   *)

MoveTick(newTick) ==
    /\ Move
    /\ tick' = newTick
    /\ UNCHANGED <<kind, vaults, settings>>

AccrueFee(t) ==
    /\ Move
    /\ HasPosition(vaults) /\ Current(vaults).liquidity > 0
    /\ vaults' = [vaults EXCEPT !.positions[vaults.nft].fees[t] = @ + 1]
    /\ UNCHANGED <<kind, tick, settings>>

AccrueReward ==
    /\ Move
    /\ Staked(vaults) /\ Current(vaults).liquidity > 0
    /\ vaults' = [vaults EXCEPT !.reward = @ + 1]
    /\ UNCHANGED <<kind, tick, settings>>

-----------------------------------------------------------------------------
Next ==
    \/ Rebalance
    \/ KyberRebalance
    \/ CollectFarmRewards
    \/ \E newValue \in BOOLEAN : SetForceRebalanceFlag(newValue)
    \/ \E new \in Openings : UpdateDesiredAmounts(new)
    \/ \E mp \in MutableParams : UpdateMutableParams(mp)
    \/ \E f \in Farms : SetStrategyParams(f)
    \/ \E amounts \in Asks : ManualPull(amounts)
    \/ \E amounts \in Deposits : Deposit(amounts)
    \/ CallDepositCallback
    \/ \E asked \in Asks : Withdraw(asked)
    \/ CollectEarnings
    \/ \E newTick \in Ticks : MoveTick(newTick)
    \/ \E t \in 1..2 : AccrueFee(t)
    \/ AccrueReward

(* The operator's bot calls rebalance whenever the call would go through.  *)
Spec == Init /\ [][Next]_vars /\ WF_vars(Rebalance)

-----------------------------------------------------------------------------
(* One position: the only NFT is the vault's, and the vault, the farm and  *)
(* the position manager agree about where it is.  A position that stays    *)
(* with the strategy, or a flag that says otherwise than the farm, blocks  *)
(* every later call that touches the position.  Neither token is spent     *)
(* beyond what the ERC20Vault has.                                         *)
OnePosition ==
    /\ vaults.idle \in Nat \X Nat
    /\ \A nft \in NFT : nft = vaults.nft <=> vaults.positions[nft] # NoPosition
    /\ HasPosition(vaults) => Current(vaults).owner \in {"vault", "farm"}
    /\ Staked(vaults) <=> vaults.stakedIn # NoFarm
    /\ kind \in {"Kyber", "PancakeSwap"} => (vaults.inFarm <=> Staked(vaults))

(* A rebalance that changes the interval chooses one on the pool's grid    *)
(* that holds the tick, however far the tick was from the old one, and     *)
(* that is no longer than the params allow.                                *)
Bounds(v) == IF HasPosition(v) THEN <<Current(v).tickLower, Current(v).tickUpper>> ELSE <<>>
IntervalHoldsTheTick ==
    [][Bounds(vaults') # Bounds(vaults) =>
        LET p == vaults'.positions[vaults'.nft]
        IN  /\ p.tickLower % TickSpacing = 0 /\ p.tickUpper % TickSpacing = 0
            /\ p.tickLower <= tick /\ tick <= p.tickUpper
            /\ Length(p) <= Max({mutableParams.defaultIntervalWidth,
                                 mutableParams.maxPositionLengthInTicks})]_vars

(* No step but a holder's withdrawal makes the vaults, the position and    *)
(* the rewards in the farm worth less than before by more than the swap    *)
(* slippage that the params allow.  What the strategy opens a position     *)
(* with is not to hide a loss.                                             *)
OwnTokens == IF vaults'.nft # vaults.nft THEN 2 * opening ELSE 0
Withdrawal == \E asked \in Asks : Withdraw(asked)
ValueKept ==
    [][\/ D * (Value(vaults) + OwnTokens - Value(vaults'))
            <= mutableParams.swapSlippageD * (Value(vaults) + OwnTokens)
       \/ Withdrawal]_vars

(* A holder who owns everything can take all tokens but the fees and       *)
(* rewards not yet collected, wherever the tick is and whether or not a    *)
(* farm has the position.  The exceptions are a farm key that was changed  *)
(* while the position was in the farm, and Kyber's vault below the         *)
(* interval.                                                               *)
FarmKeyMatches ==
    kind \in {"QuickSwap", "Kyber"} => vaults.stakedIn \in {NoFarm, farm}
BelowInterval == HasPosition(vaults) /\ tick <= Current(vaults).tickLower
InPosition(v) ==
    IF HasPosition(v) THEN TokenAmounts(Current(v), Current(v).liquidity) ELSE Zero
WithdrawalTakesAll ==
    FarmKeyMatches /\ ~(kind = "Kyber" /\ BelowInterval) =>
        LET asked == Plus(vaults.idle, InPosition(vaults))
            results == PulledByRootVault(vaults, asked)
        IN  /\ results # {}
            /\ \A v \in results : /\ InPosition(v) = Zero
                                  /\ Value(v) = Value(vaults) - Amount(asked)

(* When nobody intervenes any more, the rebalances come to an end: the     *)
(* position is one that holds the tick with a margin, and no rebalance is  *)
(* forced.  Left out are tokens that are not there, desired amounts not    *)
(* set, a farm key changed under a staked position, and Kyber, whose vault *)
(* does not accept the second position.  And the params must let it:       *)
(* checkMutableParams sets no bound to neighborhoodFactorD, and if neither *)
(* the interval the strategy starts with at this tick nor one of those it  *)
(* extends that to is acceptable, each rebalance replaces the position.    *)
Settled == HasPosition(vaults) /\ ~NeedsNewInterval(vaults)
RebalancesSettle ==
    []<>(\/ Settled
         \/ ~ParamsLetItSettle
         \/ kind = "Kyber" \/ opening = 0 \/ ~FarmKeyMatches \/ Value(vaults) = 0)

(* The documentation of rebalance says "If necessary, a new position is    *)
(* minted on kyberVault, and the previous one is burned"                   *)
(* (KyberPulseStrategyV2.sol:135): with desired amounts set, tokens to     *)
(* swap and the farm's key in force, replacing the position should be      *)
(* possible.                                                               *)
KyberPositionIsReplaced ==
    /\ kind = "Kyber" /\ HasPosition(vaults) /\ NeedsNewInterval(vaults)
    /\ opening > 0 /\ FarmKeyMatches /\ Value(vaults) > 0
    => PositionsRebalance(vaults) # {}
=============================================================================
