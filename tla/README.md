# A TLA+ model of Mellow Vaults

This directory specifies, model-checks and partly proves the core of Mellow
Vaults. On chain: vault systems whose *root vault* issues LP shares against tokens
that *subvaults* keep or lend out, that *strategies* move, and that a chain of
*governance* contracts configures. Off chain: the *scripts* that deploy the
protocol, hand it over to its admin and build strategies, and the *tasks* that
simulate LStrategy. Source paths below are relative to the repository root
(`src/vaults/...`, `deploy/...`, `tasks/...`).

Contents: [inventory](#inventory) · [modules](#modules) · [runs](#runs) ·
[proofs](#proofs) · [limits](#not-modelled-and-why) · [plan](#plan).

## Inventory

One EVM transaction is atomic, and most entry points are `nonReentrant`, so
concurrency here is the order in which depositors, strategies, keepers,
governance, Aave/Uniswap/Gearbox and the clock take their turns. A step of the
models is one external call.

| component | state | operations | talks to | what makes it correct |
|---|---|---|---|---|
| **ERC20RootVault** + AggregateVault + ERC20Token | LP balances and supply, fee time, high-water mark, withdrawals of the block, depositor allowlist | deposit, withdraw, LP transfer, allowlist, fees inside both | subvaults (tvl, push, pull), governance, oracle, strategy callbacks | a deposit dilutes nobody; a withdrawal pays at most the share; fees only on profit; no token appears or vanishes |
| **ERC20Vault** ("zero vault") | its token balances | push (no-op), pull to a sibling, reclaim | siblings | moves what it says it moves |
| **AaveVault** | aToken balances, cached tvls and their time | push, pull, updateTvls, reclaimTokens | Aave pool | the cached tvl is never above what is there |
| **YearnVault**, **MellowVault**, **Aura**, **Balancer** vaults | receipt tokens | push, pull, claim | external protocols | as above |
| **UniV3Vault**, **QuickSwap**, **Kyber**, **PancakeSwap**, **Camelot** vaults | position NFT, staked or not, owed fees | push, pull, collectEarnings/compound, replacement of the NFT | AMM, farming pools | one position at a time, the fees of a replaced one collected first |
| **GearboxRootVault** | LP balances, epochs, requests per user, tokens set aside for claims, price per epoch | deposit, registerWithdrawal, cancelWithdrawal, invokeExecution, withdraw, shutdown, reopen | GearboxVault, ERC20Vault | requests are settled once, at the price of their epoch, and every claim is backed |
| **GearboxVault** (+ helper) | credit account, idle tokens, marginal factor | openCreditAccount, adjustPosition, push, pull | Gearbox, Curve, Convex, Uniswap | the account is closed before tokens leave |
| **ProtocolGovernance** | parameters, permission masks, validators, each with a staged copy, a time and an address set | stage, rollback, commit, commit all, revoke | read by every contract | nothing takes effect unannounced |
| **UnitPricesGovernance** | price per token, staged price and time | stage, rollback, commit | root vault's withdraw limit | as above, with a fixed delay |
| **VaultGovernance** (+ one subclass per vault kind) | delayed and immediate parameter sets, internal parameters | stage, commit, set, createVault | ProtocolGovernance (the delay), VaultRegistry | as above; a filled parameter set stays filled |
| **VaultRegistry** | vault NFTs, locks, staged governance | registerVault, lockNft, stage, commit | VaultGovernance | one NFT per vault, a locked NFT stays where it is |
| **LStrategy** | two Uniswap vaults, pre-order, order deadline | rebalances, postPreOrder, signOrder, allowances, manual pulls | vaults, CoW settlement | one order at a time, none outlives its deadline |
| **HStrategy**, **MStrategy**, **MultiPoolHStrategy** | interval, last rebalance | rebalance | vaults, pools | the position matches the domain interval after a rebalance |
| **Pulse** and **SinglePosition** strategies | interval, volatile parameters | rebalance, deposit callback | vaults, routers | position follows the price, swaps keep the vault's value |
| **Oracles** | addresses and safety indices | price queries | pools, feeds | the price asked for is the price answered, or nothing |
| **Validators** | staged and committed parameters | validate | IntegrationVault.externalCall | only listed calls pass |
| **DepositWrapper**, **WhiteList**, **ContractRegistry** | subscriptions, Merkle root, versions | deposit, registerContract | root vaults | shares reach their depositor |
| **CommonLibrary** | none | projectTokenAmounts, sqrt, sorting | everywhere | pure functions |
| **Deployment scripts** (`deploy/0010`-`0120`, `1000`, `1001`, `hardhat.config.ts`) | saved deployments; ProtocolGovernance, prices and ContractRegistry as far as the scripts fill them | one script per contract, chosen by tag and dependency; Finalize's multicall | every contract they deploy | what is handed over is complete, and a failed run can be repeated |
| **Strategy build scripts** (`deploy/0000_utils.ts`, `0130`-`0188`) | the strategy's saved address, NFTs computed from `vaultsCount`, approvals in flight | setupVault, the strategy's creation, roles, combineVaults | VaultRegistry, governances, strategy factories | a root vault gets the vaults its strategy was made for; the admin gets both |
| **LStrategy tasks** (`tasks/lstrategy-*.ts`) | a fork's pool | swap the pool to a tick, then rebalance | Uniswap, LStrategy | the search for the tick ends |
| **swap-amount** (`tasks/swap-amount.ts`) | what it calculates; two positions on a fork | check, count, mint, swap down, back and up | Uniswap | the amounts shift the price as asked |

How they interact. A deposit or withdrawal is one transaction through the root
vault, its subvaults and their external protocols; the root vault *reads* tvls
(cached in AaveVault, oracle-free elsewhere) and then *acts* on them. Strategies
call `pull` of one vault with another as target; the target is pushed at the end
of the transfer, and what could not be pushed is reclaimed to the zero vault.
Parameters are always *read through* governance contracts at the moment of use,
so a commit between two calls changes the second one. The scripts are processes:
each of their calls is a transaction of its own, other accounts act in between, the
process may die between any two, and is then started again from its first script
with nothing but the saved deployments and the chain to go by.

What is hard, in the order in which the modules take it up:

* share accounting over rounded amounts, existential (dust) thresholds and a tvl
  that is stale (ERC20RootVault, AaveVault);
* lazily settled per-user records against eager totals (GearboxRootVault);
* staged changes whose delay is itself a staged parameter, of a contract that is
  itself a staged parameter (governance);
* ownership NFTs, locks and one-time initialisation (VaultRegistry);
* several contracts that have to forget the same order (LStrategy);
* rebalances of several dependent steps (strategies);
* scripts that die half way, are started again, and skip or repeat what is done
  (deployment, strategy builds);
* NFTs and addresses computed first and used after others have acted, and approvals
  sent and not waited for (strategy builds);
* a loop without a bound around swaps of a shrinking amount (LStrategy tasks).

`PROJECT.json` lists these hazards at their lines, with the properties that
would notice.

## Modules

| module | models | kind |
|---|---|---|
| `ERC20RootVault` | ERC20RootVault, AggregateVault, ERC20Token, ERC20Vault, AaveVault as one system | specification |
| `WithdrawalQueue` | what withdrawal requests promise | abstract specification |
| `GearboxRootVault` | GearboxRootVault with its ERC20Vault and GearboxVault | specification, implements `WithdrawalQueue` |
| `Sums` | sums, maxima and minima over finite sets | lemmas |
| `ERC20RootVault_proofs` | its theorems | proofs |
| `GearboxRootVault_proofs` | type correctness, the refinement, books and values | proofs |
| `ProtocolGovernance`, `UnitPricesGovernance` | the contracts of that name | specifications |
| `VaultGovernance` | VaultGovernance composed with the ProtocolGovernance it names | specification, extends `ProtocolGovernance` |
| `Governance_proofs` | the theorems of `ProtocolGovernance` and `VaultGovernance` | proofs |
| `VaultRegistry` | VaultRegistry with its ERC721 part, `createVault`, `initialize` | specification |
| `LStrategyMath` | LStrategy's `_liquidityDelta` | operators |
| `LStrategyOrders` | LStrategy's orders with the ERC20Vault's allowances and CoW | specification, extends `LStrategyMath` |
| `LStrategyPositions` | LStrategy's rebalances with its two UniV3Vaults and the ERC20Vault | specification, extends `LStrategyMath` |
| `AmmVaults` | the calls of UniV3Vault, CamelotVault, QuickSwapVault, KyberVault, PancakeSwapVault and their farms | operators on the vaults' state |
| `PulseMath` | interval and swap of the Pulse strategies | operators |
| `PulseV2` | the five Pulse strategies of version 2 over these vaults, with the root vault's deposits and withdrawals | specification, extends both |
| `PulseV2_proofs` | its theorems | proofs |
| `Deployment` | the scripts of `deploy/`, their choice by tag, Finalize's multicall, the admin's prices after it | specification, extends `UnitPricesGovernance` |
| `Deployment_proofs` | the theorems of `UnitPricesGovernance` and `Deployment` | proofs |
| `StrategyBuild` | the scripts that build strategies, composed with the registry they use and its other users | specification, extends `VaultRegistry` |
| `StrategyBuild_proofs` | the theorems of `VaultRegistry` and `StrategyBuild` | proofs |
| `PriceSearch` | `makeDesiredPoolPrice` of the LStrategy tasks | specification |
| `LStrategy_proofs` | the theorems of `LStrategyOrders`, `LStrategyPositions` and `PriceSearch`, on shared arithmetic | proofs |
| `SwapAmount` | the swap-amount task over its fork's pool | specification, extends `LStrategyMath` |
| `MC_*` | instances for TLC | model checking |

In each module variables carry the names of the contract's state where TLA+
allows it, actions the names of its functions. An operator that stands directly
before its namesake and is used nowhere (`LpAmountByMax` before `LpAmount`) is a
plausible mistake in that operator, kept to show that a property notices it.

**ERC20RootVault.** `balanceOf ... allowlist` are the root vault's storage;
`rootIdle`, `zero`, `aaveIdle`, `aToken`, `wallet` are the token balances of the
accounts involved; `tvls`, `tvlsAt` the AaveVault's cache. `Deposit` and
`Withdraw` compute fees (`ChargeFees`), normalisation (`LpAmount`,
`NormalizedAmounts`) and the pull through the subvaults (`PullAll`) with the
code's roundings and in the code's order. `PullFromZero` and `PullFromAave` are
the strategy's moves with the push and reclaim that end them, `PushAave`,
`UpdateTvls` and `ReclaimTokens` are open to anybody in the code and in the
model. `Donate` and `AaveInterest` are the environment; `SetParams` puts another
parameter record in force (when it may is the subject of `VaultGovernance`).

**GearboxRootVault.** The GearboxVault is reduced to idle tokens, an open or
closed credit account and its net value, which `MarketMove` changes and closing
costs `slippage` of. What closing costs falls on those who stay: an execution pays
each request its full share of the tvl as long as the closed account holds that much
(`src/vaults/GearboxRootVault.sol:251-260`), and only when nothing is left to those
who stay do the requests bear the rest, each by the same part
(`ExecutionSettlesEveryShare`). The functions `Pending`, `SettledLp` and `SettledPrimary`
are the refinement mapping: what each user's record will say once settled. Under
it every step is a step of `WithdrawalQueue`, where an execution settles
everybody at once, or a stutter. LP transfers do not touch requests: the contract
does not freeze requested shares, and neither does the model, so a user may give
away shares that wait for an execution (the claim then fails until they are
returned; total supply may drop below the shares waiting, and deposits and
executions are then rejected by checked subtraction).

**ProtocolGovernance, UnitPricesGovernance, VaultGovernance.** The history
variable `seen` stands for somebody who reads the contract once (`Look`) and
computes until when nothing but what was in force or staged can be in force.
That computation (`SafeUntil`) has to take a staged shorter delay into account;
in `VaultGovernance` also a staged other governance contract (`SlotsSafeUntil`).
The three kinds of delayed parameters share one action pair, because the code
repeats the same pair for each; a slot's value is the fee it contains.

**VaultRegistry.** `vaults ... locks` are the registry's storage, `ownerOf`,
`getApproved`, `operators` the inherited ERC721's; `vaultNft`, `kind`,
`subvaults`, `strategyOf` stand for the vaults that `initialize` fills.
`createVault` is two actions, `StartCreation` and a `Finish...`, because
`registerVault` mints with `_safeMint` and a contract that becomes the owner is
called back in between: `creating` is the creation under way, and while there is
one only its owner acts. Where the second half would revert, the model stops
there (the code undoes the whole transaction), so it visits states of abandoned
transactions but never anything after them. A vault clone is identified with the
NFT that salts its address.

**LStrategyOrders.** `preOrder`, `orderDeadline` and the parameters are the
strategy's storage, `balance` and `allowance` the ERC20Vault's, `presigned` and
`filled` CoW's. CoW is external: `Settle` fills a pre-signed order, all or in
part, while it is valid and as far as allowance and balance go, at the limit price
or better. `terms` remembers with which price and slippage the order signed last
was posted. Oracle prices, balances and the parameters move freely in between.

**LStrategyPositions.** `position` holds the two NFTs, `idle` the ERC20Vault's
tokens. Uniswap's curve is replaced by a line (a unit of liquidity is one token
per tick), which keeps what the strategy depends on: which token a position needs
on which side of the price, that the two positions need different mixtures, and
that a pull collects what is owed. It leaves out the rounding inside Uniswap and
the dependence of a position's worth on the price, so properties that compare
worth are about the strategy's own arithmetic only. `RebalanceUniV3Vaults` is the
disjunction of the code's branches: empty the position left behind (`LeaveVault`),
replace it (`SwapVaults`), or shift liquidity inside the overlap
(`ShiftLiquidity`). `ManualPull` stands for the admin's call and for what users'
deposits and withdrawals do to positions; trading parameters and ratios are
constants here.

**AmmVaults, PulseMath, PulseV2.** A rebalance is one transaction of many calls:
pull the position (out of the farm first), mint the next, hand it over, take the old
one back and burn it, swap, push, stake. `vaults` is a record of what the vault, the
position manager, the farm and the ERC20Vault hold; each call is an operator from a
record to the *set* of records it may leave, empty when the call reverts, and `Then`
composes them, so that a revert anywhere leaves the transaction without an outcome.
An action of `PulseV2` takes one of the outcomes. `kind` chooses the AMM and with it
the copy of the strategy; the copies differ in when they leave the farm, in what
they collect if the interval stays, in the deposit callback, and in whether the
forced rebalance is ever cleared (Kyber's copy does not). `Deposit` and `Withdraw` are the root
vault's, reduced to the tokens that move; `CollectEarnings`, `CollectFarmRewards`
and `CallDepositCallback` are open to anybody. The AMM's curve is replaced by steps
(one token of each kind inside the interval, two of one kind outside), both tokens
have the same price, `priceImpactD6` is 0, and the strategy has tokens enough to
open a position with. Three decisions of others are taken to be favourable:
QuickSwap's farm accepts a position, a vault may return what it could not add, and
the market accepts the rewards that Kyber, QuickSwap and PancakeSwap swap. Whether
MasterChef accepts PancakeSwap's NFT is open.

**Deployment.** A script is a record: tags, dependencies, and its calls in order.
`Selected` is hardhat-deploy's order (by name, dependencies first, each once, a
dependency without a script ignored), and `Plan` all calls of a run. `deployed` is
what is saved on disk, `gov` the ProtocolGovernance without its prices, which are
`UnitPricesGovernance`'s variables. `RunStep` is one call: a lookup that may find
nothing, a deployment that a constructor may revert, and the calls with an effect of
their own. `FinalizeStep` computes its multicall call by call (`Apply`), with the
delay in force at each, and takes effect whole or not at all. `HelperStep` keeps the
swallowed failure of `deploy/0100_ERC20RootVaultGovernance.ts:24`, `IssuerStep` what
it leads to: another governance of root vaults, approved by the deployer and
registered nowhere. Lists of addresses are one stand-in each, and constructor
arguments are kept where they decide whether a deployment reverts. What a strategy
script does between the creation of its vaults and their combination is
`StrategyBuild`'s.

**StrategyBuild.** `plan` names the script; `Build` is its text as a sequence of
steps, one per transaction or read. `startNft`, `saved`, `unawaited` are the script's
own state, `made`, `vaultsOf`, `roles` the strategies', the rest is `VaultRegistry`'s.
A step that reverts ends the run (`Throw`), and so may a `Crash`; `StartRun` begins
again. `MulticallStep` folds the role calls, all or none; `LoseConfirmation` is the
multicall that is mined while the script believes it failed. `SendStep`, `PushStep`
and `MineApproval` are LStrategy's approvals, which nobody waits for even to be sent.
Other calls through ethers are waited for until they are sent, not until they are
mined: MStrategy's clone (`deploy/0130_MStrategy.ts:86`), and LStrategy's mint and move
of a position and its role calls (`deploy/0140_LStrategy.ts:62-90`, `:245-251`). The
deployer's transactions are mined in the order they are sent, so the effect of such a
call is part of its step; the step that may find it not mined yet also throws
`"too early"`: the multicall on the clone, the approver's move of the position, and a
role call that an earlier one allows (`AllowedBefore`). The scripts that wait for all
they send have `waits`. (`updateTradingParams` and its like, `:215-236`, need only
the role given by the constructor, whose deployment is waited for; they leave no trace
in the model.) `OtherVault`, `OtherStrategy`, `OtherPosition` and `OtherOwner` are
another holder of `CREATE_VAULT`, anybody who uses the strategies' factory, a minter
who gets the number that `preparePush` foresaw for its position, and owners who move,
approve and lock their NFTs, also while `registerVault` calls them back. The four scripts behind a proxy (0180, 0181,
0183, 0185) differ in names and AMM only and share a plan.

**PriceSearch.** `poolPrice` counts the amount that moves the pool where its liquidity is
least; `LeastMove` bounds from below how far an amount moves it elsewhere, and each swap
moves it any distance in between. `try` and `needIncrease` are the loop's variables.

**SwapAmount.** `at` is the task's place, `context` what it has calculated, `minted`
and `price` the fork's pool. The curve is a line, as in `LStrategyPositions`; `Moved`
is an exact-input swap through up to three ranges of liquidity. The position widths,
ticks and amounts it is called with are the run's `Arguments`.

## Runs

Fairness is assumed for five runs. In `pulse_v2` the operator's bot calls `rebalance`
again whenever the call would go through (weak fairness; its own steps are not
counted). In `lstrategy_positions` time passes, and the operator
calls `rebalanceUniV3Vaults` again whenever it would succeed, which is the
operator's task (the strategy has no other way to follow the price). It is weak
fairness, written with `sinceUniV3`, the one variable that no other action resets.
`RebalancesSettle` assumes moreover that the other rebalance stops: if the
ERC20Vault lacks the token that one position needs, `rebalanceERC20UniV3Vaults` can
add to the position that `rebalanceUniV3Vaults` has just emptied in order to replace
it, and TLC finds the two calls undoing each other for ever. In `deployment` a run goes on
while its process lives (`RunStep`), and the operator starts the network's command
again after a run that failed: the scripts save what they deployed so that he can, and
he has no other way to go on. In `strategy_build` a script goes on
while its process lives, and a creation under way is finished (it is one transaction);
nobody has to start a run, and approvals in flight may never be mined. In
`price_search` the loop goes on. No other liveness is
claimed: nothing in these contracts happens unless somebody calls. Counters are
bounded by `MaxCalls`, `MaxMoves`, `MaxValue`, `MaxTime`, `MaxEpoch`, `MaxYield`, `MaxRuns`,
`MaxCrashes`, `MaxOthers`, `MaxSelections` and `MaxNft`; where those
bounds, or the task's end, stop the model, deadlock is not checked. It is checked for
`deployment` and `price_search`. `MaxMoves` bounds the environment and the admin but
not the rebalances, so that the liveness property is about infinite behaviours.

| run | module, instance | what it checks |
|---|---|---|
| `root_vault` | two tokens, one user, three treasuries, six calls, two fee periods | `AccountsBalance`: supply is the sum of balances, tokens are conserved, the cached tvl is backed, the first deposit stays locked; `PayoutsKeepToBounds`: within the share and the block's limit; deposits do not dilute, only dust is lost, fees only on a new high |
| `gearbox_epochs` | two users, two executions, seven calls | `RequestsBalance`: request and claim totals, claims backed; an execution pays every request its share, with a closing cost that the remainder covers and one that leaves nothing; a deposit's roundings; refinement of `WithdrawalQueue` |
| `protocol_governance` | one target, one permission, two validators, a delay that can be cut from 3 to 1 | no unannounced permission or validator |
| `vault_governance` | an empty and a filled slot, two governance contracts, six calls | no unannounced parameters |
| `lstrategy_orders` | two prices, two settings of the parameters, four calls besides fills, four units of time | one live order, allowance within the order, the lock bounded, `TradesMeetTarget`: a trade's price and direction |
| `lstrategy_positions` | intervals of four ticks, targets that leave the overlap by one interval to either side, three moves | `PositionsFit`: intervals stay adjacent and NFTs where they belong; `RebalancesMeetTarget`: liquidity moves whole and towards its target, capital towards its own and past it by less than a token or the fees collected; positions follow the price |
| `pulse_v2` | five AMMs, ticks -7, -2 and 7 on a grid of 4, parameters that extend an interval, that start anew, that accept no tick (a factor of 100 %, as in `deploy/0188_PancakeSwapPulseStrategyV2.ts:162`), and that are refused, three moves | one position and agreement about where it is, everything withdrawable, intervals around the tick, value kept up to the slippage, rebalances come to an end where the parameters accept an interval |
| `kyber_pulse` | Kyber only | *violated*: a position of Kyber's vault cannot be replaced |
| `deployment` | four networks, runs of the tags `core` and `LStrategy` besides the network's, one crash or swallowed failure, one token repriced | ProtocolGovernance is handed over whole, with all that the strategies need; no lookup finds nothing; no unannounced price; mainnet's strategies are built in the end |
| `strategy_build` | five scripts, two runs, one crash, two calls of others, eight NFTs | registry indices and subvaults stay right; a root vault holds its strategy's vaults; undisturbed runs do not fail, but for what a script sent without waiting; roles and ownership end where they should, and are with somebody all the time; runs end |
| `price_search` | five ticks, three units to a tick, a pool up to twice as deep as where it is least | no swap of nothing; every search ends at its tick |
| `swap_amount` | six shifts, four widths, three positions, nine pool ticks, three tvls | the amounts shift the price as asked; LStrategy is at rest at the positions |

Why the bounds suffice for the cases that matter. In `root_vault` six calls
reach deposit, deposit, a move into Aave, interest, withdrawal and another call;
the amounts are chosen so that rounding, dust, an unbalanced deposit, the drain of
a balance and a withdrawal that needs both subvaults all occur; the two parameter
records switch fees, privacy and limits. In `gearbox_epochs` seven calls reach
deposit twice, a request, an execution, a claim or a second request in the next
epoch while the first still hangs. One target is enough in `protocol_governance`
because the entries of the maps do not interact; the proofs are for any number.
Four calls in `lstrategy_orders` reach a pre-order, a signature, an expiry or an
unsigning, and a second order under another price or other parameters while the
first one's allowance is left. Three moves in `lstrategy_positions` send the market
to the far side and back and refill an emptied position before its replacement;
rebalances are not bounded. In `pulse_v2` the three ticks lie
inside, beside and far from an interval, below and above zero; -7 is a tick that the
interval started with there, [-8, 0], does not accept, so that parameters which start
anew never settle at it and those which extend do. Three moves reach a
deposit, a change of the tick and a fee or reward, a withdrawal or a change of the
farm's key, with rebalances between them as often as the operator likes.
In `deployment` a run of `core` or `LStrategy` comes before, between or after runs of
the network's tag; one crash or one swallowed failure is enough for a run to
meet what an interrupted one left, and runs of the network's tag are not bounded.
In `strategy_build` two runs with a crash and two calls of others reach a
strategy of the first run met in the second, a vault or a strategy made
between a script's read and its use of it, and a root vault over another's vaults;
a second crash would only start the script another time. In `price_search` all ticks
of the pool's range are within reach of the first amount. `swap_amount` has
widths that are and are not twice the spacing, ticks at both ends of what is
accepted, inside and outside, and shifts that stay in a position, leave it and leave
both.

Where the Pulse properties stop, because the code does:

* QuickSwap's and Kyber's vaults leave the farm by the key in force. Changing the
  key while the position is staked (`QuickSwapVaultGovernance.setStrategyParams`,
  `KyberVault.updateFarmInfo`) blocks every pull until it is set back
  (`FarmKeyMatches`).
* Below the interval `KyberHelper.tokenAmountsToMaximalLiquidity` drops what it
  computes (`src/utils/KyberHelper.sol:80`) and answers 0: nothing can be pulled
  there (`BelowInterval`).
* `checkMutableParams` (`src/strategies/PulseStrategyV2.sol:159`) sets no bound to
  `neighborhoodFactorD`, and `deploy/0188_PancakeSwapPulseStrategyV2.ts:162`,
  `script/DeployPancakeVault.s.sol:192` and two forge tests use 100 %. With more than a half
  no tick is acceptable in any interval. Below a half it depends on the tick and the
  grid: at a negative tick the center of an interval started anew is the next multiple
  of the spacing above (lines 225-232), up to a spacing less one away, so the tick may
  lie in the neighborhood of the end (spacing 60, width 120, factor 0.1, tick -119:
  [-120, 0]); if no extension is allowed by `maxPositionLengthInTicks`, each rebalance
  mints the same interval again. A width w with a neighborhood of at most w/2 - spacing
  + 1 is acceptable at every tick. `RebalancesSettle` excepts parameters and ticks for
  which neither the interval started with nor one it is extended to is acceptable
  (`ParamsLetItSettle`); the run has such parameters and such a tick. Since each new
  position brings its opening tokens in, rebalances that never settle would make the
  model infinite: they stop at a value of `MaxValue`.
* With a `minSwapAmounts` of 0 an empty swap is tried and reverts on the division by
  what was swapped; the run's minimum is 1.

Where the properties of the scripts and tasks stop, because the code does:

* Of the four networks only mainnet is deployed to the end. `UniV3Oracle`'s
  constructor asks pools of wstETH, for which the others only have mainnet's
  address (`hardhat.config.ts`); on optimism `ChainlinkOracle` already fails, at a
  feed that is `"0x"` (`hardhat.config.ts:406`).
* After Finalize the deployer stays an operator of ProtocolGovernance, which
  `deploy/1000_ContractRegistry.ts` relies on. That script cannot run twice (a
  contract registers once), so what comes after it, `BatchCall`, is never deployed
  if a run died between the two.
* A governance of root vaults that was deployed anew after a swallowed failure is
  registered by nobody (`fellBack`).
* Run by its own tag while only `ERC20Validator` is deployed, Finalize would hand over
  a governance with no vault governance registered, which later runs do not repair;
  that tag is not among the run's `Selections`.
* `README.md:64-66` names commands (`yarn deploy:kovan`) that `package.json` does not
  have.
* `setupVault` goes on creating while `currentNft <= expectedNft`
  (`deploy/0000_utils.ts:160`), one more than is expected; what saves a disturbed
  run from harm is that it fails later on.
* A multicall of roles whose confirmation is lost is tried for ever
  (`deploy/0150_HStrategy.ts:251`, `deploy/0170_MultiPoolHStrategy.ts:190`): `BuildsEnd`
  does not speak of those runs.
* MStrategy's and LStrategy's scripts do not wait until what they send is mined, and
  may throw for that in a run that nobody disturbs: at the multicall of a clone that is
  not there yet, at a position that is not minted or whose approval is not mined, at a
  role call before the grant it needs, or when an approval comes after the root vault
  took the NFT. These are outcomes of their own (`"too early"`, `"too late"`);
  `OnlyDisturbedRunsFail` says that no other script has them and that nothing else makes
  an undisturbed run throw. What such a run leaves is covered like what a crash leaves.
  A finished run of LStrategy has sent its last role calls; `FinishedBuildIsHandedOver`
  describes the roles once those are mined.
* MStrategy's script leaves the deployer an operator of the strategy.
* 0182, 0186, 0187 and 0188 define build functions and never call them.
* swap-amount accepts pool ticks at both ends of its interval, and fails there; so
  it does when half the width is not a multiple of the spacing, the shift is not
  positive, or the pool is to be where it is already. `Inside` names these. Its
  `verify` flag does not switch the simulation off.

Every property has been seen to fail for a changed definition, listed under
`mutants` in `PROJECT.json`.

The violated property is what the documentation says:
`src/strategies/KyberPulseStrategyV2.sol:135` says of `rebalance` "If necessary, a
new position is minted on kyberVault, and the previous one is burned";
`KyberVault.onERC721Received` requires the *new* position to be empty
(`src/vaults/KyberVault.sol:194`), which it never is.

Two other sentences of the documentation differ from the code in what a caller reads
only, and have no run:

* `src/interfaces/IProtocolGovernance.sol:49` describes `permissionAddresses` as
  those "for which non-zero permissions are set"; a committed empty grant is
  listed too (`src/ProtocolGovernance.sol:245`).
* `src/strategies/LStrategy.sol:822` describes the pre-order in the event
  `OrderSigned` as the "PreOrder that the order fulfills"; `signOrder` deletes it from
  storage (`:455`) before it emits it from there (`:456`), so it is always empty.

## Proofs

All theorems hold for every value of the constants that satisfies the modules'
named assumptions (finite user set, positive scales, distinct special accounts,
natural-number parameters), which TLC evaluates on the instances.

* `ERC20RootVault_proofs`: all five properties of `root_vault`, for every set of
  tokens, users and treasuries, every amount, fee, price, threshold and limit:
  `BooksBalance`, `DepositsDoNotDilute`, `PayoutsAreBounded`, `WithdrawalsLoseOnlyDust`,
  `PerformanceIsPaidOnce`. `AccountsBalance` is inductive but for one part of
  `PayoutsKeepToBounds`: the limit of a block's withdrawals is counted in a variable
  that outlives its block (`src/vaults/ERC20RootVault.sol:425`), so the invariant adds
  `CountedIsPaid`, that what the vault would count now is what was paid out at this
  timestamp. The properties of steps are proved one action at a time from that
  invariant. A deposit rounds the shares down token by token and takes amounts rounded
  up from those shares; a withdrawal walks through the subvaults, and the lemma about
  `PullAll` bounds what the walk gives up by the existential of each token. Fees are
  minted before either, and the sum of the balances is what relates them to the supply.
* `GearboxRootVault_proofs`: `TypeCorrect`, `RequestsImplementQueue`, `BooksBalance`,
  `DepositsDoNotDilute`, `ExecutionsSettleShares`. Type
  correctness alone is not inductive for the refinement, because the mapping reads
  `epochToPrice` at a user's `latestRequestEpoch`. The invariant `IInv` adds
  `RequestsAreDated`: a request's epoch is at most the current one, so that an
  execution fixes the price of the epoch it closes, and no other. One lemma per
  action, then the step into the queue's action or a stutter. The books (`Books`) say
  the same of the sums: what users have pending adds up to the epoch's total, and
  what they have settled is covered by what is set aside. An execution pays each
  request rounded down, and the rounded parts add up to no more than the rounded whole
  (`TotalScales`). That the rounding of the price and of the payout takes no more than two
  units and a part in D18 from a request is bounded once (`PriceRounding`,
  `ShareOfWorth`) and used in both cases, the account that still holds what is asked
  and the one that does not (`ExecuteSettles`). For the executions' value the invariant
  adds `ClosedIsWorthless`: a closed credit account is worth nothing. `TypeCorrect` is
  proved from the books: the supply is the sum of natural balances, and a request that
  hangs is dated.
* `Sums`: the community modules define sums by a recursive function that `CHOOSE`s an
  element at a time. The library's induction theorems cannot be instantiated, but the
  strict subsets of a finite set are well-founded, so the subsets for which a statement
  fails have a smallest member (`SmallestSet`), and the statement holds of that
  member without the chosen element. Each lemma is proved that way: a sum changes by what one term changes by (`TotalChange`), sums of sums,
  multiples, differences and equal terms, the largest and the least value.
* `Governance_proofs`: for `ProtocolGovernance` `TypeCorrect`, `SetsMatch`,
  `PermissionNotice`, `ValidatorNotification`. The notice properties say nothing of
  staged values, so
  the invariant records, for a reader who still is in his safe period, that every
  staged grant or validator he did not see matures after that period, and that
  every delay that may be put in force meanwhile is long enough (`TimeOK`,
  `ParamInv`, `MaskInv`, `ValidatorInv`). For `VaultGovernance` `SetsStaySet` and
  `ParamsNotice`, from the same invariant for the delay in force and the same
  bookkeeping for the internal parameters that choose between two governances.
* `Deployment_proofs`: for `UnitPricesGovernance` by itself `PriceNotice`, by the same
  argument with a fixed delay; the special case is a price that is unset and set again.
  For the deployed protocol (`DeploySpec`) `HandOverIsWhole` and `DeployedPriceNotice`,
  `StrategiesStayBuildable` and `LookupsSucceed`.
  The multicall is a sequence of sets of states, defined by a recursive function; that
  the function exists, and is what its definition says at each call, is shown by taking
  the first index at which it would not be (`FirstIndex`, `FinalizedUnfolds`). Through
  the first part of the calls everything is only staged, and nobody is staged two
  different grants (`Staging`, `StagedByNext`: a second grant would replace the first,
  and the hand-over would not be whole); every token is among what is staged
  (`TokensAreAllowed`). The last six calls then commit the grants, the validators and
  the parameters, grant the admin's role and renounce the deployer's, each from what the
  one before left (`GrantsCommit`, `ValidatorsCommit`, `ParamsAndRoles`). The invariant
  `DInv` adds to the two properties that before the hand-over there is no price and
  nothing staged, so that a reader who looks then may find any price later: the script's
  own prices are announced to nobody, and the notice is owed from the hand-over on.
  Assumed of the constants: the tokens are the six that the script registers, its prices
  are among the prices, and what is repriced are tokens.
  `StrategiesStayBuildable` and `LookupsSucceed` are about runs that crash and start
  again. Their invariant `SInv` says that every step behind a run is done, that the
  governance of root vaults, once there, has the helper it was built with, and that only
  what some script manages to deploy is deployed; no step takes a deployment away. The
  static part of the argument, in which order the steps of a tag come, is the result of
  hardhat-deploy's selection, computed by recursion over the table of scripts, and is
  assumed: `OrderAssumption`, which TLC evaluates for the four networks and the selected
  tags, says that the helper comes before the governance that uses it and that where
  Finalize can be reached, what the network's strategies use is deployed by then and is
  among what Finalize looks up. (Finalize can be reached on mainnet only: on the other
  networks the run ends before it with a deployment that reverts.) `LookupsSucceed` has
  the order of lookups, `LookupsFit`, as its hypothesis; a first run that nothing
  disturbs finds everything exactly if it holds up to where the run ends, so the run
  `deployment` shows that part of it with `NothingMissing`. Networks, tags and
  bounds are otherwise arbitrary.
* `StrategyBuild_proofs`: for `VaultRegistry` by itself `IndicesStayInverse`,
  `RootKeepsSubvaults`, `LockedNeverMove`. A subvault's approval can only change through its owner or an
  operator of its owner, so the invariant adds that only acting accounts (users,
  strategies) ever have operators, that locked NFTs are minted, and that the clone
  of a creation under way is registered under the NFT it was computed from.
  For the scripts and everybody who acts between their steps (`BuildSpec`)
  `BuildKeepsRegistry`, `RootsHoldTheirVaults`, `StrategiesHaveAdmins`. The plans are
  sequences put together from parts; all that the proof needs of them is `ScriptOK`: a
  script is steps without a strategy, one step that makes it, right before it, when it
  is a clone, the prediction of its address, and steps that use it, in which role calls
  come in order. On top of the registry's invariant `BInv` says where the saved address
  may point: before the clone to an address that is free or that somebody else has
  taken for no vaults, afterwards to a strategy made for this run's vaults or for none
  (`SavedInv`); that there is an address left for what a run has yet to make
  (`CountInv`); that only addresses in use manage vaults (`AddressInv`); and that a
  root vault under creation will hold its strategy's vaults (`HoldsInv`). A strategy
  keeps an admin because the grant to `mStrategyAdmin` comes before any call that
  takes a role from the deployer, in a multicall as in LStrategy's single calls
  (`AdminInv`); what a multicall leaves is the last of a sequence of role sets, given
  explicitly for the two plans of calls there are.
  `FinishedBuildsAreHandedOver` needs to know how far a script has come. Each plan has a
  path, which says behind each of its steps what the run has built, which approvals it
  has sent and how far the strategy is handed over (`PathOK`); the proof that the paths
  fit is by parts, as the plans are put together. `FinishInv` relates the path to the
  state: only the script combines this run's vaults, and into what it expects
  (`CombineInv`); the root vault is configured as far as the path says and then given
  away (`ConfiguredInv`); the deployer has the roles that the script has left it
  (`RoleInv`); nobody but the approver, the governance and strategies is approved for
  its NFTs (`OwnersInv`). At the path's end the property is what these say.
  `OnlyDisturbedRunsThrow` is about runs in which nobody else makes a vault, a
  strategy or a position. For them `QuietInv` adds that the vaults made since the run began are the
  run's, the deployer's and not locked until they are combined or given away
  (`MineInv`), that an approval sent and not awaited is mined before the root vault
  takes the vault, or is still on its way (`WaitInv`), that the clone got the
  address that was foretold (`NewInv`), and that what is under way or came at the wrong
  time was sent by a script that does not wait (`SendsInv`). What makes each step revert is written out
  (`Reverts`, `RevertPace`), and no state of such a run satisfies it (`QuietRunsGoOn`).
  Assumed of the constants: the plans are the repository's, deployer and `mStrategyAdmin` are different accounts, addresses
  are not given twice and there is one for each strategy that the bounds allow.
* `LStrategy_proofs`, orders: `OnlyOneOrder`, `RelayerTakesOneOrder`, `LockEnds`,
  `TradesAreFair`. The first three follow from one invariant: an order that has not
  expired is valid until `orderDeadline` at most. Posting waits for that deadline, so
  whatever was signed before has expired when the next pre-order is up. The allowance
  bound adds that what is left of it and what is filled move together. `TradesAreFair`
  is about settlements, which come when price and parameters may have changed; the
  invariant `PricesInv` says that the pre-order, and then the one live order, is priced
  at what was noted when it was posted. The rest is arithmetic: the target is a share
  rounded down, the sold amount stays on its side of it, and every part filled is paid
  its worth less what three roundings take.
  Positions: `PositionsAlwaysFit` and `RebalancesAlwaysMeetTarget`, for every width,
  ratio, tick and balance. `PositionsFit` only lacks the integers that ticks are
  (`PositionsInv`); its arithmetic is that a pull takes no more than there is and a push
  spends no more than it finds (`PullKeepsWide`, `PushFits`), and that the interval
  `_swapVaults` opens next to the other one begins or ends in its middle. From it
  follow the two action properties. Inside the overlap what moves was cut twice, once
  for each token, to what the ERC20Vault can pay for (`AffordableIsPaid`, where the
  second cut must not undo the first: `LessIsPaid`), so the push is whole. Between the
  ERC20Vault and the positions the same percentage of both liquidities, rounded down
  three times, is worth no more than the difference it was computed from
  (`PercentageOfLiquidity`). The proof found a bound that the small instance had
  hidden: a rebalance that gathers capital collects all fees owed on top of its
  percentage and can end above the target by as much, which the property now says
  (`LStrategy.sol` 212-272).
  Price search: `AmountsStayUseful`, for every first amount, tick size and
  depth of the pool. That the amount stays at least half a tick's worth is not
  inductive: it is halved when the direction turns, so the invariant adds
  `JumpedBefore`, that before a turn the last swap jumped over the whole tick and was
  of more than moves the pool by one.
* `PulseV2_proofs`: `PulseHasOnePosition`, `PulseIntervalsHoldTheTick`,
  `PulseKeepsItsValue` and `PulseWithdrawalsTakeAll`, all of `pulse_v2` but its
  liveness, for every set of ticks and farms, every grid, denominator, set of
  parameters, deposits and requests, and without a bound on moves. A transaction is a
  chain of calls on a record of what the vaults hold, and the proof goes along the
  chain. Each call of each of the five vaults has a lemma that what it makes of sound
  vaults is sound and worth the same (`Keeps`, `Passes`, `Conserves`: liquidity is
  taken out and added for what it is worth, what the AMM does not take stays with the
  ERC20Vault, the NFT comes back from the farm, the flag follows it). The mint is the one
  stretch with two positions in being; it is followed as a whole, from the empty old
  position to the burn (`FirstMintArrives`, `LaterMintArrives`). Only the swap costs,
  and a share of what is swapped is at most that share of everything
  (`SlippageBoundsLoss`). The inductive invariant `PulseInv` says that between
  transactions the vaults are sound, nothing is on its way to a holder, the interval is
  on the grid and the parameters in force were checked; the interval has to be in it
  because an extension keeps the old bounds' remainders. That a withdrawal of
  everything goes through takes `FarmsInUse` besides: no farm ever has the NFT of a
  UniV3Vault or CamelotVault, and QuickSwap's vault never loses its key. Assumed of the
  constants: parameters have the types of the contract's struct (the factors and
  amounts are unsigned) and deposits and requests are pairs of unsigned amounts.

Proved only, and in no run's list: the type correctness of `GearboxRootVault` and
`ProtocolGovernance`, that address sets match their maps (`SetsMatch`), that filled
parameter sets stay filled (`SetsStaySet`) and that locked NFTs stay where they are.
Three of the theorems about `VaultRegistry` are about its own `Next`, in which every
account may act at any time and the registry's governance may be replaced;
`BuildKeepsRegistry` has the first two for the part of it that the scripts and their
neighbours use, which is what `strategy_build` checks.
Only model-checked, and why:

* The liveness properties `RebalancesSettle`, `BuildsEnd`, `SearchEnds` and
  `DeploymentCompletes`: fairness and `ENABLED` are out of the prover's reach.
* The order of the scripts of a tag in `Deployment` (`OrderAssumption`, `LookupsFit`): it
  is computed by recursion over the table of scripts (`Selected`, `FlattenSeq`), and what
  such a computation gives would have to be shown by induction over data. TLC computes it.
* `AmountsShiftThePrice` and `PositionsAreAtRest` of `SwapAmount`: they hold for the
  sizes of ticks and of the pool that the task is run with. How far a price lands from
  its target depends on how those sizes divide, so there is no statement about all
  values of the constants to prove.

## Not modelled, and why

* Events, names, encodings, and the arguments that can only reject a call
  (slippage limits) wherever the model's other guards do not depend on them.
* 256-bit wrap-around: the contracts use checked arithmetic (Solidity 0.8) except
  in ERC20Token's mint and burn, whose amounts are bounded by the token limit; the
  models use natural numbers, and a checked subtraction is a guard.
* In `ERC20RootVault` the callbacks after deposits and withdrawals: they are
  best-effort (`try/catch`) and come last; `PulseV2` has the one that Pulse's
  strategies implement.
* In `PulseV2` deadlines, minimal amounts and the interval Kyber's operator expects,
  which can only reject a call; PancakeSwap's `updatePancakeVaultHelper` and direct
  stake and unstake calls by an account the vault's NFT was approved to.
* `updateOtherParams` of LStrategy: its values are constants of `LStrategyPositions`.
* The inside of external protocols (Aave, Uniswap, Gearbox, CoW): each is reduced to
  what the code here reads from it.
* In `Deployment` and `StrategyBuild`: gas, nonces and reorganisations; the values of
  parameters, which no property depends on; a second operator who runs the scripts at
  the same time.
* What the backtest and slippage tasks do with LStrategy: both deploy it with eight of
  its constructor's nine arguments (slippage also leaves `secondsBetweenRebalances` out
  of `updateOtherParams`), so nothing after that runs.
* Tasks on cells (`tasks/vault.ts` and others) address contracts of an earlier version;
  `tasks/verify.ts` reads deployments and keeps no state.
* Components marked `not_modelled` in `PROJECT.json`: the other strategies' rebalances,
  the vaults over a pool's shares, oracles and validators, which the plan below names;
  view helpers and vendored interfaces for good.

## Plan

1. **Root vault** (`ERC20RootVault`): modelled, checked and proved.
2. **Gearbox epochs**: modelled, checked and proved.
3. **Governance**: modelled, checked, proved. Left: the parameters that are set at
   once, and validators' staged parameters.
4. **Registry and vault creation**: modelled, checked, proved; composed with the
   scripts that use it.
5. **UniV3Vault and its farming relatives, Pulse V2**: modelled, checked and
   proved. Left: Balancer and the others that hold a share of a pool.
6. **LStrategy**: modelled, checked and proved. Left: `updateOtherParams`.
7. **HStrategy, MStrategy, Pulse V1 and single-position strategies**: when a rebalance
   mints, moves, burns; deposit callbacks with DepositWrapper. Their build scripts are
   modelled.
8. **GearboxVault** in detail, as a refinement of its reduction above.
9. **Algorithms** as operators: projectTokenAmounts, sqrt, sortUint, the
   commit-all loops over an enumerable set that shrinks.
10. **Deployment and strategy builds**: modelled, checked and proved, given the order in
    which the scripts of a tag are selected, which TLC computes.
11. **Tasks**: the price search is modelled, checked and proved, swap-amount modelled
    and checked.
