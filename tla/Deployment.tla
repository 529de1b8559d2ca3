----------------------------- MODULE Deployment -----------------------------
(***************************************************************************)
(* The deployment of the protocol: the scripts of deploy/ as a table, the  *)
(* operator who runs them by tag (package.json), the multicall that hands  *)
(* ProtocolGovernance over from the deployer to the admin, and the admin's *)
(* unit prices from then on (UnitPricesGovernance).  One action is one     *)
(* call of a script.  A run may crash between any two calls, and is then   *)
(* started again from the first script, as hardhat-deploy does.            *)
(*                                                                         *)
(* An operator that stands before its namesake and is used nowhere is a    *)
(* wrong version of it, kept to show that the properties would notice.     *)
(***************************************************************************)
EXTENDS UnitPricesGovernance, SequencesExt

CONSTANTS
    Networks,       \* networks the operator deploys to
    Selections,     \* further tags the operator may run
    Repriced,       \* tokens whose price the admin changes later
    MaxSelections,  \* bound on the runs of Selections
    MaxCrashes      \* bound on crashes and swallowed failures

VARIABLES
    network,
    run,        \* the tag being run and the next step, or Idle
    outcome,    \* of the last run
    deployed,   \* names with a saved deployment
    issuer,     \* what the ERC20RootVaultGovernance of record uses as helper
    approved,   \* the deployer approved that governance for all its vault NFTs
    gov,        \* ProtocolGovernance, unit prices apart
    listed,     \* contracts in ContractRegistry
    built,      \* strategies combined into a root vault
    crashes, selections,
    fellBack    \* history: a failed deploy of the helper was swallowed

scriptVars == <<deployed, issuer, approved, gov, listed, built, fellBack>>
boundVars == <<crashes, selections>>
dvars == <<vars, network, run, outcome, scriptVars, boundVars>>

-----------------------------------------------------------------------------
(* hardhat.config.ts and 0000_utils.ts.                                    *)

(* The networks that have an address of their own for a named account;     *)
(* elsewhere the account is the default, an address of mainnet, or none.   *)
(* The feed of optimism, "0x", is no address.                              *)
namedAccounts == [
    weth |-> {"kovan", "avalanche", "polygon", "fantom", "xdai", "arbitrum", "optimism",
              "rinkeby", "base"},
    wbtc |-> {"kovan", "avalanche", "polygon", "fantom", "bsc", "xdai", "arbitrum",
              "optimism", "rinkeby"},
    usdc |-> {"kovan", "avalanche", "polygon", "fantom", "bsc", "xdai", "arbitrum",
              "optimism", "rinkeby", "base"},
    wsteth |-> {"rinkeby", "base"},
    chainlinkEth |-> {"kovan", "avalanche", "polygon", "fantom", "bsc", "xdai", "arbitrum",
                      "optimism", "rinkeby", "base"},
    chainlinkBtc |-> {"kovan", "avalanche", "polygon", "fantom", "bsc", "xdai", "arbitrum",
                      "optimism", "rinkeby"},
    chainlinkUsdc |-> {"kovan", "avalanche", "polygon", "fantom", "bsc", "xdai", "arbitrum",
                       "rinkeby", "base"}]
withoutDefault == [
    bob |-> {"polygon", "optimism"}, op |-> {"optimism"},
    algebraPositionManager |-> {"polygon"}]

IsContract(account, n) == n = "mainnet" \/ n \in namedAccounts[account]
Has(account, n) == n \in withoutDefault[account]

ALL_NETWORKS == {"hardhat", "localhost", "mainnet", "kovan", "arbitrum", "optimism", "bsc",
                 "avalance", "polygon", "fantom", "xdai", "rinkeby", "base"}
MAIN_NETWORKS == {"hardhat", "localhost", "mainnet", "kovan", "rinkeby"}

(* The lists of addresses, one stand-in for each list that is not empty,   *)
(* in the order of the keys.                                               *)
Approve(all, keys) == [erc20 |-> <<"weth", "usdc", "wbtc", "dai">>, all |-> all, keys |-> keys]
ALLOWED_APPROVE_LIST == [
    mainnet |-> Approve(<<>>, <<"uniV3", "uniV2", "curve", "cowswap">>),
    polygon |-> Approve(<<>>, <<"uniV3", "uniV2", "curve">>),
    base |-> [Approve(<<"all">>, <<"uniV3">>) EXCEPT
                  !.erc20 = <<"usdc", "weth", "wsteth", "dai">>]]

UnitPrice == [k \in Token |-> IF k \in {"weth", "wsteth"} THEN 1 ELSE 2]

(* The tokens of setUnitPrices and registerTokens, and their prices.       *)
ASSUME DeploymentAssumption ==
    /\ Token = {"weth", "wbtc", "usdc", "usdt", "dai", "wsteth"}
    /\ {1, 2} \subseteq Prices /\ Repriced \subseteq Token

-----------------------------------------------------------------------------
(* The scripts: tags, dependencies and the calls made, in order.           *)

Step(op, name, ok, uses, tokens) ==
    [op |-> op, name |-> name, ok |-> ok, uses |-> uses, tokens |-> tokens]
Gets(names) == <<Step("get", "", TRUE, ToSet(names), {})>>
Deploy(name) == Step("deploy", name, TRUE, {}, {})
DeployIf(ok, name) == Step("deploy", name, ok, {}, {})
Call(name) == Step(name, name, TRUE, {}, {})
Create(uses, tokens) == Step("create", "vaults", TRUE, uses, tokens)
Combine(name, tokens) == Step("combine", name, TRUE, {"ERC20RootVaultGovernance"}, tokens)
Build(name, uses, tokens) == <<Create(uses, tokens), Combine(name, tokens)>>

Deploys(names) == [i \in DOMAIN names |-> Deploy(names[i])]
Core == {"core"}
Governance == <<"ProtocolGovernance">>
Protocol == <<"ProtocolGovernance", "VaultRegistry">>
Script(tags, deps, steps) == [tags |-> tags, deps |-> deps, steps |-> steps]

ProtocolGovernance ==
    Script({"ProtocolGovernance"} \cup Core \cup ALL_NETWORKS, <<>>,
           <<Deploy("ProtocolGovernance")>>)
VaultRegistry ==
    Script({"VaultRegistry"} \cup Core \cup ALL_NETWORKS, Governance,
           Gets(Governance) \o <<Deploy("VaultRegistry")>>)

Validator(name, networks) ==
    Script({name} \cup Core \cup networks, Governance, Gets(Governance) \o <<Deploy(name)>>)
ERC20Validator == Validator("ERC20Validator", ALL_NETWORKS)
UniV3Validator ==
    Validator("UniV3Validator", MAIN_NETWORKS \cup {"polygon", "arbitrum", "optimism", "base"})
UniV2Validator == Validator("UniV2Validator", {"mainnet"})
AllowAllValidator == Validator("AllowAllValidator", ALL_NETWORKS)
CowswapValidator == Validator("CowswapValidator", MAIN_NETWORKS)
CurveValidator == Validator("CurveValidator", MAIN_NETWORKS)

(* The constructor asks every token and every feed for its decimals.       *)
ChainlinkOracle(n) ==
    Script({"ChainlinkOracle"} \cup Core \cup ALL_NETWORKS, <<>>,
           <<DeployIf(\A a \in {"weth", "wbtc", "usdc", "chainlinkEth", "chainlinkBtc",
                                "chainlinkUsdc"} : IsContract(a, n), "ChainlinkOracle")>>)
(* The constructor asks every pool for its tokens; of a token that is not  *)
(* of this network there is no pool.                                       *)
UniV3Oracle(n) ==
    Script({"UniV3Oracle"} \cup Core \cup MAIN_NETWORKS
             \cup {"polygon", "arbitrum", "optimism", "base"}, <<>>,
           <<DeployIf(\A a \in {"usdc", "weth", "wbtc", "wsteth"} : IsContract(a, n),
                      "UniV3Oracle")>>)
UniV2Oracle ==
    Script({"UniV2Oracle", "mainnet"} \cup Core, <<>>, <<Deploy("UniV2Oracle")>>)
MellowOracleMainOnly ==
    Script({"MellowOracle"} \cup Core \cup {"polygon", "arbitrum", "optimism", "base"}, <<>>,
           Gets(<<"ChainlinkOracle", "UniV3Oracle">>) \o <<Deploy("MellowOracle")>>)
MellowOracle ==
    Script({"MellowOracle"} \cup Core \cup MAIN_NETWORKS
             \cup {"polygon", "arbitrum", "optimism", "base"}, <<>>,
           Gets(<<"ChainlinkOracle", "UniV3Oracle">>) \o <<Deploy("MellowOracle")>>)

AaveVaultGovernance ==
    Script({"AaveVaultGovernance"} \cup Core \cup MAIN_NETWORKS \cup {"avalanche", "polygon"},
           Protocol, Gets(Protocol) \o Deploys(<<"AaveVault", "AaveVaultGovernance">>))
UniV3VaultGovernance ==
    Script({"UniV3VaultGovernance"} \cup Core \cup MAIN_NETWORKS
             \cup {"arbitrum", "optimism", "polygon", "base"},
           Protocol, Gets(Protocol \o <<"MellowOracle">>)
             \o Deploys(<<"UniV3Vault", "UniV3Helper", "UniV3VaultGovernance">>))
ERC20VaultGovernance ==
    Script({"ERC20VaultGovernance"} \cup Core \cup ALL_NETWORKS,
           Protocol \o <<"ChiefTrader", "UniV2Trader">>,
           Gets(Protocol) \o Deploys(<<"ERC20Vault", "ERC20VaultGovernance">>))
QuickSwapVaultGovernance(n) ==
    Script({"QuickSwapVaultGovernance", "polygon"}, Protocol,
           Gets(Protocol) \o
           (IF Has("algebraPositionManager", n)
            THEN Deploys(<<"QuickSwapHelper", "QuickSwapVault", "QuickSwapVaultGovernance">>)
            ELSE <<>>))
ERC20RootVaultGovernance ==
    Script({"ERC20RootVaultGovernance"} \cup Core \cup ALL_NETWORKS,
           Protocol \o <<"MellowOracle">>,
           Gets(Protocol \o <<"MellowOracle">>)
             \o <<Deploy("ERC20RootVault"), Call("deploy helper"),
                  Call("deploy issuer"), Call("approve issuer")>>)
YearnVaultGovernance ==
    Script({"YearnVaultGovernance"} \cup Core \cup MAIN_NETWORKS \cup {"fantom", "arbitrum"},
           Protocol, Gets(Protocol) \o Deploys(<<"YearnVault", "YearnVaultGovernance">>))
MellowVaultGovernance ==
    Script({"MellowVaultGovernance"} \cup Core \cup ALL_NETWORKS,
           Protocol, Gets(Protocol) \o Deploys(<<"MellowVault", "MellowVaultGovernance">>))
Finalize ==
    Script({"Finalize"} \cup Core \cup ALL_NETWORKS, Governance,
           Gets(Governance) \o <<Call("finalize")>>)

ForMoney(money) ==
    <<"VaultRegistry", "ERC20VaultGovernance", money, "ERC20RootVaultGovernance">>
TwoPairs(name, uses) ==
    Build(name \o "_WETH_USDC", uses, {"weth", "usdc"})
      \o Build(name \o "_WETH_WBTC", uses, {"weth", "wbtc"})
MStrategy(kind, money, networks) ==
    Script({"MStrategy"} \cup networks, ForMoney(money),
           <<Deploy("MStrategy" \o kind)>> \o TwoPairs("MStrategy" \o kind,
                                                     {"ERC20VaultGovernance", money}))
MStrategyYearn ==
    MStrategy("Yearn", "YearnVaultGovernance", {"hardhat", "localhost", "mainnet", "arbitrum"})
MStrategyAave == MStrategy("Aave", "AaveVaultGovernance", {"polygon"})

LStrategy ==
    Script({"LStrategy", "mainnet"},
           Protocol \o <<"MellowOracle", "UniV3VaultGovernance", "ERC20VaultGovernance">>,
           Gets(<<"UniV3Helper">>)
             \o <<Create({"UniV3VaultGovernance", "ERC20VaultGovernance"}, {"weth", "wsteth"}),
                  Deploy("LStrategyHelper"), Deploy("LStrategy")>>
             \o Gets(<<"MellowOracle">>)
             \o <<Combine("LStrategy", {"weth", "wsteth"})>>)

HStrategy(kind, money, networks) ==
    Script({"HStrategy"} \cup networks, ForMoney(money),
           Deploys(<<"UniV3Helper", "HStrategyHelper", "HStrategy" \o kind>>)
             \o TwoPairs("HStrategy" \o kind,
                         {"ERC20VaultGovernance", money, "UniV3VaultGovernance"}))
HStrategyYearn ==
    HStrategy("Yearn", "YearnVaultGovernance", {"hardhat", "localhost", "mainnet", "arbitrum"})
HStrategyAave == HStrategy("Aave", "AaveVaultGovernance", {"polygon"})

MultiPoolHStrategy ==
    Script({"MultiPoolHStrategy", "hardhat", "localhost", "mainnet", "polygon"},
           <<"VaultRegistry", "ERC20VaultGovernance", "YearnVaultGovernance",
             "UniV3VaultGovernance", "ERC20RootVaultGovernance">>,
           Deploys(<<"UniV3Helper", "MultiPoolHStrategyRebalancer", "MultiPoolHStrategy">>)
             \o Build("MultiPoolHStrategy",
                      {"ERC20VaultGovernance", "AaveVaultGovernance", "UniV3VaultGovernance"},
                      {"usdc", "weth"}))

(* A strategy behind a proxy for a pair of tokens, on networks with bob.   *)
Pair(n, name, tag, where, amm, first, token) ==
    Script({tag, where}, ForMoney(amm),
           IF ~Has("bob", n) THEN <<>>
           ELSE Deploys(first) \o <<Create({"ERC20VaultGovernance", amm}, {token, "bob"}),
                                    Deploy(name), Deploy(name \o "Proxy"),
                                    Combine(name, {token, "bob"})>>)
SinglePositionStrategy(n) ==
    Pair(n, "SinglePositionStrategy", "SinglePositionStrategy", "polygon", "UniV3VaultGovernance",
         <<"UniV3Helper">>, "weth")
SinglePositionQuickSwapStrategy(n) ==
    Pair(n, "SinglePositionQuickSwapStrategy", "SinglePositionStrategy", "polygon",
         "QuickSwapVaultGovernance", <<"SinglePositionStrategyHelper">>, "weth")
QuickPulseStrategy(n) ==
    Pair(n, "QuickPulseStrategy", "QuickPulseStrategy", "polygon", "QuickSwapVaultGovernance",
         <<"QuickPulseStrategyHelper">>, "weth")
PulseRouteStrategy(n) ==
    Pair(n, "PulseRouteStrategy", "PulseRouteStratey", "optimism", "UniV3VaultGovernance",
         <<"UniV3Helper">>, "op")

(* Scripts that return before they build a vault.                          *)
PulseStrategy(n) ==
    Script({"SinglePositionStrategy", "polygon"}, ForMoney("UniV3VaultGovernance"),
           IF ~Has("bob", n) THEN <<>> ELSE Deploys(<<"UniV3Helper", "PulseStrategy">>))
PulseStrategyV2(n) ==
    Script({"PulseStrategyV2", "polygon"}, ForMoney("UniV3VaultGovernance"),
           IF ~Has("bob", n) THEN <<>>
           ELSE Deploys(<<"UniV3Helper", "PulseStrategyV2Helper", "PulseStrategyV2">>))
KyberPulseStrategyV2 ==
    Script({"KyberPulseStrategyV2", "polygon"}, ForMoney("KyberVaultGovernance"), <<>>)
PancakeSwapPulseStrategyV2 ==
    Script({"PancakeSwapPulseStrategyV2", "mainnet"}, ForMoney("PancakeSwapVaultGovernance"),
           Deploys(<<"PancakeSwapHelper", "PancakeSwapPulseV2Helper",
                     "PancakeSwapPulseStrategyV2">>))

Registered ==
    <<"VaultRegistry", "ChainlinkOracle", "UniV3Oracle", "UniV2Oracle", "MellowOracle",
      "AaveVaultGovernance", "UniV3VaultGovernance", "ERC20VaultGovernance",
      "ERC20RootVaultGovernance", "YearnVaultGovernance">>
ContractRegistry ==
    Script({"ContractRegistry", "mainnet"} \cup Core, Governance \o Registered,
           Gets(Governance) \o <<Deploy("ContractRegistry")>>
             \o Gets(Registered) \o <<Call("register contracts")>>)
BatchCall == Script({"BatchCall", "mainnet"} \cup Core, <<>>, <<Deploy("BatchCall")>>)

(* In the order of the files' names.                                       *)
Scripts(n) == <<
    ProtocolGovernance, VaultRegistry, ERC20Validator, UniV3Validator, UniV2Validator,
    AllowAllValidator, CowswapValidator, CurveValidator, ChainlinkOracle(n), UniV3Oracle(n),
    UniV2Oracle, MellowOracle, AaveVaultGovernance, UniV3VaultGovernance,
    ERC20VaultGovernance, QuickSwapVaultGovernance(n), ERC20RootVaultGovernance,
    YearnVaultGovernance, MellowVaultGovernance, Finalize, MStrategyYearn, MStrategyAave,
    LStrategy, HStrategyYearn, HStrategyAave, MultiPoolHStrategy, SinglePositionStrategy(n),
    SinglePositionQuickSwapStrategy(n), PulseStrategy(n), QuickPulseStrategy(n),
    PulseRouteStrategy(n), PulseStrategyV2(n), KyberPulseStrategyV2,
    PancakeSwapPulseStrategyV2, ContractRegistry, BatchCall>>

(* hardhat-deploy runs the scripts of a tag in the order of their names,   *)
(* the scripts a script depends on before it, each script once; a          *)
(* dependency no script is tagged with is ignored.                         *)
Tagged(scripts, tag) ==
    SelectSeq([i \in DOMAIN scripts |-> i], LAMBDA i : tag \in scripts[i].tags)
Selected(scripts, tag) ==
    LET Needed(i, done) ==
            SelectSeq(FlattenSeq([d \in DOMAIN scripts[i].deps |->
                                      Tagged(scripts, scripts[i].deps[d])]),
                      LAMBDA j : j \notin ToSet(done))
        order[todo \in Seq(DOMAIN scripts), done \in Seq(DOMAIN scripts)] ==
            IF todo = <<>> THEN done
            ELSE LET i == Head(todo) IN
                 IF i \in ToSet(done) THEN order[Tail(todo), done]
                 ELSE IF Needed(i, done) = <<>> THEN order[Tail(todo), Append(done, i)]
                 ELSE order[Needed(i, done) \o todo, done]
    IN  order[Tagged(scripts, tag), <<>>]

(* All calls of a run of a tag on a network.                               *)
Plan == [n \in Networks |-> [tag \in {n} \cup Selections |->
            LET order == Selected(Scripts(n), tag)
            IN  FlattenSeq([i \in DOMAIN order |-> Scripts(n)[order[i]].steps])]]

-----------------------------------------------------------------------------
(* The multicall of Finalize: its calls in order, and what each does to    *)
(* ProtocolGovernance g, the prices included.  Every call is made by the   *)
(* deployer and needs an admin; one that reverts reverts them all.         *)
C(call, of, arg) == [call |-> call, of |-> of, arg |-> arg]

setUnitPrices ==
    LET order == <<"weth", "wsteth", "wbtc", "dai", "usdc", "usdt">>
    IN  [i \in 1..6 |-> C("stageUnitPrice", order[i], UnitPrice[order[i]])]
          \o [i \in 1..6 |-> C("commitUnitPrice", order[i], 0)]

Register(name) ==
    IF name \in deployed THEN <<C("stagePermissionGrants", name, {"REGISTER_VAULT"})>> ELSE <<>>

WithoutYearn ==
    Register("AaveVaultGovernance") \o Register("UniV3VaultGovernance")
      \o Register("PancakeSwapVaultGovernance") \o Register("ERC20VaultGovernance")
      \o Register("ERC20RootVaultGovernance") \o Register("BalancerCSPVaultGovernance")
      \o Register("MellowVaultGovernance")

(* The names that registerGovernances looks up.                            *)
Registrars ==
    {"AaveVaultGovernance", "UniV3VaultGovernance", "PancakeSwapVaultGovernance",
     "ERC20VaultGovernance", "YearnVaultGovernance", "ERC20RootVaultGovernance",
     "BalancerCSPVaultGovernance", "MellowVaultGovernance"}
registerGovernances ==
    Register("AaveVaultGovernance") \o Register("UniV3VaultGovernance")
      \o Register("PancakeSwapVaultGovernance") \o Register("ERC20VaultGovernance")
      \o Register("YearnVaultGovernance") \o Register("ERC20RootVaultGovernance")
      \o Register("BalancerCSPVaultGovernance") \o Register("MellowVaultGovernance")

(* The script sorts the tokens by address, which makes no difference.      *)
Allow(token) ==
    <<C("stagePermissionGrants", token, {"ERC20_VAULT_TOKEN", "ERC20_TRANSFER"}),
      C("stageValidator", token, "ERC20Validator")>>
registerTokens ==
    Allow("weth") \o Allow("wbtc") \o Allow("usdc") \o Allow("usdt") \o Allow("dai")
      \o Allow("wsteth")

(* erc20 is left out because a second grant staged for an address replaces *)
(* the first.                                                              *)
Spend(spenders) ==
    [i \in DOMAIN spenders |-> C("stagePermissionGrants", spenders[i], {"ERC20_APPROVE"})]
Validate(addresses, validator) ==
    IF validator \notin deployed THEN <<>>
    ELSE [i \in DOMAIN addresses |-> C("stageValidator", addresses[i], validator)]
registerExternalProtocols ==
    IF network \notin DOMAIN ALLOWED_APPROVE_LIST THEN <<>> ELSE
    LET data == ALLOWED_APPROVE_LIST[network]
        Of(key) == IF key \in ToSet(data.keys) THEN <<key>> ELSE <<>>
    IN  Spend(data.keys \o data.all)
          \o Validate(Of("uniV3"), "UniV3Validator") \o Validate(Of("uniV2"), "UniV2Validator")
          \o Validate(Of("curve"), "CurveValidator") \o Validate(data.erc20, "ERC20Validator")
          \o Validate(data.all, "AllowAllValidator")

Creators == <<C("stagePermissionGrants", "deployer", {"CREATE_VAULT"}),
              C("stagePermissionGrants", "admin", {"CREATE_VAULT"})>>
CommitStaged == <<C("commitAllPermissionGrants", "", 0), C("commitAllValidators", "", 0)>>
SetParams == <<C("stageParams", "", 0), C("commitParams", "", 0)>>
RenounceFirst == <<C("renounceRole", "deployer", 0), C("grantRole", "admin", 0)>>
HandOver == <<C("grantRole", "admin", 0), C("renounceRole", "deployer", 0)>>

ParamsFirst ==
    setUnitPrices \o SetParams \o registerGovernances \o registerTokens
      \o registerExternalProtocols \o Creators \o CommitStaged \o HandOver

FinalizingCalls ==
    setUnitPrices \o registerGovernances \o registerTokens \o registerExternalProtocols
      \o Creators \o CommitStaged \o SetParams \o HandOver

Put(f, k, v) == [x \in DOMAIN f \cup {k} |-> IF x = k THEN v ELSE f[x]]
Due(staged) == {x \in DOMAIN staged : staged[x].at <= now}

Apply(g, c) ==
    IF g.reverted \/ "deployer" \notin g.admins THEN [g EXCEPT !.reverted = TRUE]
    ELSE CASE c.call = "stageUnitPrice" ->
                  [g EXCEPT !.stagedPrice[c.of] = c.arg, !.priceAt[c.of] =
                             IF g.price[c.of] = 0 THEN now ELSE now + DELAY]
           [] c.call = "commitUnitPrice" ->
                  IF g.priceAt[c.of] = 0 \/ g.priceAt[c.of] > now
                  THEN [g EXCEPT !.reverted = TRUE]
                  ELSE [g EXCEPT !.price[c.of] = g.stagedPrice[c.of],
                                 !.stagedPrice[c.of] = 0, !.priceAt[c.of] = 0]
           [] c.call = "stagePermissionGrants" ->
                  [g EXCEPT !.stagedGrants = Put(@, c.of, [perms |-> c.arg, at |-> now + g.delay])]
           [] c.call = "stageValidator" ->
                  [g EXCEPT !.stagedValidators = Put(@, c.of, [to |-> c.arg, at |-> now + g.delay])]
           [] c.call = "commitAllPermissionGrants" ->
                  LET due == Due(g.stagedGrants)
                  IN  [g EXCEPT !.granted = @ \cup UNION {{x} \X g.stagedGrants[x].perms : x \in due},
                                !.stagedGrants = Restrict(@, DOMAIN @ \ due)]
           [] c.call = "commitAllValidators" ->
                  LET due == Due(g.stagedValidators)
                  IN  [g EXCEPT !.validators = [x \in DOMAIN @ \cup due |->
                                   IF x \in due THEN g.stagedValidators[x].to ELSE @[x]],
                                !.stagedValidators = Restrict(@, DOMAIN @ \ due)]
           [] c.call = "stageParams" -> [g EXCEPT !.paramsAt = now + g.delay]
           [] c.call = "commitParams" ->
                  IF g.paramsAt = 0 \/ g.paramsAt > now THEN [g EXCEPT !.reverted = TRUE]
                  ELSE [g EXCEPT !.delay = 1, !.paramsAt = 0]
           [] c.call = "grantRole" -> [g EXCEPT !.admins = @ \cup {c.of}]
           [] c.call = "renounceRole" -> [g EXCEPT !.admins = @ \ {c.of}]

Before ==
    [admins |-> gov.admins, delay |-> gov.delay, paramsAt |-> gov.paramsAt,
     granted |-> gov.granted, stagedGrants |-> gov.stagedGrants,
     validators |-> gov.validators, stagedValidators |-> gov.stagedValidators,
     price |-> unitPrices, stagedPrice |-> stagedUnitPrices,
     priceAt |-> stagedUnitPricesTimestamps, reverted |-> FALSE]

Finalized(calls) ==
    LET after[i \in 0..Len(calls)] ==
            IF i = 0 THEN {Before}
            ELSE {Apply(g, calls[i]) : g \in after[i - 1]}
    IN  after[Len(calls)]

-----------------------------------------------------------------------------
(* A run.                                                                  *)

Idle == [tag |-> "", at |-> 0]
Steps == IF run = Idle THEN <<>> ELSE Plan[network][run.tag]
Continue == run' = [run EXCEPT !.at = @ + 1]
Current(op) == run # Idle /\ run.at <= Len(Steps) /\ Steps[run.at].op = op
Name == Steps[run.at].name
Stop(why) ==
    /\ run' = Idle
    /\ outcome' = [tag |-> run.tag, why |-> why]
    /\ UNCHANGED scriptVars

StartRun(tag) ==
    /\ run = Idle
    /\ run' = [tag |-> tag, at |-> 1]
    /\ tag = network \/ selections < MaxSelections
    /\ selections' = IF tag = network THEN selections ELSE selections + 1
    /\ UNCHANGED <<vars, network, outcome, scriptVars, crashes>>

EndRun ==
    /\ run # Idle /\ run.at > Len(Steps)
    /\ Stop("done")
    /\ UNCHANGED <<vars, network, boundVars>>

(* The process dies, or a transaction or the node fails it.                *)
Crash ==
    /\ run # Idle /\ crashes < MaxCrashes
    /\ crashes' = crashes + 1
    /\ Stop("crashed")
    /\ UNCHANGED <<vars, network, selections>>

GetStep ==
    /\ Current("get")
    /\ IF Steps[run.at].uses \subseteq deployed
       THEN Continue /\ UNCHANGED <<outcome, scriptVars>>
       ELSE Stop("missing")
    /\ UNCHANGED <<vars, network, boundVars>>

(* What is deployed already, with the same arguments, is left as it is.    *)
DeployStep ==
    /\ Current("deploy")
    /\ IF Name \in deployed \/ Steps[run.at].ok
       THEN /\ Continue
            /\ deployed' = deployed \cup {Name}
            /\ UNCHANGED <<outcome, issuer, approved, gov, listed, built, fellBack>>
       ELSE Stop("reverted")
    /\ UNCHANGED <<vars, network, boundVars>>

(* 0100: a failure to deploy the helper is swallowed and an address written *)
(* in the script is used; with another helper than the one of record the    *)
(* governance is deployed anew, and the new one is registered nowhere.      *)
HelperStep ==
    /\ Current("deploy helper")
    /\ Continue
    /\ \/ /\ deployed' = deployed \cup {"ERC20RootVaultHelper"}
          /\ issuer' = [issuer EXCEPT !.next = "own"]
          /\ UNCHANGED <<fellBack, crashes>>
       \/ /\ crashes < MaxCrashes /\ crashes' = crashes + 1
          /\ issuer' = [issuer EXCEPT !.next = "written"]
          /\ fellBack' = TRUE
          /\ UNCHANGED deployed
    /\ UNCHANGED <<vars, network, outcome, approved, gov, listed, built, selections>>

IssuerStep ==
    /\ Current("deploy issuer")
    /\ Continue
    /\ IF issuer.now = issuer.next THEN UNCHANGED <<deployed, issuer, approved, gov>>
       ELSE /\ deployed' = deployed \cup {"ERC20RootVaultGovernance"}
            /\ issuer' = [issuer EXCEPT !.now = issuer.next]
            /\ approved' = FALSE
            /\ gov' = [gov EXCEPT !.granted = @ \ ({"ERC20RootVaultGovernance"} \X {"REGISTER_VAULT"})]
    /\ UNCHANGED <<vars, network, outcome, listed, built, fellBack, boundVars>>

ApproveStep ==
    /\ Current("approve issuer")
    /\ Continue
    /\ approved' = TRUE
    /\ UNCHANGED <<vars, network, outcome, deployed, issuer, gov, listed, built, fellBack,
                   boundVars>>

FinalizeStep ==
    /\ Current("finalize")
    /\ IF gov.delay > 0
       THEN Continue /\ UNCHANGED <<vars, outcome, scriptVars>>
       ELSE \E g \in Finalized(FinalizingCalls) :
            IF "ERC20Validator" \notin deployed \/ g.reverted
            THEN Stop("reverted") /\ UNCHANGED vars
            ELSE /\ Continue
                 /\ unitPrices' = g.price /\ stagedUnitPrices' = g.stagedPrice
                 /\ stagedUnitPricesTimestamps' = g.priceAt
                 /\ gov' = Restrict(g, DOMAIN gov)
                 /\ UNCHANGED <<now, seen, outcome, deployed, issuer, approved, listed, built,
                                fellBack>>
    /\ UNCHANGED <<network, boundVars>>

(* A vault governance creates vaults for the deployer.                     *)
MayCreate ==
    LET step == Steps[run.at] IN
    /\ step.uses \subseteq deployed
    /\ step.uses \X {"REGISTER_VAULT"} \subseteq gov.granted
    /\ step.tokens \X {"ERC20_VAULT_TOKEN"} \subseteq gov.granted
    /\ <<"deployer", "CREATE_VAULT">> \in gov.granted

CreateStep ==
    /\ Current("create")
    /\ IF MayCreate THEN Continue /\ UNCHANGED <<outcome, scriptVars>> ELSE Stop("forbidden")
    /\ UNCHANGED <<vars, network, boundVars>>

CombineStep ==
    /\ Current("combine")
    /\ IF MayCreate /\ approved
       THEN /\ Continue
            /\ built' = built \cup {Name}
            /\ UNCHANGED <<outcome, deployed, issuer, approved, gov, listed, fellBack>>
       ELSE Stop("forbidden")
    /\ UNCHANGED <<vars, network, boundVars>>

(* The deployer is still an operator of ProtocolGovernance; a contract can  *)
(* be registered once.                                                      *)
RegisterStep ==
    /\ Current("register contracts")
    /\ IF listed = {}
       THEN /\ Continue
            /\ listed' = ToSet(Registered) \cup {"ContractRegistry", "ProtocolGovernance"}
            /\ UNCHANGED <<outcome, deployed, issuer, approved, gov, built, fellBack>>
       ELSE Stop("reverted")
    /\ UNCHANGED <<vars, network, boundVars>>

RunStep ==
    \/ EndRun \/ GetStep \/ DeployStep \/ HelperStep \/ IssuerStep \/ ApproveStep
    \/ FinalizeStep \/ CreateStep \/ CombineStep \/ RegisterStep

(* The admin, once ProtocolGovernance is his; time and readers.            *)
AdminStep ==
    /\ \/ "admin" \in gov.admins /\ \E k \in Repriced :
              \/ \E price \in Prices : StageUnitPrice(k, price)
              \/ RollbackUnitPrice(k) \/ CommitUnitPrice(k)
       \/ Tick \/ Look
    /\ UNCHANGED <<network, run, outcome, scriptVars, boundVars>>

DeployInit ==
    /\ Init
    /\ network \in Networks /\ run = Idle /\ outcome = [tag |-> "", why |-> ""]
    /\ deployed = {} /\ issuer = [now |-> "none", next |-> "none"] /\ approved = FALSE
    /\ gov = [admins |-> {"deployer"}, delay |-> 0, paramsAt |-> 0, granted |-> {},
              stagedGrants |-> <<>>, validators |-> <<>>, stagedValidators |-> <<>>]
    /\ listed = {} /\ built = {} /\ crashes = 0 /\ selections = 0 /\ fellBack = FALSE

DeployNext ==
    \/ \E tag \in {network} \cup Selections : StartRun(tag)
    \/ RunStep \/ Crash \/ AdminStep

(* A run goes on while its process lives; the operator starts the network's *)
(* command again after a run that failed.                                   *)
DeploySpec ==
    /\ DeployInit /\ [][DeployNext]_dvars
    /\ WF_dvars(RunStep) /\ WF_dvars(StartRun(network))

-----------------------------------------------------------------------------
(* Properties.                                                             *)

Strategies(n) == {step.name : step \in {s \in ToSet(Plan[n][n]) : s.op = "combine"}}
Used(n) == UNION {step.uses : step \in {s \in ToSet(Plan[n][n]) : s.op \in {"create", "combine"}}}
Tokens(n) == UNION {step.tokens : step \in {s \in ToSet(Plan[n][n]) : s.op = "create"}}

(* What a step leaves deployed; the helper may be left out.  A name that   *)
(* no script of the network manages to deploy is not Deployable.           *)
Saves(step) ==
    IF step.op = "deploy" THEN {step.name}
    ELSE IF step.op = "deploy issuer" THEN {"ERC20RootVaultGovernance"} ELSE {}
SavedBefore(steps, j) == UNION {Saves(steps[i]) : i \in 1..j - 1}
Deployable(n) ==
    {"ERC20RootVaultHelper", "ERC20RootVaultGovernance"}
      \cup UNION {{step.name : step \in {s \in ToSet(Plan[n][tag]) : s.op = "deploy" /\ s.ok}} :
                    tag \in {n} \cup Selections}

(* Each lookup of a whole run comes after the step that saves what it      *)
(* looks up.                                                               *)
LookupsFit ==
    \A n \in Networks : \A j \in 1..Len(Plan[n][n]) :
        Plan[n][n][j].op = "get" => Plan[n][n][j].uses \subseteq SavedBefore(Plan[n][n], j)

(* In the order hardhat-deploy gives the scripts: the helper comes before  *)
(* the governance that uses it, and where Finalize can be reached, what    *)
(* the network's strategies use is deployed by then, registered by it, and *)
(* their tokens are those it allows.                                       *)
ASSUME OrderAssumption ==
    \A n \in Networks : \A tag \in {n} \cup Selections : LET steps == Plan[n][tag] IN
        /\ steps \in Seq(ToSet(steps))
        /\ \A j \in 1..Len(steps) :
               /\ steps[j].op = "deploy" => steps[j].name # "ERC20RootVaultGovernance"
               /\ steps[j].op = "deploy issuer" => \E i \in 1..j - 1 : steps[i].op = "deploy helper"
               /\ steps[j].op = "finalize" /\ SavedBefore(steps, j) \subseteq Deployable(n) =>
                      /\ Used(n) \subseteq Registrars \cap SavedBefore(steps, j)
                      /\ Tokens(n) \subseteq Token

(* ProtocolGovernance is handed over whole or not at all: while the delay  *)
(* is 0 nothing is granted or staged and only the deployer is an admin;    *)
(* once it is not, nothing is left staged, every grant and validator is in *)
(* force, the admin has the role and the deployer has not.                 *)
HandedOverWhole ==
    /\ gov.stagedGrants = <<>> /\ gov.stagedValidators = <<>> /\ gov.paramsAt = 0
    /\ IF gov.delay = 0
       THEN gov.admins = {"deployer"} /\ gov.granted = {} /\ gov.validators = <<>>
       ELSE /\ gov.admins = {"admin"}
            /\ \A k \in Token : k \in DOMAIN gov.validators
                                   /\ <<k, "ERC20_VAULT_TOKEN">> \in gov.granted
            /\ {<<"deployer", "CREATE_VAULT">>, <<"admin", "CREATE_VAULT">>} \subseteq gov.granted

(* Whatever tags were run before, in whatever order, and wherever a run    *)
(* crashed: once ProtocolGovernance is handed over, and nobody but the     *)
(* admin can register more, the governances of record that the network's   *)
(* strategies use are registered and their tokens allowed, unless a failed *)
(* deploy of the helper was swallowed.                                     *)
StrategiesCanBeBuilt ==
    gov.delay # 0 /\ ~fellBack =>
        /\ Used(network) \X {"REGISTER_VAULT"} \subseteq gov.granted
        /\ Tokens(network) \X {"ERC20_VAULT_TOKEN"} \subseteq gov.granted

(* The tags and dependencies of the scripts fit each other: a run of the   *)
(* network's tag never stops for a deployment that another script of the   *)
(* run should have made before.                                            *)
NothingMissing == outcome.tag = network => outcome.why # "missing"

(* Where every address the oracles need exists, all strategies of the      *)
(* network are built in the end, whatever crashed, unless a failed deploy  *)
(* of the helper was swallowed.                                            *)
DeploymentCompletes ==
    <>(\/ fellBack \/ Strategies(network) \subseteq built
       \/ ~IsContract("wsteth", network))
=============================================================================
