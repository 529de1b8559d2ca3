---------------------------- MODULE StrategyBuild ----------------------------
(***************************************************************************)
(* The scripts that build a strategy (deploy/0130 to 0185): the deployer   *)
(* creates the subvaults and the strategy, hands the strategy's roles to   *)
(* mStrategyAdmin, creates the root vault over the subvaults and hands it  *)
(* over.  The registry is VaultRegistry; one action is one transaction or  *)
(* read of the script, and holders of CREATE_VAULT and other accounts use  *)
(* the registry and the strategies' factory in between.  A run may crash   *)
(* before any step and is then started again; it computes new NFTs.        *)
(*                                                                         *)
(* An operator that stands before its namesake and is used nowhere is a    *)
(* wrong version of it, kept to show that the properties would notice.     *)
(***************************************************************************)
EXTENDS VaultRegistry, SequencesExt

CONSTANTS
    Plans,            \* names of the strategies that may be built
    deployer, mStrategyAdmin, approver,
    StrategyAddress,  \* addresses that strategies get, in order of creation
    Rebalancer,       \* the contract that acts for MultiPoolHStrategy
    MaxRuns, MaxCrashes, MaxOthers  \* bounds: runs, crashes, calls of others

ASSUME BuilderAssumption ==
    /\ {deployer, mStrategyAdmin, approver} \subseteq User
    /\ deployer \in Creators /\ deployer # mStrategyAdmin
    /\ Rebalancer \in Strategy
    /\ {MaxRuns, MaxCrashes, MaxOthers} \subseteq Nat
ASSUME PlanAssumption ==
    Plans \subseteq {"MStrategy", "HStrategy", "LStrategy", "MultiPoolHStrategy",
                    "SinglePositionStrategy", "SinglePositionQuickSwapStrategy",
                    "QuickPulseStrategy", "PulseRouteStrategy"}
(* No address is given twice, and there is one for each strategy made.     *)
ASSUME StrategyAddressAssumption ==
    /\ StrategyAddress \in Seq(Strategy \ {Rebalancer})
    /\ \A i, j \in DOMAIN StrategyAddress : StrategyAddress[i] = StrategyAddress[j] => i = j
    /\ MaxRuns + MaxOthers <= Len(StrategyAddress)

VARIABLES
    plan, runs, crashes, others,
    pc,          \* the next step of the script, or 0
    startNft,    \* vaultsCount + 1, as the script read it
    saved,       \* the address saved under the strategy's deployment name
    made,        \* strategies made
    vaultsOf,    \* the NFTs of the vaults each was made for
    roles,       \* roles in each, <<role, account>>
    unawaited,   \* approvals sent and not waited for, in order
    positions,   \* vaults that a Uniswap position was sent to
    configured,  \* calls made to configure each root vault or subvault
    outcome,     \* of the last run
    quiet        \* history: in this run nobody else made a vault, a strategy or a
                 \* position in between, and no confirmation was lost

strategyVars == <<made, vaultsOf, roles>>
scriptVars == <<pc, startNft, saved, unawaited, outcome>>
builderVars == <<strategyVars, scriptVars, positions, configured>>
buildVars == <<vars, builderVars, plan, runs, crashes, others, quiet>>

-----------------------------------------------------------------------------
(* The scripts.                                                            *)

S(op, i) == [op |-> op, i |-> i]
ForEach(op, is) == [j \in DOMAIN is |-> S(op, is[j])]
Op(op) == <<S(op, 0)>>

(* setupVault of subvault i; of the governances for Uniswap and QuickSwap  *)
(* those called with parameters in a list stage and commit them.           *)
SetupVault(i) == <<S("createVault", i)>>
SetupVaultWithParams(i) ==
    SetupVault(i) \o <<S("stageDelayedStrategyParams", i), S("commitDelayedStrategyParams", i)>>

GiveFirst ==
    <<S("createRootVault", 0), S("setStrategyParams", 0), S("stageDelayedStrategyParams", 0),
      S("commitDelayedStrategyParams", 0), S("give", 0), S("addDepositorsToAllowlist", 0)>>
CombineVaults ==
    <<S("createRootVault", 0), S("setStrategyParams", 0), S("stageDelayedStrategyParams", 0),
      S("commitDelayedStrategyParams", 0), S("addDepositorsToAllowlist", 0), S("give", 0)>>

PreparePush(i) == <<S("sendApproval", i), S("push", i)>>

Grant(role, a) == [op |-> "grant", role |-> role, to |-> a]
Revoke(role) == [op |-> "revoke", role |-> role, to |-> deployer]
AdminAlone == <<Grant("ADMIN_ROLE", mStrategyAdmin), Revoke("ADMIN_ROLE")>>
AdminFirst ==
    <<Revoke("ADMIN_ROLE"), Grant("ADMIN_DELEGATE_ROLE", deployer),
      Grant("ADMIN_ROLE", mStrategyAdmin), Revoke("OPERATOR"), Revoke("ADMIN_DELEGATE_ROLE")>>
AdminLast ==
    <<Grant("ADMIN_DELEGATE_ROLE", deployer), Grant("ADMIN_ROLE", mStrategyAdmin),
      Revoke("OPERATOR"), Revoke("ADMIN_DELEGATE_ROLE"), Revoke("ADMIN_ROLE")>>
LStrategyKept ==
    <<Grant("ADMIN_ROLE", mStrategyAdmin), Grant("ADMIN_DELEGATE_ROLE", mStrategyAdmin),
      Grant("ADMIN_DELEGATE_ROLE", deployer), Grant("OPERATOR", mStrategyAdmin),
      Revoke("OPERATOR"), Revoke("ADMIN_ROLE")>>
LStrategyFirst ==
    <<Revoke("ADMIN_ROLE"), Grant("ADMIN_ROLE", mStrategyAdmin)>>
LStrategyRoles ==
    <<Grant("ADMIN_ROLE", mStrategyAdmin), Grant("ADMIN_DELEGATE_ROLE", mStrategyAdmin),
      Grant("ADMIN_DELEGATE_ROLE", deployer), Grant("OPERATOR", mStrategyAdmin),
      Revoke("OPERATOR"), Revoke("ADMIN_DELEGATE_ROLE"), Revoke("ADMIN_ROLE")>>

(* vaults: kinds in order of creation; nfts: those combined, the vault     *)
(* without a protocol first; made: a clone of a base strategy, a contract  *)
(* of its own, or a proxy under a fixed name; roles: calls in one          *)
(* multicall, tried for ever or once, or one by one at the end; waits:     *)
(* whether the script waits until all it sends is mined (execute and       *)
(* deploy of hardhat-deploy do, a call through ethers only sends).  The    *)
(* four scripts of ProxyStrategy differ in their names and in the AMM.     *)
MStrategy ==
    [vaults |-> <<"integration", "erc20">>, nfts |-> <<2, 1>>,
     rebalanced |-> FALSE, retries |-> FALSE, waits |-> FALSE, roles |-> AdminAlone,
     steps |-> SetupVault(1) \o SetupVault(2) \o Op("predict") \o Op("clone") \o Op("multicall")
                 \o CombineVaults]
HStrategy ==
    [vaults |-> <<"erc20", "integration", "integration">>, nfts |-> <<1, 2, 3>>,
     rebalanced |-> FALSE, retries |-> TRUE, waits |-> TRUE, roles |-> AdminLast,
     steps |-> SetupVault(1) \o SetupVault(2) \o SetupVault(3)
                 \o Op("predict") \o Op("clone") \o Op("multicall")
                 \o ForEach("approve", <<1, 2, 3>>) \o CombineVaults]
MultiPoolHStrategy ==
    [vaults |-> <<"erc20", "integration", "integration", "integration">>, nfts |-> <<1, 2, 3, 4>>,
     rebalanced |-> TRUE, retries |-> TRUE, waits |-> TRUE, roles |-> AdminLast,
     steps |-> SetupVault(1) \o SetupVault(2) \o SetupVault(3) \o SetupVault(4)
                 \o Op("predict") \o Op("clone") \o Op("multicall")
                 \o ForEach("approve", <<1, 2, 3, 4>>) \o CombineVaults]
LStrategy ==
    [vaults |-> <<"integration", "integration", "erc20">>, nfts |-> <<3, 1, 2>>,
     rebalanced |-> FALSE, retries |-> FALSE, waits |-> FALSE, roles |-> LStrategyRoles,
     steps |-> SetupVault(1) \o SetupVault(2) \o SetupVault(3) \o Op("deploy")
                 \o PreparePush(1) \o PreparePush(2) \o CombineVaults
                 \o ForEach("role", [j \in DOMAIN LStrategyRoles |-> j])]
ProxyStrategy ==
    [vaults |-> <<"erc20", "integration">>, nfts |-> <<1, 2>>,
     rebalanced |-> FALSE, retries |-> FALSE, waits |-> TRUE, roles |-> <<>>,
     steps |-> SetupVault(1) \o SetupVaultWithParams(2) \o Op("deployProxy")
                 \o ForEach("approve", <<1, 2>>) \o CombineVaults]
SinglePositionQuickSwapStrategy == ProxyStrategy
QuickPulseStrategy == ProxyStrategy
PulseRouteStrategy == ProxyStrategy

Build == [MStrategy |-> MStrategy, HStrategy |-> HStrategy, LStrategy |-> LStrategy,
          MultiPoolHStrategy |-> MultiPoolHStrategy, SinglePositionStrategy |-> ProxyStrategy,
          SinglePositionQuickSwapStrategy |-> SinglePositionQuickSwapStrategy,
          QuickPulseStrategy |-> QuickPulseStrategy,
          PulseRouteStrategy |-> PulseRouteStrategy][plan]
Step == Build.steps[pc]
Current(op) == pc \in DOMAIN Build.steps /\ Step.op = op /\ creating = NoCreation

(* The NFT the script expects of subvault i; 0 is the root vault.          *)
ExpectedNft(i) == startNft + (IF i = 0 THEN Len(Build.vaults) ELSE i - 1)
ExpectedNfts == {ExpectedNft(i) : i \in DOMAIN Build.vaults}

Continue == pc' = pc + 1 /\ UNCHANGED <<startNft, unawaited, outcome>>
End(why) == pc' = 0 /\ outcome' = why /\ unawaited' = <<>> /\ UNCHANGED <<startNft, saved>>

-----------------------------------------------------------------------------
(* Steps of a run.                                                         *)

StartRun ==
    /\ pc = 0 /\ runs < MaxRuns /\ creating = NoCreation
    /\ Len(vaults) + Len(Build.vaults) + 1 + MaxOthers - others <= MaxNft
    /\ pc' = 1 /\ runs' = runs + 1 /\ quiet' = TRUE
    /\ startNft' = Len(vaults) + 1 /\ outcome' = "none"
    /\ UNCHANGED <<vars, strategyVars, saved, unawaited, positions, configured, plan,
                   crashes, others>>

EndRun ==
    /\ pc = Len(Build.steps) + 1
    /\ End("done")
    /\ UNCHANGED <<vars, strategyVars, positions, configured>>

(* A transaction that reverts makes the script throw.                      *)
Throw(why) ==
    End(why) /\ UNCHANGED <<vars, strategyVars, positions, configured>>

(* setupVault creates a vault unless there are more vaults than it expects. *)
CreateVaultStep ==
    /\ Current("createVault")
    /\ Continue
    /\ IF Len(vaults) <= ExpectedNft(Step.i)
       THEN CreateIntegrationVault(deployer, deployer, Build.vaults[Step.i])
       ELSE UNCHANGED vars
    /\ UNCHANGED <<strategyVars, saved, positions, configured>>

(* What makes the creation of a root vault succeed (FinishRootVault).      *)
MayCombine ==
    /\ \A n \in ExpectedNfts : Subvault(n) /\ Unlocked(n) /\ ownerOf[n] = deployer
                               /\ ApprovedOrOwner(Governance, n)
    /\ kind[vaultIndex[ExpectedNft(Build.nfts[1])]] = "erc20"
CreateRootVaultStep ==
    /\ Current("createRootVault")
    /\ IF Len(vaults) > ExpectedNft(0)
       THEN Continue /\ UNCHANGED <<vars, strategyVars, saved, positions, configured>>
       ELSE IF MayCombine
       THEN /\ Continue
            /\ CreateRootVault(deployer, deployer, ExpectedNft(Build.nfts[1]),
                               ExpectedNfts \ {ExpectedNft(Build.nfts[1])},
                               IF Build.rebalanced THEN Rebalancer ELSE saved)
            /\ UNCHANGED <<strategyVars, saved, positions, configured>>
       ELSE Throw("reverted")

(* Calls on the governance or the vault of an NFT, for its owner and the   *)
(* account approved for it.  The governance takes parameters for any NFT;  *)
(* only a root vault has depositors.                                       *)
ConfigureStep ==
    /\ \E op \in {"setStrategyParams", "stageDelayedStrategyParams",
                  "commitDelayedStrategyParams", "addDepositorsToAllowlist"} : Current(op)
    /\ LET nft == ExpectedNft(Step.i) IN
       IF /\ deployer \in {ownerOf[nft], getApproved[nft]}
          /\ Step.op = "addDepositorsToAllowlist" => kind[vaultIndex[nft]] = "root"
       THEN /\ Continue
            /\ configured' = [configured EXCEPT ![nft] = @ \cup {Step.op}]
            /\ UNCHANGED <<vars, strategyVars, saved, positions>>
       ELSE Throw("reverted")

(* The address a clone would get is asked for first and saved after the    *)
(* call that makes one.                                                    *)
PredictStep ==
    /\ Current("predict")
    /\ Continue
    /\ saved' = StrategyAddress[made + 1]
    /\ UNCHANGED <<vars, strategyVars, positions, configured>>

FirstRoles(a) == {<<"ADMIN_ROLE", a>>, <<"OPERATOR", a>>}
Make(admin, nfts, first) ==
    LET s == StrategyAddress[made + 1] IN
    /\ made' = made + 1
    /\ vaultsOf' = [vaultsOf EXCEPT ![s] = nfts]
    /\ roles' = [roles EXCEPT ![s] = first]

(* The transactions of the deployer are mined in the order they are sent,  *)
(* so one that was only sent takes effect here at once; the steps that may *)
(* find it not mined yet also throw "too early".                           *)
CloneStep ==
    /\ Current("clone")
    /\ Continue
    /\ Make(deployer, ExpectedNfts, FirstRoles(deployer))
    /\ UNCHANGED <<vars, saved, positions, configured>>

(* A strategy whose constructor names the vaults is new in every run.      *)
DeployOnce ==
    IF saved = NoOne
    THEN Make(deployer, ExpectedNfts, FirstRoles(deployer)) /\ saved' = StrategyAddress[made + 1]
    ELSE UNCHANGED <<strategyVars, saved>>
DeployAnew ==
    Make(deployer, ExpectedNfts, FirstRoles(deployer)) /\ saved' = StrategyAddress[made + 1]
DeployStep ==
    /\ Current("deploy")
    /\ Continue
    /\ DeployAnew
    /\ UNCHANGED <<vars, positions, configured>>

(* A proxy is deployed once, and not initialised.                          *)
DeployProxyStep ==
    /\ Current("deployProxy")
    /\ Continue
    /\ IF saved = NoOne
       THEN Make(deployer, {}, {}) /\ saved' = StrategyAddress[made + 1]
       ELSE UNCHANGED <<strategyVars, saved>>
    /\ UNCHANGED <<vars, positions, configured>>

(* AccessControl: ADMIN_ROLE administers itself and ADMIN_DELEGATE_ROLE,   *)
(* which administers OPERATOR; renounceRole of one's own role needs no     *)
(* more than revokeRole does here.  The calls of a multicall all succeed   *)
(* or none, and none while the clone is not there.                         *)
AdminOf(role) == IF role = "OPERATOR" THEN "ADMIN_DELEGATE_ROLE" ELSE "ADMIN_ROLE"
MayCallRole(held, c) == <<AdminOf(c.role), deployer>> \in held
CalledRole(held, c) ==
    IF c.op = "grant" THEN held \cup {<<c.role, c.to>>} ELSE held \ {<<c.role, c.to>>}
MulticallRoles(held, cs) ==
    LET after[j \in 0..Len(cs)] ==
            IF j = 0 THEN {held}
            ELSE {CalledRole(h, cs[j]) : h \in {g \in after[j - 1] : MayCallRole(g, cs[j])}}
    IN  after[Len(cs)]

MulticallStep ==
    LET results == MulticallRoles(roles[saved], Build.roles) IN
    /\ Current("multicall")
    /\ \/ IF results # {}
          THEN \E held \in results :
               /\ roles' = [roles EXCEPT ![saved] = held]
               /\ Continue
               /\ UNCHANGED <<vars, made, vaultsOf, saved, positions, configured>>
          ELSE IF Build.retries THEN UNCHANGED <<vars, builderVars>> ELSE Throw("reverted")
       \/ ~Build.waits /\ Throw("too early")

(* The multicall is mined and its confirmation lost: a script that tries   *)
(* again never succeeds.                                                   *)
LoseConfirmation ==
    /\ Current("multicall") /\ Build.retries /\ crashes < MaxCrashes
    /\ crashes' = crashes + 1
    /\ \E held \in MulticallRoles(roles[saved], Build.roles) :
           roles' = [roles EXCEPT ![saved] = held]
    /\ quiet' = FALSE
    /\ UNCHANGED <<vars, made, vaultsOf, scriptVars, positions, configured, plan, runs, others>>

(* A call that one before it allows is refused while that is not mined.    *)
AllowedBefore(c) == Grant(AdminOf(c.role), deployer) \in {Build.roles[j] : j \in 1..(Step.i - 1)}
RoleStep ==
    /\ Current("role")
    /\ LET c == Build.roles[Step.i] IN
       \/ IF MayCallRole(roles[saved], c)
          THEN /\ Continue
               /\ roles' = [roles EXCEPT ![saved] = CalledRole(@, c)]
               /\ UNCHANGED <<vars, made, vaultsOf, saved, positions, configured>>
          ELSE Throw("reverted")
       \/ AllowedBefore(c) /\ Throw("too early")

ApproveStep ==
    /\ Current("approve")
    /\ LET nft == ExpectedNft(Step.i) IN
       IF ownerOf[nft] = deployer
       THEN /\ Approve(deployer, Governance, nft)
            /\ Continue
            /\ UNCHANGED <<strategyVars, saved, positions, configured>>
       ELSE Throw("reverted")

(* preparePush approves the approver and, after the approver moved a       *)
(* position to the vault, the strategy, without waiting even until the     *)
(* call is sent.  The vault accepts the position of an account approved    *)
(* for it.                                                                 *)
SendApproval(to, nft) == unawaited' = Append(unawaited, <<to, nft>>)
SendStep ==
    /\ Current("sendApproval")
    /\ SendApproval(approver, ExpectedNft(Step.i))
    /\ pc' = pc + 1
    /\ UNCHANGED <<vars, strategyVars, startNft, saved, outcome, positions, configured>>

(* The deployer mints the position and the approver moves it, both only    *)
(* sent: the move fails at once while the position is not mined.  (Nobody  *)
(* hears of one that fails later, as when the approval of the strategy is  *)
(* mined before it; positions says what was sent.)                         *)
PushStep ==
    /\ Current("push")
    /\ LET nft == ExpectedNft(Step.i) IN
       IF getApproved[nft] = approver
       THEN \/ /\ positions' = positions \cup {nft}
               /\ SendApproval(saved, nft)
               /\ pc' = pc + 1
               /\ UNCHANGED <<vars, strategyVars, startNft, saved, outcome, configured>>
            \/ Throw("too early")
       ELSE Throw(IF <<approver, nft>> \in ToSet(unawaited) THEN "too early" ELSE "reverted")

(* An approval that was not waited for is mined; one that reverts is seen  *)
(* by nobody or ends the process.                                          *)
MineApproval ==
    /\ unawaited # <<>> /\ creating = NoCreation
    /\ LET to == Head(unawaited)[1]  nft == Head(unawaited)[2] IN
       IF ownerOf[nft] = deployer
       THEN /\ Approve(deployer, to, nft)
            /\ unawaited' = Tail(unawaited)
            /\ UNCHANGED <<strategyVars, pc, startNft, saved, outcome, positions, configured>>
       ELSE \/ /\ unawaited' = Tail(unawaited)
               /\ UNCHANGED <<vars, strategyVars, pc, startNft, saved, outcome, positions,
                              configured>>
            \/ Throw("too late")

(* The root vault goes to mStrategyAdmin.                                  *)
GiveStep ==
    /\ Current("give")
    /\ LET nft == ExpectedNft(0) IN
       IF ownerOf[nft] = deployer
       THEN /\ TransferFrom(deployer, mStrategyAdmin, nft)
            /\ Continue
            /\ UNCHANGED <<strategyVars, saved, positions, configured>>
       ELSE Throw("reverted")

ScriptStep ==
    /\ \/ EndRun \/ CreateVaultStep \/ CreateRootVaultStep \/ ConfigureStep \/ PredictStep
       \/ CloneStep \/ DeployStep \/ DeployProxyStep \/ MulticallStep \/ RoleStep
       \/ ApproveStep \/ SendStep \/ PushStep \/ GiveStep
    /\ UNCHANGED <<plan, runs, crashes, others, quiet>>

(* The governance of root vaults may move the deployer's NFTs since it was *)
(* deployed (0100).                                                        *)
ApproveAllStep ==
    /\ runs = 0 /\ pc = 0 /\ operators = {}
    /\ SetApprovalForAll(deployer, Governance, TRUE)
    /\ UNCHANGED <<builderVars, plan, runs, crashes, others, quiet>>

Crash ==
    /\ pc # 0 /\ creating = NoCreation /\ crashes < MaxCrashes
    /\ crashes' = crashes + 1
    /\ Throw("crashed")
    /\ UNCHANGED <<plan, runs, others, quiet>>

-----------------------------------------------------------------------------
(* The others.                                                             *)

OthersCall ==
    /\ others < MaxOthers /\ creating = NoCreation
    /\ others' = others + 1

OtherVault ==
    /\ OthersCall
    /\ quiet' = FALSE
    /\ \E u \in Creators \ {deployer} :
           \/ \E k \in {"erc20", "integration"} : CreateIntegrationVault(u, u, k)
           \/ \E v \in Foreign : RegisterVault(u, v, u)
    /\ UNCHANGED <<builderVars, plan, runs, crashes>>

OtherStrategy ==
    /\ OthersCall
    /\ quiet' = FALSE
    /\ \E u \in Creators \ {deployer} : Make(u, {}, FirstRoles(u))
    /\ UNCHANGED <<vars, scriptVars, positions, configured, plan, runs, crashes>>

(* Another minter gets the number that the script foresaw for its position, *)
(* and the approver moves what is not his.                                 *)
OtherPosition ==
    /\ OthersCall
    /\ quiet' = FALSE
    /\ Current("push")
    /\ Throw("reverted")
    /\ UNCHANGED <<plan, runs, crashes>>

(* Everybody may try to move NFTs, the strategies those they manage; the   *)
(* approver acts for the script only.  While a vault is created, its owner *)
(* may, when registerVault calls him back (MayAct).                        *)
OtherOwner ==
    /\ others < MaxOthers /\ others' = others + 1
    /\ \E a \in Holder \ {deployer, approver}, n \in Nft :
       /\ a \in Strategy => n \in locks
       /\ \/ \E to \in Destinations : TransferFrom(a, to, n)
          \/ \E to \in Approvees : Approve(a, to, n)
          \/ LockNft(a, n)
    /\ UNCHANGED <<builderVars, plan, runs, crashes, quiet>>

FinishCreation ==
    /\ FinishIntegrationVault \/ FinishRootVault
    /\ UNCHANGED <<builderVars, plan, runs, crashes, others, quiet>>

Others == OtherVault \/ OtherStrategy \/ OtherPosition \/ OtherOwner

BuildInit ==
    /\ Init
    /\ plan \in Plans
    /\ runs = 0 /\ crashes = 0 /\ others = 0 /\ quiet = TRUE
    /\ pc = 0 /\ startNft = 0 /\ saved = NoOne /\ unawaited = <<>> /\ outcome = "none"
    /\ made = 0 /\ vaultsOf = [s \in Strategy |-> {}] /\ roles = [s \in Strategy |-> {}]
    /\ positions = {} /\ configured = [n \in Nft |-> {}]

BuildNext ==
    \/ ApproveAllStep
    \/ operators # {} /\ StartRun
    \/ ScriptStep \/ LoseConfirmation \/ Crash
    \/ MineApproval /\ UNCHANGED <<plan, runs, crashes, others, quiet>>
    \/ FinishCreation
    \/ Others

(* A script goes on while its process lives, and what it sent is mined.    *)
BuildSpec ==
    /\ BuildInit /\ [][BuildNext]_buildVars
    /\ WF_buildVars(ScriptStep) /\ WF_buildVars(FinishCreation)

-----------------------------------------------------------------------------
(* Properties.                                                             *)

(* A strategy that was made for certain vaults only ever manages a root    *)
(* vault of those, whatever other vaults are created, however often the    *)
(* script is started again.                                                *)
RootHoldsStrategysVaults ==
    \A n \in Nft : LET s == strategyOf[n] IN
        subvaults[n] # {} /\ s \in Strategy /\ vaultsOf[s] # {} => subvaults[n] = vaultsOf[s]

(* A run in which nobody else made a vault, a strategy or a position in    *)
(* between and no confirmation was lost does not throw, for whatever       *)
(* reason, if its script waits until all it sends is mined; the scripts    *)
(* that do not, MStrategy's and LStrategy's, throw only because a          *)
(* transaction of their own was not mined yet, or too late.                *)
OnlyDisturbedRunsFail ==
    quiet => /\ outcome # "reverted"
             /\ outcome \in {"too early", "too late"} => ~Build.waits

(* A script that ends leaves mStrategyAdmin the root vault it built over   *)
(* its subvaults, with all parameters set and the admin among depositors;  *)
(* and if it made the strategy, mStrategyAdmin administers it and the      *)
(* deployer cannot, although MStrategy leaves it an operator (of LStrategy *)
(* once the last role calls, which are only sent, are mined).              *)
FinishedBuildIsHandedOver ==
    [][outcome' = "done" /\ pc = Len(Build.steps) + 1 =>
           /\ ownerOf[ExpectedNft(0)] \in {mStrategyAdmin} \cup Destinations
           /\ subvaults[ExpectedNft(0)] = ExpectedNfts
           /\ Cardinality(configured[ExpectedNft(0)]) = 4
           /\ vaultsOf[saved] # {} =>
                  /\ <<"ADMIN_ROLE", mStrategyAdmin>> \in roles[saved]
                  /\ \A r \in roles[saved] : r[2] = deployer => r[1] = "OPERATOR"]_buildVars

(* At every moment somebody administers every strategy that has vaults,    *)
(* wherever a script stops.                                                *)
StrategyHasAdmin ==
    \A s \in Strategy : vaultsOf[s] # {} => \E a \in User : <<"ADMIN_ROLE", a>> \in roles[s]

(* Every run comes to an end, unless somebody made vaults or strategies in *)
(* between or the confirmation of the multicall was lost.                  *)
BuildsEnd == pc # 0 ~> (pc = 0 \/ ~quiet)
=============================================================================
