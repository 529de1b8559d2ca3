------------------------ MODULE StrategyBuild_proofs ------------------------
(***************************************************************************)
(* The registry by itself: its indices are inverse, subvaults stay where   *)
(* initialize put them, and locked NFTs never move, for every number of    *)
(* vaults, users and strategies.  The registry under the build scripts and *)
(* everybody else who uses it: the same of indices and subvaults, root     *)
(* vaults hold the vaults of their strategy, and a strategy with vaults    *)
(* always has an admin, for all users, bounds on runs and crashes, and     *)
(* plans.  Then how far a script has come: a path of stages through every  *)
(* plan, what is built, configured and handed over at each, and so that a  *)
(* script that ends hands everything over.  Last, runs in which nobody else *)
(* makes a vault or a strategy: what they own and wait for, and so that    *)
(* none of their calls reverts.                                            *)
(***************************************************************************)
EXTENDS StrategyBuild, FiniteSetTheorems, TLAPS

(* What the indices are, and that a clone is registered, if at all, as the *)
(* NFT that salts its address.                                             *)
IndexInv ==
    /\ vaults \in Seq(Vault) /\ topNft = Len(vaults) + 1
    /\ nftIndex \in [Vault -> Nat] /\ vaultIndex \in [Nft -> Vault \cup {NoOne}]
    /\ \A n \in Nft : vaultIndex[n] # NoOne => n < topNft /\ nftIndex[vaultIndex[n]] = n
    /\ \A v \in Vault : nftIndex[v] # 0 => nftIndex[v] \in Nft /\ vaultIndex[nftIndex[v]] = v
    /\ vaultNft \in [Vault -> Nat]
    /\ \A v \in Vault : vaultNft[v] # 0 => vaultNft[v] = nftIndex[v]

(* A creation under way has a registered clone, and NFTs for subvaults.    *)
CreationInv ==
    creating # NoCreation =>
        /\ creating.nft \in Nft
        /\ nftIndex[Clone(creating.nft)] = creating.nft
        /\ creating.kind = "root" => creating.subvaults \subseteq Nft

(* Nobody but the accounts that act approves operators, and what is locked *)
(* has an owner and so is not yet to be minted.                            *)
OwnerInv ==
    /\ ownerOf \in [Nft -> Account \cup {NoOne}]
    /\ getApproved \in [Nft -> Account \cup Approvees \cup {NoOne}]
    /\ operators \subseteq Holder \X Account
    /\ subvaults \in [Nft -> SUBSET Nft]
    /\ strategyOf \in [Nft -> Strategy \cup {NoOne}]
    /\ \A n \in Nft : ownerOf[n] # NoOne => n < topNft
    /\ \A n \in locks : n \in Nft /\ n < topNft

CreatingStrategy ==
    creating # NoCreation /\ creating.kind = "root" => creating.strategy \in Strategy

IInv == IndexInv /\ CreationInv /\ OwnerInv /\ CreatingStrategy /\ SubvaultsStay

-----------------------------------------------------------------------------
(* No account that acts is a vault or address(0).                          *)
LEMMA HoldersAreNoVaults ==
    /\ \A a \in Holder : a \notin Nft /\ a # NoOne
    /\ \A n \in Nft : n # NoOne /\ n \in Vault /\ n \in Account /\ n \in Nat \ {0}
    /\ \A v \in Vault : v # NoOne
BY AddressAssumption, BoundAssumption DEF Holder, Nft, Account, Vault

LEMMA InitIInv == Init => IInv
<1> SUFFICES ASSUME Init PROVE IInv
  OBVIOUS
<1>1. IndexInv
  BY HoldersAreNoVaults DEF Init, IndexInv, Vault
<1>2. CreationInv /\ CreatingStrategy
  BY DEF Init, CreationInv, CreatingStrategy
<1>3. OwnerInv
  BY DEF Init, OwnerInv
<1>4. SubvaultsStay
  BY DEF Init, SubvaultsStay
<1> QED
  BY <1>1, <1>2, <1>3, <1>4 DEF IInv

(* Registration keeps the indices inverse and touches no minted NFT.       *)
LEMMA RegisterKeeps ==
    ASSUME IInv, NEW sender, NEW vault \in Vault, NEW owner \in User,
           Register(sender, vault, owner), UNCHANGED vaultVars
    PROVE  IndexInv' /\ OwnerInv' /\ SubvaultsStay' /\ nftIndex'[vault] = topNft
<1> USE DEF IInv
<1>1. topNft \in Nft /\ vaultIndex[topNft] = NoOne /\ nftIndex[vault] = 0
  BY DEF Register, IndexInv, NotRegistered
<1>2. IndexInv'
  <2>1. vaults' \in Seq(Vault) /\ topNft' = Len(vaults') + 1
    BY DEF Register, TopNftAfter, IndexInv
  <2>2. nftIndex' \in [Vault -> Nat] /\ vaultIndex' \in [Nft -> Vault \cup {NoOne}]
    BY <1>1, HoldersAreNoVaults DEF Register, IndexInv
  <2>3. ASSUME NEW n \in Nft, vaultIndex'[n] # NoOne
        PROVE  n < topNft' /\ nftIndex'[vaultIndex'[n]] = n
    <3>1. topNft' = topNft + 1 /\ topNft \in Nat /\ n \in Nat
      BY <1>1, HoldersAreNoVaults DEF Register, TopNftAfter
    <3>2. CASE n = topNft
      BY <1>1, <3>1, <3>2 DEF Register, IndexInv
    <3>3. CASE n # topNft
      <4>1. vaultIndex'[n] = vaultIndex[n]
        BY <1>1, <3>3 DEF Register, IndexInv
      <4>2. n < topNft /\ nftIndex[vaultIndex[n]] = n /\ vaultIndex[n] \in Vault
        BY <2>3, <4>1 DEF IndexInv
      <4>3. vaultIndex[n] # vault
        BY <1>1, <4>2, HoldersAreNoVaults
      <4> QED
        BY <3>1, <4>1, <4>2, <4>3 DEF Register, IndexInv
    <3> QED
      BY <3>2, <3>3
  <2>4. ASSUME NEW v \in Vault, nftIndex'[v] # 0
        PROVE  nftIndex'[v] \in Nft /\ vaultIndex'[nftIndex'[v]] = v
    <3>1. CASE v = vault
      BY <1>1, <3>1 DEF Register, IndexInv
    <3>2. CASE v # vault
      <4>1. nftIndex'[v] = nftIndex[v] /\ nftIndex[v] \in Nft /\ vaultIndex[nftIndex[v]] = v
        BY <2>4, <3>2 DEF Register, IndexInv
      <4>2. nftIndex[v] # topNft
        BY <1>1, <4>1, HoldersAreNoVaults
      <4> QED
        BY <4>1, <4>2 DEF Register, IndexInv
    <3> QED
      BY <3>1, <3>2
  <2>5. \A v \in Vault : vaultNft'[v] # 0 => vaultNft'[v] = nftIndex'[v]
    BY <1>1 DEF vaultVars, Register, IndexInv
  <2>6. vaultNft' \in [Vault -> Nat]
    BY DEF vaultVars, IndexInv
  <2> QED
    BY <2>1, <2>2, <2>3, <2>4, <2>5, <2>6 DEF IndexInv
<1>3. OwnerInv'
  <2>1. ownerOf' \in [Nft -> Account \cup {NoOne}]
    BY <1>1 DEF Register, OwnerInv, Account
  <2>2. topNft' = topNft + 1 /\ topNft \in Nat
    BY <1>1, HoldersAreNoVaults DEF Register, TopNftAfter
  <2>3. \A n \in Nft : ownerOf'[n] # NoOne => n < topNft'
    BY <1>1, <2>2, HoldersAreNoVaults DEF Register, OwnerInv
  <2>4. \A n \in locks' : n \in Nft /\ n < topNft'
    <3>1. \A n \in locks : n \in Nft /\ n \in Nat /\ n < topNft
      BY HoldersAreNoVaults DEF OwnerInv
    <3>2. \A n \in locks : n < topNft + 1
      BY <2>2, <3>1
    <3>3. locks' = locks
      BY DEF Register
    <3> QED
      BY <2>2, <3>1, <3>2, <3>3
  <2> QED
    BY <2>1, <2>3, <2>4 DEF Register, OwnerInv, vaultVars
<1>4. SubvaultsStay'
  <2>1. \A n \in locks : n # topNft /\ n \in Nft
    BY <1>1, HoldersAreNoVaults DEF OwnerInv
  <2> QED
    BY <1>1, <2>1 DEF SubvaultsStay, OwnerInv, Register, vaultVars
<1> QED
  BY <1>1, <1>2, <1>3, <1>4 DEF Register, IndexInv

LEMMA RegisterVaultKeeps ==
    ASSUME IInv, NEW u \in User, NEW v \in Foreign, NEW owner \in User,
           RegisterVault(u, v, owner)
    PROVE  IInv'
<1>1. v \in Vault /\ Register(u, v, owner) /\ UNCHANGED vaultVars /\ creating' = creating
  BY DEF RegisterVault, Vault
<1>2. IndexInv' /\ OwnerInv' /\ SubvaultsStay'
  BY <1>1, RegisterKeeps
<1>3. CreationInv' /\ CreatingStrategy'
  <2>1. creating # NoCreation => Clone(creating.nft) # v /\ Clone(creating.nft) \in Vault
    BY AddressAssumption DEF IInv, CreationInv, Clone, Vault
  <2> QED
    BY <1>1, <2>1 DEF IInv, CreationInv, CreatingStrategy, Register, IndexInv
<1> QED
  BY <1>2, <1>3 DEF IInv

LEMMA StartKeeps ==
    ASSUME IInv, NEW u \in User, NEW owner \in User, NEW k, NEW zero, NEW rest,
           NEW strategy,
           k = "root" => zero \in Nft /\ rest \subseteq Nft /\ strategy \in Strategy,
           StartCreation(u, owner, k, zero, rest, strategy)
    PROVE  IInv'
<1> DEFINE nft == Len(vaults) + 1
<1>1. nft = topNft /\ topNft \in Nft
  BY DEF StartCreation, Register, IInv, IndexInv
<1>2. Clone(nft) \in Vault /\ Register(Governance, Clone(nft), owner) /\ UNCHANGED vaultVars
  BY <1>1 DEF StartCreation, Clone, Vault
<1>3. IndexInv' /\ OwnerInv' /\ SubvaultsStay' /\ nftIndex'[Clone(nft)] = nft
  BY <1>1, <1>2, RegisterKeeps
<1>4. /\ creating'.nft = nft /\ creating'.kind = k
      /\ creating'.subvaults = {zero} \cup rest /\ creating'.strategy = strategy
  BY DEF StartCreation
<1>5. CreationInv' /\ CreatingStrategy'
  BY <1>1, <1>3, <1>4 DEF CreationInv, CreatingStrategy, Clone
<1> QED
  BY <1>3, <1>5 DEF IInv

LEMMA InitializeKeeps ==
    ASSUME IInv, creating # NoCreation, Initialize(Clone(creating.nft), creating.nft),
           UNCHANGED indexVars
    PROVE  IndexInv'
<1>1. Clone(creating.nft) \in Vault /\ creating.nft \in Nat
  BY HoldersAreNoVaults DEF IInv, CreationInv, Clone
<1>2. vaultNft' \in [Vault -> Nat]
  BY <1>1 DEF IInv, IndexInv, Initialize
<1>3. \A v \in Vault : vaultNft'[v] # 0 => vaultNft'[v] = nftIndex'[v]
  BY <1>1 DEF IInv, IndexInv, CreationInv, Initialize, indexVars
<1> QED
  BY <1>2, <1>3 DEF IInv, IndexInv, indexVars

LEMMA FinishIntegrationKeeps == ASSUME IInv, FinishIntegrationVault PROVE IInv'
<1>1. IndexInv'
  BY InitializeKeeps DEF FinishIntegrationVault
<1>2. CreationInv' /\ CreatingStrategy'
  BY DEF FinishIntegrationVault, CreationInv, CreatingStrategy
<1>3. OwnerInv' /\ SubvaultsStay'
  BY DEF IInv, OwnerInv, SubvaultsStay, FinishIntegrationVault, indexVars, ownerVars
<1> QED
  BY <1>1, <1>2, <1>3 DEF IInv

(* The NFTs a new root vault takes were not locked, hence not subvaults.   *)
LEMMA FinishRootKeeps == ASSUME IInv, FinishRootVault PROVE IInv'
<1> DEFINE root == Clone(creating.nft)
           nfts == creating.subvaults
<1>1. root \in Nft /\ nfts \subseteq Nft /\ creating.strategy \in Strategy
  BY DEF FinishRootVault, IInv, CreationInv, CreatingStrategy, Clone
<1>2. IndexInv'
  BY InitializeKeeps DEF FinishRootVault
<1>3. CreationInv' /\ CreatingStrategy'
  BY DEF FinishRootVault, CreationInv, CreatingStrategy
<1>4. \A n \in nfts : n < topNft
  <2>1. \A n \in nfts : vaultIndex[n] # NoOne
    BY DEF FinishRootVault, Subvault
  <2> QED
    BY <1>1, <2>1 DEF IInv, IndexInv
<1>5. OwnerInv'
  <2>1. ownerOf' \in [Nft -> Account \cup {NoOne}]
    BY <1>1 DEF FinishRootVault, IInv, OwnerInv, Account
  <2>2. getApproved' \in [Nft -> Account \cup Approvees \cup {NoOne}]
    BY <1>1 DEF FinishRootVault, IInv, OwnerInv, Account
  <2>3. /\ subvaults' \in [Nft -> SUBSET Nft]
        /\ strategyOf' \in [Nft -> Strategy \cup {NoOne}]
    BY <1>1 DEF FinishRootVault, IInv, OwnerInv
  <2>4. \A n \in Nft : ownerOf'[n] # NoOne => n < topNft'
    BY <1>4 DEF FinishRootVault, IInv, OwnerInv, indexVars
  <2>5. \A n \in locks' : n \in Nft /\ n < topNft'
    BY <1>1, <1>4 DEF FinishRootVault, LockSubvaults, IInv, OwnerInv, indexVars
  <2> QED
    BY <2>1, <2>2, <2>3, <2>4, <2>5 DEF FinishRootVault, IInv, OwnerInv
<1>6. SubvaultsStay'
  <2> SUFFICES ASSUME NEW r \in Nft, NEW n \in subvaults'[r]
               PROVE  /\ ownerOf'[n] = Clone(r) /\ n \in locks'
                      /\ getApproved'[n] = strategyOf'[r]
    BY DEF SubvaultsStay
  <2>1. CASE r = root
    <3>1. n \in nfts /\ strategyOf'[r] = creating.strategy
      BY <1>1, <2>1 DEF FinishRootVault, IInv, OwnerInv
    <3> QED
      BY <1>1, <2>1, <3>1 DEF FinishRootVault, LockSubvaults, Clone
  <2>2. CASE r # root
    <3>1. n \in subvaults[r] /\ strategyOf'[r] = strategyOf[r]
      BY <1>1, <2>2 DEF FinishRootVault, IInv, OwnerInv
    <3>2. n \in Nft /\ n \in locks /\ ownerOf[n] = Clone(r) /\ getApproved[n] = strategyOf[r]
      BY <3>1 DEF IInv, SubvaultsStay, OwnerInv
    <3>3. n \notin nfts
      BY <3>2 DEF FinishRootVault, Unlocked
    <3> QED
      BY <3>1, <3>2, <3>3 DEF FinishRootVault, LockSubvaults
  <2> QED
    BY <2>1, <2>2
<1> QED
  BY <1>2, <1>3, <1>5, <1>6 DEF IInv

LEMMA TransferKeeps ==
    ASSUME IInv, NEW a \in Holder, NEW to \in Account, NEW n \in Nft,
           TransferFrom(a, to, n)
    PROVE  IInv'
<1>1. IndexInv' /\ CreationInv' /\ CreatingStrategy'
  BY DEF TransferFrom, IInv, IndexInv, CreationInv, CreatingStrategy, indexVars, vaultVars
<1>2. OwnerInv'
  BY InputAssumption DEF TransferFrom, IInv, OwnerInv, indexVars, vaultVars
<1>3. SubvaultsStay'
  BY DEF TransferFrom, Unlocked, IInv, OwnerInv, SubvaultsStay, vaultVars
<1> QED
  BY <1>1, <1>2, <1>3 DEF IInv

(* Only the owner or one of its operators approves; a vault is neither an  *)
(* account that acts nor has it operators.                                 *)
LEMMA ApproveKeeps ==
    ASSUME IInv, NEW a \in Holder, NEW to \in Account \cup Approvees, NEW n \in Nft,
           Approve(a, to, n)
    PROVE  IInv'
<1>1. IndexInv' /\ CreationInv' /\ CreatingStrategy'
  BY DEF Approve, IInv, IndexInv, CreationInv, CreatingStrategy, indexVars, vaultVars
<1>2. OwnerInv'
  BY DEF Approve, IInv, OwnerInv, indexVars, vaultVars
<1>3. ownerOf[n] \notin Nft
  BY HoldersAreNoVaults DEF Approve, IInv, OwnerInv
<1>4. SubvaultsStay'
  BY <1>3 DEF Approve, IInv, OwnerInv, SubvaultsStay, vaultVars, Clone
<1> QED
  BY <1>1, <1>2, <1>4 DEF IInv

LEMMA OperatorsKeep ==
    ASSUME IInv, NEW a \in Holder, NEW o \in Account, NEW b \in BOOLEAN,
           SetApprovalForAll(a, o, b)
    PROVE  IInv'
<1>1. IndexInv' /\ CreationInv' /\ CreatingStrategy' /\ SubvaultsStay'
  BY DEF SetApprovalForAll, IInv, IndexInv, CreationInv, CreatingStrategy, SubvaultsStay,
         indexVars, vaultVars
<1>2. OwnerInv'
  BY InputAssumption DEF SetApprovalForAll, IInv, OwnerInv, indexVars, vaultVars
<1> QED
  BY <1>1, <1>2 DEF IInv

LEMMA LockKeeps ==
    ASSUME IInv, NEW a \in Holder, NEW n \in Nft, LockNft(a, n)
    PROVE  IInv'
<1>1. IndexInv' /\ CreationInv' /\ CreatingStrategy' /\ SubvaultsStay'
  BY DEF LockNft, IInv, IndexInv, CreationInv, CreatingStrategy, SubvaultsStay,
         indexVars, vaultVars
<1>2. n < topNft
  BY HoldersAreNoVaults DEF LockNft, IInv, OwnerInv
<1>3. OwnerInv'
  BY <1>2 DEF LockNft, IInv, OwnerInv, indexVars, vaultVars
<1> QED
  BY <1>1, <1>3 DEF IInv

(* Nothing of the invariant depends on the protocol governance or time.    *)
LEMMA OtherKeeps ==
    ASSUME IInv, UNCHANGED <<indexVars, ownerVars, vaultVars, creating>>
    PROVE  IInv'
BY DEF IInv, IndexInv, CreationInv, OwnerInv, CreatingStrategy, SubvaultsStay,
       indexVars, ownerVars, vaultVars

LEMMA NextIInv == IInv /\ [Next]_vars => IInv'
<1> SUFFICES ASSUME IInv, [Next]_vars PROVE IInv'
  OBVIOUS
<1>1. CASE CreationNext
  <2>1. ASSUME NEW u \in User, NEW owner \in User, NEW k \in {"erc20", "integration"},
               CreateIntegrationVault(u, owner, k)
        PROVE  IInv'
    <3>1. StartCreation(u, owner, k, 0, {}, NoOne) /\ k # "root"
      BY <2>1 DEF CreateIntegrationVault
    <3> QED
      BY <3>1, StartKeeps
  <2>2. ASSUME NEW u \in User, NEW owner \in User, NEW zero \in Nft, NEW rest \in SUBSET Nft,
               NEW st \in Strategy, CreateRootVault(u, owner, zero, rest, st)
        PROVE  IInv'
    BY <2>2, StartKeeps DEF CreateRootVault
  <2> QED
    BY <1>1, <2>1, <2>2, FinishIntegrationKeeps, FinishRootKeeps, RegisterVaultKeeps
    DEF CreationNext
<1>2. CASE OwnerNext
  BY <1>2, InputAssumption, TransferKeeps, ApproveKeeps, OperatorsKeep, LockKeeps DEF OwnerNext
<1>3. CASE ProtocolNext
  BY <1>3, OtherKeeps DEF ProtocolNext, StageProtocolGovernance, CommitStagedProtocolGovernance
<1>4. CASE Tick
  BY <1>4, OtherKeeps DEF Tick
<1>5. CASE UNCHANGED vars
  BY <1>5, OtherKeeps DEF vars
<1> QED
  BY <1>1, <1>2, <1>3, <1>4, <1>5 DEF Next

(* The registry's invariant, in every reachable state of every use of it.  *)
THEOREM Invariant == Spec => []IInv
BY InitIInv, NextIInv, PTL DEF Spec

-----------------------------------------------------------------------------
(* The registry's two indices are inverse, and every vault knows itself by *)
(* its registered NFT.                                                     *)
THEOREM IndicesStayInverse == Spec => []IndicesAreInverse
<1>1. IInv => IndicesAreInverse
  BY DEF IInv, IndexInv, IndicesAreInverse
<1> QED
  BY <1>1, Invariant, PTL

(* A root vault keeps its subvaults: owned, locked, and managed by its     *)
(* strategy.                                                               *)
THEOREM RootKeepsSubvaults == Spec => []SubvaultsStay
<1>1. IInv => SubvaultsStay
  BY DEF IInv
<1> QED
  BY <1>1, Invariant, PTL

LEMMA StepKeepsLocked ==
    IInv /\ [Next]_vars => [\A n \in locks : n \in locks' /\ ownerOf'[n] = ownerOf[n]]_vars
<1> SUFFICES ASSUME IInv, Next, NEW n \in locks
             PROVE  n \in locks' /\ ownerOf'[n] = ownerOf[n]
  OBVIOUS
<1>1. n \in Nft /\ n < topNft /\ topNft \in Nat /\ ownerOf \in [Nft -> Account \cup {NoOne}]
  BY DEF IInv, OwnerInv, IndexInv
<1>2. ASSUME NEW sender, NEW v, NEW owner, Register(sender, v, owner)
      PROVE  n \in locks' /\ ownerOf'[n] = ownerOf[n]
  BY <1>1, <1>2, HoldersAreNoVaults DEF Register
<1>3. CASE CreationNext
  BY <1>1, <1>2, <1>3
  DEF CreationNext, CreateIntegrationVault, CreateRootVault, StartCreation, RegisterVault,
      FinishIntegrationVault, FinishRootVault, Unlocked, LockSubvaults, ownerVars
<1>4. CASE OwnerNext
  BY <1>1, <1>4
  DEF OwnerNext, TransferFrom, Approve, SetApprovalForAll, LockNft, Unlocked
<1>5. CASE ProtocolNext \/ Tick
  BY <1>5
  DEF ProtocolNext, StageProtocolGovernance, CommitStagedProtocolGovernance, Tick, ownerVars
<1> QED
  BY <1>3, <1>4, <1>5 DEF Next

(* A locked NFT keeps its owner and its lock in every step.                *)
THEOREM LockedNeverMove == Spec => LockedNftsStay
<1>1. IInv /\ [Next]_vars => [\A n \in locks : n \in locks' /\ ownerOf'[n] = ownerOf[n]]_vars
  BY StepKeepsLocked
<1> QED
  BY <1>1, Invariant, PTL DEF Spec, LockedNftsStay

-----------------------------------------------------------------------------
(* The scripts.  Steps before a strategy is made, the one that makes it, and *)
(* those that may come after it.                                           *)
EarlyOps == {"createVault", "stageDelayedStrategyParams", "commitDelayedStrategyParams"}
MakerOps == {"clone", "deploy", "deployProxy"}
LateOps == {"createRootVault", "setStrategyParams", "stageDelayedStrategyParams",
            "commitDelayedStrategyParams", "addDepositorsToAllowlist", "give",
            "approve", "sendApproval", "push", "multicall", "role"}
Ops == EarlyOps \cup MakerOps \cup LateOps \cup {"predict"}
Steps == [op : Ops, i : Nat]

(* A step before the strategy is made; one after it, where role calls come *)
(* one after the other.                                                    *)
EarlyStep(s, k, n) == s[k].op \in EarlyOps /\ s[k].i <= n
LateStep(s, k, n, m) ==
    /\ s[k].op \in LateOps
    /\ s[k].i <= (IF s[k].op = "role" THEN m ELSE n)
    /\ s[k].op = "multicall" => m = 0
    /\ s[k].op = "role" =>
          s[k].i = 1 \/ (k > 1 /\ s[k - 1].op = "role" /\ s[k - 1].i = s[k].i - 1)

(* Scripts as functions from 1..p: without a strategy yet, with its        *)
(* address predicted by the last step, and with the strategy made at c.    *)
Early(s, p, n) == p \in Nat /\ s \in [1..p -> Steps] /\ \A k \in 1..p : EarlyStep(s, k, n)
Late(s, p, n, m) == p \in Nat /\ s \in [1..p -> Steps] /\ \A k \in 1..p : LateStep(s, k, n, m)
Predicts(s, k, c) == s[k] = S("predict", 0) /\ k + 1 = c /\ s[c] = S("clone", 0)
Script(s, p, n, m, c, op) ==
    /\ p \in Nat /\ s \in [1..p -> Steps] /\ c \in 1..p
    /\ op \in MakerOps /\ s[c] = S(op, 0)
    /\ op = "clone" => c > 1 /\ s[c - 1] = S("predict", 0)
    /\ \A k \in 1..p : k < c => EarlyStep(s, k, n) \/ Predicts(s, k, c)
    /\ \A k \in 1..p : k > c => LateStep(s, k, n, m)

(* Scripts are put together from parts; what joining two parts keeps.      *)
LEMMA Joined ==
    ASSUME NEW p \in Nat, NEW q \in Nat, NEW s \in [1..p -> Steps], NEW t \in [1..q -> Steps]
    PROVE  /\ s \o t \in [1..p + q -> Steps]
           /\ \A k \in 1..p : (s \o t)[k] = s[k]
           /\ \A k \in 1..q : (s \o t)[p + k] = t[k]
<1>1. s \in Seq(Steps) /\ Len(s) = p /\ t \in Seq(Steps) /\ Len(t) = q
  OBVIOUS
<1>2. s \o t \in Seq(Steps) /\ Len(s \o t) = p + q
  BY <1>1
<1>3. s \o t \in [1..p + q -> Steps]
  <2> DEFINE u == s \o t
  <2>1. u \in Seq(Steps) /\ Len(u) = p + q
    BY <1>2
  <2> HIDE DEF u
  <2>2. u \in [1..p + q -> Steps]
    BY <2>1
  <2> QED
    BY <2>2 DEF u
<1>4. ASSUME NEW k \in 1..p PROVE (s \o t)[k] = s[k]
  BY <1>1
<1>5. ASSUME NEW k \in 1..q PROVE (s \o t)[p + k] = t[k]
  BY <1>1
<1> QED
  BY <1>3, <1>4, <1>5

(* The values of Op are sequences of one step.                             *)
LEMMA OneStep ==
    ASSUME NEW op \in Ops
    PROVE  Op(op) \in [1..1 -> Steps] /\ Op(op)[1] = S(op, 0)
<1>1. S(op, 0) \in Steps
  BY DEF S, Steps
<1> HIDE DEF S, Steps
<1> QED
  BY <1>1 DEF Op

LEMMA EarlyJoined ==
    ASSUME NEW s, NEW t, NEW p, NEW q, NEW n \in Nat, Early(s, p, n), Early(t, q, n)
    PROVE  Early(s \o t, p + q, n)
<1>1. p \in Nat /\ q \in Nat /\ s \in [1..p -> Steps] /\ t \in [1..q -> Steps]
  BY DEF Early
<1>2. ASSUME NEW k \in 1..p + q
      PROVE  EarlyStep(s \o t, k, n)
  <2>1. CASE k <= p
    BY <1>1, <2>1, Joined DEF Early, EarlyStep
  <2>2. CASE k > p
    <3>1. k - p \in 1..q /\ p + (k - p) = k
      BY <1>1, <2>2
    <3>2. (s \o t)[k] = t[k - p]
      BY <1>1, <3>1, Joined
    <3> QED
      BY <3>1, <3>2 DEF Early, EarlyStep
  <2> QED
    BY <1>1, <2>1, <2>2
<1>3. p + q \in Nat /\ s \o t \in [1..p + q -> Steps]
  BY <1>1, Joined
<1> QED
  BY <1>2, <1>3 DEF Early

(* A strategy is cloned, when its address was asked for, or deployed.      *)
LEMMA MakerJoined ==
    ASSUME NEW s, NEW p, NEW n \in Nat, NEW m \in Nat, NEW op \in MakerOps,
           p \in Nat, s \in [1..p -> Steps],
           op # "clone" => \A k \in 1..p : EarlyStep(s, k, n),
           op = "clone" => p > 0 /\ s[p] = S("predict", 0)
                           /\ \A k \in 1..p - 1 : EarlyStep(s, k, n)
    PROVE  Script(s \o Op(op), p + 1, n, m, p + 1, op)
<1> DEFINE u == s \o Op(op)
           c == p + 1
<1>1. u \in [1..p + 1 -> Steps] /\ (\A k \in 1..p : u[k] = s[k]) /\ u[c] = S(op, 0)
  <2>1. Op(op) \in [1..1 -> Steps] /\ Op(op)[1] = S(op, 0) /\ 1 \in 1..1 /\ 1 \in Nat
    BY OneStep DEF Ops
  <2> QED
    BY <2>1, Joined, ZenonT(60)
<1>2. S(op, 0).op = op
  BY DEF S
<1> HIDE DEF u
<1>3. ASSUME NEW k \in 1..c, k < c
      PROVE  EarlyStep(u, k, n) \/ Predicts(u, k, c)
  <2>1. k \in 1..p /\ u[k] = s[k]
    BY <1>1, <1>3
  <2>2. CASE op = "clone" /\ k = p
    BY <1>1, <2>1, <2>2 DEF Predicts
  <2>3. CASE ~(op = "clone" /\ k = p)
    BY <2>1, <2>3 DEF EarlyStep
  <2> QED
    BY <2>2, <2>3
<1>4. op = "clone" => c > 1 /\ c - 1 = p /\ p \in 1..p
  OBVIOUS
<1>5. Script(u, p + 1, n, m, c, op)
  BY <1>1, <1>2, <1>3, <1>4 DEF Script
<1> QED
  BY <1>5 DEF u

LEMMA CloneJoined ==
    ASSUME NEW s, NEW p, NEW n \in Nat, NEW m \in Nat, Early(s, p, n)
    PROVE  Script(s \o Op("predict") \o Op("clone"), p + 2, n, m, p + 2, "clone")
<1> DEFINE t == s \o Op("predict")
<1>1. Op("predict") \in [1..1 -> Steps] /\ Op("predict")[1] = S("predict", 0)
      /\ p \in Nat /\ s \in [1..p -> Steps] /\ "clone" \in MakerOps
  BY OneStep DEF Ops, Early, MakerOps
<1>2. t \in [1..p + 1 -> Steps] /\ (\A k \in 1..p : t[k] = s[k]) /\ t[p + 1] = S("predict", 0)
  BY <1>1, Joined, 1 \in 1..1, 1 \in Nat, ZenonT(60)
<1>3. \A k \in 1..p : EarlyStep(t, k, n)
  BY <1>2 DEF Early, EarlyStep
<1> HIDE DEF t
<1>4. p + 1 \in Nat /\ p + 1 > 0 /\ (p + 1) - 1 = p /\ (p + 1) + 1 = p + 2
  BY <1>1
<1>5. Script(t \o Op("clone"), (p + 1) + 1, n, m, (p + 1) + 1, "clone")
  BY <1>1, <1>2, <1>3, <1>4, MakerJoined
<1> QED
  BY <1>4, <1>5 DEF t

LEMMA DeployJoined ==
    ASSUME NEW s, NEW p, NEW n \in Nat, NEW m \in Nat, Early(s, p, n),
           NEW op \in MakerOps, op # "clone"
    PROVE  Script(s \o Op(op), p + 1, n, m, p + 1, op)
<1>1. p \in Nat /\ s \in [1..p -> Steps]
      /\ \A k \in 1..p : EarlyStep(s, k, n)
  BY DEF Early
<1> QED
  BY <1>1, MakerJoined

LEMMA LateJoined ==
    ASSUME NEW s, NEW t, NEW p, NEW q, NEW n \in Nat, NEW m \in Nat, NEW c, NEW op,
           Script(s, p, n, m, c, op), Late(t, q, n, m)
    PROVE  Script(s \o t, p + q, n, m, c, op)
<1> DEFINE u == s \o t
<1>1. p \in Nat /\ q \in Nat /\ s \in [1..p -> Steps] /\ t \in [1..q -> Steps] /\ c \in 1..p
  BY DEF Script, Late
<1>2. /\ u \in [1..p + q -> Steps]
      /\ \A k \in 1..p : u[k] = s[k]
      /\ \A k \in 1..q : u[p + k] = t[k]
  BY <1>1, Joined, ZenonT(60)
<1> HIDE DEF u
<1>3. /\ op \in MakerOps /\ u[c] = S(op, 0)
      /\ op = "clone" => c > 1 /\ u[c - 1] = S("predict", 0)
  <2>1. c > 1 => c - 1 \in 1..p
    BY <1>1
  <2> QED
    BY <1>1, <1>2, <2>1 DEF Script
<1>4. ASSUME NEW k \in 1..p + q, k < c
      PROVE  EarlyStep(u, k, n) \/ Predicts(u, k, c)
  <2>1. k \in 1..p
    BY <1>1, <1>4
  <2> QED
    BY <1>1, <1>2, <1>4, <2>1 DEF Script, EarlyStep, Predicts
<1>5. ASSUME NEW k \in 1..p + q, k > c
      PROVE  LateStep(u, k, n, m)
  <2>1. CASE k <= p
    <3>1. k \in 1..p /\ k - 1 \in 1..p
      BY <1>1, <1>5, <2>1
    <3>2. u[k] = s[k] /\ u[k - 1] = s[k - 1] /\ LateStep(s, k, n, m)
      BY <1>2, <1>5, <3>1 DEF Script
    <3> QED
      BY <3>2 DEF LateStep
  <2>2. CASE k > p
    <3> DEFINE j == k - p
    <3>1. j \in 1..q /\ p + j = k
      BY <1>1, <2>2
    <3>2. u[k] = t[j] /\ LateStep(t, j, n, m)
      BY <1>2, <3>1 DEF Late
    <3>3. j > 1 => j - 1 \in 1..q /\ p + (j - 1) = k - 1 /\ k > 1
      BY <1>1, <3>1
    <3>4. j > 1 => u[k - 1] = t[j - 1] /\ k > 1
      BY <1>2, <3>3
    <3> QED
      BY <3>2, <3>4 DEF LateStep
  <2> QED
    BY <1>1, <2>1, <2>2
<1>6. Script(u, p + q, n, m, c, op)
  BY <1>1, <1>2, <1>3, <1>4, <1>5 DEF Script
<1> QED
  BY <1>6 DEF u

(* The parts that the plans are made of.                                   *)
LEMMA StepIsTyped ==
    ASSUME NEW op \in Ops, NEW i \in Nat
    PROVE  S(op, i) \in Steps /\ S(op, i).op = op /\ S(op, i).i = i
BY DEF S, Steps

LEMMA SetupIsEarly ==
    ASSUME NEW n \in Nat, NEW i \in 1..n
    PROVE  Early(SetupVault(i), 1, n) /\ Early(SetupVaultWithParams(i), 3, n)
<1>1. SetupVault(i) = <<S("createVault", i)>>
  BY DEF SetupVault
<1>2. SetupVaultWithParams(i) = SetupVault(i) \o <<S("stageDelayedStrategyParams", i),
                                                   S("commitDelayedStrategyParams", i)>>
  BY DEF SetupVaultWithParams
<1>3. \A op \in EarlyOps : S(op, i) \in Steps /\ S(op, i).op \in EarlyOps /\ S(op, i).i <= n
  BY DEF S, Steps, Ops
<1>4. "createVault" \in EarlyOps /\ "stageDelayedStrategyParams" \in EarlyOps
      /\ "commitDelayedStrategyParams" \in EarlyOps
  BY DEF EarlyOps
<1> HIDE DEF S, Steps
<1>5. Early(SetupVault(i), 1, n)
  BY <1>1, <1>3, <1>4 DEF Early, EarlyStep
<1>6. Early(SetupVaultWithParams(i), 3, n)
  <2>1. Early(<<S("stageDelayedStrategyParams", i), S("commitDelayedStrategyParams", i)>>, 2, n)
    BY <1>3, <1>4 DEF Early, EarlyStep
  <2> QED
    BY <1>2, <1>5, <2>1, EarlyJoined, 1 + 2 = 3
<1> QED
  BY <1>5, <1>6

LEMMA ForEachIsLate ==
    ASSUME NEW n \in Nat, NEW m \in Nat, NEW q \in Nat, NEW is \in [1..q -> 0..n],
           NEW op \in LateOps, op # "role", op = "multicall" => m = 0
    PROVE  Late(ForEach(op, is), q, n, m)
<1>1. ForEach(op, is) = [j \in 1..q |-> S(op, is[j])]
  BY DEF ForEach
<1>2. \A j \in 1..q : S(op, is[j]) \in Steps /\ S(op, is[j]).op = op /\ S(op, is[j]).i <= n
  BY DEF S, Steps, Ops
<1> QED
  BY <1>1, <1>2 DEF Late, LateStep

LEMMA RolesAreLate ==
    ASSUME NEW n \in Nat, NEW m \in Nat \ {0}
    PROVE  Late(ForEach("role", [j \in 1..m |-> j]), m, n, m)
<1>1. ForEach("role", [j \in 1..m |-> j]) = [j \in 1..m |-> S("role", j)]
  BY DEF ForEach
<1>2. \A j \in 1..m : S("role", j) \in Steps /\ S("role", j).op = "role" /\ S("role", j).i = j
  BY DEF S, Steps, Ops, LateOps
<1>3. \A j \in 1..m : j = 1 \/ (j > 1 /\ j - 1 \in 1..m)
  OBVIOUS
<1>4. "role" \in LateOps /\ "role" # "multicall"
  BY DEF LateOps
<1> HIDE DEF S, Steps, LateOps
<1> QED
  BY <1>1, <1>2, <1>3, <1>4 DEF Late, LateStep

LEMMA CombineIsLate ==
    ASSUME NEW n \in Nat, NEW m \in Nat
    PROVE  Late(CombineVaults, 6, n, m)
<1> DEFINE L == {"createRootVault", "setStrategyParams", "stageDelayedStrategyParams",
                 "commitDelayedStrategyParams", "addDepositorsToAllowlist", "give"}
<1>1. \A op \in L : S(op, 0) \in Steps /\ S(op, 0).op = op /\ S(op, 0).i <= n
                     /\ op \in LateOps /\ op # "role" /\ op # "multicall"
  <2>1. \A op \in L : op \in LateOps /\ op # "role" /\ op # "multicall" /\ op \in Ops
    BY DEF LateOps, Ops
  <2> HIDE DEF L
  <2> QED BY <2>1, StepIsTyped
<1>2. CombineVaults = <<S("createRootVault", 0), S("setStrategyParams", 0),
                        S("stageDelayedStrategyParams", 0), S("commitDelayedStrategyParams", 0),
                        S("addDepositorsToAllowlist", 0), S("give", 0)>>
  BY DEF CombineVaults
<1>3. \A k \in 1..6 : \E op \in L : CombineVaults[k] = S(op, 0)
  <2> HIDE DEF S
  <2> QED BY <1>2
<1>4. DOMAIN CombineVaults = 1..6 /\ CombineVaults = [k \in 1..6 |-> CombineVaults[k]]
  <2> HIDE DEF S
  <2> QED BY <1>2
<1> HIDE DEF S, Steps, LateOps, L
<1> QED
  BY <1>1, <1>3, <1>4 DEF Late, LateStep

LEMMA PushIsLate ==
    ASSUME NEW n \in Nat, NEW m \in Nat, NEW i \in 0..n
    PROVE  Late(PreparePush(i), 2, n, m)
<1>1. \A op \in {"sendApproval", "push"} :
         S(op, i) \in Steps /\ S(op, i).op = op /\ S(op, i).i <= n
         /\ op \in LateOps /\ op # "role" /\ op # "multicall"
  <2>1. \A op \in {"sendApproval", "push"} :
           op \in LateOps /\ op # "role" /\ op # "multicall" /\ op \in Ops
    BY DEF LateOps, Ops
  <2>2. i \in Nat /\ i <= n
    OBVIOUS
  <2> QED BY <2>1, <2>2, StepIsTyped
<1>2. /\ DOMAIN PreparePush(i) = 1..2 /\ PreparePush(i) = [k \in 1..2 |-> PreparePush(i)[k]]
      /\ \A k \in 1..2 : \E op \in {"sendApproval", "push"} : PreparePush(i)[k] = S(op, i)
  <2> HIDE DEF S
  <2> QED BY DEF PreparePush
<1> HIDE DEF S, Steps, LateOps
<1> QED
  BY <1>1, <1>2 DEF Late, LateStep

LEMMA MulticallIsLate ==
    ASSUME NEW n \in Nat
    PROVE  Late(Op("multicall"), 1, n, 0)
<1>1. S("multicall", 0) \in Steps /\ S("multicall", 0).op = "multicall"
      /\ S("multicall", 0).i = 0 /\ "multicall" \in LateOps /\ "multicall" # "role"
      /\ "multicall" \in Ops
  BY DEF S, Steps, Ops, LateOps
<1>2. Op("multicall") \in [1..1 -> Steps] /\ Op("multicall")[1] = S("multicall", 0)
  BY <1>1, OneStep
<1> HIDE DEF S, Steps, LateOps
<1> QED
  BY <1>1, <1>2 DEF Late, LateStep

(* The plans.                                                              *)
LEMMA TwoVaults ==
    ASSUME NEW n \in Nat, n >= 2
    PROVE  Early(SetupVault(1) \o SetupVault(2), 2, n)
<1>1. Early(SetupVault(1), 1, n) /\ Early(SetupVault(2), 1, n)
  BY SetupIsEarly
<1> QED
  BY <1>1, EarlyJoined, 1 + 1 = 2

LEMMA ThreeVaults ==
    ASSUME NEW n \in Nat, n >= 3
    PROVE  Early(SetupVault(1) \o SetupVault(2) \o SetupVault(3), 3, n)
<1>1. Early(SetupVault(1) \o SetupVault(2), 2, n) /\ Early(SetupVault(3), 1, n)
  BY SetupIsEarly, TwoVaults
<1> QED
  BY <1>1, EarlyJoined, 2 + 1 = 3

(* The scripts of the plans.                                               *)
LEMMA MStrategyScript == Script(MStrategy.steps, 11, 2, 0, 4, "clone")
<1>1. MStrategy.steps = SetupVault(1) \o SetupVault(2) \o Op("predict") \o Op("clone")
                          \o Op("multicall") \o CombineVaults
  BY DEF MStrategy
<1> DEFINE a == SetupVault(1) \o SetupVault(2)
           b == a \o Op("predict") \o Op("clone")
           c == b \o Op("multicall")
<1>2. Early(a, 2, 2)
  BY TwoVaults
<1> HIDE DEF a
<1>3. Script(b, 4, 2, 0, 4, "clone")
  BY <1>2, CloneJoined, 2 + 2 = 4
<1> HIDE DEF b
<1>4. Script(c, 5, 2, 0, 4, "clone")
  BY <1>3, MulticallIsLate, LateJoined, 4 + 1 = 5
<1> HIDE DEF c
<1>5. Script(c \o CombineVaults, 11, 2, 0, 4, "clone")
  BY <1>4, CombineIsLate, LateJoined, 5 + 6 = 11
<1> QED
  BY <1>1, <1>5 DEF a, b, c

LEMMA HStrategyScript == Script(HStrategy.steps, 15, 3, 0, 5, "clone")
<1>1. HStrategy.steps = SetupVault(1) \o SetupVault(2) \o SetupVault(3) \o Op("predict")
                          \o Op("clone") \o Op("multicall") \o ForEach("approve", <<1, 2, 3>>)
                          \o CombineVaults
  BY DEF HStrategy
<1> DEFINE a == SetupVault(1) \o SetupVault(2) \o SetupVault(3)
           b == a \o Op("predict") \o Op("clone")
           c == b \o Op("multicall")
           d == c \o ForEach("approve", <<1, 2, 3>>)
<1>2. Early(a, 3, 3)
  BY ThreeVaults
<1> HIDE DEF a
<1>3. Script(b, 5, 3, 0, 5, "clone")
  BY <1>2, CloneJoined, 3 + 2 = 5
<1> HIDE DEF b
<1>4. Script(c, 6, 3, 0, 5, "clone")
  BY <1>3, MulticallIsLate, LateJoined, 5 + 1 = 6
<1> HIDE DEF c
<1>5. Script(d, 9, 3, 0, 5, "clone")
  <2>1. Late(ForEach("approve", <<1, 2, 3>>), 3, 3, 0)
    <3>1. <<1, 2, 3>> \in [1..3 -> 0..3] /\ "approve" \in LateOps
      BY DEF LateOps
    <3>2. "approve" # "role" /\ "approve" # "multicall" /\ 3 \in Nat /\ 3 \in Nat /\ 0 \in Nat
      OBVIOUS
    <3> DEFINE is == <<1, 2, 3>>
    <3> HIDE DEF is
    <3>3. is \in [1..3 -> 0..3] => Late(ForEach("approve", is), 3, 3, 0)
      BY <3>1, <3>2, ForEachIsLate
    <3> QED
      BY <3>1, <3>3 DEF is
  <2> QED
    BY <1>4, <2>1, LateJoined, 6 + 3 = 9
<1> HIDE DEF d
<1>6. Script(d \o CombineVaults, 15, 3, 0, 5, "clone")
  BY <1>5, CombineIsLate, LateJoined, 9 + 6 = 15
<1> QED
  BY <1>1, <1>6 DEF a, b, c, d

LEMMA MultiPoolHStrategyScript == Script(MultiPoolHStrategy.steps, 17, 4, 0, 6, "clone")
<1>1. MultiPoolHStrategy.steps =
        SetupVault(1) \o SetupVault(2) \o SetupVault(3) \o SetupVault(4) \o Op("predict")
          \o Op("clone") \o Op("multicall") \o ForEach("approve", <<1, 2, 3, 4>>)
          \o CombineVaults
  BY DEF MultiPoolHStrategy
<1> DEFINE a == SetupVault(1) \o SetupVault(2) \o SetupVault(3)
           e == a \o SetupVault(4)
           b == e \o Op("predict") \o Op("clone")
           c == b \o Op("multicall")
           d == c \o ForEach("approve", <<1, 2, 3, 4>>)
<1>2. Early(a, 3, 4) /\ Early(SetupVault(4), 1, 4)
  BY ThreeVaults, SetupIsEarly
<1> HIDE DEF a
<1>3. Early(e, 4, 4)
  BY <1>2, EarlyJoined, 3 + 1 = 4
<1> HIDE DEF e
<1>4. Script(b, 6, 4, 0, 6, "clone")
  BY <1>3, CloneJoined, 4 + 2 = 6
<1> HIDE DEF b
<1>5. Script(c, 7, 4, 0, 6, "clone")
  BY <1>4, MulticallIsLate, LateJoined, 6 + 1 = 7
<1> HIDE DEF c
<1>6. Script(d, 11, 4, 0, 6, "clone")
  <2>1. Late(ForEach("approve", <<1, 2, 3, 4>>), 4, 4, 0)
    <3>1. <<1, 2, 3, 4>> \in [1..4 -> 0..4] /\ "approve" \in LateOps
      BY DEF LateOps
    <3>2. "approve" # "role" /\ "approve" # "multicall" /\ 4 \in Nat /\ 4 \in Nat /\ 0 \in Nat
      OBVIOUS
    <3> DEFINE is == <<1, 2, 3, 4>>
    <3> HIDE DEF is
    <3>3. is \in [1..4 -> 0..4] => Late(ForEach("approve", is), 4, 4, 0)
      BY <3>1, <3>2, ForEachIsLate
    <3> QED
      BY <3>1, <3>3 DEF is
  <2> QED
    BY <1>5, <2>1, LateJoined, 7 + 4 = 11
<1> HIDE DEF d
<1>7. Script(d \o CombineVaults, 17, 4, 0, 6, "clone")
  BY <1>6, CombineIsLate, LateJoined, 11 + 6 = 17
<1> QED
  BY <1>1, <1>7 DEF a, b, c, d, e

LEMMA LStrategyScript == Script(LStrategy.steps, 21, 3, 7, 4, "deploy")
<1>1. LStrategy.steps = SetupVault(1) \o SetupVault(2) \o SetupVault(3) \o Op("deploy")
                          \o PreparePush(1) \o PreparePush(2) \o CombineVaults
                          \o ForEach("role", [j \in 1..7 |-> j])
  <2>1. DOMAIN LStrategyRoles = 1..7
    BY DEF LStrategyRoles
  <2> QED
    BY <2>1 DEF LStrategy
<1> DEFINE a == SetupVault(1) \o SetupVault(2) \o SetupVault(3)
           b == a \o Op("deploy")
           c == b \o PreparePush(1)
           d == c \o PreparePush(2)
           e == d \o CombineVaults
<1>2. Early(a, 3, 3)
  BY ThreeVaults
<1> HIDE DEF a
<1>3. Script(b, 4, 3, 7, 4, "deploy")
  BY <1>2, DeployJoined, 3 + 1 = 4, 3 \in Nat, 7 \in Nat, "deploy" \in MakerOps, "deploy" # "clone"
  DEF MakerOps
<1> HIDE DEF b
<1>4. Script(c, 6, 3, 7, 4, "deploy")
  BY <1>3, PushIsLate, LateJoined, 4 + 2 = 6, 3 \in Nat, 7 \in Nat, 1 \in 0..3
<1> HIDE DEF c
<1>5. Script(d, 8, 3, 7, 4, "deploy")
  BY <1>4, PushIsLate, LateJoined, 6 + 2 = 8, 3 \in Nat, 7 \in Nat, 2 \in 0..3
<1> HIDE DEF d
<1>6. Script(e, 14, 3, 7, 4, "deploy")
  BY <1>5, CombineIsLate, LateJoined, 8 + 6 = 14
<1> HIDE DEF e
<1>7. Script(e \o ForEach("role", [j \in 1..7 |-> j]), 21, 3, 7, 4, "deploy")
  <2>1. 7 \in Nat \ {0} /\ 3 \in Nat
    OBVIOUS
  <2> QED
    BY <1>6, <2>1, RolesAreLate, LateJoined, 14 + 7 = 21
<1> QED
  BY <1>1, <1>7 DEF a, b, c, d, e

LEMMA ProxyStrategyScript == Script(ProxyStrategy.steps, 13, 2, 0, 5, "deployProxy")
<1>1. ProxyStrategy.steps = SetupVault(1) \o SetupVaultWithParams(2) \o Op("deployProxy")
                              \o ForEach("approve", <<1, 2>>) \o CombineVaults
  BY DEF ProxyStrategy
<1> DEFINE a == SetupVault(1) \o SetupVaultWithParams(2)
           b == a \o Op("deployProxy")
           c == b \o ForEach("approve", <<1, 2>>)
<1>2. Early(a, 4, 2)
  <2>1. Early(SetupVault(1), 1, 2) /\ Early(SetupVaultWithParams(2), 3, 2)
    BY SetupIsEarly
  <2> QED
    BY <2>1, EarlyJoined, 1 + 3 = 4
<1> HIDE DEF a
<1>3. Script(b, 5, 2, 0, 5, "deployProxy")
  BY <1>2, DeployJoined, 4 + 1 = 5, 2 \in Nat, 0 \in Nat,
     "deployProxy" \in MakerOps, "deployProxy" # "clone"
  DEF MakerOps
<1> HIDE DEF b
<1>4. Script(c, 7, 2, 0, 5, "deployProxy")
  <2>1. Late(ForEach("approve", <<1, 2>>), 2, 2, 0)
    <3>1. <<1, 2>> \in [1..2 -> 0..2] /\ "approve" \in LateOps
      BY DEF LateOps
    <3>2. "approve" # "role" /\ "approve" # "multicall" /\ 2 \in Nat /\ 2 \in Nat /\ 0 \in Nat
      OBVIOUS
    <3> DEFINE is == <<1, 2>>
    <3> HIDE DEF is
    <3>3. is \in [1..2 -> 0..2] => Late(ForEach("approve", is), 2, 2, 0)
      BY <3>1, <3>2, ForEachIsLate
    <3> QED
      BY <3>1, <3>3 DEF is
  <2> QED
    BY <1>3, <2>1, LateJoined, 5 + 2 = 7
<1> HIDE DEF c
<1>5. Script(c \o CombineVaults, 13, 2, 0, 5, "deployProxy")
  BY <1>4, CombineIsLate, LateJoined, 7 + 6 = 13
<1> QED
  BY <1>1, <1>5 DEF a, b, c

(* A plan of n vaults: its script, the first of the NFTs it combines, and  *)
(* the roles it hands over, in a multicall or, of m, one by one.           *)
IsPlan(b, n) ==
    /\ n \in Nat \ {0} /\ Len(b.vaults) = n /\ DOMAIN b.vaults = 1..n
    /\ b.nfts[1] \in 1..n
    /\ \E p, m, c, op :
        /\ Script(b.steps, p, n, m, c, op)
        /\ m \in Nat
        /\ m # 0 => m = 7 /\ b.roles = LStrategyRoles
        /\ op # "deployProxy" /\ m = 0 => b.roles \in {AdminAlone, AdminLast}

LEMMA MStrategyPlan == IsPlan(MStrategy, 2)
<1>1. MStrategy.roles = AdminAlone /\ MStrategy.nfts[1] \in 1..2 /\ DOMAIN MStrategy.vaults = 1..2
  BY DEF MStrategy
<1>2. Len(MStrategy.vaults) = 2
  BY DEF MStrategy
<1> QED
  BY <1>1, <1>2, MStrategyScript DEF IsPlan

LEMMA HStrategyPlan == IsPlan(HStrategy, 3)
<1>1. HStrategy.roles = AdminLast /\ HStrategy.nfts[1] \in 1..3 /\ DOMAIN HStrategy.vaults = 1..3
  BY DEF HStrategy
<1>2. Len(HStrategy.vaults) = 3
  BY DEF HStrategy
<1> QED
  BY <1>1, <1>2, HStrategyScript DEF IsPlan

LEMMA MultiPoolHStrategyPlan == IsPlan(MultiPoolHStrategy, 4)
<1>1. /\ MultiPoolHStrategy.roles = AdminLast /\ MultiPoolHStrategy.nfts[1] \in 1..4
      /\ DOMAIN MultiPoolHStrategy.vaults = 1..4
  BY DEF MultiPoolHStrategy
<1>2. Len(MultiPoolHStrategy.vaults) = 4
  BY DEF MultiPoolHStrategy
<1> QED
  BY <1>1, <1>2, MultiPoolHStrategyScript DEF IsPlan

LEMMA LStrategyPlan == IsPlan(LStrategy, 3)
<1>1. LStrategy.roles = LStrategyRoles /\ LStrategy.nfts[1] \in 1..3 /\ DOMAIN LStrategy.vaults = 1..3
  BY DEF LStrategy
<1>2. Len(LStrategy.vaults) = 3
  BY DEF LStrategy
<1> QED
  BY <1>1, <1>2, LStrategyScript, 7 # 0, 7 \in Nat DEF IsPlan

LEMMA ProxyStrategyPlan == IsPlan(ProxyStrategy, 2)
<1>1. ProxyStrategy.nfts[1] \in 1..2 /\ DOMAIN ProxyStrategy.vaults = 1..2
  BY DEF ProxyStrategy
<1>2. Len(ProxyStrategy.vaults) = 2
  BY DEF ProxyStrategy
<1> QED
  BY <1>1, <1>2, ProxyStrategyScript DEF IsPlan

LEMMA BuildIsPlan == ASSUME plan \in Plans PROVE \E n : IsPlan(Build, n)
<1>1. Build \in {MStrategy, HStrategy, LStrategy, MultiPoolHStrategy, ProxyStrategy}
  BY PlanAssumption
  DEF Build, SinglePositionQuickSwapStrategy, QuickPulseStrategy, PulseRouteStrategy
<1> QED
  BY <1>1, MStrategyPlan, HStrategyPlan, LStrategyPlan, MultiPoolHStrategyPlan, ProxyStrategyPlan

-----------------------------------------------------------------------------
(* The build.                                                              *)

MakerAt == CHOOSE k \in DOMAIN Build.steps : Build.steps[k].op \in MakerOps
Makes(op) == Build.steps[MakerAt].op = op

(* What the plans have in common, for a step of any of them: it names one  *)
(* of the vaults or a role; what needs a strategy comes after the one step *)
(* that makes it, and a clone's address is asked for right before.         *)
MakerOK ==
    /\ MakerAt \in DOMAIN Build.steps /\ MakerAt \in Nat \ {0}
    /\ Makes("clone") => MakerAt > 1 /\ Build.steps[MakerAt - 1].op = "predict"
StepOK(k) ==
    /\ k \in Nat \ {0}
    /\ Build.steps[k].op \in Ops /\ Build.steps[k].i \in Nat
    /\ Build.steps[k].op \in MakerOps <=> k = MakerAt
    /\ Build.steps[k].op = "predict" => k + 1 = MakerAt /\ Makes("clone")
    /\ Build.steps[k].op \in LateOps \ EarlyOps => k > MakerAt
    /\ Build.steps[k].op # "role" => Build.steps[k].i <= Len(Build.vaults)
    /\ Build.steps[k].op = "role" =>
          /\ Build.roles = LStrategyRoles
          /\ Build.steps[k].i \in 1..7
          /\ \/ Build.steps[k].i = 1
             \/ /\ k > 1 /\ Build.steps[k - 1].op = "role"
                /\ Build.steps[k - 1].i = Build.steps[k].i - 1
    /\ Build.steps[k].op = "multicall" =>
          Makes("deployProxy") \/ Build.roles \in {AdminAlone, AdminLast}
ScriptOK ==
    /\ Len(Build.vaults) \in Nat \ {0} /\ DOMAIN Build.vaults = 1..Len(Build.vaults)
    /\ Build.nfts[1] \in 1..Len(Build.vaults)
    /\ MakerOK
    /\ \A k \in DOMAIN Build.steps : StepOK(k)

LEMMA PlansAreOK == ASSUME plan \in Plans PROVE ScriptOK
<1> DEFINE steps == Build.steps
           roleCalls == Build.roles
<1>1. PICK n : IsPlan(Build, n)
  BY BuildIsPlan
<1>2. n = Len(Build.vaults) /\ n \in Nat \ {0} /\ DOMAIN Build.vaults = 1..n
      /\ Build.nfts[1] \in 1..n
  BY <1>1 DEF IsPlan
<1>3. PICK p, m, c, op :
        /\ Script(steps, p, n, m, c, op)
        /\ m \in Nat
        /\ m # 0 => m = 7 /\ roleCalls = LStrategyRoles
        /\ op # "deployProxy" /\ m = 0 => roleCalls \in {AdminAlone, AdminLast}
  BY <1>1 DEF IsPlan
<1> HIDE DEF steps, roleCalls
<1>4. /\ p \in Nat /\ steps \in [1..p -> Steps] /\ c \in 1..p /\ DOMAIN steps = 1..p
      /\ op \in MakerOps /\ steps[c] = S(op, 0)
      /\ op = "clone" => c > 1 /\ steps[c - 1] = S("predict", 0)
  BY <1>3 DEF Script
<1>5. S(op, 0).op = op /\ S("predict", 0).op = "predict" /\ S("predict", 0).i = 0
      /\ S("clone", 0).op = "clone" /\ S(op, 0).i = 0
  BY DEF S
<1>6. /\ EarlyOps \cap MakerOps = {} /\ LateOps \cap MakerOps = {} /\ "predict" \notin MakerOps
      /\ "predict" \notin EarlyOps /\ "predict" \notin LateOps
      /\ "role" \in LateOps /\ "multicall" \in LateOps
      /\ "role" \notin EarlyOps /\ "multicall" \notin EarlyOps /\ "role" # "multicall"
      /\ "clone" \notin LateOps
  BY DEF EarlyOps, MakerOps, LateOps
<1>7. ASSUME NEW k \in 1..p, k < c
      PROVE  \/ steps[k].op \in EarlyOps /\ steps[k].i <= n
             \/ steps[k] = S("predict", 0) /\ k + 1 = c /\ steps[c] = S("clone", 0)
  BY <1>3, <1>7 DEF Script, EarlyStep, Predicts
<1>8. ASSUME NEW k \in 1..p, k > c
      PROVE  LateStep(steps, k, n, m)
  BY <1>3, <1>8 DEF Script
<1>9. ASSUME NEW k \in 1..p
      PROVE  steps[k].op \in MakerOps <=> k = c
  <2>1. CASE k < c
    BY <1>4, <1>5, <1>6, <1>7, <2>1
  <2>2. CASE k > c
    BY <1>6, <1>8, <2>2 DEF LateStep
  <2> QED
    BY <1>4, <1>5, <2>1, <2>2
<1>10. MakerAt = c
  BY <1>4, <1>9 DEF MakerAt, steps
<1>11. Makes("clone") <=> op = "clone"
  BY <1>4, <1>5, <1>10 DEF Makes, steps
<1>12. Makes("deployProxy") <=> op = "deployProxy"
  BY <1>4, <1>5, <1>10 DEF Makes, steps
<1>13. MakerOK
  BY <1>4, <1>5, <1>10, <1>11 DEF MakerOK, steps
<1>14. ASSUME NEW k \in 1..p
       PROVE  /\ k \in Nat \ {0} /\ steps[k].op \in Ops /\ steps[k].i \in Nat
              /\ steps[k].op = "predict" => k + 1 = c /\ op = "clone"
              /\ steps[k].op \in LateOps \ EarlyOps => k > c
              /\ steps[k].op # "role" => steps[k].i <= n
              /\ steps[k].op = "role" =>
                    /\ m = 7 /\ steps[k].i \in 1..7
                    /\ \/ steps[k].i = 1
                       \/ /\ k > 1 /\ steps[k - 1].op = "role"
                          /\ steps[k - 1].i = steps[k].i - 1
              /\ steps[k].op = "multicall" => m = 0
  <2>1. k \in Nat \ {0} /\ steps[k].op \in Ops /\ steps[k].i \in Nat
    BY <1>4 DEF Steps
  <2>2. CASE k < c
    BY <1>2, <1>4, <1>5, <1>6, <1>7, <2>1, <2>2
  <2>3. CASE k = c
    BY <1>2, <1>4, <1>5, <1>6, <2>1, <2>3
  <2>4. CASE k > c
    <3>1. LateStep(steps, k, n, m)
      BY <1>8, <2>4
    <3>2. /\ steps[k].op \in LateOps
          /\ steps[k].op # "role" => steps[k].i <= n
          /\ steps[k].op = "multicall" => m = 0
      BY <3>1 DEF LateStep
    <3>3. ASSUME steps[k].op = "role"
          PROVE  /\ m = 7 /\ steps[k].i \in 1..7
                 /\ \/ steps[k].i = 1
                    \/ /\ k > 1 /\ steps[k - 1].op = "role"
                       /\ steps[k - 1].i = steps[k].i - 1
      <4>1. /\ steps[k].i <= m
            /\ \/ steps[k].i = 1
               \/ /\ k > 1 /\ steps[k - 1].op = "role" /\ steps[k - 1].i = steps[k].i - 1
        BY <3>1, <3>3 DEF LateStep
      <4>2. k > 1 => k - 1 \in 1..p /\ steps[k - 1].i \in Nat
        BY <1>4, <2>1 DEF Steps
      <4>3. steps[k].i >= 1
        BY <2>1, <4>1, <4>2
      <4>4. m = 7
        BY <1>3, <2>1, <4>1, <4>3
      <4> QED
        BY <2>1, <4>1, <4>3, <4>4
    <3> QED
      BY <1>6, <2>1, <2>4, <3>2, <3>3
  <2> QED
    BY <1>4, <2>1, <2>2, <2>3, <2>4
<1>15. ASSUME NEW k \in 1..p
       PROVE  StepOK(k)
  <2>1. steps[k].op = "role" => roleCalls = LStrategyRoles
    BY <1>3, <1>14
  <2>2. steps[k].op = "multicall" => op = "deployProxy" \/ roleCalls \in {AdminAlone, AdminLast}
    BY <1>3, <1>14
  <2> QED
    BY <1>2, <1>9, <1>10, <1>11, <1>12, <1>14, <2>1, <2>2 DEF StepOK, steps, roleCalls
<1> QED
  BY <1>2, <1>4, <1>13, <1>15 DEF ScriptOK, steps

-----------------------------------------------------------------------------
(* The state of the scripts, and that there is an address for the strategy *)
(* that a run has yet to make.                                             *)
ScriptTypeOK ==
    /\ plan \in Plans /\ pc \in Nat
    /\ runs \in 0..MaxRuns /\ others \in 0..MaxOthers /\ made \in Nat
    /\ vaultsOf = [s \in Strategy |-> vaultsOf[s]]
    /\ roles = [s \in Strategy |-> roles[s]]
    /\ unawaited \in Seq(Account \X Nft)
    /\ pc # 0 => startNft \in Nat \ {0} /\ startNft + Len(Build.vaults) <= MaxNft
CountInv == made + (IF pc = 0 \/ pc > MakerAt THEN 0 ELSE 1) <= runs + others

(* The addresses strategies have got, and what was made for vaults or      *)
(* manages any is among them.                                              *)
Made == {StrategyAddress[i] : i \in 1..made}
CreatingRoot == creating # NoCreation /\ creating.kind = "root"
AddressInv ==
    /\ \A s \in Strategy : vaultsOf[s] # {} => s \in Made
    /\ \A n \in Nft : strategyOf[n] \in Made \cup {Rebalancer, NoOne}
    /\ CreatingRoot => creating.strategy \in Made \cup {Rebalancer}

(* The script's saved strategy: before a clone an address that is free or  *)
(* somebody else's, afterwards made for this run's vaults or for none; a   *)
(* proxy's is made for none.                                               *)
Foretold == saved \in {StrategyAddress[i] : i \in 1..made + 1} /\ vaultsOf[saved] = {}
SavedInv ==
    /\ pc = MakerAt /\ Makes("clone") => Foretold
    /\ pc > MakerAt => saved \in Made /\ vaultsOf[saved] \in {{}, ExpectedNfts}
    /\ Makes("deployProxy") => saved = NoOne \/ (saved \in Made /\ vaultsOf[saved] = {})

(* Root vaults hold their strategy's vaults, and so will the one that is   *)
(* being created.                                                          *)
HoldsInv ==
    /\ RootHoldsStrategysVaults
    /\ CreatingRoot /\ vaultsOf[creating.strategy] # {} =>
          creating.subvaults = vaultsOf[creating.strategy]

(* Before any role but the first is handed over, the admin has got his.    *)
AdminInv ==
    /\ StrategyHasAdmin
    /\ pc \in DOMAIN Build.steps /\ Step.op = "role" /\ Step.i # 1 =>
          <<"ADMIN_ROLE", mStrategyAdmin>> \in roles[saved]

(* The inductive invariant of BuildSpec.                                   *)
BInv ==
    /\ IInv /\ ScriptTypeOK /\ CountInv /\ AddressInv /\ SavedInv /\ HoldsInv /\ AdminInv

-----------------------------------------------------------------------------
(* Addresses are those of strategies, one for each.                        *)
LEMMA Addresses ==
    ASSUME ScriptTypeOK, CountInv
    PROVE  /\ \A s \in Made : s \in Strategy /\ s # Rebalancer
           /\ made <= Len(StrategyAddress) /\ 1..made \subseteq DOMAIN StrategyAddress
           /\ pc # 0 /\ ~(pc > MakerAt) =>
                 made + 1 \in DOMAIN StrategyAddress
           /\ others < MaxOthers => made + 1 \in DOMAIN StrategyAddress
           /\ made + 1 \in DOMAIN StrategyAddress =>
                 /\ StrategyAddress[made + 1] \in Strategy \ Made
                 /\ StrategyAddress[made + 1] # Rebalancer
<1>1. /\ StrategyAddress \in Seq(Strategy \ {Rebalancer})
      /\ \A i, j \in DOMAIN StrategyAddress : StrategyAddress[i] = StrategyAddress[j] => i = j
      /\ MaxRuns + MaxOthers <= Len(StrategyAddress)
      /\ MaxRuns \in Nat /\ MaxOthers \in Nat
  BY StrategyAddressAssumption, BuilderAssumption
<1>2. DOMAIN StrategyAddress = 1..Len(StrategyAddress) /\ Len(StrategyAddress) \in Nat
  BY <1>1
<1>3. \A i \in DOMAIN StrategyAddress : StrategyAddress[i] \in Strategy \ {Rebalancer}
  BY <1>1
<1>4. made \in Nat /\ runs <= MaxRuns /\ others <= MaxOthers /\ runs \in Nat /\ others \in Nat
  BY <1>1 DEF ScriptTypeOK
<1>5. made <= runs + others /\ (pc # 0 /\ ~(pc > MakerAt) => made + 1 <= runs + others)
  BY <1>4 DEF CountInv
<1>6. made <= Len(StrategyAddress) /\ 1..made \subseteq DOMAIN StrategyAddress
  BY <1>1, <1>2, <1>4, <1>5
<1>7. pc # 0 /\ ~(pc > MakerAt) => made + 1 \in DOMAIN StrategyAddress
  BY <1>1, <1>2, <1>4, <1>5
<1>8. others < MaxOthers => made + 1 \in DOMAIN StrategyAddress
  BY <1>1, <1>2, <1>4, <1>5
<1>9. ASSUME made + 1 \in DOMAIN StrategyAddress
      PROVE  /\ StrategyAddress[made + 1] \in Strategy \ Made
             /\ StrategyAddress[made + 1] # Rebalancer
  <2>1. \A i \in 1..made : StrategyAddress[i] # StrategyAddress[made + 1]
    BY <1>1, <1>4, <1>6, <1>9
  <2> QED
    BY <1>3, <1>9, <2>1 DEF Made
<1> QED
  BY <1>3, <1>6, <1>7, <1>8, <1>9 DEF Made

LEMMA MadeGrows ==
    ASSUME made \in Nat, made' = made + 1
    PROVE  Made' = Made \cup {StrategyAddress[made + 1]}
BY DEF Made

(* The expected NFTs of a run are within the model's.                      *)
LEMMA ExpectedIsNft ==
    ASSUME ScriptTypeOK, ScriptOK, pc # 0
    PROVE  /\ \A i \in 0..Len(Build.vaults) : ExpectedNft(i) \in Nft
           /\ ExpectedNfts \subseteq Nft /\ ExpectedNft(Build.nfts[1]) \in ExpectedNfts
<1> DEFINE n == Len(Build.vaults)
<1>1. /\ n \in Nat \ {0} /\ startNft \in Nat \ {0} /\ startNft + n <= MaxNft /\ MaxNft \in Nat
      /\ DOMAIN Build.vaults = 1..n /\ Build.nfts[1] \in 1..n
  BY BoundAssumption DEF ScriptTypeOK, ScriptOK
<1>2. ExpectedNfts = {ExpectedNft(i) : i \in 1..n}
  BY <1>1 DEF ExpectedNfts
<1>3. \A i \in 0..n : ExpectedNft(i) = startNft + (IF i = 0 THEN n ELSE i - 1)
  BY DEF ExpectedNft
<1> HIDE DEF n
<1>4. \A i \in 0..n : ExpectedNft(i) \in Nft
  BY <1>1, <1>3 DEF Nft
<1>5. \A i \in 1..n : i \in 0..n
  BY <1>1
<1>6. ExpectedNfts \subseteq Nft /\ ExpectedNft(Build.nfts[1]) \in ExpectedNfts
  BY <1>1, <1>2, <1>4, <1>5
<1> QED
  BY <1>4, <1>6 DEF n

-----------------------------------------------------------------------------
(* What the invariant says of strategies and root vaults, for steps that   *)
(* make no strategy.                                                       *)
StrategiesInv == AddressInv /\ HoldsInv

LEMMA StrategiesStay ==
    ASSUME StrategiesInv,
           UNCHANGED <<made, vaultsOf, subvaults, strategyOf>>,
           CreatingRoot' => creating' = creating
    PROVE  StrategiesInv'
BY DEF StrategiesInv, AddressInv, HoldsInv, RootHoldsStrategysVaults, CreatingRoot, Made

LEMMA FinishedRootHolds ==
    ASSUME StrategiesInv, ScriptTypeOK, CountInv, IInv, UNCHANGED <<made, vaultsOf>>, FinishRootVault
    PROVE  StrategiesInv'
<1> DEFINE root == Clone(creating.nft)
<1>1. /\ root \in Nft /\ CreatingRoot /\ creating.strategy \in Strategy
      /\ creating' = NoCreation
      /\ subvaults' = [subvaults EXCEPT ![root] = creating.subvaults]
      /\ strategyOf' = [strategyOf EXCEPT ![root] = creating.strategy]
      /\ subvaults \in [Nft -> SUBSET Nft] /\ strategyOf \in [Nft -> Strategy \cup {NoOne}]
  BY DEF FinishRootVault, CreatingRoot, IInv, OwnerInv, CreationInv, CreatingStrategy, Clone
<1>2. Made' = Made /\ ~CreatingRoot'
  BY <1>1 DEF Made, CreatingRoot
<1> HIDE DEF root
<1>3. AddressInv'
  BY <1>1, <1>2 DEF StrategiesInv, AddressInv
<1>4. RootHoldsStrategysVaults'
  BY <1>1 DEF StrategiesInv, HoldsInv, RootHoldsStrategysVaults
<1> QED
  BY <1>2, <1>3, <1>4 DEF StrategiesInv, HoldsInv

(* The script's new root vault is over the vaults its strategy is made for. *)
LEMMA CombinedRootHolds ==
    ASSUME StrategiesInv, ScriptTypeOK, CountInv, SavedInv, UNCHANGED <<made, vaultsOf>>,
           UNCHANGED <<subvaults, strategyOf>>,
           pc > MakerAt, creating'.subvaults = ExpectedNfts,
           creating'.strategy = (IF Build.rebalanced THEN Rebalancer ELSE saved)
    PROVE  StrategiesInv'
<1>1. saved \in Made /\ vaultsOf[saved] \in {{}, ExpectedNfts} /\ Made' = Made
  BY DEF SavedInv, Made
<1>2. Rebalancer \in Strategy /\ Rebalancer \notin Made
  BY Addresses, BuilderAssumption
<1>3. vaultsOf[Rebalancer] = {}
  BY <1>2 DEF StrategiesInv, AddressInv
<1>4. AddressInv'
  BY <1>1 DEF StrategiesInv, AddressInv
<1>5. RootHoldsStrategysVaults'
  BY DEF StrategiesInv, HoldsInv, RootHoldsStrategysVaults
<1> QED
  BY <1>1, <1>3, <1>4, <1>5 DEF StrategiesInv, HoldsInv

(* A strategy is made at an address that no vault knows.                   *)
LEMMA MakeKeeps ==
    ASSUME StrategiesInv, ScriptTypeOK, CountInv, NEW a, NEW nfts, NEW first,
           made + 1 \in DOMAIN StrategyAddress,
           Make(a, nfts, first), UNCHANGED <<subvaults, strategyOf, creating>>
    PROVE  /\ StrategiesInv'
           /\ vaultsOf' = [s \in Strategy |-> vaultsOf'[s]]
           /\ roles' = [s \in Strategy |-> roles'[s]]
           /\ made' = made + 1 /\ Made' = Made \cup {StrategyAddress[made + 1]}
           /\ StrategyAddress[made + 1] \in Strategy \ Made
           /\ vaultsOf'[StrategyAddress[made + 1]] = nfts
           /\ roles'[StrategyAddress[made + 1]] = first
           /\ \A s \in Strategy : s # StrategyAddress[made + 1] =>
                 vaultsOf'[s] = vaultsOf[s] /\ roles'[s] = roles[s]
<1> DEFINE new == StrategyAddress[made + 1]
<1>1. new \in Strategy \ Made /\ new # Rebalancer /\ \A s \in Made : s \in Strategy
  BY Addresses
<1>2. made \in Nat /\ made' = made + 1 /\ Made' = Made \cup {new}
  BY MadeGrows DEF Make, ScriptTypeOK
<1>3. /\ vaultsOf' = [vaultsOf EXCEPT ![new] = nfts] /\ roles' = [roles EXCEPT ![new] = first]
      /\ vaultsOf = [s \in Strategy |-> vaultsOf[s]] /\ roles = [s \in Strategy |-> roles[s]]
  BY DEF Make, ScriptTypeOK
<1> HIDE DEF new
<1>4. /\ vaultsOf' = [s \in Strategy |-> vaultsOf'[s]] /\ roles' = [s \in Strategy |-> roles'[s]]
      /\ vaultsOf'[new] = nfts /\ roles'[new] = first
      /\ \A s \in Strategy : s # new => vaultsOf'[s] = vaultsOf[s] /\ roles'[s] = roles[s]
  BY <1>1, <1>3
<1>5. AddressInv'
  <2>1. CreatingRoot' <=> CreatingRoot
    BY DEF CreatingRoot
  <2> QED
    BY <1>2, <1>4, <2>1 DEF StrategiesInv, AddressInv
<1>6. HoldsInv'
  <2>1. NoOne \notin Strategy /\ Rebalancer \in Strategy
    BY AddressAssumption, BuilderAssumption DEF Account
  <2>2. \A n \in Nft : strategyOf[n] # new
    BY <1>1, <2>1 DEF StrategiesInv, AddressInv
  <2>3. CreatingRoot => creating.strategy \in Strategy /\ creating.strategy # new
    BY <1>1, <2>1 DEF StrategiesInv, AddressInv
  <2>4. RootHoldsStrategysVaults'
    BY <1>4, <2>2 DEF StrategiesInv, HoldsInv, RootHoldsStrategysVaults
  <2> QED
    BY <1>4, <2>3, <2>4 DEF StrategiesInv, HoldsInv, CreatingRoot
<1> QED
  BY <1>1, <1>2, <1>4, <1>5, <1>6 DEF StrategiesInv, new

-----------------------------------------------------------------------------
(* The script's part of the invariant.                                     *)
RunInv == ScriptTypeOK /\ CountInv /\ SavedInv /\ AdminInv

LEMMA SamePlan ==
    ASSUME plan' = plan
    PROVE  /\ Build' = Build /\ MakerAt' = MakerAt
           /\ Makes("clone")' = Makes("clone") /\ Makes("deployProxy")' = Makes("deployProxy")
           /\ startNft' = startNft => ExpectedNfts' = ExpectedNfts
BY DEF Build, MakerAt, Makes, ExpectedNfts, ExpectedNft

(* The script rests, while roles may change where they may.                *)
LEMMA RunStays ==
    ASSUME RunInv, UNCHANGED <<plan, runs, pc, startNft, saved, made, vaultsOf>>,
           unawaited' \in Seq(Account \X Nft),
           others' \in 0..MaxOthers, others' >= others,
           roles' = [s \in Strategy |-> roles'[s]], AdminInv'
    PROVE  RunInv'
<1>1. ScriptTypeOK'
  BY SamePlan DEF RunInv, ScriptTypeOK
<1>2. CountInv'
  BY <1>1, SamePlan, BuilderAssumption DEF RunInv, ScriptTypeOK, CountInv
<1>3. SavedInv'
  BY SamePlan DEF RunInv, SavedInv, Foretold, Made
<1> QED
  BY <1>1, <1>2, <1>3 DEF RunInv

(* The run's part of the invariant: when nobody moves it, when a script goes *)
(* on, ends or fails, and when it starts.                                  *)
LEMMA RunRests ==
    ASSUME RunInv, UNCHANGED <<plan, runs, pc, startNft, saved, strategyVars>>,
           unawaited' \in Seq(Account \X Nft),
           others' \in 0..MaxOthers, others' >= others
    PROVE  RunInv'
<1>1. AdminInv'
  BY SamePlan DEF RunInv, AdminInv, StrategyHasAdmin, Step, strategyVars
<1>2. roles' = [s \in Strategy |-> roles'[s]]
  BY DEF RunInv, ScriptTypeOK, strategyVars
<1> QED
  BY <1>1, <1>2, RunStays DEF strategyVars

(* A step that neither makes a strategy nor asks for its address.          *)
LEMMA RunAdvances ==
    ASSUME RunInv, UNCHANGED <<plan, runs, others, startNft, saved, made, vaultsOf>>,
           pc' = pc + 1, pc \in DOMAIN Build.steps,
           Step.op \notin MakerOps \cup {"predict"},
           unawaited' \in Seq(Account \X Nft),
           roles' = [s \in Strategy |-> roles'[s]], StrategyHasAdmin',
           Step.op = "role" => <<"ADMIN_ROLE", mStrategyAdmin>> \in roles'[saved]
    PROVE  RunInv'
<1>1. ScriptOK /\ StepOK(pc) /\ pc \in Nat \ {0} /\ MakerAt \in Nat \ {0}
  BY PlansAreOK DEF RunInv, ScriptTypeOK, ScriptOK, StepOK, MakerOK
<1>2. ScriptTypeOK'
  BY <1>1, SamePlan DEF RunInv, ScriptTypeOK
<1>3. pc # MakerAt /\ (pc' > MakerAt <=> pc > MakerAt)
  BY <1>1 DEF StepOK, Step
<1>4. CountInv'
  BY <1>1, <1>3, SamePlan DEF RunInv, CountInv
<1>5. ~(pc' = MakerAt /\ Makes("clone"))
  <2>1. pc' = MakerAt => pc = MakerAt - 1
    BY <1>1
  <2> QED
    BY <1>1, <2>1 DEF ScriptOK, MakerOK, Step
<1>6. SavedInv'
  BY <1>3, <1>5, SamePlan DEF RunInv, SavedInv, Made
<1>7. AdminInv'
  <2>1. ASSUME NEW k \in DOMAIN Build.steps, k = pc + 1, Build.steps[k].op = "role"
        PROVE  Build.steps[k].i = 1 \/ Step.op = "role"
    <3>1. StepOK(k)
      BY <1>1 DEF ScriptOK
    <3>2. k - 1 = pc
      BY <1>1, <2>1
    <3> QED
      BY <2>1, <3>1, <3>2 DEF StepOK, Step
  <2> QED
    BY <2>1, SamePlan DEF RunInv, AdminInv, Step
<1> QED
  BY <1>2, <1>4, <1>6, <1>7 DEF RunInv

LEMMA RunGoesOn ==
    ASSUME RunInv, UNCHANGED <<plan, runs, others, startNft, saved, strategyVars>>,
           pc' = pc + 1, pc \in DOMAIN Build.steps,
           Step.op \notin MakerOps \cup {"predict", "role"},
           unawaited' \in Seq(Account \X Nft)
    PROVE  RunInv'
<1>1. StrategyHasAdmin' /\ roles' = [s \in Strategy |-> roles'[s]]
  BY DEF RunInv, AdminInv, ScriptTypeOK, StrategyHasAdmin, strategyVars
<1> QED
  BY <1>1, RunAdvances DEF strategyVars

LEMMA RunStops ==
    ASSUME RunInv, UNCHANGED <<plan, runs, saved, strategyVars>>,
           pc' = 0, unawaited' = <<>>, others' \in 0..MaxOthers, others' >= others
    PROVE  RunInv'
<1>1. ScriptOK /\ MakerAt \in Nat \ {0} /\ 0 \notin DOMAIN Build.steps
  BY PlansAreOK DEF RunInv, ScriptTypeOK, ScriptOK, MakerOK, StepOK
<1>2. ScriptTypeOK'
  BY SamePlan DEF RunInv, ScriptTypeOK, strategyVars
<1>3. CountInv'
  BY <1>1, <1>2, SamePlan, BuilderAssumption DEF RunInv, ScriptTypeOK, CountInv, strategyVars
<1>4. SavedInv'
  BY <1>1, SamePlan DEF RunInv, SavedInv, Made, strategyVars
<1>5. AdminInv'
  BY <1>1, SamePlan DEF RunInv, AdminInv, StrategyHasAdmin, strategyVars
<1> QED
  BY <1>2, <1>3, <1>4, <1>5 DEF RunInv

LEMMA RunStarts ==
    ASSUME RunInv, IInv, StartRun
    PROVE  RunInv'
<1>1. /\ pc = 0 /\ pc' = 1 /\ runs < MaxRuns /\ runs' = runs + 1 /\ startNft' = Len(vaults) + 1
      /\ UNCHANGED <<plan, others, saved, strategyVars, unawaited>>
      /\ Len(vaults) + Len(Build.vaults) + 1 + MaxOthers - others <= MaxNft
  BY DEF StartRun
<1>2. ScriptOK /\ MakerAt \in Nat \ {0} /\ Len(Build.vaults) \in Nat
  BY PlansAreOK DEF RunInv, ScriptTypeOK, ScriptOK, MakerOK
<1>3. Len(vaults) \in Nat
  BY DEF IInv, IndexInv
<1>4. MaxRuns \in Nat /\ MaxOthers \in Nat /\ MaxNft \in Nat
  BY BuilderAssumption, BoundAssumption
<1>5. ScriptTypeOK'
  <2>1. startNft' \in Nat \ {0} /\ startNft' + Len(Build.vaults) <= MaxNft
    <3> DEFINE n == Len(Build.vaults)
               l == Len(vaults)
    <3>1. n \in Nat /\ l \in Nat /\ others \in 0..MaxOthers
      BY <1>2, <1>3 DEF RunInv, ScriptTypeOK
    <3>2. startNft' = l + 1 /\ l + n + 1 + MaxOthers - others <= MaxNft
      BY <1>1
    <3> HIDE DEF n, l
    <3>3. startNft' \in Nat \ {0} /\ startNft' + n <= MaxNft
      BY <1>4, <3>1, <3>2
    <3> QED
      BY <3>3 DEF n
  <2>2. runs' \in 0..MaxRuns
    BY <1>1, <1>4 DEF RunInv, ScriptTypeOK
  <2> QED
    BY <1>1, <2>1, <2>2, SamePlan DEF RunInv, ScriptTypeOK, strategyVars
<1>6. CountInv'
  BY <1>1, <1>2, <1>4, SamePlan DEF RunInv, ScriptTypeOK, CountInv, strategyVars
<1>7. ~(1 > MakerAt) /\ ~(1 = MakerAt /\ Makes("clone"))
  BY <1>2 DEF ScriptOK, MakerOK
<1>8. SavedInv'
  BY <1>1, <1>7, SamePlan DEF RunInv, SavedInv, Made, strategyVars
<1>9. AdminInv'
  <2>1. 1 \in DOMAIN Build.steps => Build.steps[1].op # "role"
    BY <1>2 DEF ScriptOK, StepOK, LateOps, EarlyOps
  <2> QED
    BY <1>1, <2>1, SamePlan DEF RunInv, AdminInv, StrategyHasAdmin, Step, strategyVars
<1> QED
  BY <1>5, <1>6, <1>8, <1>9 DEF RunInv

-----------------------------------------------------------------------------
(* The actions.                                                            *)

LEMMA Actors ==
    /\ deployer \in User /\ deployer \in Holder /\ deployer \in Account
    /\ mStrategyAdmin \in User /\ mStrategyAdmin \in Account /\ mStrategyAdmin # deployer
    /\ approver \in Account /\ Governance \in Account
    /\ \A u \in Creators : u \in User
    /\ \A s \in Strategy : s \in Account
BY BuilderAssumption, AddressAssumption DEF Holder, Account

(* BInv by what disturbs it: the registry, the run, the strategies.        *)
LEMMA Parts == BInv <=> IInv /\ RunInv /\ StrategiesInv
BY DEF BInv, RunInv, StrategiesInv

LEMMA PartsNext == IInv' /\ RunInv' /\ StrategiesInv' => BInv'
BY DEF BInv, RunInv, StrategiesInv

LEMMA RegistryRests == ASSUME IInv, UNCHANGED vars PROVE IInv'
BY OtherKeeps DEF vars

(* What holds when a script is at a step of a certain operation.           *)
LEMMA AtStep ==
    ASSUME RunInv, NEW op, Current(op)
    PROVE  /\ pc \in DOMAIN Build.steps /\ pc # 0 /\ Step.op = op /\ creating = NoCreation
           /\ ScriptOK /\ StepOK(pc) /\ unawaited \in Seq(Account \X Nft)
           /\ op \in LateOps \ EarlyOps => pc > MakerAt
           /\ op # "role" => ExpectedNft(Step.i) \in Nft
<1>1. /\ pc \in DOMAIN Build.steps /\ Step.op = op /\ creating = NoCreation
      /\ ScriptOK /\ StepOK(pc) /\ pc # 0 /\ unawaited \in Seq(Account \X Nft)
  BY PlansAreOK DEF Current, RunInv, ScriptTypeOK, ScriptOK, StepOK
<1>2. op \in LateOps \ EarlyOps => pc > MakerAt
  BY <1>1 DEF StepOK, Step
<1>3. op # "role" => Step.i \in 0..Len(Build.vaults)
  BY <1>1 DEF StepOK, Step, ScriptOK
<1>4. op # "role" => ExpectedNft(Step.i) \in Nft
  BY <1>1, <1>3, ExpectedIsNft DEF RunInv
<1> QED
  BY <1>1, <1>2, <1>4

LEMMA ThrowKeeps ==
    ASSUME BInv, NEW why, Throw(why), UNCHANGED <<plan, runs, others>>
    PROVE  BInv'
<1> others' \in 0..MaxOthers /\ others' >= others
  BY BuilderAssumption DEF BInv, ScriptTypeOK
<1>1. IInv'
  BY Parts, RegistryRests DEF Throw
<1>2. RunInv'
  BY Parts, RunStops DEF Throw, End
<1>3. StrategiesInv'
  BY Parts, StrategiesStay DEF Throw, vars, vaultVars, strategyVars
<1> QED
  BY <1>1, <1>2, <1>3, PartsNext

(* Steps that change nothing but the script's own state.                   *)
LEMMA ContinueKeeps ==
    ASSUME BInv, UNCHANGED <<vars, plan, runs, others, startNft, saved, strategyVars>>,
           pc' = pc + 1, pc \in DOMAIN Build.steps,
           Step.op \notin MakerOps \cup {"predict", "role"},
           unawaited' \in Seq(Account \X Nft)
    PROVE  BInv'
<1>1. IInv'
  BY Parts, RegistryRests
<1>2. RunInv'
  BY Parts, RunGoesOn
<1>3. StrategiesInv'
  BY Parts, StrategiesStay DEF vars, vaultVars, strategyVars
<1> QED
  BY <1>1, <1>2, <1>3, PartsNext

LEMMA ApproveAllKeeps == ASSUME BInv, ApproveAllStep PROVE BInv'
<1>1. IInv'
  BY Parts, Actors, OperatorsKeep DEF ApproveAllStep
<1>2. RunInv'
  BY Parts, RunRests DEF ApproveAllStep, builderVars, scriptVars, RunInv, ScriptTypeOK
<1>3. StrategiesInv'
  BY Parts, StrategiesStay
  DEF ApproveAllStep, SetApprovalForAll, vaultVars, builderVars, strategyVars
<1> QED
  BY <1>1, <1>2, <1>3, PartsNext

LEMMA StartRunKeeps == ASSUME BInv, StartRun PROVE BInv'
<1>1. IInv'
  BY Parts, RegistryRests DEF StartRun
<1>2. RunInv'
  BY Parts, RunStarts
<1>3. StrategiesInv'
  BY Parts, StrategiesStay DEF StartRun, vars, vaultVars, strategyVars
<1> QED
  BY <1>1, <1>2, <1>3, PartsNext

LEMMA EndRunKeeps == ASSUME BInv, EndRun, UNCHANGED <<plan, runs, others>> PROVE BInv'
<1>1. IInv'
  BY Parts, RegistryRests DEF EndRun
<1>2. RunInv'
  <2>1. others' \in 0..MaxOthers /\ others' >= others
    BY BuilderAssumption DEF BInv, ScriptTypeOK
  <2> QED
    BY <2>1, Parts, RunStops DEF EndRun, End
<1>3. StrategiesInv'
  BY Parts, StrategiesStay DEF EndRun, vars, vaultVars, strategyVars
<1> QED
  BY <1>1, <1>2, <1>3, PartsNext

LEMMA CreateVaultKeeps ==
    ASSUME BInv, CreateVaultStep, UNCHANGED <<plan, runs, others>>
    PROVE  BInv'
<1>1. /\ pc \in DOMAIN Build.steps /\ Step.op = "createVault"
      /\ unawaited \in Seq(Account \X Nft) /\ creating = NoCreation
      /\ pc' = pc + 1 /\ UNCHANGED <<startNft, unawaited, strategyVars, saved>>
  BY Parts, AtStep DEF CreateVaultStep, Continue
<1>2. Step.op \notin MakerOps \cup {"predict", "role"}
  BY <1>1 DEF MakerOps
<1>3. CASE UNCHANGED vars
  BY <1>1, <1>2, <1>3, ContinueKeeps
<1>4. CASE CreateIntegrationVault(deployer, deployer, Build.vaults[Step.i])
  <2> DEFINE k == Build.vaults[Step.i]
  <2>1. StartCreation(deployer, deployer, k, 0, {}, NoOne) /\ k # "root"
    BY <1>4 DEF CreateIntegrationVault
  <2>2. IInv'
    BY <2>1, Parts, Actors, StartKeeps
  <2>3. RunInv'
    BY <1>1, <1>2, Parts, RunGoesOn
  <2>4. ~CreatingRoot' /\ UNCHANGED <<subvaults, strategyOf>>
    BY <2>1 DEF StartCreation, CreatingRoot, vaultVars
  <2>5. StrategiesInv'
    BY <1>1, <2>4, Parts, StrategiesStay DEF strategyVars
  <2> QED
    BY <2>2, <2>3, <2>5, PartsNext
<1> QED
  BY <1>3, <1>4 DEF CreateVaultStep

LEMMA CreateRootVaultKeeps ==
    ASSUME BInv, CreateRootVaultStep, UNCHANGED <<plan, runs, others>>
    PROVE  BInv'
<1>1. /\ pc \in DOMAIN Build.steps /\ Step.op = "createRootVault" /\ pc # 0 /\ pc > MakerAt
      /\ unawaited \in Seq(Account \X Nft) /\ creating = NoCreation /\ ScriptOK
  BY Parts, AtStep DEF CreateRootVaultStep, LateOps, EarlyOps
<1>2. Step.op \notin MakerOps \cup {"predict", "role"}
  BY <1>1 DEF MakerOps
<1>3. CASE Continue /\ UNCHANGED <<vars, strategyVars, saved, positions, configured>>
  BY <1>1, <1>2, <1>3, ContinueKeeps DEF Continue
<1>4. ASSUME Continue, UNCHANGED <<strategyVars, saved>>,
             CreateRootVault(deployer, deployer, ExpectedNft(Build.nfts[1]),
                             ExpectedNfts \ {ExpectedNft(Build.nfts[1])},
                             IF Build.rebalanced THEN Rebalancer ELSE saved)
      PROVE  BInv'
  <2> DEFINE zero == ExpectedNft(Build.nfts[1])
             s == IF Build.rebalanced THEN Rebalancer ELSE saved
  <2>1. zero \in ExpectedNfts /\ ExpectedNfts \subseteq Nft
    BY <1>1, Parts, ExpectedIsNft DEF RunInv
  <2>2. s \in Strategy
    <3>1. saved \in Strategy
      BY <1>1, Parts, Addresses DEF RunInv, SavedInv
    <3> QED
      BY <3>1, BuilderAssumption
  <2>3. StartCreation(deployer, deployer, "root", zero, ExpectedNfts \ {zero}, s)
    BY <1>4 DEF CreateRootVault
  <2> HIDE DEF zero, s
  <2>4. zero \in Nft /\ ExpectedNfts \ {zero} \subseteq Nft /\ {zero} \cup (ExpectedNfts \ {zero}) = ExpectedNfts
    BY <2>1
  <2>5. IInv'
    BY <2>2, <2>3, <2>4, Parts, Actors, StartKeeps
  <2>6. RunInv'
    BY <1>1, <1>2, <1>4, Parts, RunGoesOn DEF Continue
  <2>7. /\ creating'.subvaults = ExpectedNfts /\ creating'.strategy = s
        /\ UNCHANGED <<subvaults, strategyOf>>
    BY <2>3, <2>4 DEF StartCreation, vaultVars
  <2>8. StrategiesInv'
    BY <1>1, <1>4, <2>7, Parts, CombinedRootHolds DEF s, RunInv, strategyVars
  <2> QED
    BY <2>5, <2>6, <2>8, PartsNext
<1> QED
  BY <1>3, <1>4, ThrowKeeps DEF CreateRootVaultStep

LEMMA ConfigureKeeps ==
    ASSUME BInv, ConfigureStep, UNCHANGED <<plan, runs, others>>
    PROVE  BInv'
<1>1. PICK op \in {"setStrategyParams", "stageDelayedStrategyParams",
                   "commitDelayedStrategyParams", "addDepositorsToAllowlist"} : Current(op)
  BY DEF ConfigureStep
<1>2. /\ pc \in DOMAIN Build.steps /\ Step.op = op /\ unawaited \in Seq(Account \X Nft)
  BY <1>1, Parts, AtStep
<1>3. Step.op \notin MakerOps \cup {"predict", "role"}
  BY <1>2 DEF MakerOps
<1>4. CASE Continue /\ UNCHANGED <<vars, strategyVars, saved>>
  BY <1>2, <1>3, <1>4, ContinueKeeps DEF Continue
<1> QED
  BY <1>4, ThrowKeeps DEF ConfigureStep

-----------------------------------------------------------------------------
(* Roles.  The calls of a multicall one after the other.                   *)
Called(held, c) == {CalledRole(h, c) : h \in {g \in held : MayCallRole(g, c)}}
RolesAfter(after, held, cs, n) ==
    after = [j \in 0..n |-> IF j = 0 THEN {held} ELSE Called(after[j - 1], cs[j])]

LEMMA RolesAfterTwo == ASSUME NEW held, NEW cs PROVE \E after : RolesAfter(after, held, cs, 2)
<1> DEFINE a1 == Called({held}, cs[1])
           a2 == Called(a1, cs[2])
           f == [j \in 0..2 |-> IF j = 0 THEN {held} ELSE IF j = 1 THEN a1 ELSE a2]
<1>1. f[0] = {held} /\ f[1] = a1 /\ f[2] = a2 /\ f = [j \in 0..2 |-> f[j]]
  OBVIOUS
<1> HIDE DEF f
<1>2. \A j \in 0..2 : f[j] = IF j = 0 THEN {held} ELSE Called(f[j - 1], cs[j])
  <2>1. f[2 - 1] = a1 /\ f[1 - 1] = {held}
    BY <1>1
  <2> QED
    BY <1>1, <2>1
<1>3. RolesAfter(f, held, cs, 2)
  BY <1>1, <1>2 DEF RolesAfter
<1> QED
  BY <1>3

LEMMA RolesAfterFive == ASSUME NEW held, NEW cs PROVE \E after : RolesAfter(after, held, cs, 5)
<1> DEFINE a1 == Called({held}, cs[1])
           a2 == Called(a1, cs[2])
           a3 == Called(a2, cs[3])
           a4 == Called(a3, cs[4])
           a5 == Called(a4, cs[5])
           f == [j \in 0..5 |-> IF j = 0 THEN {held} ELSE IF j = 1 THEN a1 ELSE
                                IF j = 2 THEN a2 ELSE IF j = 3 THEN a3 ELSE
                                IF j = 4 THEN a4 ELSE a5]
<1>1. /\ f[0] = {held} /\ f[1] = a1 /\ f[2] = a2 /\ f[3] = a3 /\ f[4] = a4 /\ f[5] = a5
      /\ f = [j \in 0..5 |-> f[j]]
  OBVIOUS
<1> HIDE DEF f
<1>2. \A j \in 0..5 : f[j] = IF j = 0 THEN {held} ELSE Called(f[j - 1], cs[j])
  <2>1. /\ f[1 - 1] = {held} /\ f[2 - 1] = a1 /\ f[3 - 1] = a2 /\ f[4 - 1] = a3
        /\ f[5 - 1] = a4
    BY <1>1
  <2>2. \A j \in 0..5 : j = 0 \/ j = 1 \/ j = 2 \/ j = 3 \/ j = 4 \/ j = 5
    OBVIOUS
  <2> QED
    BY <1>1, <2>1, <2>2
<1>3. RolesAfter(f, held, cs, 5)
  BY <1>1, <1>2 DEF RolesAfter
<1> QED
  BY <1>3

(* What a multicall leaves is the last of such a sequence.                 *)
LEMMA MulticallIsSequence ==
    ASSUME NEW held, NEW cs, \E after : RolesAfter(after, held, cs, Len(cs))
    PROVE  \E after : RolesAfter(after, held, cs, Len(cs))
                      /\ MulticallRoles(held, cs) = after[Len(cs)]
<1> DEFINE chosen == CHOOSE after :
                       after = [j \in 0..Len(cs) |->
                                  IF j = 0 THEN {held}
                                  ELSE {CalledRole(h, cs[j]) :
                                          h \in {g \in after[j - 1] : MayCallRole(g, cs[j])}}]
<1>1. MulticallRoles(held, cs) = chosen[Len(cs)]
  BY DEF MulticallRoles
<1>2. RolesAfter(chosen, held, cs, Len(cs))
  BY DEF RolesAfter, Called
<1> QED
  BY <1>1, <1>2

(* A call on a role other than the admin's grant keeps what it granted.    *)
LEMMA CallKeepsAdmin ==
    ASSUME NEW held, NEW c, c.op # "grant" => c.to = deployer,
           <<"ADMIN_ROLE", mStrategyAdmin>> \in held
    PROVE  <<"ADMIN_ROLE", mStrategyAdmin>> \in CalledRole(held, c)
<1>1. <<c.role, deployer>> # <<"ADMIN_ROLE", mStrategyAdmin>>
  BY Actors
<1> QED
  BY <1>1 DEF CalledRole

LEMMA AdminGranted ==
    ASSUME NEW held
    PROVE  <<"ADMIN_ROLE", mStrategyAdmin>>
             \in CalledRole(held, Grant("ADMIN_ROLE", mStrategyAdmin))
BY DEF CalledRole, Grant

LEMMA RevokesAreDeployers ==
    /\ \A role : Revoke(role).op # "grant" => Revoke(role).to = deployer
    /\ \A role, a : Grant(role, a).op = "grant"
BY DEF Revoke, Grant

LEMMA MulticallHandsOver ==
    ASSUME NEW held, NEW cs \in {AdminAlone, AdminLast}, NEW h \in MulticallRoles(held, cs)
    PROVE  <<"ADMIN_ROLE", mStrategyAdmin>> \in h
<1> DEFINE Admin(r) == <<"ADMIN_ROLE", mStrategyAdmin>> \in r
<1>1. CASE cs = AdminAlone
  <2>1. /\ Len(cs) = 2 /\ cs[1] = Grant("ADMIN_ROLE", mStrategyAdmin)
        /\ cs[2] = Revoke("ADMIN_ROLE")
    BY <1>1 DEF AdminAlone
  <2>2. PICK after : RolesAfter(after, held, cs, 2) /\ MulticallRoles(held, cs) = after[2]
    <3> DEFINE n == Len(cs)
    <3>1. n = 2
      BY <2>1
    <3>2. (\E after : RolesAfter(after, held, cs, n)) =>
             \E after : RolesAfter(after, held, cs, n) /\ MulticallRoles(held, cs) = after[n]
      BY MulticallIsSequence
    <3> HIDE DEF n
    <3> QED
      BY <3>1, <3>2, RolesAfterTwo
  <2>3. after[1] = Called(after[1 - 1], cs[1]) /\ after[2] = Called(after[2 - 1], cs[2])
    BY <2>2 DEF RolesAfter
  <2>4. \A r \in after[1] : Admin(r)
    BY <2>1, <2>3, AdminGranted DEF Called
  <2> QED
    BY <2>1, <2>2, <2>3, <2>4, CallKeepsAdmin, RevokesAreDeployers DEF Called
<1>2. CASE cs = AdminLast
  <2>1. /\ Len(cs) = 5 /\ cs[2] = Grant("ADMIN_ROLE", mStrategyAdmin)
        /\ cs[3] = Revoke("OPERATOR") /\ cs[4] = Revoke("ADMIN_DELEGATE_ROLE")
        /\ cs[5] = Revoke("ADMIN_ROLE")
    BY <1>2 DEF AdminLast
  <2>2. PICK after : RolesAfter(after, held, cs, 5) /\ MulticallRoles(held, cs) = after[5]
    <3> DEFINE n == Len(cs)
    <3>1. n = 5
      BY <2>1
    <3>2. (\E after : RolesAfter(after, held, cs, n)) =>
             \E after : RolesAfter(after, held, cs, n) /\ MulticallRoles(held, cs) = after[n]
      BY MulticallIsSequence
    <3> HIDE DEF n
    <3> QED
      BY <3>1, <3>2, RolesAfterFive
  <2>3. /\ after[2] = Called(after[2 - 1], cs[2]) /\ after[3] = Called(after[3 - 1], cs[3])
        /\ after[4] = Called(after[4 - 1], cs[4]) /\ after[5] = Called(after[5 - 1], cs[5])
    BY <2>2 DEF RolesAfter
  <2>4. \A r \in after[2] : Admin(r)
    BY <2>1, <2>3, AdminGranted DEF Called
  <2>5. \A r \in after[3] : Admin(r)
    BY <2>1, <2>3, <2>4, CallKeepsAdmin, RevokesAreDeployers DEF Called
  <2>6. \A r \in after[4] : Admin(r)
    BY <2>1, <2>3, <2>5, CallKeepsAdmin, RevokesAreDeployers DEF Called
  <2>7. \A r \in after[5] : Admin(r)
    BY <2>1, <2>3, <2>6, CallKeepsAdmin, RevokesAreDeployers DEF Called
  <2> QED
    BY <2>2, <2>7
<1> QED
  BY <1>1, <1>2

-----------------------------------------------------------------------------
(* Steps on which the strategy depends.                                    *)

LEMMA PredictKeeps ==
    ASSUME BInv, PredictStep, UNCHANGED <<plan, runs, others>>
    PROVE  BInv'
<1>1. /\ pc \in DOMAIN Build.steps /\ pc # 0 /\ Step.op = "predict" /\ ScriptOK /\ StepOK(pc)
      /\ pc' = pc + 1 /\ saved' = StrategyAddress[made + 1]
      /\ UNCHANGED <<startNft, unawaited, vars, strategyVars>>
  BY Parts, AtStep DEF PredictStep, Continue
<1>2. /\ pc + 1 = MakerAt /\ Makes("clone") /\ ~Makes("deployProxy") /\ pc \in Nat
      /\ ~(pc > MakerAt) /\ ~(pc' > MakerAt)
  BY <1>1 DEF StepOK, Step, Makes
<1>3. /\ StrategyAddress[made + 1] \in Strategy \ Made
  BY <1>1, <1>2, Addresses DEF BInv
<1>4. vaultsOf[StrategyAddress[made + 1]] = {} /\ made \in Nat
  BY <1>3 DEF BInv, AddressInv, ScriptTypeOK
<1>5. ScriptTypeOK'
  BY <1>1, <1>2, SamePlan DEF BInv, ScriptTypeOK, strategyVars
<1>6. CountInv'
  BY <1>1, <1>2, SamePlan DEF BInv, CountInv, strategyVars
<1>7. SavedInv'
  <2>1. made + 1 \in 1..made + 1
    BY <1>4
  <2> QED
    BY <1>1, <1>2, <1>4, <2>1, SamePlan DEF SavedInv, Foretold, strategyVars
<1>8. AdminInv'
  <2>1. Build.steps[MakerAt].op # "role"
    BY <1>2 DEF Makes
  <2> QED
    BY <1>1, <1>2, <2>1, SamePlan DEF BInv, AdminInv, StrategyHasAdmin, Step, strategyVars
<1>9. IInv' /\ StrategiesInv'
  BY <1>1, Parts, RegistryRests, StrategiesStay DEF vars, vaultVars, strategyVars
<1> QED
  BY <1>5, <1>6, <1>7, <1>8, <1>9, PartsNext DEF RunInv

(* The step that makes the strategy, or finds it made.                     *)
LEMMA MakerRuns ==
    ASSUME RunInv, ScriptOK, UNCHANGED <<plan, runs, others, startNft, unawaited>>,
           pc = MakerAt, pc' = pc + 1, made' \in {made, made + 1},
           vaultsOf' = [s \in Strategy |-> vaultsOf'[s]],
           roles' = [s \in Strategy |-> roles'[s]], StrategyHasAdmin',
           saved' \in Made', vaultsOf'[saved'] \in {{}, ExpectedNfts},
           Makes("deployProxy") => vaultsOf'[saved'] = {}
    PROVE  RunInv'
<1>1. MakerAt \in Nat \ {0} /\ MakerAt \in DOMAIN Build.steps /\ made \in Nat
      /\ StepOK(MakerAt) /\ pc' > MakerAt /\ pc # 0 /\ ~(pc > MakerAt)
  BY DEF ScriptOK, MakerOK, RunInv, ScriptTypeOK
<1>2. ScriptTypeOK'
  BY <1>1, SamePlan DEF RunInv, ScriptTypeOK
<1>3. CountInv'
  BY <1>1, SamePlan DEF RunInv, ScriptTypeOK, CountInv
<1>4. SavedInv'
  BY <1>1, SamePlan DEF SavedInv
<1>5. AdminInv'
  <2>1. ASSUME NEW k \in DOMAIN Build.steps, k = pc + 1, Build.steps[k].op = "role"
        PROVE  Build.steps[k].i = 1
    <3>1. StepOK(k)
      BY DEF ScriptOK
    <3>2. k - 1 = MakerAt
      BY <1>1, <2>1
    <3>3. Build.steps[MakerAt].op # "role"
      BY <1>1 DEF StepOK, MakerOps
    <3> QED
      BY <2>1, <3>1, <3>2, <3>3 DEF StepOK
  <2> QED
    BY <2>1, SamePlan DEF AdminInv, Step
<1> QED
  BY <1>2, <1>3, <1>4, <1>5 DEF RunInv

LEMMA AtMaker ==
    ASSUME BInv, NEW op \in MakerOps, Current(op)
    PROVE  /\ pc = MakerAt /\ Makes(op) /\ ScriptOK /\ creating = NoCreation
           /\ made + 1 \in DOMAIN StrategyAddress /\ made \in Nat
           /\ StrategyAddress[made + 1] \in Strategy \ Made
<1>1. pc \in DOMAIN Build.steps /\ pc # 0 /\ Step.op = op /\ ScriptOK /\ StepOK(pc)
      /\ creating = NoCreation
  BY Parts, AtStep
<1>2. pc = MakerAt
  BY <1>1 DEF StepOK, Step
<1>3. ~(pc > MakerAt)
  BY <1>1, <1>2 DEF ScriptOK, MakerOK
<1> QED
  BY <1>1, <1>2, <1>3, Addresses DEF BInv, Makes, Step, ScriptTypeOK

(* A strategy just made is administered by who made it.                    *)
LEMMA MadeHasAdmin ==
    ASSUME StrategyHasAdmin, NEW new \in Strategy, NEW u \in User,
           vaultsOf'[new] # {} => roles'[new] = FirstRoles(u),
           \A s \in Strategy : s # new => vaultsOf'[s] = vaultsOf[s] /\ roles'[s] = roles[s]
    PROVE  StrategyHasAdmin'
BY DEF StrategyHasAdmin, FirstRoles

LEMMA CloneKeeps ==
    ASSUME BInv, CloneStep, UNCHANGED <<plan, runs, others>>
    PROVE  BInv'
<1> DEFINE new == StrategyAddress[made + 1]
<1>1. /\ pc = MakerAt /\ Makes("clone") /\ ScriptOK /\ creating = NoCreation /\ made \in Nat
      /\ made + 1 \in DOMAIN StrategyAddress
  BY AtMaker DEF CloneStep, MakerOps
<1>2. /\ Make(deployer, ExpectedNfts, FirstRoles(deployer)) /\ pc' = pc + 1
      /\ UNCHANGED <<startNft, unawaited, vars, saved>>
  BY DEF CloneStep, Continue
<1>3. /\ StrategiesInv'
      /\ vaultsOf' = [s \in Strategy |-> vaultsOf'[s]]
      /\ roles' = [s \in Strategy |-> roles'[s]]
      /\ made' = made + 1 /\ Made' = Made \cup {new} /\ new \in Strategy \ Made
      /\ vaultsOf'[new] = ExpectedNfts /\ roles'[new] = FirstRoles(deployer)
      /\ \A s \in Strategy : s # new => vaultsOf'[s] = vaultsOf[s] /\ roles'[s] = roles[s]
  BY <1>1, <1>2, Parts, MakeKeeps DEF BInv, vars, vaultVars
<1>4. StrategyHasAdmin'
  BY <1>3, Actors, MadeHasAdmin DEF BInv, AdminInv
<1>5. saved' \in Made' /\ vaultsOf'[saved'] \in {{}, ExpectedNfts}
  <2>1. Foretold
    BY <1>1 DEF BInv, SavedInv
  <2>2. saved \in Made \cup {new}
    BY <1>1, <2>1 DEF Foretold, Made
  <2>3. saved # new => saved \in Strategy
    BY <2>2, Addresses DEF BInv
  <2> QED
    BY <1>2, <1>3, <2>1, <2>2, <2>3 DEF Foretold
<1>6. ~Makes("deployProxy")
  BY <1>1 DEF Makes
<1>7. RunInv'
  BY <1>1, <1>2, <1>3, <1>4, <1>5, <1>6, Parts, MakerRuns
<1>8. IInv'
  BY <1>2, Parts, RegistryRests
<1> QED
  BY <1>3, <1>7, <1>8, PartsNext

LEMMA DeployKeeps ==
    ASSUME BInv, DeployStep, UNCHANGED <<plan, runs, others>>
    PROVE  BInv'
<1> DEFINE new == StrategyAddress[made + 1]
<1>1. /\ pc = MakerAt /\ Makes("deploy") /\ ScriptOK /\ creating = NoCreation /\ made \in Nat
      /\ made + 1 \in DOMAIN StrategyAddress
  BY AtMaker DEF DeployStep, MakerOps
<1>2. /\ Make(deployer, ExpectedNfts, FirstRoles(deployer)) /\ pc' = pc + 1 /\ saved' = new
      /\ UNCHANGED <<startNft, unawaited, vars>>
  BY DEF DeployStep, DeployAnew, Continue
<1>3. /\ StrategiesInv'
      /\ vaultsOf' = [s \in Strategy |-> vaultsOf'[s]]
      /\ roles' = [s \in Strategy |-> roles'[s]]
      /\ made' = made + 1 /\ Made' = Made \cup {new} /\ new \in Strategy \ Made
      /\ vaultsOf'[new] = ExpectedNfts /\ roles'[new] = FirstRoles(deployer)
      /\ \A s \in Strategy : s # new => vaultsOf'[s] = vaultsOf[s] /\ roles'[s] = roles[s]
  BY <1>1, <1>2, Parts, MakeKeeps DEF BInv, vars, vaultVars
<1>4. StrategyHasAdmin'
  BY <1>3, Actors, MadeHasAdmin DEF BInv, AdminInv
<1>5. ~Makes("deployProxy")
  BY <1>1 DEF Makes
<1>6. RunInv'
  BY <1>1, <1>2, <1>3, <1>4, <1>5, Parts, MakerRuns
<1>7. IInv'
  BY <1>2, Parts, RegistryRests
<1> QED
  BY <1>3, <1>6, <1>7, PartsNext

LEMMA DeployProxyKeeps ==
    ASSUME BInv, DeployProxyStep, UNCHANGED <<plan, runs, others>>
    PROVE  BInv'
<1> DEFINE new == StrategyAddress[made + 1]
<1>1. /\ pc = MakerAt /\ Makes("deployProxy") /\ ScriptOK /\ creating = NoCreation /\ made \in Nat
      /\ made + 1 \in DOMAIN StrategyAddress
  BY AtMaker DEF DeployProxyStep, MakerOps
<1>2. pc' = pc + 1 /\ UNCHANGED <<startNft, unawaited, vars>>
  BY DEF DeployProxyStep, Continue
<1>3. IInv'
  BY <1>2, Parts, RegistryRests
<1>4. ASSUME Make(deployer, {}, {}), saved' = new
      PROVE  BInv'
  <2>1. /\ StrategiesInv'
        /\ vaultsOf' = [s \in Strategy |-> vaultsOf'[s]]
        /\ roles' = [s \in Strategy |-> roles'[s]]
        /\ made' = made + 1 /\ Made' = Made \cup {new} /\ new \in Strategy \ Made
        /\ vaultsOf'[new] = {}
        /\ \A s \in Strategy : s # new => vaultsOf'[s] = vaultsOf[s] /\ roles'[s] = roles[s]
    BY <1>1, <1>2, <1>4, Parts, MakeKeeps DEF BInv, vars, vaultVars
  <2>2. StrategyHasAdmin'
    BY <2>1, Actors, MadeHasAdmin DEF BInv, AdminInv
  <2>3. RunInv'
    BY <1>1, <1>2, <1>4, <2>1, <2>2, Parts, MakerRuns
  <2> QED
    BY <1>3, <2>1, <2>3, PartsNext
<1>5. ASSUME saved # NoOne, UNCHANGED <<strategyVars, saved>>
      PROVE  BInv'
  <2>1. saved \in Made /\ vaultsOf[saved] = {} /\ Made' = Made
    BY <1>1, <1>5 DEF BInv, SavedInv, strategyVars, Made
  <2>2. /\ StrategyHasAdmin' /\ vaultsOf' = [s \in Strategy |-> vaultsOf'[s]]
        /\ roles' = [s \in Strategy |-> roles'[s]]
    BY <1>5 DEF BInv, AdminInv, StrategyHasAdmin, ScriptTypeOK, strategyVars
  <2>3. RunInv'
    BY <1>1, <1>2, <1>5, <2>1, <2>2, Parts, MakerRuns DEF strategyVars
  <2>4. StrategiesInv'
    BY <1>2, <1>5, Parts, StrategiesStay DEF vars, vaultVars, strategyVars
  <2> QED
    BY <1>3, <2>3, <2>4, PartsNext
<1> QED
  BY <1>4, <1>5 DEF DeployProxyStep

(* A strategy whose roles the script changes, once it is made.             *)
LEMMA HandedOver ==
    ASSUME StrategyHasAdmin, roles = [s \in Strategy |-> roles[s]], NEW held,
           saved \in Strategy, vaultsOf' = vaultsOf, roles' = [roles EXCEPT ![saved] = held],
           vaultsOf[saved] # {} => <<"ADMIN_ROLE", mStrategyAdmin>> \in held
    PROVE  /\ StrategyHasAdmin' /\ roles' = [s \in Strategy |-> roles'[s]]
           /\ roles'[saved] = held
<1>1. /\ roles' = [s \in Strategy |-> roles'[s]] /\ roles'[saved] = held
      /\ \A s \in Strategy : s # saved => roles'[s] = roles[s]
  OBVIOUS
<1> QED
  BY <1>1, Actors DEF StrategyHasAdmin

LEMMA AfterMulticall ==
    ASSUME BInv, Current("multicall"), NEW held \in MulticallRoles(roles[saved], Build.roles),
           UNCHANGED <<made, vaultsOf>>, roles' = [roles EXCEPT ![saved] = held]
    PROVE  StrategyHasAdmin' /\ roles' = [s \in Strategy |-> roles'[s]]
<1>1. pc \in DOMAIN Build.steps /\ Step.op = "multicall" /\ StepOK(pc) /\ pc > MakerAt
  BY Parts, AtStep DEF LateOps, EarlyOps
<1>2. saved \in Strategy
  BY <1>1, Addresses DEF BInv, SavedInv
<1>3. Makes("deployProxy") => vaultsOf[saved] = {}
  BY <1>2, AddressAssumption DEF BInv, SavedInv, Account
<1>4. vaultsOf[saved] # {} => <<"ADMIN_ROLE", mStrategyAdmin>> \in held
  <2>1. vaultsOf[saved] # {} => Build.roles \in {AdminAlone, AdminLast}
    BY <1>1, <1>3 DEF StepOK, Step
  <2> QED
    BY <2>1, MulticallHandsOver
<1> QED
  BY <1>2, <1>4, HandedOver DEF BInv, ScriptTypeOK, AdminInv

LEMMA MulticallKeeps ==
    ASSUME BInv, MulticallStep, UNCHANGED <<plan, runs, others>>
    PROVE  BInv'
<1>1. /\ pc \in DOMAIN Build.steps /\ Step.op = "multicall" /\ Current("multicall")
      /\ unawaited \in Seq(Account \X Nft)
  BY Parts, AtStep DEF MulticallStep
<1>2. ASSUME NEW held \in MulticallRoles(roles[saved], Build.roles),
             roles' = [roles EXCEPT ![saved] = held], Continue,
             UNCHANGED <<vars, made, vaultsOf, saved, positions, configured>>
      PROVE  BInv'
  <2>1. StrategyHasAdmin' /\ roles' = [s \in Strategy |-> roles'[s]]
    BY <1>1, <1>2, AfterMulticall
  <2>2. Step.op \notin MakerOps \cup {"predict"} /\ Step.op # "role"
    BY <1>1 DEF MakerOps
  <2>3. RunInv'
    BY <1>1, <1>2, <2>1, <2>2, Parts, RunAdvances DEF Continue
  <2>4. IInv' /\ StrategiesInv'
    BY <1>2, Parts, RegistryRests, StrategiesStay DEF vars, vaultVars
  <2> QED
    BY <2>3, <2>4, PartsNext
<1>3. ASSUME UNCHANGED <<vars, builderVars>>
      PROVE  BInv'
  <2>1. RunInv'
    BY <1>3, Parts, RunRests DEF builderVars, scriptVars, RunInv, ScriptTypeOK
  <2>2. IInv' /\ StrategiesInv'
    BY <1>3, Parts, RegistryRests, StrategiesStay DEF vars, vaultVars, builderVars, strategyVars
  <2> QED
    BY <2>1, <2>2, PartsNext
<1> QED
  BY <1>2, <1>3, ThrowKeeps DEF MulticallStep

LEMMA LoseConfirmationKeeps == ASSUME BInv, LoseConfirmation PROVE BInv'
<1>1. /\ Current("multicall")
      /\ UNCHANGED <<vars, made, vaultsOf, scriptVars, plan, runs, others>>
  BY DEF LoseConfirmation
<1>2. Step.op = "multicall" /\ unawaited \in Seq(Account \X Nft)
  BY <1>1, Parts, AtStep
<1>3. PICK held \in MulticallRoles(roles[saved], Build.roles) :
          roles' = [roles EXCEPT ![saved] = held]
  BY DEF LoseConfirmation
<1>4. StrategyHasAdmin' /\ roles' = [s \in Strategy |-> roles'[s]]
  BY <1>1, <1>3, AfterMulticall
<1>5. AdminInv'
  BY <1>1, <1>2, <1>4, SamePlan DEF AdminInv, Step, scriptVars
<1>6. RunInv'
  BY <1>1, <1>2, <1>4, <1>5, Parts, RunStays DEF scriptVars, RunInv, ScriptTypeOK
<1>7. IInv' /\ StrategiesInv'
  BY <1>1, Parts, RegistryRests, StrategiesStay DEF vars, vaultVars
<1> QED
  BY <1>6, <1>7, PartsNext

LEMMA LStrategyRolesKeepAdmin ==
    /\ LStrategyRoles[1] = Grant("ADMIN_ROLE", mStrategyAdmin)
    /\ \A i \in 1..7 : LStrategyRoles[i].op # "grant" => LStrategyRoles[i].to = deployer
<1>1. /\ LStrategyRoles[1].op = "grant" /\ LStrategyRoles[2].op = "grant"
      /\ LStrategyRoles[3].op = "grant" /\ LStrategyRoles[4].op = "grant"
      /\ LStrategyRoles[5].to = deployer /\ LStrategyRoles[6].to = deployer
      /\ LStrategyRoles[7].to = deployer
      /\ LStrategyRoles[1] = Grant("ADMIN_ROLE", mStrategyAdmin)
  BY DEF LStrategyRoles, Grant, Revoke
<1>2. \A i \in 1..7 : i = 1 \/ i = 2 \/ i = 3 \/ i = 4 \/ i = 5 \/ i = 6 \/ i = 7
  OBVIOUS
<1> QED
  BY <1>1, <1>2

LEMMA RoleKeeps ==
    ASSUME BInv, RoleStep, UNCHANGED <<plan, runs, others>>
    PROVE  BInv'
<1> DEFINE c == Build.roles[Step.i]
           held == CalledRole(roles[saved], c)
<1>1. /\ pc \in DOMAIN Build.steps /\ Step.op = "role" /\ StepOK(pc) /\ pc > MakerAt
      /\ unawaited \in Seq(Account \X Nft)
  <2>1. Current("role") /\ "role" \in LateOps \ EarlyOps
    BY DEF RoleStep, LateOps, EarlyOps
  <2> QED
    BY <2>1, Parts, AtStep
<1>2. saved \in Strategy
  BY <1>1, Addresses DEF BInv, SavedInv
<1>3. Build.roles = LStrategyRoles /\ Step.i \in 1..7
  BY <1>1 DEF StepOK, Step
<1>4. <<"ADMIN_ROLE", mStrategyAdmin>> \in held
  <2>1. CASE Step.i = 1
    BY <1>3, <2>1, LStrategyRolesKeepAdmin, AdminGranted
  <2>2. CASE Step.i # 1
    <3>1. <<"ADMIN_ROLE", mStrategyAdmin>> \in roles[saved]
      BY <1>1, <2>2 DEF BInv, AdminInv
    <3>2. c.op # "grant" => c.to = deployer
      BY <1>3, LStrategyRolesKeepAdmin
    <3> QED
      BY <3>1, <3>2, CallKeepsAdmin
  <2> QED
    BY <2>1, <2>2
<1>5. ASSUME Continue, roles' = [roles EXCEPT ![saved] = held],
             UNCHANGED <<vars, made, vaultsOf, saved, positions, configured>>
      PROVE  BInv'
  <2> HIDE DEF held
  <2>1. /\ StrategyHasAdmin' /\ roles' = [s \in Strategy |-> roles'[s]]
        /\ roles'[saved] = held
    BY <1>2, <1>4, <1>5, HandedOver DEF BInv, ScriptTypeOK, AdminInv
  <2>2. Step.op \notin MakerOps \cup {"predict"}
    BY <1>1 DEF MakerOps
  <2>3. RunInv'
    BY <1>1, <1>4, <1>5, <2>1, <2>2, Parts, RunAdvances DEF Continue
  <2>4. IInv' /\ StrategiesInv'
    BY <1>5, Parts, RegistryRests, StrategiesStay DEF vars, vaultVars
  <2> QED
    BY <2>3, <2>4, PartsNext
<1> QED
  BY <1>5, ThrowKeeps DEF RoleStep

-----------------------------------------------------------------------------
(* Steps and calls on NFTs, which touch no strategy.                       *)

LEMMA NftStepKeeps ==
    ASSUME BInv, IInv', UNCHANGED <<subvaults, strategyOf, creating>>, Continue,
           UNCHANGED <<strategyVars, saved, plan, runs, others>>,
           NEW op \in {"approve", "give"}, Current(op)
    PROVE  BInv'
<1>1. /\ pc \in DOMAIN Build.steps /\ Step.op = op /\ unawaited \in Seq(Account \X Nft)
  BY Parts, AtStep
<1>2. Step.op \notin MakerOps \cup {"predict", "role"}
  BY <1>1 DEF MakerOps
<1>3. RunInv'
  BY <1>1, <1>2, Parts, RunGoesOn DEF Continue
<1>4. StrategiesInv'
  BY Parts, StrategiesStay DEF strategyVars
<1> QED
  BY <1>3, <1>4, PartsNext

LEMMA ApproveStepKeeps ==
    ASSUME BInv, ApproveStep, UNCHANGED <<plan, runs, others>>
    PROVE  BInv'
<1> DEFINE nft == ExpectedNft(Step.i)
<1>1. Current("approve") /\ nft \in Nft
  BY Parts, AtStep DEF ApproveStep
<1> HIDE DEF nft
<1>2. ASSUME Approve(deployer, Governance, nft), Continue,
             UNCHANGED <<strategyVars, saved, positions, configured>>
      PROVE  BInv'
  <2>1. IInv'
    BY <1>1, <1>2, Parts, Actors, ApproveKeeps
  <2> QED
    BY <1>1, <1>2, <2>1, NftStepKeeps DEF Approve, vaultVars
<1> QED
  BY <1>2, ThrowKeeps DEF ApproveStep, nft

LEMMA GiveKeeps ==
    ASSUME BInv, GiveStep, UNCHANGED <<plan, runs, others>>
    PROVE  BInv'
<1> DEFINE nft == ExpectedNft(0)
<1>1. Current("give") /\ pc # 0 /\ ScriptOK
  BY Parts, AtStep DEF GiveStep
<1>2. nft \in Nft
  BY <1>1, ExpectedIsNft DEF BInv, ScriptOK
<1> HIDE DEF nft
<1>3. ASSUME TransferFrom(deployer, mStrategyAdmin, nft), Continue,
             UNCHANGED <<strategyVars, saved, positions, configured>>
      PROVE  BInv'
  <2>1. IInv'
    BY <1>2, <1>3, Parts, Actors, TransferKeeps
  <2> QED
    BY <1>1, <1>3, <2>1, NftStepKeeps DEF TransferFrom, vaultVars
<1> QED
  BY <1>3, ThrowKeeps DEF GiveStep, nft

LEMMA SendKeeps ==
    ASSUME BInv, SendStep, UNCHANGED <<plan, runs, others>>
    PROVE  BInv'
<1> DEFINE nft == ExpectedNft(Step.i)
<1>1. /\ pc \in DOMAIN Build.steps /\ Step.op = "sendApproval"
      /\ unawaited \in Seq(Account \X Nft) /\ nft \in Nft
  BY Parts, AtStep DEF SendStep
<1>2. unawaited' = Append(unawaited, <<approver, nft>>)
  BY DEF SendStep, SendApproval
<1> HIDE DEF nft
<1>3. unawaited' \in Seq(Account \X Nft)
  BY <1>1, <1>2, Actors
<1>4. Step.op \notin MakerOps \cup {"predict", "role"}
  BY <1>1 DEF MakerOps
<1> QED
  BY <1>1, <1>3, <1>4, ContinueKeeps DEF SendStep

LEMMA PushKeeps ==
    ASSUME BInv, PushStep, UNCHANGED <<plan, runs, others>>
    PROVE  BInv'
<1> DEFINE nft == ExpectedNft(Step.i)
<1>1. /\ pc \in DOMAIN Build.steps /\ Step.op = "push" /\ pc > MakerAt
      /\ unawaited \in Seq(Account \X Nft) /\ nft \in Nft
  <2>1. Current("push") /\ "push" \in LateOps \ EarlyOps /\ "push" # "role"
    BY DEF PushStep, LateOps, EarlyOps
  <2> QED
    BY <2>1, Parts, AtStep
<1>2. saved \in Account
  BY <1>1, Addresses, Actors DEF BInv, SavedInv
<1>3. Step.op \notin MakerOps \cup {"predict", "role"}
  BY <1>1 DEF MakerOps
<1>4. ASSUME SendApproval(saved, nft), pc' = pc + 1,
             UNCHANGED <<vars, strategyVars, startNft, saved, outcome, configured>>
      PROVE  BInv'
  <2> HIDE DEF nft
  <2>1. unawaited' \in Seq(Account \X Nft)
    BY <1>1, <1>2, <1>4 DEF SendApproval
  <2> QED
    BY <1>1, <1>3, <1>4, <2>1, ContinueKeeps
<1> QED
  BY <1>4, ThrowKeeps DEF PushStep

LEMMA MineKeeps ==
    ASSUME BInv, MineApproval, UNCHANGED <<plan, runs, others>>
    PROVE  BInv'
<1> DEFINE to == Head(unawaited)[1]
           nft == Head(unawaited)[2]
<1>1. unawaited \in Seq(Account \X Nft) /\ unawaited # <<>>
  BY DEF MineApproval, BInv, ScriptTypeOK
<1>2. Head(unawaited) \in Account \X Nft /\ Tail(unawaited) \in Seq(Account \X Nft)
  BY <1>1
<1>3. to \in Account /\ nft \in Nft
  BY <1>2
<1> HIDE DEF to, nft
<1>4. others \in 0..MaxOthers /\ others \in Nat
  BY DEF BInv, ScriptTypeOK
<1>5. ASSUME IInv', UNCHANGED <<subvaults, strategyOf, creating>>, unawaited' = Tail(unawaited),
             UNCHANGED <<strategyVars, pc, startNft, saved>>
      PROVE  BInv'
  <2>1. RunInv'
    BY <1>2, <1>4, <1>5, Parts, RunRests
  <2>2. StrategiesInv'
    BY <1>5, Parts, StrategiesStay DEF strategyVars
  <2> QED
    BY <1>5, <2>1, <2>2, PartsNext
<1>6. ASSUME Approve(deployer, to, nft), unawaited' = Tail(unawaited),
             UNCHANGED <<strategyVars, pc, startNft, saved>>
      PROVE  BInv'
  <2>1. IInv'
    BY <1>3, <1>6, Parts, Actors, ApproveKeeps
  <2> QED
    BY <1>5, <1>6, <2>1 DEF Approve, vaultVars
<1>7. ASSUME UNCHANGED <<vars, strategyVars, pc, startNft, saved>>, unawaited' = Tail(unawaited)
      PROVE  BInv'
  BY <1>5, <1>7, Parts, RegistryRests DEF vars, vaultVars
<1> QED
  BY <1>6, <1>7, ThrowKeeps DEF MineApproval, to, nft

LEMMA CrashKeeps == ASSUME BInv, Crash PROVE BInv'
BY ThrowKeeps DEF Crash

-----------------------------------------------------------------------------
(* The others, who make vaults for themselves, strategies for no vaults,   *)
(* and act on their NFTs.                                                  *)

LEMMA OtherVaultKeeps == ASSUME BInv, OtherVault PROVE BInv'
<1>1. /\ others < MaxOthers /\ others' = others + 1 /\ UNCHANGED <<builderVars, plan, runs>>
  BY DEF OtherVault, OthersCall
<1>2. others' \in 0..MaxOthers /\ others' >= others /\ unawaited \in Seq(Account \X Nft)
  BY <1>1, BuilderAssumption DEF BInv, ScriptTypeOK
<1>3. RunInv'
  BY <1>1, <1>2, Parts, RunRests DEF builderVars, scriptVars
<1>4. PICK u \in Creators \ {deployer} :
           \/ \E k \in {"erc20", "integration"} : CreateIntegrationVault(u, u, k)
           \/ \E v \in Foreign : RegisterVault(u, v, u)
  BY DEF OtherVault
<1>5. u \in User
  BY <1>4, Actors
<1>6. ASSUME NEW k \in {"erc20", "integration"}, CreateIntegrationVault(u, u, k)
      PROVE  BInv'
  <2>1. StartCreation(u, u, k, 0, {}, NoOne) /\ k # "root"
    BY <1>6 DEF CreateIntegrationVault
  <2>2. IInv'
    BY <1>5, <2>1, Parts, StartKeeps
  <2>3. ~CreatingRoot' /\ UNCHANGED <<subvaults, strategyOf>>
    BY <2>1 DEF StartCreation, CreatingRoot, vaultVars
  <2>4. StrategiesInv'
    BY <1>1, <2>3, Parts, StrategiesStay DEF builderVars, strategyVars
  <2> QED
    BY <1>3, <2>2, <2>4, PartsNext
<1>7. ASSUME NEW v \in Foreign, RegisterVault(u, v, u)
      PROVE  BInv'
  <2>1. IInv'
    BY <1>5, <1>7, Parts, RegisterVaultKeeps
  <2>2. StrategiesInv'
    BY <1>1, <1>7, Parts, StrategiesStay DEF RegisterVault, vaultVars, builderVars, strategyVars
  <2> QED
    BY <1>3, <2>1, <2>2, PartsNext
<1> QED
  BY <1>4, <1>6, <1>7

LEMMA OtherStrategyKeeps == ASSUME BInv, OtherStrategy PROVE BInv'
<1> DEFINE new == StrategyAddress[made + 1]
<1>1. /\ others < MaxOthers /\ others' = others + 1
      /\ UNCHANGED <<vars, scriptVars, plan, runs>>
  BY DEF OtherStrategy, OthersCall
<1>2. PICK u \in Creators \ {deployer} : Make(u, {}, FirstRoles(u))
  BY DEF OtherStrategy
<1>3. /\ made + 1 \in DOMAIN StrategyAddress /\ made \in Nat
      /\ \A s \in Made : s \in Strategy
  BY <1>1, Addresses DEF BInv, ScriptTypeOK
<1>4. /\ StrategiesInv'
      /\ vaultsOf' = [s \in Strategy |-> vaultsOf'[s]]
      /\ roles' = [s \in Strategy |-> roles'[s]]
      /\ made' = made + 1 /\ Made' = Made \cup {new} /\ new \in Strategy \ Made
      /\ vaultsOf'[new] = {}
      /\ \A s \in Strategy : s # new => vaultsOf'[s] = vaultsOf[s] /\ roles'[s] = roles[s]
  BY <1>1, <1>2, <1>3, Parts, MakeKeeps DEF BInv, vars, vaultVars
<1>5. others' \in 0..MaxOthers /\ others \in Nat
  BY <1>1, BuilderAssumption DEF BInv, ScriptTypeOK
<1>6. ScriptOK /\ MakerAt \in Nat \ {0}
  BY PlansAreOK DEF BInv, ScriptTypeOK, ScriptOK, MakerOK
<1>7. ScriptTypeOK'
  BY <1>1, <1>3, <1>4, <1>5, SamePlan DEF BInv, ScriptTypeOK, scriptVars
<1>8. CountInv'
  BY <1>1, <1>3, <1>4, <1>5, SamePlan DEF BInv, ScriptTypeOK, CountInv, scriptVars
<1>9. SavedInv'
  <2>1. saved \in Made => vaultsOf'[saved] = vaultsOf[saved] /\ saved \in Made'
    BY <1>3, <1>4
  <2>2. ASSUME Foretold
        PROVE  Foretold'
    <3>1. saved \in Made \cup {new}
      BY <1>3, <2>2 DEF Foretold, Made
    <3>2. vaultsOf'[saved] = {}
      BY <1>4, <2>1, <2>2, <3>1 DEF Foretold
    <3>3. saved \in {StrategyAddress[i] : i \in 1..(made + 1) + 1}
      BY <1>3, <2>2 DEF Foretold
    <3> QED
      BY <1>1, <1>4, <3>2, <3>3 DEF Foretold, scriptVars
  <2> QED
    BY <1>1, <2>1, <2>2, SamePlan DEF BInv, SavedInv, scriptVars
<1>10. StrategyHasAdmin'
  BY <1>2, <1>4, Actors, MadeHasAdmin DEF BInv, AdminInv
<1>11. AdminInv'
  <2>1. ASSUME pc \in DOMAIN Build.steps, Step.op = "role"
        PROVE  roles'[saved] = roles[saved]
    <3>1. pc > MakerAt
      BY <1>6, <2>1 DEF ScriptOK, StepOK, Step, LateOps, EarlyOps
    <3> QED
      BY <1>3, <1>4, <3>1 DEF BInv, SavedInv
  <2> QED
    BY <1>1, <1>10, <2>1, SamePlan DEF BInv, AdminInv, Step, scriptVars
<1>12. IInv'
  BY <1>1, Parts, RegistryRests
<1> QED
  BY <1>4, <1>7, <1>8, <1>9, <1>11, <1>12, PartsNext DEF RunInv

LEMMA OtherPositionKeeps == ASSUME BInv, OtherPosition PROVE BInv'
<1>1. /\ others < MaxOthers /\ others' = others + 1 /\ UNCHANGED <<plan, runs>>
      /\ Throw("reverted")
  BY DEF OtherPosition, OthersCall
<1>2. others' \in 0..MaxOthers /\ others' >= others
  BY <1>1, BuilderAssumption DEF BInv, ScriptTypeOK
<1>3. IInv' /\ StrategiesInv'
  BY <1>1, Parts, RegistryRests, StrategiesStay DEF Throw, vars, vaultVars, strategyVars
<1>4. RunInv'
  BY <1>1, <1>2, Parts, RunStops DEF Throw, End
<1> QED
  BY <1>3, <1>4, PartsNext

LEMMA OtherOwnerKeeps == ASSUME BInv, OtherOwner PROVE BInv'
<1>1. /\ others < MaxOthers /\ others' = others + 1 /\ UNCHANGED <<builderVars, plan, runs>>
  BY DEF OtherOwner
<1>2. others' \in 0..MaxOthers /\ others' >= others /\ unawaited \in Seq(Account \X Nft)
  BY <1>1, BuilderAssumption DEF BInv, ScriptTypeOK
<1>3. RunInv'
  BY <1>1, <1>2, Parts, RunRests DEF builderVars, scriptVars
<1>4. PICK a \in Holder, n \in Nft :
           \/ \E to \in Destinations : TransferFrom(a, to, n)
           \/ \E to \in Approvees : Approve(a, to, n)
           \/ LockNft(a, n)
  BY DEF OtherOwner
<1>5. IInv'
  BY <1>4, Parts, InputAssumption, TransferKeeps, ApproveKeeps, LockKeeps
<1>6. UNCHANGED <<subvaults, strategyOf, creating>>
  BY <1>4 DEF TransferFrom, Approve, LockNft, vaultVars
<1>7. StrategiesInv'
  BY <1>1, <1>6, Parts, StrategiesStay DEF builderVars, strategyVars
<1> QED
  BY <1>3, <1>5, <1>7, PartsNext

LEMMA FinishCreationKeeps == ASSUME BInv, FinishCreation PROVE BInv'
<1>1. UNCHANGED <<builderVars, plan, runs, others>>
  BY DEF FinishCreation
<1>2. RunInv'
  BY <1>1, Parts, RunRests DEF builderVars, scriptVars, RunInv, ScriptTypeOK
<1>3. IInv'
  BY Parts, FinishIntegrationKeeps, FinishRootKeeps DEF FinishCreation
<1>4. CASE FinishIntegrationVault
  <2>1. ~CreatingRoot' /\ UNCHANGED <<subvaults, strategyOf>>
    BY <1>4 DEF FinishIntegrationVault, CreatingRoot
  <2>2. StrategiesInv'
    BY <1>1, <2>1, Parts, StrategiesStay DEF builderVars, strategyVars
  <2> QED
    BY <1>2, <1>3, <2>2, PartsNext
<1>5. CASE FinishRootVault
  <2>1. StrategiesInv'
    BY <1>1, <1>5, Parts, FinishedRootHolds DEF BInv, builderVars, strategyVars
  <2> QED
    BY <1>2, <1>3, <2>1, PartsNext
<1> QED
  BY <1>4, <1>5 DEF FinishCreation

-----------------------------------------------------------------------------
LEMMA InitBInv == BuildInit => BInv
<1> SUFFICES ASSUME BuildInit PROVE BInv
  OBVIOUS
<1>1. IInv
  BY InitIInv DEF BuildInit
<1>2. ScriptOK /\ MakerAt \in Nat \ {0} /\ 0 \notin DOMAIN Build.steps
  BY PlansAreOK DEF BuildInit, ScriptOK, MakerOK, StepOK
<1>3. ScriptTypeOK /\ CountInv
  BY <1>2, BuilderAssumption DEF BuildInit, ScriptTypeOK, CountInv
<1>4. AddressInv /\ HoldsInv
  BY DEF BuildInit, Init, AddressInv, HoldsInv, RootHoldsStrategysVaults, CreatingRoot
<1>5. SavedInv /\ AdminInv
  BY <1>2 DEF BuildInit, SavedInv, AdminInv, StrategyHasAdmin
<1> QED
  BY <1>1, <1>3, <1>4, <1>5 DEF BInv

LEMMA NextBInv == BInv /\ [BuildNext]_buildVars => BInv'
<1> SUFFICES ASSUME BInv, [BuildNext]_buildVars PROVE BInv'
  OBVIOUS
<1>1. CASE ScriptStep
  BY <1>1, EndRunKeeps, CreateVaultKeeps, CreateRootVaultKeeps, ConfigureKeeps, PredictKeeps,
     CloneKeeps, DeployKeeps, DeployProxyKeeps, MulticallKeeps, RoleKeeps, ApproveStepKeeps,
     SendKeeps, PushKeeps, GiveKeeps DEF ScriptStep
<1>2. CASE MineApproval /\ UNCHANGED <<plan, runs, crashes, others, quiet>>
  BY <1>2, MineKeeps
<1>3. CASE Others
  BY <1>3, OtherVaultKeeps, OtherStrategyKeeps, OtherPositionKeeps, OtherOwnerKeeps DEF Others
<1>4. CASE UNCHANGED buildVars
  <2>1. UNCHANGED <<vars, builderVars, plan, runs, others>>
    BY <1>4 DEF buildVars
  <2>2. RunInv'
    BY <2>1, Parts, RunRests DEF builderVars, scriptVars, RunInv, ScriptTypeOK
  <2>3. IInv' /\ StrategiesInv'
    BY <2>1, Parts, RegistryRests, StrategiesStay DEF vars, vaultVars, builderVars, strategyVars
  <2> QED
    BY <2>2, <2>3, PartsNext
<1> QED
  BY <1>1, <1>2, <1>3, <1>4, ApproveAllKeeps, StartRunKeeps, LoseConfirmationKeeps, CrashKeeps,
     FinishCreationKeeps DEF BuildNext

(* The invariant of scripts, strategies and registry, in every reachable   *)
(* state, whoever acts in between and wherever a script stops.             *)
THEOREM BuildInvariant == BuildSpec => []BInv
BY InitBInv, NextBInv, PTL DEF BuildSpec

-----------------------------------------------------------------------------
(* While scripts and others build vaults, registry and subvaults stay as   *)
(* VaultRegistry promises.                                                 *)
THEOREM BuildKeepsRegistry == BuildSpec => [](IndicesAreInverse /\ SubvaultsStay)
<1>1. BInv => IndicesAreInverse /\ SubvaultsStay
  BY DEF BInv, IInv, IndexInv, IndicesAreInverse
<1> QED
  BY <1>1, BuildInvariant, PTL

(* A strategy that was made for certain vaults manages a root vault of     *)
(* those and no others, through every interruption of its script.          *)
THEOREM RootsHoldTheirVaults == BuildSpec => []RootHoldsStrategysVaults
<1>1. BInv => RootHoldsStrategysVaults
  BY DEF BInv, HoldsInv
<1> QED
  BY <1>1, BuildInvariant, PTL

(* No script, wherever it stops, leaves a strategy with vaults without an  *)
(* account that administers it.                                            *)
THEOREM StrategiesHaveAdmins == BuildSpec => []StrategyHasAdmin
<1>1. BInv => StrategyHasAdmin
  BY DEF BInv, AdminInv
<1> QED
  BY <1>1, BuildInvariant, PTL

-----------------------------------------------------------------------------
(* How far a script has come.  The stage of a run before a step is how many *)
(* vaults, calls on the root vault and role calls are behind it (built),   *)
(* how many approvals were sent for pushing (sent), and whether the        *)
(* strategy is made and its roles are handed over (hand).  A plan's steps  *)
(* lead through a path of stages, and a step fits one stage only.          *)
Stages == [built : Nat, sent : Nat, hand : Nat]
Stage(b, u, h) == [built |-> b, sent |-> u, hand |-> h]
Counted(s) ==
    \/ s.op \in {"createVault", "createRootVault", "setStrategyParams",
                 "addDepositorsToAllowlist", "give", "role"}
    \/ s.i = 0 /\ s.op \in {"stageDelayedStrategyParams", "commitDelayedStrategyParams"}
After(s, x) ==
    Stage(IF Counted(s) THEN x.built + 1 ELSE x.built,
          IF s.op \in {"sendApproval", "push"} THEN x.sent + 1 ELSE x.sent,
          IF s.op \in MakerOps \cup {"multicall"} THEN x.hand + 1 ELSE x.hand)

OfVault(i, x, n) == i \in 1..x.built /\ x.built <= n
Fits(s, x, n, op) ==
    /\ s.op = "createVault" => s.i = x.built + 1 /\ x.built < n
    /\ s.op = "createRootVault" => s.i = 0 /\ x.built = n
    /\ s.op = "setStrategyParams" => s.i = 0 /\ x.built = n + 1
    /\ s.op = "stageDelayedStrategyParams" =>
          IF s.i = 0 THEN x.built = n + 2 ELSE OfVault(s.i, x, n)
    /\ s.op = "commitDelayedStrategyParams" =>
          IF s.i = 0 THEN x.built = n + 3 ELSE OfVault(s.i, x, n)
    /\ s.op = "addDepositorsToAllowlist" => s.i = 0 /\ x.built = n + 4
    /\ s.op = "give" => s.i = 0 /\ x.built = n + 5
    /\ s.op = "approve" => OfVault(s.i, x, n) /\ x.sent = 0
    /\ s.op = "sendApproval" => OfVault(s.i, x, n) /\ x.sent = 2 * s.i - 2 /\ x.hand # 0 /\ op = "deploy"
    /\ s.op = "push" => OfVault(s.i, x, n) /\ x.sent = 2 * s.i - 1 /\ x.hand # 0 /\ op = "deploy"
    /\ s.op = "role" => s.i \in 1..7 /\ x.built = n + 5 + s.i /\ x.hand = 1 /\ op = "deploy"
    /\ s.op \in MakerOps => s.op = op /\ x.hand = 0
    /\ s.op = "predict" => op = "clone" /\ x.hand = 0
    /\ s.op = "multicall" => op = "clone" /\ x.hand = 1

IsPath(c, s, p, n, op) ==
    /\ c \in [1..p + 1 -> Stages]
    /\ \A k \in 1..p : Fits(s[k], c[k], n, op) /\ c[k + 1] = After(s[k], c[k])
Leads(s, p, n, op, x, y) ==
    /\ p \in Nat /\ s \in [1..p -> Steps]
    /\ \E c : IsPath(c, s, p, n, op) /\ c[1] = x /\ c[p + 1] = y

LEMMA StageIsTyped ==
    ASSUME NEW b \in Nat, NEW u \in Nat, NEW h \in Nat
    PROVE  /\ Stage(b, u, h) \in Stages /\ Stage(b, u, h).built = b
           /\ Stage(b, u, h).sent = u /\ Stage(b, u, h).hand = h
BY DEF Stage, Stages

(* One part of a script after another.                                     *)
LEMMA PathsJoin ==
    ASSUME NEW s, NEW t, NEW p, NEW q, NEW n, NEW op, NEW x, NEW y, NEW z,
           Leads(s, p, n, op, x, y), Leads(t, q, n, op, y, z)
    PROVE  Leads(s \o t, p + q, n, op, x, z)
<1> DEFINE w == s \o t
<1>1. p \in Nat /\ q \in Nat /\ s \in [1..p -> Steps] /\ t \in [1..q -> Steps]
  BY DEF Leads
<1>2. PICK c : IsPath(c, s, p, n, op) /\ c[1] = x /\ c[p + 1] = y
  BY DEF Leads
<1>3. PICK d : IsPath(d, t, q, n, op) /\ d[1] = y /\ d[q + 1] = z
  BY DEF Leads
<1>4. /\ w \in [1..p + q -> Steps]
      /\ \A k \in 1..p : w[k] = s[k]
      /\ \A k \in 1..q : w[p + k] = t[k]
  BY <1>1, Joined
<1> HIDE DEF w
<1> DEFINE e == [k \in 1..(p + q) + 1 |-> IF k <= p + 1 THEN c[k] ELSE d[k - p]]
<1>5. /\ \A k \in 1..p + 1 : e[k] = c[k]
      /\ \A k \in 1..q + 1 : e[p + k] = d[k]
  <2>1. \A k \in 1..p + 1 : k \in 1..(p + q) + 1 /\ k <= p + 1
    BY <1>1
  <2>2. ASSUME NEW k \in 1..q + 1 PROVE e[p + k] = d[k]
    <3>1. p + k \in 1..(p + q) + 1 /\ (p + k) - p = k
      BY <1>1
    <3>2. CASE k = 1
      <4>1. p + k <= p + 1 /\ e[p + k] = c[p + k]
        BY <1>1, <3>1, <3>2
      <4> QED
        BY <1>2, <1>3, <3>2, <4>1
    <3>3. CASE k # 1
      BY <1>1, <3>1, <3>3
    <3> QED
      BY <3>2, <3>3
  <2> QED
    BY <2>1, <2>2
<1>6. e \in [1..(p + q) + 1 -> Stages]
  <2>1. ASSUME NEW k \in 1..(p + q) + 1 PROVE e[k] \in Stages
    <3>1. CASE k <= p + 1
      BY <1>1, <1>2, <1>5, <3>1 DEF IsPath
    <3>2. CASE k > p + 1
      <4>1. k - p \in 1..q + 1 /\ p + (k - p) = k
        BY <1>1, <3>2
      <4>2. e[k] = d[k - p]
        BY <1>5, <4>1
      <4> QED
        BY <1>3, <4>1, <4>2 DEF IsPath
    <3> QED
      BY <1>1, <3>1, <3>2
  <2>2. e = [k \in 1..(p + q) + 1 |-> e[k]]
    OBVIOUS
  <2> HIDE DEF e
  <2> QED
    BY <2>1, <2>2
<1>7. e[1] = x /\ e[(p + q) + 1] = z
  <2>1. 1 \in 1..p + 1 /\ q + 1 \in 1..q + 1 /\ p + (q + 1) = (p + q) + 1
    BY <1>1
  <2> HIDE DEF e
  <2> QED
    BY <1>2, <1>3, <1>5, <2>1
<1> HIDE DEF e
<1>8. ASSUME NEW k \in 1..p + q
      PROVE  Fits(w[k], e[k], n, op) /\ e[k + 1] = After(w[k], e[k])
  <2>1. CASE k <= p
    <3>1. k \in 1..p /\ k \in 1..p + 1 /\ k + 1 \in 1..p + 1
      BY <1>1, <2>1
    <3> QED
      BY <1>2, <1>4, <1>5, <3>1 DEF IsPath
  <2>2. CASE k > p
    <3> DEFINE j == k - p
    <3>1. j \in 1..q /\ j \in 1..q + 1 /\ j + 1 \in 1..q + 1 /\ p + j = k /\ p + (j + 1) = k + 1
      BY <1>1, <2>2
    <3>2. w[k] = t[j] /\ e[k] = d[j] /\ e[k + 1] = d[j + 1]
      BY <1>4, <1>5, <3>1
    <3> HIDE DEF j
    <3> QED
      BY <1>3, <3>1, <3>2 DEF IsPath
  <2> QED
    BY <1>1, <2>1, <2>2
<1>9. p + q \in Nat
  BY <1>1
<1>10. IsPath(e, w, p + q, n, op)
  BY <1>6, <1>8 DEF IsPath
<1> QED
  BY <1>4, <1>7, <1>9, <1>10 DEF Leads, w

(* A single step leads from its stage to the one after it.                 *)
LEMMA OneStepLeads ==
    ASSUME NEW s, NEW n, NEW op, NEW x \in Stages, NEW y \in Stages,
           s \in [1..1 -> Steps], Fits(s[1], x, n, op), After(s[1], x) = y
    PROVE  Leads(s, 1, n, op, x, y)
<1> DEFINE c == [k \in 1..1 + 1 |-> IF k = 1 THEN x ELSE y]
<1>1. c \in [1..1 + 1 -> Stages] /\ c[1] = x /\ c[1 + 1] = y
  OBVIOUS
<1> HIDE DEF c
<1>2. \A k \in 1..1 : Fits(s[k], c[k], n, op) /\ c[k + 1] = After(s[k], c[k])
  <2>1. \A k \in 1..1 : k = 1
    OBVIOUS
  <2> QED
    BY <1>1, <2>1
<1>3. IsPath(c, s, 1, n, op)
  BY <1>1, <1>2 DEF IsPath
<1> QED
  BY <1>1, <1>3 DEF Leads

(* A sequence of steps whose stages are known.                             *)
LEMMA StagesLead ==
    ASSUME NEW s, NEW p \in Nat, NEW n, NEW op, s \in [1..p -> Steps],
           NEW c \in [1..p + 1 -> Stages],
           \A k \in 1..p : Fits(s[k], c[k], n, op) /\ c[k + 1] = After(s[k], c[k])
    PROVE  Leads(s, p, n, op, c[1], c[p + 1])
BY DEF Leads, IsPath

(* The stages that the parts of the plans lead through.                    *)
LEMMA OneOpLeads ==
    ASSUME NEW n, NEW op, NEW o \in Ops, NEW i \in Nat, NEW x \in Stages, NEW y \in Stages,
           Fits(S(o, i), x, n, op), After(S(o, i), x) = y
    PROVE  Leads(<<S(o, i)>>, 1, n, op, x, y)
<1> DEFINE s == S(o, i)
<1>1. s \in Steps
  BY StepIsTyped
<1> HIDE DEF s
<1>2. <<s>> \in [1..1 -> Steps] /\ <<s>>[1] = s
  BY <1>1
<1> QED
  BY <1>2, OneStepLeads DEF s

LEMMA SetupLeads ==
    ASSUME NEW n \in Nat, NEW op, NEW i \in 1..n
    PROVE  /\ Leads(SetupVault(i), 1, n, op, Stage(i - 1, 0, 0), Stage(i, 0, 0))
           /\ Leads(SetupVaultWithParams(i), 3, n, op, Stage(i - 1, 0, 0), Stage(i, 0, 0))
<1> DEFINE x == Stage(i - 1, 0, 0)
           y == Stage(i, 0, 0)
<1>1. i \in Nat /\ i - 1 \in Nat /\ i <= n /\ i >= 1
  OBVIOUS
<1>2. /\ x \in Stages /\ x.built = i - 1 /\ x.sent = 0 /\ x.hand = 0
      /\ y \in Stages /\ y.built = i /\ y.sent = 0 /\ y.hand = 0
  BY <1>1, StageIsTyped
<1>3. /\ "createVault" \in Ops /\ "stageDelayedStrategyParams" \in Ops
      /\ "commitDelayedStrategyParams" \in Ops
  BY DEF Ops, EarlyOps
<1> HIDE DEF x, y
<1>4. Leads(<<S("createVault", i)>>, 1, n, op, x, y)
  <2> DEFINE s == S("createVault", i)
  <2>1. s.op = "createVault" /\ s.i = i
    BY DEF S
  <2> HIDE DEF s
  <2>2. Fits(s, x, n, op)
    BY <1>1, <1>2, <2>1 DEF Fits, MakerOps
  <2>3. After(s, x) = Stage(i, 0, 0)
    BY <1>1, <1>2, <2>1 DEF After, Counted, MakerOps
  <2> QED
    BY <1>1, <1>2, <1>3, <2>2, <2>3, OneOpLeads DEF s, y
<1>5. ASSUME NEW o \in {"stageDelayedStrategyParams", "commitDelayedStrategyParams"}
      PROVE  Leads(<<S(o, i)>>, 1, n, op, y, y)
  <2> DEFINE s == S(o, i)
  <2>1. s.op = o /\ s.i = i
    BY DEF S
  <2> HIDE DEF s
  <2>2. Fits(s, y, n, op)
    BY <1>1, <1>2, <2>1 DEF Fits, MakerOps, OfVault
  <2>3. After(s, y) = Stage(i, 0, 0)
    BY <1>1, <1>2, <2>1 DEF After, Counted, MakerOps
  <2> QED
    BY <1>1, <1>2, <1>3, <2>2, <2>3, OneOpLeads DEF s, y
<1>6. Leads(SetupVault(i), 1, n, op, x, y)
  BY <1>4 DEF SetupVault
<1>7. Leads(SetupVaultWithParams(i), 3, n, op, x, y)
  <2> DEFINE a == <<S("stageDelayedStrategyParams", i)>>
             b == <<S("commitDelayedStrategyParams", i)>>
  <2>1. SetupVaultWithParams(i) = SetupVault(i) \o (a \o b)
    <3> HIDE DEF S
    <3> QED
      BY DEF SetupVaultWithParams
  <2>2. Leads(a, 1, n, op, y, y) /\ Leads(b, 1, n, op, y, y)
    BY <1>5
  <2> HIDE DEF a, b
  <2>3. Leads(a \o b, 2, n, op, y, y)
    BY <2>2, PathsJoin, 1 + 1 = 2
  <2> QED
    BY <1>6, <2>1, <2>3, PathsJoin, 1 + 2 = 3
<1> QED
  BY <1>6, <1>7 DEF x, y

(* Finding the address of a clone, making the strategy, handing over roles *)
(* in one call.                                                            *)
LEMMA MakingLeads ==
    ASSUME NEW n \in Nat
    PROVE  /\ Leads(Op("predict"), 1, n, "clone", Stage(n, 0, 0), Stage(n, 0, 0))
           /\ \A op \in MakerOps :
                 Leads(Op(op), 1, n, op, Stage(n, 0, 0), Stage(n, 0, 1))
           /\ Leads(Op("multicall"), 1, n, "clone", Stage(n, 0, 1), Stage(n, 0, 2))
<1>1. /\ Stage(n, 0, 0) \in Stages /\ Stage(n, 0, 0).built = n
      /\ Stage(n, 0, 0).sent = 0 /\ Stage(n, 0, 0).hand = 0
      /\ Stage(n, 0, 1) \in Stages /\ Stage(n, 0, 1).built = n
      /\ Stage(n, 0, 1).sent = 0 /\ Stage(n, 0, 1).hand = 1
      /\ Stage(n, 0, 2) \in Stages
  BY StageIsTyped
<1>2. "predict" \in Ops /\ "multicall" \in Ops /\ \A op \in MakerOps : op \in Ops
  BY DEF Ops, LateOps
<1>3. Leads(Op("predict"), 1, n, "clone", Stage(n, 0, 0), Stage(n, 0, 0))
  <2> DEFINE s == S("predict", 0)
  <2>1. s.op = "predict" /\ s.i = 0
    BY DEF S
  <2> HIDE DEF s
  <2>2. Fits(s, Stage(n, 0, 0), n, "clone")
    BY <1>1, <2>1 DEF Fits, MakerOps
  <2>3. After(s, Stage(n, 0, 0)) = Stage(n, 0, 0)
    BY <1>1, <2>1 DEF After, Counted, MakerOps
  <2> QED
    BY <1>1, <1>2, <2>2, <2>3, OneOpLeads DEF s, Op
<1>4. ASSUME NEW op \in MakerOps
      PROVE  Leads(Op(op), 1, n, op, Stage(n, 0, 0), Stage(n, 0, 1))
  <2> DEFINE s == S(op, 0)
  <2>1. s.op = op /\ s.i = 0
    BY DEF S
  <2> HIDE DEF s
  <2>2. Fits(s, Stage(n, 0, 0), n, op)
    BY <1>1, <2>1 DEF Fits, MakerOps
  <2>3. After(s, Stage(n, 0, 0)) = Stage(n, 0, 1)
    BY <1>1, <2>1 DEF After, Counted, MakerOps
  <2> QED
    BY <1>1, <1>2, <2>2, <2>3, OneOpLeads DEF s, Op
<1>5. Leads(Op("multicall"), 1, n, "clone", Stage(n, 0, 1), Stage(n, 0, 2))
  <2> DEFINE s == S("multicall", 0)
  <2>1. s.op = "multicall" /\ s.i = 0
    BY DEF S
  <2> HIDE DEF s
  <2>2. Fits(s, Stage(n, 0, 1), n, "clone")
    BY <1>1, <2>1 DEF Fits, MakerOps
  <2>3. After(s, Stage(n, 0, 1)) = Stage(n, 0, 2)
    BY <1>1, <2>1 DEF After, Counted, MakerOps
  <2> QED
    BY <1>1, <1>2, <2>2, <2>3, OneOpLeads DEF s, Op
<1> QED
  BY <1>3, <1>4, <1>5

(* Approving the subvaults for the governance.                             *)
LEMMA ApprovalsLead ==
    ASSUME NEW n \in Nat, NEW op, NEW h \in Nat, NEW q \in Nat, NEW is \in [1..q -> 1..n]
    PROVE  Leads(ForEach("approve", is), q, n, op, Stage(n, 0, h), Stage(n, 0, h))
<1> DEFINE x == Stage(n, 0, h)
           s == ForEach("approve", is)
           c == [k \in 1..q + 1 |-> x]
<1>1. x \in Stages /\ x.built = n /\ x.sent = 0 /\ x.hand = h
  BY StageIsTyped
<1>2. s = [j \in 1..q |-> S("approve", is[j])]
  BY DEF ForEach
<1>3. "approve" \in Ops
  BY DEF Ops, LateOps
<1>4. ASSUME NEW j \in 1..q
      PROVE  s[j] \in Steps /\ s[j].op = "approve" /\ s[j].i = is[j] /\ is[j] \in 1..n
  <2>1. is[j] \in 1..n /\ is[j] \in Nat
    OBVIOUS
  <2> QED
    BY <1>2, <1>3, <2>1, StepIsTyped
<1>5. s \in [1..q -> Steps]
  BY <1>2, <1>4
<1>6. c \in [1..q + 1 -> Stages] /\ c[1] = x /\ c[q + 1] = x
  BY <1>1
<1>7. ASSUME NEW k \in 1..q
      PROVE  Fits(s[k], c[k], n, op) /\ c[k + 1] = After(s[k], c[k])
  <2>1. c[k] = x /\ c[k + 1] = x
    OBVIOUS
  <2> HIDE DEF c, s
  <2>2. Fits(s[k], x, n, op)
    BY <1>1, <1>4 DEF Fits, MakerOps, OfVault
  <2>3. After(s[k], x) = Stage(n, 0, h)
    BY <1>1, <1>4 DEF After, Counted, MakerOps
  <2> QED
    BY <2>1, <2>2, <2>3
<1> HIDE DEF c, s, x
<1>8. Leads(s, q, n, op, c[1], c[q + 1])
  BY <1>5, <1>6, <1>7, StagesLead
<1> QED
  BY <1>6, <1>8 DEF s, x

(* preparePush of subvault i.                                              *)
LEMMA PushLeads ==
    ASSUME NEW n \in Nat, NEW op, op = "deploy", NEW i \in 1..n
    PROVE  Leads(PreparePush(i), 2, n, op, Stage(n, 2 * i - 2, 1), Stage(n, 2 * i, 1))
<1> DEFINE x == Stage(n, 2 * i - 2, 1)
           y == Stage(n, 2 * i - 1, 1)
           z == Stage(n, 2 * i, 1)
           a == <<S("sendApproval", i)>>
           b == <<S("push", i)>>
<1>1. i \in Nat /\ 2 * i - 2 \in Nat /\ 2 * i - 1 \in Nat /\ 2 * i \in Nat
  OBVIOUS
<1>2. /\ x \in Stages /\ x.built = n /\ x.sent = 2 * i - 2 /\ x.hand = 1
      /\ y \in Stages /\ y.built = n /\ y.sent = 2 * i - 1 /\ y.hand = 1
      /\ z \in Stages
  BY <1>1, StageIsTyped
<1>3. "sendApproval" \in Ops /\ "push" \in Ops
  BY DEF Ops, LateOps
<1> HIDE DEF x, y, z
<1>4. Leads(a, 1, n, op, x, y)
  <2> DEFINE s == S("sendApproval", i)
  <2>1. s.op = "sendApproval" /\ s.i = i
    BY DEF S
  <2> HIDE DEF s
  <2>2. Fits(s, x, n, op)
    BY <1>1, <1>2, <2>1 DEF Fits, MakerOps, OfVault
  <2>3. After(s, x) = Stage(n, 2 * i - 1, 1)
    BY <1>1, <1>2, <2>1 DEF After, Counted, MakerOps
  <2> QED
    BY <1>1, <1>2, <1>3, <2>2, <2>3, OneOpLeads DEF s, y
<1>5. Leads(b, 1, n, op, y, z)
  <2> DEFINE s == S("push", i)
  <2>1. s.op = "push" /\ s.i = i
    BY DEF S
  <2> HIDE DEF s
  <2>2. Fits(s, y, n, op)
    BY <1>1, <1>2, <2>1 DEF Fits, MakerOps, OfVault
  <2>3. After(s, y) = Stage(n, 2 * i, 1)
    BY <1>1, <1>2, <2>1 DEF After, Counted, MakerOps
  <2> QED
    BY <1>1, <1>2, <1>3, <2>2, <2>3, OneOpLeads DEF s, z
<1>6. PreparePush(i) = a \o b
  <2> HIDE DEF S
  <2> QED BY DEF PreparePush
<1> HIDE DEF a, b
<1>7. Leads(PreparePush(i), 2, n, op, x, z)
  BY <1>4, <1>5, <1>6, PathsJoin, 1 + 1 = 2
<1> QED
  BY <1>7 DEF x, z

(* combineVaults over n subvaults: the root vault, its parameters, its     *)
(* depositors, its new owner.                                              *)
LEMMA CombineLeads ==
    ASSUME NEW n \in Nat, NEW op, NEW u \in Nat, NEW h \in Nat
    PROVE  Leads(CombineVaults, 6, n, op, Stage(n, u, h), Stage(n + 6, u, h))
<1> DEFINE c == [k \in 1..6 + 1 |-> Stage(n + (k - 1), u, h)]
           ops == <<"createRootVault", "setStrategyParams", "stageDelayedStrategyParams",
                    "commitDelayedStrategyParams", "addDepositorsToAllowlist", "give">>
<1>1. \A k \in 1..6 + 1 :
         /\ c[k] \in Stages /\ c[k].built = n + (k - 1) /\ c[k].sent = u /\ c[k].hand = h
  <2> SUFFICES ASSUME NEW k \in 1..6 + 1
               PROVE  /\ c[k] \in Stages /\ c[k].built = n + (k - 1)
                      /\ c[k].sent = u /\ c[k].hand = h
    OBVIOUS
  <2>1. n + (k - 1) \in Nat /\ c[k] = Stage(n + (k - 1), u, h)
    OBVIOUS
  <2> HIDE DEF c
  <2> QED
    BY <2>1, StageIsTyped
<1>2. c \in [1..6 + 1 -> Stages]
  BY <1>1
<1>3. \A k \in 1..6 : ops[k] \in Ops
  BY DEF Ops, LateOps
<1>4. \A k \in 1..6 : CombineVaults[k] = S(ops[k], 0)
  <2> HIDE DEF S
  <2> QED BY DEF CombineVaults
<1>5. CombineVaults = [k \in 1..6 |-> CombineVaults[k]]
  <2> HIDE DEF S
  <2> QED BY DEF CombineVaults
<1>6. \A k \in 1..6 : CombineVaults[k] \in Steps /\ CombineVaults[k].op = ops[k]
                      /\ CombineVaults[k].i = 0
  <2> HIDE DEF ops
  <2> QED BY <1>3, <1>4, StepIsTyped
<1>7. CombineVaults \in [1..6 -> Steps]
  BY <1>5, <1>6
<1>8. ASSUME NEW k \in 1..6
      PROVE  /\ Fits(CombineVaults[k], c[k], n, op)
             /\ c[k + 1] = After(CombineVaults[k], c[k])
  <2> DEFINE s == CombineVaults[k]
             x == c[k]
  <2>1. /\ s.op = ops[k] /\ s.i = 0 /\ x.built = n + (k - 1) /\ x.sent = u /\ x.hand = h
        /\ c[k + 1] = Stage(n + k, u, h)
    <3>1. k \in 1..6 + 1 /\ k + 1 \in 1..6 + 1 /\ (k + 1) - 1 = k
      OBVIOUS
    <3> QED
      BY <1>1, <1>6, <3>1
  <2> HIDE DEF s, x
  <2>2. Fits(s, x, n, op)
    BY <2>1 DEF Fits, MakerOps
  <2>3. After(s, x) = Stage(n + k, u, h)
    <3>1. Counted(s) /\ s.op \notin {"sendApproval", "push"}
          /\ s.op \notin MakerOps \cup {"multicall"}
      BY <2>1 DEF Counted, MakerOps
    <3>2. x.built + 1 = n + k
      BY <2>1
    <3> QED
      BY <2>1, <3>1, <3>2 DEF After
  <2> QED
    BY <2>1, <2>2, <2>3 DEF s, x
<1>9. c[1] = Stage(n, u, h) /\ c[6 + 1] = Stage(n + 6, u, h)
  <2>1. n + (1 - 1) = n /\ n + ((6 + 1) - 1) = n + 6
    OBVIOUS
  <2> QED
    BY <2>1
<1> HIDE DEF c, ops
<1>10. Leads(CombineVaults, 6, n, op, c[1], c[6 + 1])
  BY <1>2, <1>7, <1>8, StagesLead
<1> QED
  BY <1>9, <1>10

(* Handing over roles one by one, after the root vault.                    *)
LEMMA RolesLead ==
    ASSUME NEW n \in Nat, NEW u \in Nat
    PROVE  Leads(ForEach("role", [j \in 1..7 |-> j]), 7, n, "deploy",
                 Stage(n + 6, u, 1), Stage(n + 13, u, 1))
<1> DEFINE s == ForEach("role", [j \in 1..7 |-> j])
           c == [k \in 1..7 + 1 |-> Stage(n + 5 + k, u, 1)]
<1>1. s = [j \in 1..7 |-> S("role", j)]
  BY DEF ForEach
<1>2. \A j \in 1..7 : s[j] \in Steps /\ s[j].op = "role" /\ s[j].i = j
  BY <1>1, StepIsTyped, "role" \in Ops DEF Ops, LateOps
<1>3. s \in [1..7 -> Steps]
  BY <1>1, <1>2
<1> HIDE DEF s
<1>4. \A k \in 1..7 + 1 :
         c[k] \in Stages /\ c[k].built = n + 5 + k /\ c[k].sent = u /\ c[k].hand = 1
  <2> SUFFICES ASSUME NEW k \in 1..7 + 1
               PROVE  /\ c[k] \in Stages /\ c[k].built = n + 5 + k
                      /\ c[k].sent = u /\ c[k].hand = 1
    OBVIOUS
  <2>1. n + 5 + k \in Nat /\ c[k] = Stage(n + 5 + k, u, 1)
    OBVIOUS
  <2> HIDE DEF c
  <2> QED
    BY <2>1, StageIsTyped
<1>5. c \in [1..7 + 1 -> Stages]
  BY <1>4
<1>6. ASSUME NEW k \in 1..7
      PROVE  Fits(s[k], c[k], n, "deploy") /\ c[k + 1] = After(s[k], c[k])
  <2> DEFINE x == c[k]
  <2>1. /\ x.built = n + 5 + k /\ x.sent = u /\ x.hand = 1
        /\ c[k + 1] = Stage(n + 5 + (k + 1), u, 1)
    <3>1. k \in 1..7 + 1 /\ k + 1 \in 1..7 + 1
      OBVIOUS
    <3> QED
      BY <1>4, <3>1
  <2> HIDE DEF x
  <2>2. Fits(s[k], x, n, "deploy")
    BY <1>2, <2>1 DEF Fits, MakerOps
  <2>3. After(s[k], x) = Stage(n + 5 + (k + 1), u, 1)
    <3>1. Counted(s[k]) /\ s[k].op \notin {"sendApproval", "push"}
          /\ s[k].op \notin MakerOps \cup {"multicall"}
      BY <1>2 DEF Counted, MakerOps
    <3>2. x.built + 1 = n + 5 + (k + 1)
      BY <2>1
    <3> QED
      BY <2>1, <3>1, <3>2 DEF After
  <2> QED
    BY <2>1, <2>2, <2>3 DEF x
<1>7. c[1] = Stage(n + 6, u, 1) /\ c[7 + 1] = Stage(n + 13, u, 1)
  <2>1. n + 5 + 1 = n + 6 /\ n + 5 + (7 + 1) = n + 13
    OBVIOUS
  <2> QED
    BY <2>1
<1> HIDE DEF c
<1>8. Leads(s, 7, n, "deploy", c[1], c[7 + 1])
  BY <1>3, <1>5, <1>6, StagesLead
<1> QED
  BY <1>7, <1>8 DEF s

(* Where a script of n subvaults ends that makes its strategy by op.       *)
Finish(op, n) ==
    CASE op = "clone" -> Stage(n + 6, 0, 2)
      [] op = "deploy" -> Stage(n + 13, 4, 1)
      [] OTHER -> Stage(n + 6, 0, 1)

(* The subvaults of two and of three setupVault calls.                     *)
LEMMA VaultsLead ==
    ASSUME NEW n \in Nat, NEW op
    PROVE  /\ n >= 2 => Leads(SetupVault(1) \o SetupVault(2), 2, n, op,
                              Stage(0, 0, 0), Stage(2, 0, 0))
           /\ n >= 3 => Leads(SetupVault(1) \o SetupVault(2) \o SetupVault(3), 3, n, op,
                              Stage(0, 0, 0), Stage(3, 0, 0))
<1>1. ASSUME NEW i \in 1..n
      PROVE  Leads(SetupVault(i), 1, n, op, Stage(i - 1, 0, 0), Stage(i, 0, 0))
  BY SetupLeads
<1>2. ASSUME n >= 2
      PROVE  Leads(SetupVault(1) \o SetupVault(2), 2, n, op, Stage(0, 0, 0), Stage(2, 0, 0))
  <2>1. 1 \in 1..n /\ 2 \in 1..n /\ 1 - 1 = 0 /\ 2 - 1 = 1
    BY <1>2
  <2>2. /\ Leads(SetupVault(1), 1, n, op, Stage(1 - 1, 0, 0), Stage(1, 0, 0))
        /\ Leads(SetupVault(2), 1, n, op, Stage(2 - 1, 0, 0), Stage(2, 0, 0))
    BY <1>1, <2>1
  <2> QED
    BY <2>1, <2>2, PathsJoin, 1 + 1 = 2
<1>3. ASSUME n >= 3
      PROVE  Leads(SetupVault(1) \o SetupVault(2) \o SetupVault(3), 3, n, op,
                   Stage(0, 0, 0), Stage(3, 0, 0))
  <2>1. 3 \in 1..n /\ n >= 2 /\ 3 - 1 = 2
    BY <1>3
  <2>2. Leads(SetupVault(3), 1, n, op, Stage(3 - 1, 0, 0), Stage(3, 0, 0))
    BY <1>1, <2>1
  <2> QED
    BY <1>2, <2>1, <2>2, PathsJoin, 2 + 1 = 3
<1> QED
  BY <1>2, <1>3

(* A clone is made after its address was asked for, and its roles are      *)
(* handed over at once.                                                    *)
LEMMA CloneLeads ==
    ASSUME NEW n \in Nat, NEW s, NEW p \in Nat,
           Leads(s, p, n, "clone", Stage(0, 0, 0), Stage(n, 0, 0))
    PROVE  Leads(s \o Op("predict") \o Op("clone") \o Op("multicall"), p + 3, n, "clone",
                 Stage(0, 0, 0), Stage(n, 0, 2))
<1> DEFINE a == s \o Op("predict")
           b == a \o Op("clone")
           c == b \o Op("multicall")
<1>1. /\ Leads(Op("predict"), 1, n, "clone", Stage(n, 0, 0), Stage(n, 0, 0))
      /\ Leads(Op("clone"), 1, n, "clone", Stage(n, 0, 0), Stage(n, 0, 1))
      /\ Leads(Op("multicall"), 1, n, "clone", Stage(n, 0, 1), Stage(n, 0, 2))
  BY MakingLeads DEF MakerOps
<1>2. Leads(a, p + 1, n, "clone", Stage(0, 0, 0), Stage(n, 0, 0))
  BY <1>1, PathsJoin
<1> HIDE DEF a
<1>3. Leads(b, (p + 1) + 1, n, "clone", Stage(0, 0, 0), Stage(n, 0, 1))
  BY <1>1, <1>2, PathsJoin
<1> HIDE DEF b
<1>4. Leads(c, ((p + 1) + 1) + 1, n, "clone", Stage(0, 0, 0), Stage(n, 0, 2))
  BY <1>1, <1>3, PathsJoin
<1>5. ((p + 1) + 1) + 1 = p + 3
  OBVIOUS
<1> QED
  BY <1>4, <1>5 DEF a, b

(* The scripts of the plans, from the first step to the last.              *)
LEMMA MStrategyLeads ==
    Leads(MStrategy.steps, 11, 2, "clone", Stage(0, 0, 0), Stage(8, 0, 2))
<1> DEFINE a == SetupVault(1) \o SetupVault(2)
           c == a \o Op("predict") \o Op("clone") \o Op("multicall")
<1>1. MStrategy.steps = c \o CombineVaults
  BY DEF MStrategy
<1>2. Leads(a, 2, 2, "clone", Stage(0, 0, 0), Stage(2, 0, 0))
  BY VaultsLead, 2 \in Nat, 2 >= 2
<1> HIDE DEF a
<1>3. Leads(c, 5, 2, "clone", Stage(0, 0, 0), Stage(2, 0, 2))
  BY <1>2, CloneLeads, 2 + 3 = 5, 2 \in Nat
<1> HIDE DEF c
<1>4. Leads(CombineVaults, 6, 2, "clone", Stage(2, 0, 2), Stage(8, 0, 2))
  BY CombineLeads, 2 + 6 = 8, 2 \in Nat, 0 \in Nat
<1> QED
  BY <1>1, <1>3, <1>4, PathsJoin, 5 + 6 = 11

LEMMA HStrategyLeads ==
    Leads(HStrategy.steps, 15, 3, "clone", Stage(0, 0, 0), Stage(9, 0, 2))
<1> DEFINE a == SetupVault(1) \o SetupVault(2) \o SetupVault(3)
           c == a \o Op("predict") \o Op("clone") \o Op("multicall")
           d == c \o ForEach("approve", <<1, 2, 3>>)
<1>1. HStrategy.steps = d \o CombineVaults
  BY DEF HStrategy
<1>2. Leads(a, 3, 3, "clone", Stage(0, 0, 0), Stage(3, 0, 0))
  BY VaultsLead, 3 \in Nat, 3 >= 3
<1> HIDE DEF a
<1>3. Leads(c, 6, 3, "clone", Stage(0, 0, 0), Stage(3, 0, 2))
  BY <1>2, CloneLeads, 3 + 3 = 6, 3 \in Nat
<1> HIDE DEF c
<1>4. Leads(ForEach("approve", <<1, 2, 3>>), 3, 3, "clone", Stage(3, 0, 2), Stage(3, 0, 2))
  <2> DEFINE is == <<1, 2, 3>>
  <2>1. is \in [1..3 -> 1..3]
    OBVIOUS
  <2> HIDE DEF is
  <2>2. Leads(ForEach("approve", is), 3, 3, "clone", Stage(3, 0, 2), Stage(3, 0, 2))
    BY <2>1, ApprovalsLead, 3 \in Nat, 2 \in Nat
  <2> QED
    BY <2>2 DEF is
<1>5. Leads(d, 9, 3, "clone", Stage(0, 0, 0), Stage(3, 0, 2))
  BY <1>3, <1>4, PathsJoin, 6 + 3 = 9
<1> HIDE DEF d
<1>6. Leads(CombineVaults, 6, 3, "clone", Stage(3, 0, 2), Stage(9, 0, 2))
  BY CombineLeads, 3 + 6 = 9, 2 \in Nat, 3 \in Nat, 0 \in Nat
<1> QED
  BY <1>1, <1>5, <1>6, PathsJoin, 9 + 6 = 15

LEMMA MultiPoolHStrategyLeads ==
    Leads(MultiPoolHStrategy.steps, 17, 4, "clone", Stage(0, 0, 0), Stage(10, 0, 2))
<1> DEFINE a == SetupVault(1) \o SetupVault(2) \o SetupVault(3)
           b == a \o SetupVault(4)
           c == b \o Op("predict") \o Op("clone") \o Op("multicall")
           d == c \o ForEach("approve", <<1, 2, 3, 4>>)
<1>1. MultiPoolHStrategy.steps = d \o CombineVaults
  BY DEF MultiPoolHStrategy
<1>2. Leads(a, 3, 4, "clone", Stage(0, 0, 0), Stage(3, 0, 0))
  BY VaultsLead, 4 \in Nat, 4 >= 3
<1> HIDE DEF a
<1>3. Leads(b, 4, 4, "clone", Stage(0, 0, 0), Stage(4, 0, 0))
  <2>1. 4 \in Nat /\ 4 \in 1..4 /\ 4 - 1 = 3
    OBVIOUS
  <2>2. Leads(SetupVault(4), 1, 4, "clone", Stage(4 - 1, 0, 0), Stage(4, 0, 0))
    BY <2>1, SetupLeads
  <2> QED
    BY <1>2, <2>1, <2>2, PathsJoin, 3 + 1 = 4
<1> HIDE DEF b
<1>4. Leads(c, 7, 4, "clone", Stage(0, 0, 0), Stage(4, 0, 2))
  BY <1>3, CloneLeads, 4 + 3 = 7, 4 \in Nat
<1> HIDE DEF c
<1>5. Leads(ForEach("approve", <<1, 2, 3, 4>>), 4, 4, "clone", Stage(4, 0, 2), Stage(4, 0, 2))
  <2> DEFINE is == <<1, 2, 3, 4>>
  <2>1. is \in [1..4 -> 1..4]
    OBVIOUS
  <2> HIDE DEF is
  <2>2. Leads(ForEach("approve", is), 4, 4, "clone", Stage(4, 0, 2), Stage(4, 0, 2))
    BY <2>1, ApprovalsLead, 4 \in Nat, 2 \in Nat
  <2> QED
    BY <2>2 DEF is
<1>6. Leads(d, 11, 4, "clone", Stage(0, 0, 0), Stage(4, 0, 2))
  BY <1>4, <1>5, PathsJoin, 7 + 4 = 11
<1> HIDE DEF d
<1>7. Leads(CombineVaults, 6, 4, "clone", Stage(4, 0, 2), Stage(10, 0, 2))
  BY CombineLeads, 4 + 6 = 10, 2 \in Nat, 4 \in Nat, 0 \in Nat
<1> QED
  BY <1>1, <1>6, <1>7, PathsJoin, 11 + 6 = 17

LEMMA LStrategyLeads ==
    Leads(LStrategy.steps, 21, 3, "deploy", Stage(0, 0, 0), Stage(16, 4, 1))
<1> DEFINE a == SetupVault(1) \o SetupVault(2) \o SetupVault(3)
           b == a \o Op("deploy")
           c == b \o PreparePush(1)
           d == c \o PreparePush(2)
           e == d \o CombineVaults
<1>1. LStrategy.steps = e \o ForEach("role", [j \in 1..7 |-> j])
  <2>1. DOMAIN LStrategyRoles = 1..7
    BY DEF LStrategyRoles
  <2> QED
    BY <2>1 DEF LStrategy
<1>2. Leads(a, 3, 3, "deploy", Stage(0, 0, 0), Stage(3, 0, 0))
  BY VaultsLead, 3 \in Nat, 3 >= 3
<1> HIDE DEF a
<1>3. Leads(b, 4, 3, "deploy", Stage(0, 0, 0), Stage(3, 0, 1))
  <2>1. Leads(Op("deploy"), 1, 3, "deploy", Stage(3, 0, 0), Stage(3, 0, 1))
    BY MakingLeads, 3 \in Nat DEF MakerOps
  <2> QED
    BY <1>2, <2>1, PathsJoin, 3 + 1 = 4
<1> HIDE DEF b
<1>4. /\ Leads(PreparePush(1), 2, 3, "deploy", Stage(3, 0, 1), Stage(3, 2, 1))
      /\ Leads(PreparePush(2), 2, 3, "deploy", Stage(3, 2, 1), Stage(3, 4, 1))
  <2>1. 1 \in 1..3 /\ 2 \in 1..3 /\ 3 \in Nat /\ 2 * 1 - 2 = 0 /\ 2 * 1 = 2
        /\ 2 * 2 - 2 = 2 /\ 2 * 2 = 4
    OBVIOUS
  <2>2. /\ Leads(PreparePush(1), 2, 3, "deploy", Stage(3, 2 * 1 - 2, 1), Stage(3, 2 * 1, 1))
        /\ Leads(PreparePush(2), 2, 3, "deploy", Stage(3, 2 * 2 - 2, 1), Stage(3, 2 * 2, 1))
    BY <2>1, PushLeads
  <2> QED
    BY <2>1, <2>2
<1>5. Leads(c, 6, 3, "deploy", Stage(0, 0, 0), Stage(3, 2, 1))
  BY <1>3, <1>4, PathsJoin, 4 + 2 = 6
<1> HIDE DEF c
<1>6. Leads(d, 8, 3, "deploy", Stage(0, 0, 0), Stage(3, 4, 1))
  BY <1>4, <1>5, PathsJoin, 6 + 2 = 8
<1> HIDE DEF d
<1>7. Leads(CombineVaults, 6, 3, "deploy", Stage(3, 4, 1), Stage(9, 4, 1))
  BY CombineLeads, 3 + 6 = 9, 1 \in Nat, 3 \in Nat, 4 \in Nat
<1>8. Leads(e, 14, 3, "deploy", Stage(0, 0, 0), Stage(9, 4, 1))
  BY <1>6, <1>7, PathsJoin, 8 + 6 = 14
<1> HIDE DEF e
<1>9. Leads(ForEach("role", [j \in 1..7 |-> j]), 7, 3, "deploy", Stage(9, 4, 1), Stage(16, 4, 1))
  BY RolesLead, 3 + 6 = 9, 3 + 13 = 16, 3 \in Nat, 4 \in Nat
<1> QED
  BY <1>1, <1>8, <1>9, PathsJoin, 14 + 7 = 21

LEMMA ProxyStrategyLeads ==
    Leads(ProxyStrategy.steps, 13, 2, "deployProxy", Stage(0, 0, 0), Stage(8, 0, 1))
<1> DEFINE a == SetupVault(1) \o SetupVaultWithParams(2)
           b == a \o Op("deployProxy")
           c == b \o ForEach("approve", <<1, 2>>)
<1>1. ProxyStrategy.steps = c \o CombineVaults
  BY DEF ProxyStrategy
<1>2. Leads(a, 4, 2, "deployProxy", Stage(0, 0, 0), Stage(2, 0, 0))
  <2>1. 2 \in Nat /\ 1 \in 1..2 /\ 2 \in 1..2 /\ 1 - 1 = 0 /\ 2 - 1 = 1
    OBVIOUS
  <2>2. /\ Leads(SetupVault(1), 1, 2, "deployProxy", Stage(1 - 1, 0, 0), Stage(1, 0, 0))
        /\ Leads(SetupVaultWithParams(2), 3, 2, "deployProxy", Stage(2 - 1, 0, 0), Stage(2, 0, 0))
    BY <2>1, SetupLeads
  <2> QED
    BY <2>1, <2>2, PathsJoin, 1 + 3 = 4
<1> HIDE DEF a
<1>3. Leads(b, 5, 2, "deployProxy", Stage(0, 0, 0), Stage(2, 0, 1))
  <2>1. Leads(Op("deployProxy"), 1, 2, "deployProxy", Stage(2, 0, 0), Stage(2, 0, 1))
    BY MakingLeads, 2 \in Nat DEF MakerOps
  <2> QED
    BY <1>2, <2>1, PathsJoin, 4 + 1 = 5
<1> HIDE DEF b
<1>4. Leads(ForEach("approve", <<1, 2>>), 2, 2, "deployProxy", Stage(2, 0, 1), Stage(2, 0, 1))
  <2> DEFINE is == <<1, 2>>
  <2>1. is \in [1..2 -> 1..2]
    OBVIOUS
  <2> HIDE DEF is
  <2>2. Leads(ForEach("approve", is), 2, 2, "deployProxy", Stage(2, 0, 1), Stage(2, 0, 1))
    BY <2>1, ApprovalsLead, 1 \in Nat, 2 \in Nat
  <2> QED
    BY <2>2 DEF is
<1>5. Leads(c, 7, 2, "deployProxy", Stage(0, 0, 0), Stage(2, 0, 1))
  BY <1>3, <1>4, PathsJoin, 5 + 2 = 7
<1> HIDE DEF c
<1>6. Leads(CombineVaults, 6, 2, "deployProxy", Stage(2, 0, 1), Stage(8, 0, 1))
  BY CombineLeads, 2 + 6 = 8, 1 \in Nat, 2 \in Nat, 0 \in Nat
<1> QED
  BY <1>1, <1>5, <1>6, PathsJoin, 7 + 6 = 13

-----------------------------------------------------------------------------
(* The stages of a plan's script, from nothing built to everything handed  *)
(* over.                                                                   *)
N == Len(Build.vaults)
Maker == Build.steps[MakerAt].op
Path ==
    CHOOSE c : /\ IsPath(c, Build.steps, Len(Build.steps), N, Maker)
               /\ c[1] = Stage(0, 0, 0) /\ c[Len(Build.steps) + 1] = Finish(Maker, N)
At == Path[pc]

(* What the plan of a build says besides: kinds of vaults and roles.       *)
PlanKinds(b, op) ==
    /\ \A i \in DOMAIN b.vaults : b.vaults[i] \in {"erc20", "integration"}
    /\ b.vaults[b.nfts[1]] = "erc20"
    /\ op = "clone" => b.roles = AdminAlone \/ (b.roles = AdminLast /\ b.retries)
    /\ op = "deploy" => b.roles = LStrategyRoles /\ ~b.waits
Leading(b, p, n, op) ==
    /\ op \in MakerOps /\ n = Len(b.vaults) /\ Len(b.steps) = p /\ DOMAIN b.steps = 1..p
    /\ Leads(b.steps, p, n, op, Stage(0, 0, 0), Finish(op, n))
    /\ \E c \in 1..p : b.steps[c].op = op
    /\ PlanKinds(b, op)

-----------------------------------------------------------------------------
(* The paths of all plans.                                                 *)
LEMMA LeadsIsLong ==
    ASSUME NEW s, NEW p, NEW n, NEW op, NEW x, NEW y, Leads(s, p, n, op, x, y)
    PROVE  Len(s) = p /\ DOMAIN s = 1..p
<1>1. p \in Nat /\ s \in [1..p -> Steps]
  BY DEF Leads
<1> QED
  BY <1>1

(* A script that contains the step that makes its strategy.                *)
LEMMA MakerIsAmong ==
    ASSUME NEW s, NEW p, NEW n, NEW m, NEW c, NEW op, Script(s, p, n, m, c, op)
    PROVE  op \in MakerOps /\ c \in 1..p /\ s[c].op = op
BY DEF Script, S

(* A plan whose script has a path, with its kinds of vaults and roles.     *)
LEMMA PlanIsLeading ==
    ASSUME NEW b, NEW p, NEW n, NEW m, NEW c, NEW op, Script(b.steps, p, n, m, c, op),
           Leads(b.steps, p, n, op, Stage(0, 0, 0), Finish(op, n)),
           PlanKinds(b, op), n = Len(b.vaults)
    PROVE  Leading(b, p, n, op)
<1>1. Len(b.steps) = p /\ DOMAIN b.steps = 1..p
  BY LeadsIsLong
<1>2. op \in MakerOps /\ c \in 1..p /\ b.steps[c].op = op
  BY MakerIsAmong
<1> QED
  BY <1>1, <1>2 DEF Leading

LEMMA MStrategyIsLeading == Leading(MStrategy, 11, 2, "clone")
<1>1. PlanKinds(MStrategy, "clone") /\ 2 = Len(MStrategy.vaults)
  BY DEF MStrategy, PlanKinds
<1>2. Finish("clone", 2) = Stage(8, 0, 2)
  BY 2 + 6 = 8 DEF Finish
<1> QED
  BY <1>1, <1>2, MStrategyLeads, MStrategyScript, PlanIsLeading

LEMMA HStrategyIsLeading == Leading(HStrategy, 15, 3, "clone")
<1>1. PlanKinds(HStrategy, "clone") /\ 3 = Len(HStrategy.vaults)
  BY DEF HStrategy, PlanKinds
<1>2. Finish("clone", 3) = Stage(9, 0, 2)
  BY 3 + 6 = 9 DEF Finish
<1> QED
  BY <1>1, <1>2, HStrategyLeads, HStrategyScript, PlanIsLeading

LEMMA MultiPoolHStrategyIsLeading == Leading(MultiPoolHStrategy, 17, 4, "clone")
<1>1. PlanKinds(MultiPoolHStrategy, "clone") /\ 4 = Len(MultiPoolHStrategy.vaults)
  BY DEF MultiPoolHStrategy, PlanKinds
<1>2. Finish("clone", 4) = Stage(10, 0, 2)
  BY 4 + 6 = 10 DEF Finish
<1> QED
  BY <1>1, <1>2, MultiPoolHStrategyLeads, MultiPoolHStrategyScript, PlanIsLeading

LEMMA LStrategyIsLeading == Leading(LStrategy, 21, 3, "deploy")
<1>1. PlanKinds(LStrategy, "deploy") /\ 3 = Len(LStrategy.vaults)
  BY DEF LStrategy, PlanKinds
<1>2. Finish("deploy", 3) = Stage(16, 4, 1)
  BY 3 + 13 = 16 DEF Finish
<1> QED
  BY <1>1, <1>2, LStrategyLeads, LStrategyScript, PlanIsLeading

LEMMA ProxyStrategyIsLeading == Leading(ProxyStrategy, 13, 2, "deployProxy")
<1>1. PlanKinds(ProxyStrategy, "deployProxy") /\ 2 = Len(ProxyStrategy.vaults)
  BY DEF ProxyStrategy, PlanKinds
<1>2. Finish("deployProxy", 2) = Stage(8, 0, 1)
  BY 2 + 6 = 8 DEF Finish
<1> QED
  BY <1>1, <1>2, ProxyStrategyLeads, ProxyStrategyScript, PlanIsLeading

LEMMA BuildIsLeading == ASSUME plan \in Plans PROVE \E p, n, op : Leading(Build, p, n, op)
<1>1. Build \in {MStrategy, HStrategy, LStrategy, MultiPoolHStrategy, ProxyStrategy}
  BY PlanAssumption
  DEF Build, SinglePositionQuickSwapStrategy, QuickPulseStrategy, PulseRouteStrategy
<1> QED
  BY <1>1, MStrategyIsLeading, HStrategyIsLeading, LStrategyIsLeading,
     MultiPoolHStrategyIsLeading, ProxyStrategyIsLeading

(* What the path of the plan being built is.                               *)
PathOK ==
    /\ N \in Nat \ {0} /\ Maker \in MakerOps /\ PlanKinds(Build, Maker)
    /\ Len(Build.steps) \in Nat \ {0} /\ DOMAIN Build.steps = 1..Len(Build.steps)
    /\ Build.steps \in [1..Len(Build.steps) -> Steps]
    /\ IsPath(Path, Build.steps, Len(Build.steps), N, Maker)
    /\ Path[1] = Stage(0, 0, 0) /\ Path[Len(Build.steps) + 1] = Finish(Maker, N)

(* Every plan's script has its path.                                       *)
LEMMA PathIsOK == ASSUME plan \in Plans PROVE PathOK
<1>1. PICK p, n, op : Leading(Build, p, n, op)
  BY BuildIsLeading
<1>2. ScriptOK
  BY PlansAreOK
<1>3. n = N /\ p = Len(Build.steps) /\ N \in Nat \ {0} /\ DOMAIN Build.steps = 1..p
  BY <1>1, <1>2 DEF Leading, ScriptOK, N
<1>4. op = Maker
  <2>1. PICK c \in 1..p : Build.steps[c].op = op
    BY <1>1 DEF Leading
  <2>2. StepOK(c) /\ Build.steps[c].op \in MakerOps
    BY <1>1, <1>2, <1>3, <2>1 DEF ScriptOK, Leading
  <2> QED
    BY <2>1, <2>2 DEF StepOK, Maker
<1>5. /\ p \in Nat /\ Build.steps \in [1..p -> Steps]
      /\ \E c : IsPath(c, Build.steps, p, n, op) /\ c[1] = Stage(0, 0, 0)
                /\ c[p + 1] = Finish(op, n)
  BY <1>1 DEF Leading, Leads
<1>6. p # 0
  <2>1. PICK c \in 1..p : Build.steps[c].op = op
    BY <1>1 DEF Leading
  <2> QED
    BY <1>5, <2>1
<1>7. /\ IsPath(Path, Build.steps, Len(Build.steps), N, Maker)
      /\ Path[1] = Stage(0, 0, 0) /\ Path[Len(Build.steps) + 1] = Finish(Maker, N)
  BY <1>3, <1>4, <1>5 DEF Path
<1> QED
  BY <1>1, <1>3, <1>4, <1>5, <1>6, <1>7 DEF PathOK, Leading

(* The stage of a script at a step, and after it.                          *)
LEMMA AtFits ==
    ASSUME PathOK, NEW op, Current(op)
    PROVE  /\ At \in Stages /\ Fits(Step, At, N, Maker) /\ Path[pc + 1] = After(Step, At)
           /\ Path[pc + 1] \in Stages /\ pc \in 1..Len(Build.steps)
           /\ pc + 1 \in 1..Len(Build.steps) + 1
<1> DEFINE p == Len(Build.steps)
<1>1. pc \in 1..p /\ p \in Nat /\ pc \in 1..p + 1 /\ pc + 1 \in 1..p + 1
  BY DEF PathOK, Current
<1> HIDE DEF p
<1>2. IsPath(Path, Build.steps, p, N, Maker)
  BY DEF PathOK, p
<1>3. /\ Path[pc] \in Stages /\ Path[pc + 1] \in Stages
      /\ Fits(Build.steps[pc], Path[pc], N, Maker)
      /\ Path[pc + 1] = After(Build.steps[pc], Path[pc])
  BY <1>1, <1>2 DEF IsPath
<1> QED
  BY <1>1, <1>3 DEF At, Step, p

(* Nobody but the deployer has an operator, the governance, which is no    *)
(* account that acts; and nobody is approved for the deployer's NFTs but   *)
(* the approver, the governance and strategies.                            *)
Approved == {approver, Governance, NoOne} \cup Strategy
OwnersInv ==
    /\ operators \subseteq {<<deployer, Governance>>}
    /\ \A n \in Nft :
         /\ ownerOf[n] = NoOne => getApproved[n] = NoOne
         /\ ownerOf[n] # NoOne => vaultIndex[n] # NoOne
         /\ ownerOf[n] = deployer => getApproved[n] \in Approved

(* A root vault is a clone that is registered and initialised.             *)
RootsInv ==
    /\ kind = [v \in Vault |-> kind[v]]
    /\ \A v \in Vault : kind[v] = "root" => v \in Nft /\ nftIndex[v] = v /\ vaultNft[v] # 0

(* A run has the governance approved for all, and what is sent and not     *)
(* waited for is an approval of the approver or a strategy.                *)
SentInv ==
    /\ pc # 0 => operators = {<<deployer, Governance>>}
    /\ pc = 0 => unawaited = <<>>
    /\ \A j \in DOMAIN unawaited : unawaited[j][1] \in {approver} \cup Strategy

(* What a step does to the registry.                                       *)
OwnersMove ==
    \/ \E to \in {mStrategyAdmin}, n \in Nft : ownerOf[n] = deployer /\ TransferFrom(deployer, to, n)
    \/ \E to \in {approver, Governance} \cup Strategy, n \in Nft : Approve(deployer, to, n)
    \/ \E a \in Holder \ {deployer, approver}, n \in Nft :
          /\ a \in Strategy => n \in locks
          /\ \/ \E to \in Destinations : TransferFrom(a, to, n)
             \/ \E to \in Approvees : Approve(a, to, n)
             \/ LockNft(a, n)
RegistryMoves ==
    \/ UNCHANGED vars
    \/ SetApprovalForAll(deployer, Governance, TRUE)
    \/ \E u \in User : \E k, zero, rest, s : StartCreation(u, u, k, zero, rest, s)
    \/ \E u \in User, v \in Foreign : RegisterVault(u, v, u)
    \/ FinishIntegrationVault \/ FinishRootVault
    \/ OwnersMove

(* Nobody does more to the registry: approvals that are mined, other       *)
(* owners, and the script's own transactions.                              *)
LEMMA MineMoves ==
    ASSUME BInv, SentInv, MineApproval
    PROVE  RegistryMoves
<1> DEFINE to == Head(unawaited)[1]
           nft == Head(unawaited)[2]
<1>1. unawaited \in Seq(Account \X Nft) /\ unawaited # <<>>
  BY DEF MineApproval, BInv, ScriptTypeOK
<1>2. 1 \in DOMAIN unawaited /\ Head(unawaited) = unawaited[1] /\ Head(unawaited) \in Account \X Nft
  BY <1>1
<1>3. to \in {approver} \cup Strategy /\ nft \in Nft
  BY <1>2 DEF SentInv
<1> HIDE DEF to, nft
<1>4. Approve(deployer, to, nft) => OwnersMove
  BY <1>3 DEF OwnersMove
<1> QED
  BY <1>4 DEF MineApproval, Throw, RegistryMoves, to, nft

LEMMA OtherOwnerMoves == ASSUME OtherOwner PROVE OwnersMove
<1>1. PICK a \in Holder \ {deployer, approver}, n \in Nft :
        /\ a \in Strategy => n \in locks
        /\ \/ \E to \in Destinations : TransferFrom(a, to, n)
           \/ \E to \in Approvees : Approve(a, to, n)
           \/ LockNft(a, n)
  BY DEF OtherOwner
<1> QED
  BY <1>1 DEF OwnersMove

LEMMA ScriptMoves == ASSUME BInv, ScriptStep PROVE RegistryMoves
<1>1. CASE EndRun \/ ConfigureStep \/ PredictStep \/ CloneStep \/ DeployStep \/ DeployProxyStep
           \/ MulticallStep \/ RoleStep \/ SendStep \/ PushStep
  <2>1. UNCHANGED vars
    BY <1>1
    DEF EndRun, ConfigureStep, PredictStep, CloneStep, DeployStep, DeployProxyStep, MulticallStep,
        RoleStep, SendStep, PushStep, Throw
  <2> QED
    BY <2>1 DEF RegistryMoves
<1>2. CASE CreateVaultStep
  <2>1. CASE CreateIntegrationVault(deployer, deployer, Build.vaults[Step.i])
    BY <2>1, Actors DEF CreateIntegrationVault, RegistryMoves
  <2> QED
    BY <1>2, <2>1 DEF CreateVaultStep, RegistryMoves
<1>3. CASE CreateRootVaultStep
  BY <1>3, Actors DEF CreateRootVaultStep, CreateRootVault, Throw, RegistryMoves
<1>4. CASE ApproveStep
  <2> DEFINE nft == ExpectedNft(Step.i)
  <2>1. nft \in Nft
    BY <1>4, Parts, AtStep DEF ApproveStep
  <2> HIDE DEF nft
  <2>2. Approve(deployer, Governance, nft) => OwnersMove
    BY <2>1 DEF OwnersMove
  <2> QED
    BY <1>4, <2>2 DEF ApproveStep, Throw, RegistryMoves, nft
<1>5. CASE GiveStep
  <2> DEFINE nft == ExpectedNft(0)
  <2>1. pc # 0 /\ ScriptOK
    BY <1>5, Parts, AtStep DEF GiveStep
  <2>2. nft \in Nft
    BY <2>1, ExpectedIsNft DEF BInv, ScriptOK
  <2> HIDE DEF nft
  <2>3. ownerOf[nft] = deployer /\ TransferFrom(deployer, mStrategyAdmin, nft) => OwnersMove
    BY <2>2 DEF OwnersMove
  <2> QED
    BY <1>5, <2>3 DEF GiveStep, Throw, RegistryMoves, nft
<1> QED
  BY <1>1, <1>2, <1>3, <1>4, <1>5 DEF ScriptStep

LEMMA RegistryStep == ASSUME BInv, SentInv, [BuildNext]_buildVars PROVE RegistryMoves
<1>1. CASE OtherVault
  <2>1. PICK u \in Creators \ {deployer} :
           \/ \E k \in {"erc20", "integration"} : CreateIntegrationVault(u, u, k)
           \/ \E v \in Foreign : RegisterVault(u, v, u)
    BY <1>1 DEF OtherVault
  <2> QED
    BY <2>1, Actors DEF CreateIntegrationVault, RegistryMoves
<1>2. CASE ApproveAllStep
  BY <1>2 DEF ApproveAllStep, RegistryMoves
<1>3. CASE StartRun \/ LoseConfirmation \/ Crash \/ OtherStrategy \/ OtherPosition \/ UNCHANGED buildVars
  BY <1>3 DEF StartRun, LoseConfirmation, Crash, Throw, OtherStrategy, OtherPosition, buildVars, RegistryMoves
<1>4. CASE FinishCreation
  BY <1>4 DEF FinishCreation, RegistryMoves
<1>5. CASE OtherOwner
  BY <1>5, OtherOwnerMoves DEF RegistryMoves
<1> QED
  BY <1>1, <1>2, <1>3, <1>4, <1>5, MineMoves, ScriptMoves DEF BuildNext, Others

-----------------------------------------------------------------------------
(* What the deployer owns is moved by the deployer only.                   *)
LEMMA OnlyDeployerMoves ==
    ASSUME OwnersInv, NEW n \in Nft, ownerOf[n] = deployer, n \notin locks,
           NEW a \in Holder \ {deployer, approver}, a \in Strategy => n \in locks
    PROVE  /\ a # ownerOf[n] /\ <<ownerOf[n], a>> \notin operators
           /\ ~ApprovedOrOwner(a, n)
<1>1. a # Governance /\ a # NoOne /\ a \notin Strategy
  BY AddressAssumption, HoldersAreNoVaults DEF Holder
<1>2. a # deployer /\ a # approver
  OBVIOUS
<1>3. getApproved[n] \in Approved
  BY DEF OwnersInv
<1>4. a # getApproved[n]
  BY <1>1, <1>2, <1>3 DEF Approved
<1>5. <<ownerOf[n], a>> \notin operators
  BY <1>1 DEF OwnersInv
<1> QED
  BY <1>2, <1>4, <1>5 DEF ApprovedOrOwner

LEMMA OwnersStay ==
    ASSUME OwnersInv, UNCHANGED <<operators, ownerOf, getApproved, vaultIndex>>
    PROVE  OwnersInv'
BY DEF OwnersInv, Approved

(* Registering, creating and moving keep what is said of owners.           *)
LEMMA RegisterKeepsOwners ==
    ASSUME IInv, OwnersInv, NEW sender, NEW v \in Vault, NEW u \in User, Register(sender, v, u)
    PROVE  OwnersInv'
<1>1. /\ topNft \in Nft /\ ownerOf[topNft] = NoOne
      /\ ownerOf \in [Nft -> Account \cup {NoOne}]
      /\ vaultIndex \in [Nft -> Vault \cup {NoOne}] /\ topNft \in Nat
  BY HoldersAreNoVaults DEF IInv, OwnerInv, IndexInv, Register
<1>2. /\ ownerOf' = [ownerOf EXCEPT ![topNft] = u] /\ vaultIndex' = [vaultIndex EXCEPT ![topNft] = v]
      /\ UNCHANGED <<getApproved, operators>> /\ v # NoOne
  BY HoldersAreNoVaults DEF Register
<1>3. getApproved[topNft] = NoOne
  BY <1>1 DEF OwnersInv
<1> QED
  BY <1>1, <1>2, <1>3 DEF OwnersInv, Approved

LEMMA MoveKeepsOwners == ASSUME IInv, OwnersInv, OwnersMove PROVE OwnersInv'
<1>1. /\ ownerOf \in [Nft -> Account \cup {NoOne}] /\ getApproved \in [Nft -> Account \cup Approvees \cup {NoOne}]
      /\ NoOne \notin Account /\ deployer \in Account /\ deployer # NoOne
  BY Actors, AddressAssumption DEF IInv, OwnerInv
<1>2. ASSUME NEW a, NEW to \in Account, NEW n \in Nft, TransferFrom(a, to, n)
      PROVE  OwnersInv'
  BY <1>1, <1>2 DEF TransferFrom, OwnersInv, Approved, indexVars
<1>3. ASSUME NEW a, NEW to, NEW n \in Nft, Approve(a, to, n), ownerOf[n] = deployer => to \in Approved
      PROVE  OwnersInv'
  BY <1>1, <1>3 DEF Approve, OwnersInv, Approved, indexVars
<1>4. CASE \E to \in {mStrategyAdmin}, n \in Nft : TransferFrom(deployer, to, n)
  BY <1>2, <1>4, Actors
<1>5. CASE \E to \in {approver, Governance} \cup Strategy, n \in Nft : Approve(deployer, to, n)
  BY <1>3, <1>5 DEF Approved
<1>6. ASSUME NEW a \in Holder \ {deployer, approver}, NEW n \in Nft, NEW to \in Approvees, Approve(a, to, n)
      PROVE  OwnersInv'
  <2>1. a # Governance
    BY AddressAssumption DEF Holder
  <2>2. ownerOf[n] # deployer
    BY <1>6, <2>1 DEF Approve, OwnersInv
  <2> QED
    BY <1>3, <1>6, <2>2
<1>7. ASSUME NEW a, NEW n, LockNft(a, n)
      PROVE  OwnersInv'
  BY <1>7, OwnersStay DEF LockNft, indexVars
<1> QED
  BY <1>2, <1>4, <1>5, <1>6, <1>7, InputAssumption DEF OwnersMove

LEMMA NextOwners == ASSUME IInv, OwnersInv, RegistryMoves PROVE OwnersInv'
<1>1. CASE UNCHANGED vars \/ FinishIntegrationVault
  BY <1>1, OwnersStay DEF vars, FinishIntegrationVault, indexVars, ownerVars
<1>2. CASE SetApprovalForAll(deployer, Governance, TRUE)
  BY <1>2 DEF SetApprovalForAll, OwnersInv, Approved, indexVars
<1>3. ASSUME NEW u \in User, NEW k, NEW zero, NEW rest, NEW s, StartCreation(u, u, k, zero, rest, s)
      PROVE  OwnersInv'
  <2> DEFINE nft == Len(vaults) + 1
  <2>1. nft = topNft /\ topNft \in Nft
    BY <1>3 DEF StartCreation, Register, IInv, IndexInv
  <2>2. Clone(nft) \in Vault /\ Register(Governance, Clone(nft), u)
    BY <1>3, <2>1 DEF StartCreation, Clone, Vault
  <2> QED
    BY <2>2, RegisterKeepsOwners
<1>4. ASSUME NEW u \in User, NEW v \in Foreign, RegisterVault(u, v, u)
      PROVE  OwnersInv'
  BY <1>4, RegisterKeepsOwners DEF RegisterVault, Vault
<1>5. CASE FinishRootVault
  <2> DEFINE root == Clone(creating.nft)
             nfts == creating.subvaults
  <2>1. root \in Nft /\ nfts \subseteq Nft
    BY <1>5 DEF FinishRootVault, IInv, CreationInv, Clone
  <2>2. root # deployer /\ root # NoOne
    BY <2>1, Actors, HoldersAreNoVaults
  <2>3. /\ ownerOf' = [n \in Nft |-> IF n \in nfts THEN root ELSE ownerOf[n]]
        /\ getApproved' = [n \in Nft |-> IF n \in nfts THEN creating.strategy ELSE getApproved[n]]
        /\ UNCHANGED <<vaultIndex, operators>>
        /\ \A n \in nfts : vaultIndex[n] # NoOne
    BY <1>5 DEF FinishRootVault, indexVars, Subvault
  <2> HIDE DEF root, nfts
  <2> QED
    BY <2>1, <2>2, <2>3 DEF OwnersInv, Approved
<1> QED
  BY <1>1, <1>2, <1>3, <1>4, <1>5, MoveKeepsOwners DEF RegistryMoves

LEMMA RootsStay ==
    ASSUME RootsInv, UNCHANGED <<kind, nftIndex, vaultNft>>
    PROVE  RootsInv'
BY DEF RootsInv

(* Only initialize makes root vaults, of vaults registered for it.         *)
LEMMA NextRoots == ASSUME IInv, RootsInv, RegistryMoves PROVE RootsInv'
<1>1. CASE UNCHANGED vars \/ SetApprovalForAll(deployer, Governance, TRUE) \/ OwnersMove
  <2>1. UNCHANGED <<kind, nftIndex, vaultNft>>
    BY <1>1 DEF vars, SetApprovalForAll, OwnersMove, TransferFrom, Approve, LockNft, indexVars, vaultVars
  <2> QED
    BY <2>1, RootsStay
<1>2. ASSUME NEW sender, NEW v \in Vault, NEW u, Register(sender, v, u), UNCHANGED vaultVars
      PROVE  RootsInv'
  <2>1. nftIndex \in [Vault -> Nat] /\ nftIndex[v] = 0 /\ nftIndex' = [nftIndex EXCEPT ![v] = topNft]
    BY <1>2 DEF Register, NotRegistered, IInv, IndexInv
  <2>2. \A w \in Vault : kind[w] = "root" => w # v
    BY <2>1, HoldersAreNoVaults DEF RootsInv
  <2> QED
    BY <1>2, <2>1, <2>2 DEF RootsInv, vaultVars
<1>3. ASSUME NEW u \in User, NEW k, NEW zero, NEW rest, NEW s, StartCreation(u, u, k, zero, rest, s)
      PROVE  RootsInv'
  <2> DEFINE nft == Len(vaults) + 1
  <2>1. nft = topNft /\ topNft \in Nft
    BY <1>3 DEF StartCreation, Register, IInv, IndexInv
  <2>2. Clone(nft) \in Vault /\ Register(Governance, Clone(nft), u) /\ UNCHANGED vaultVars
    BY <1>3, <2>1 DEF StartCreation, Clone, Vault
  <2> QED
    BY <1>2, <2>2
<1>4. ASSUME NEW u \in User, NEW v \in Foreign, RegisterVault(u, v, u)
      PROVE  RootsInv'
  BY <1>2, <1>4 DEF RegisterVault, Vault
<1>5. CASE FinishIntegrationVault \/ FinishRootVault
  <2> DEFINE v == Clone(creating.nft)
  <2>1. /\ creating.nft \in Nft /\ v = creating.nft /\ v \in Vault /\ nftIndex[v] = v /\ v # 0
        /\ vaultNft \in [Vault -> Nat]
    BY <1>5, HoldersAreNoVaults
    DEF FinishIntegrationVault, FinishRootVault, IInv, CreationInv, IndexInv, Clone
  <2>2. /\ vaultNft' = [vaultNft EXCEPT ![v] = v] /\ kind' = [kind EXCEPT ![v] = creating.kind]
        /\ UNCHANGED nftIndex
    BY <1>5, <2>1 DEF FinishIntegrationVault, FinishRootVault, Initialize, indexVars
  <2> HIDE DEF v
  <2> QED
    BY <2>1, <2>2 DEF RootsInv
<1> QED
  BY <1>1, <1>3, <1>4, <1>5 DEF RegistryMoves

(* The stage of a run, which is 0 at its first step, and knows whether the *)
(* strategy is made; approvals are sent for subvaults that there are.      *)
StageInv ==
    pc # 0 =>
        /\ pc \in 1..Len(Build.steps) + 1
        /\ At.hand = 0 <=> ~(pc > MakerAt)
        /\ At.sent <= 2 * At.built

LEMMA SameScript ==
    ASSUME plan' = plan
    PROVE  /\ Build' = Build /\ N' = N /\ Maker' = Maker /\ MakerAt' = MakerAt /\ Path' = Path
           /\ PathOK => PathOK'
           /\ startNft' = startNft =>
                 ExpectedNfts' = ExpectedNfts /\ \A i \in 0..N : ExpectedNft(i)' = ExpectedNft(i)
<1>1. Build' = Build /\ MakerAt' = MakerAt
  BY SamePlan
<1>2. N' = N /\ Maker' = Maker
  BY <1>1 DEF N, Maker
<1>3. Path' = Path
  BY <1>1, <1>2 DEF Path
<1>4. PathOK => PathOK'
  BY <1>1, <1>2, <1>3 DEF PathOK
<1>5. startNft' = startNft =>
         ExpectedNfts' = ExpectedNfts /\ \A i \in 0..N : ExpectedNft(i)' = ExpectedNft(i)
  BY <1>1 DEF ExpectedNfts, ExpectedNft
<1> QED
  BY <1>1, <1>2, <1>3, <1>4, <1>5

(* When the script stays where it is, so does its stage.                   *)
LEMMA StageRests ==
    ASSUME plan' = plan, pc' = pc
    PROVE  At' = At /\ (StageInv => StageInv')
<1>1. At' = At
  BY SameScript DEF At
<1> QED
  BY <1>1, SameScript DEF StageInv

(* A run starts with nothing built.                                        *)
LEMMA StageStarts ==
    ASSUME BInv, plan' = plan, pc' = 1
    PROVE  /\ StageInv' /\ At' = Stage(0, 0, 0)
           /\ At'.built = 0 /\ At'.sent = 0 /\ At'.hand = 0
<1>1. PathOK /\ ScriptOK
  BY PathIsOK, PlansAreOK DEF BInv, ScriptTypeOK
<1>2. At' = Stage(0, 0, 0)
  BY <1>1, SameScript DEF At, PathOK
<1>3. At'.built = 0 /\ At'.sent = 0 /\ At'.hand = 0
  BY <1>2, StageIsTyped
<1>4. MakerAt \in Nat \ {0} /\ Len(Build.steps) \in Nat \ {0}
  BY <1>1 DEF ScriptOK, MakerOK, PathOK
<1>5. StageInv'
  BY <1>3, <1>4, SameScript DEF StageInv
<1> QED
  BY <1>2, <1>3, <1>5

(* What a step of the script is, seen from its stage.                      *)
LEMMA StageAt ==
    ASSUME BInv, StageInv, NEW op, Current(op)
    PROVE  /\ PathOK /\ ScriptOK /\ StepOK(pc) /\ pc \in Nat \ {0} /\ creating = NoCreation
           /\ N \in Nat \ {0} /\ Step.op = op /\ op \in Ops /\ Step.i \in Nat
           /\ At \in Stages /\ At.built \in Nat /\ At.sent \in Nat /\ At.hand \in Nat
           /\ Fits(Step, At, N, Maker)
           /\ At.hand = 0 <=> ~(pc > MakerAt)
           /\ At.sent <= 2 * At.built
<1>1. PathOK /\ ScriptOK
  BY PathIsOK, PlansAreOK DEF BInv, ScriptTypeOK
<1>2. /\ StepOK(pc) /\ pc # 0 /\ creating = NoCreation /\ Step.op = op
  BY Parts, AtStep
<1>3. At \in Stages /\ Fits(Step, At, N, Maker)
  BY <1>1, AtFits
<1>4. pc \in Nat \ {0} /\ op \in Ops /\ Step.i \in Nat
  BY <1>2 DEF StepOK, Step
<1>5. At.built \in Nat /\ At.sent \in Nat /\ At.hand \in Nat
  BY <1>3 DEF Stages
<1> QED
  BY <1>1, <1>2, <1>3, <1>4, <1>5 DEF StageInv, PathOK

(* A step of the script takes its stage one step along the path.           *)
LEMMA StageAdvances ==
    ASSUME BInv, StageInv, NEW op, Current(op), plan' = plan, pc' = pc + 1
    PROVE  /\ StageInv' /\ At' = After(Step, At)
           /\ At'.built = IF Counted(Step) THEN At.built + 1 ELSE At.built
           /\ At'.sent = IF op \in {"sendApproval", "push"} THEN At.sent + 1 ELSE At.sent
           /\ At'.hand = IF op \in MakerOps \cup {"multicall"} THEN At.hand + 1 ELSE At.hand
<1>1. /\ PathOK /\ ScriptOK /\ StepOK(pc) /\ pc \in Nat \ {0} /\ N \in Nat \ {0} /\ Step.op = op
      /\ At \in Stages /\ At.built \in Nat /\ At.sent \in Nat /\ At.hand \in Nat
      /\ Fits(Step, At, N, Maker)
      /\ At.hand = 0 <=> ~(pc > MakerAt)
      /\ At.sent <= 2 * At.built
  BY StageAt
<1>2. At' = After(Step, At) /\ pc + 1 \in 1..Len(Build.steps) + 1
  BY <1>1, SameScript, AtFits DEF At
<1>3. /\ At'.built = IF Counted(Step) THEN At.built + 1 ELSE At.built
      /\ At'.sent = IF op \in {"sendApproval", "push"} THEN At.sent + 1 ELSE At.sent
      /\ At'.hand = IF op \in MakerOps \cup {"multicall"} THEN At.hand + 1 ELSE At.hand
  <2> DEFINE b == IF Counted(Step) THEN At.built + 1 ELSE At.built
             u == IF op \in {"sendApproval", "push"} THEN At.sent + 1 ELSE At.sent
             h == IF op \in MakerOps \cup {"multicall"} THEN At.hand + 1 ELSE At.hand
  <2>1. b \in Nat /\ u \in Nat /\ h \in Nat
    BY <1>1
  <2>2. After(Step, At) = Stage(b, u, h)
    BY <1>1 DEF After
  <2> HIDE DEF b, u, h
  <2>3. At'.built = b /\ At'.sent = u /\ At'.hand = h
    BY <1>2, <2>1, <2>2, StageIsTyped
  <2> QED
    BY <2>3 DEF b, u, h
<1>4. At'.hand = 0 <=> ~(pc + 1 > MakerAt)
  <2>1. MakerAt \in Nat \ {0} /\ (op \in MakerOps <=> pc = MakerAt)
    BY <1>1 DEF ScriptOK, MakerOK, StepOK, Step
  <2>2. CASE op \in MakerOps
    BY <1>1, <1>3, <2>1, <2>2
  <2>3. CASE op = "multicall"
    BY <1>1, <1>3, <2>1, <2>3 DEF Fits, MakerOps
  <2>4. CASE op \notin MakerOps \cup {"multicall"}
    BY <1>1, <1>3, <2>1, <2>4
  <2> QED
    BY <2>2, <2>3, <2>4
<1>5. At'.sent <= 2 * At'.built
  <2>1. CASE op \in {"sendApproval", "push"}
    <3>1. ~Counted(Step)
      BY <1>1, <2>1 DEF Counted
    <3>2. /\ Step.i \in 1..At.built
          /\ op = "sendApproval" => At.sent = 2 * Step.i - 2
          /\ op = "push" => At.sent = 2 * Step.i - 1
      BY <1>1, <2>1 DEF Fits, OfVault
    <3> QED
      BY <1>1, <1>3, <2>1, <3>1, <3>2
  <2>2. CASE op \notin {"sendApproval", "push"}
    BY <1>1, <1>3, <2>2
  <2> QED
    BY <2>1, <2>2
<1>6. StageInv'
  BY <1>2, <1>4, <1>5, SameScript DEF StageInv
<1> QED
  BY <1>2, <1>3, <1>6

(* How a script moves: it rests, ends, starts, or goes one step on.        *)
ScriptMovesOn == pc' = pc + 1 /\ startNft' = startNft /\ \E op : Current(op)
ScriptRests == pc' = pc /\ startNft' = startNft

LEMMA ScriptPace ==
    ASSUME [BuildNext]_buildVars
    PROVE  /\ plan' = plan
           /\ ScriptRests \/ pc' = 0 \/ ScriptMovesOn \/ (pc = 0 /\ StartRun /\ operators # {})
<1> USE DEF ScriptRests, ScriptMovesOn
<1>1. CASE ScriptStep
  <2>1. plan' = plan
    BY <1>1 DEF ScriptStep
  <2>2. CASE EndRun
    BY <2>1, <2>2 DEF EndRun, End
  <2>3. CASE CreateVaultStep \/ PredictStep \/ CloneStep \/ DeployStep \/ DeployProxyStep \/ SendStep
    BY <2>1, <2>3 DEF CreateVaultStep, PredictStep, CloneStep, DeployStep, DeployProxyStep, SendStep, Continue
  <2>4. CASE CreateRootVaultStep \/ ConfigureStep
    BY <2>1, <2>4 DEF CreateRootVaultStep, ConfigureStep, Throw, End, Continue
  <2>5. CASE MulticallStep
    BY <2>1, <2>5 DEF MulticallStep, Throw, End, Continue, builderVars, scriptVars
  <2>6. CASE RoleStep \/ ApproveStep \/ PushStep \/ GiveStep
    BY <2>1, <2>6 DEF RoleStep, ApproveStep, PushStep, GiveStep, Throw, End, Continue
  <2> QED
    BY <1>1, <2>2, <2>3, <2>4, <2>5, <2>6 DEF ScriptStep
<1>2. CASE StartRun /\ operators # {}
  BY <1>2 DEF StartRun
<1>3. CASE ApproveAllStep \/ OtherVault \/ OtherOwner \/ FinishCreation
  BY <1>3 DEF ApproveAllStep, OtherVault, OtherOwner, FinishCreation, builderVars, scriptVars
<1>4. CASE LoseConfirmation \/ OtherStrategy \/ OtherPosition \/ UNCHANGED buildVars
  BY <1>4 DEF LoseConfirmation, OtherStrategy, OtherPosition, Throw, End, buildVars, builderVars, scriptVars
<1>5. CASE Crash
  BY <1>5 DEF Crash, Throw, End
<1>6. CASE MineApproval /\ UNCHANGED <<plan, runs, crashes, others, quiet>>
  BY <1>6 DEF MineApproval, Throw, End
<1> QED
  BY <1>1, <1>2, <1>3, <1>4, <1>5, <1>6 DEF BuildNext, Others

LEMMA NextStage == ASSUME BInv, StageInv, [BuildNext]_buildVars PROVE StageInv'
<1>1. CASE pc' = 0
  BY <1>1 DEF StageInv
<1>2. CASE StartRun
  BY <1>2, ScriptPace, StageStarts DEF StartRun
<1> QED
  BY <1>1, <1>2, ScriptPace, StageRests, StageAdvances DEF ScriptRests, ScriptMovesOn

(* How the approvals that are not waited for change.                       *)
LEMMA SentPace ==
    ASSUME pc \in Nat, [BuildNext]_buildVars
    PROVE  \/ pc' = 0 /\ unawaited' = <<>>
           \/ unawaited' = unawaited /\ (pc' = 0 => pc = 0)
           \/ pc' = pc /\ MineApproval /\ unawaited' = Tail(unawaited)
           \/ pc' = pc + 1 /\ Current("sendApproval") /\ SendApproval(approver, ExpectedNft(Step.i))
           \/ pc' = pc + 1 /\ Current("push") /\ SendApproval(saved, ExpectedNft(Step.i))
<1>1. CASE ScriptStep
  <2>1. CASE EndRun
    BY <2>1 DEF EndRun, End
  <2>2. CASE CreateVaultStep \/ PredictStep \/ CloneStep \/ DeployStep \/ DeployProxyStep
    BY <2>2 DEF CreateVaultStep, PredictStep, CloneStep, DeployStep, DeployProxyStep, Continue
  <2>3. CASE CreateRootVaultStep \/ ConfigureStep
    BY <2>3 DEF CreateRootVaultStep, ConfigureStep, Throw, End, Continue
  <2>4. CASE MulticallStep
    <3>1. (\E why : Throw(why)) \/ Continue \/ UNCHANGED <<vars, builderVars>>
      BY <2>4 DEF MulticallStep
    <3> QED
      BY <3>1 DEF Throw, End, Continue, builderVars, scriptVars
  <2>5. CASE RoleStep \/ ApproveStep \/ GiveStep
    <3>1. (\E why : Throw(why)) \/ Continue
      BY <2>5 DEF RoleStep, ApproveStep, GiveStep
    <3> QED
      BY <3>1 DEF Throw, End, Continue
  <2>6. CASE SendStep
    BY <2>6 DEF SendStep
  <2>7. CASE PushStep
    BY <2>7 DEF PushStep, Throw, End
  <2> QED
    BY <1>1, <2>1, <2>2, <2>3, <2>4, <2>5, <2>6, <2>7 DEF ScriptStep
<1>2. CASE StartRun
  BY <1>2 DEF StartRun
<1>3. CASE ApproveAllStep \/ OtherVault \/ OtherOwner \/ FinishCreation
  BY <1>3 DEF ApproveAllStep, OtherVault, OtherOwner, FinishCreation, builderVars, scriptVars
<1>4. CASE LoseConfirmation \/ OtherStrategy \/ OtherPosition \/ UNCHANGED buildVars
  BY <1>4 DEF LoseConfirmation, OtherStrategy, OtherPosition, Throw, End, buildVars, builderVars, scriptVars
<1>5. CASE Crash
  BY <1>5 DEF Crash, Throw, End
<1>6. CASE MineApproval
  BY <1>6 DEF MineApproval, Throw, End
<1> QED
  BY <1>1, <1>2, <1>3, <1>4, <1>5, <1>6 DEF BuildNext, Others

LEMMA OperatorsStayGiven ==
    ASSUME RegistryMoves, operators = {<<deployer, Governance>>}
    PROVE  operators' = operators
<1>1. CASE UNCHANGED vars
  BY <1>1 DEF vars, ownerVars
<1>2. CASE SetApprovalForAll(deployer, Governance, TRUE)
  BY <1>2 DEF SetApprovalForAll
<1>3. CASE \/ \E u \in User : \E k, zero, rest, s : StartCreation(u, u, k, zero, rest, s)
           \/ \E u \in User, v \in Foreign : RegisterVault(u, v, u)
  BY <1>3 DEF StartCreation, RegisterVault, Register
<1>4. CASE FinishIntegrationVault \/ FinishRootVault
  BY <1>4 DEF FinishIntegrationVault, FinishRootVault, ownerVars
<1>5. CASE OwnersMove
  BY <1>5 DEF OwnersMove, TransferFrom, Approve, LockNft
<1> QED
  BY <1>1, <1>2, <1>3, <1>4, <1>5 DEF RegistryMoves

(* Every step keeps what is said of operators and approvals to come.       *)
LEMMA NextSent == ASSUME BInv, OwnersInv, SentInv, [BuildNext]_buildVars PROVE SentInv'
<1>1. RegistryMoves
  BY RegistryStep
<1>2. pc \in Nat /\ unawaited \in Seq(Account \X Nft)
  BY DEF BInv, ScriptTypeOK
<1>3. pc' # 0 => operators' = {<<deployer, Governance>>}
  <2>1. CASE pc # 0
    BY <1>1, <2>1, OperatorsStayGiven DEF SentInv
  <2>2. CASE pc = 0 /\ pc' # 0
    <3>1. ~ScriptMovesOn
      <4>1. ScriptOK
        BY PlansAreOK DEF BInv, ScriptTypeOK
      <4> QED
        BY <2>2, <4>1 DEF ScriptMovesOn, Current, ScriptOK, StepOK
    <3>2. StartRun /\ operators # {}
      BY <2>2, <3>1, ScriptPace DEF ScriptRests
    <3> QED
      BY <3>2 DEF StartRun, vars, ownerVars, OwnersInv
  <2> QED
    BY <2>1, <2>2
<1>4. pc' = 0 => unawaited' = <<>>
  <2>1. CASE pc' = pc /\ MineApproval
    BY <2>1 DEF SentInv, MineApproval
  <2>2. CASE pc' = pc + 1
    BY <1>2, <2>2
  <2> QED
    BY <1>2, <2>1, <2>2, SentPace DEF SentInv
<1>5. \A j \in DOMAIN unawaited' : unawaited'[j][1] \in {approver} \cup Strategy
  <2>1. CASE unawaited' = <<>>
    BY <2>1
  <2>2. CASE unawaited' = unawaited
    BY <2>2 DEF SentInv
  <2>3. CASE unawaited' = Tail(unawaited) /\ unawaited # <<>>
    <3>1. \A j \in DOMAIN unawaited' : j + 1 \in DOMAIN unawaited /\ unawaited'[j] = unawaited[j + 1]
      BY <1>2, <2>3
    <3> QED
      BY <3>1 DEF SentInv
  <2>4. ASSUME NEW to \in {approver} \cup Strategy, NEW nft, unawaited' = Append(unawaited, <<to, nft>>)
        PROVE  \A j \in DOMAIN unawaited' : unawaited'[j][1] \in {approver} \cup Strategy
    <3> DEFINE m == <<to, nft>>
    <3>1. m[1] = to
      OBVIOUS
    <3> HIDE DEF m
    <3>2. \A j \in DOMAIN unawaited' :
             \/ j \in DOMAIN unawaited /\ unawaited'[j] = unawaited[j]
             \/ unawaited'[j] = m
      BY <1>2, <2>4 DEF m
    <3> QED
      BY <3>1, <3>2 DEF SentInv
  <2>5. CASE Current("push")
    <3>1. pc > MakerAt
      BY <2>5, Parts, AtStep DEF LateOps, EarlyOps
    <3>2. saved \in Strategy
      BY <3>1, Addresses DEF BInv, SavedInv
    <3> QED
      BY <2>1, <2>2, <2>3, <2>4, <3>2, SentPace, <1>2 DEF SendApproval, MineApproval
  <2> QED
    BY <1>2, <2>1, <2>2, <2>3, <2>4, <2>5, SentPace DEF SendApproval, MineApproval
<1> QED
  BY <1>3, <1>4, <1>5 DEF SentInv

-----------------------------------------------------------------------------
(* The root vault of a run: only the script combines vaults, those it      *)
(* expects, and root vaults younger than the run hold those.               *)
CombineInv ==
    /\ CreatingRoot => pc # 0 /\ At.built = N + 1 /\ creating.subvaults = ExpectedNfts
    /\ pc # 0 => \A n \in Nft : kind[n] = "root" /\ n >= startNft => subvaults[n] = ExpectedNfts

(* No creation starts, or one of the deployer by the script.               *)
LEMMA CreationPace ==
    ASSUME [BuildNext]_buildVars
    PROVE  \/ creating' = creating /\ UNCHANGED <<kind, subvaults, vaultNft>>
           \/ creating' # NoCreation /\ creating'.kind # "root" /\ UNCHANGED <<kind, subvaults, vaultNft>>
           \/ CreateRootVaultStep /\ pc' = pc + 1 /\ startNft' = startNft
              /\ creating'.subvaults = {ExpectedNft(Build.nfts[1])}
                                         \cup (ExpectedNfts \ {ExpectedNft(Build.nfts[1])})
              /\ UNCHANGED <<kind, subvaults, vaultNft>>
           \/ FinishCreation
<1>1. ASSUME NEW u, NEW k \in {"erc20", "integration"}, CreateIntegrationVault(u, u, k)
      PROVE  creating' # NoCreation /\ creating'.kind # "root" /\ UNCHANGED <<kind, subvaults, vaultNft>>
  <2>1. k # "root"
    OBVIOUS
  <2>2. /\ creating'.kind = k /\ UNCHANGED vaultVars
        /\ DOMAIN creating' # DOMAIN NoCreation
    BY <1>1 DEF CreateIntegrationVault, StartCreation, NoCreation
  <2> QED
    BY <2>1, <2>2 DEF vaultVars
<1>2. CASE ScriptStep
  <2>1. CASE EndRun \/ ConfigureStep \/ PredictStep \/ CloneStep \/ DeployStep \/ DeployProxyStep
             \/ MulticallStep \/ RoleStep \/ SendStep \/ PushStep
    <3>1. UNCHANGED vars
      BY <2>1
      DEF EndRun, ConfigureStep, PredictStep, CloneStep, DeployStep, DeployProxyStep, MulticallStep,
          RoleStep, SendStep, PushStep, Throw
    <3> QED
      BY <3>1 DEF vars, vaultVars
  <2>2. CASE CreateVaultStep
    <3> DEFINE k == Build.vaults[Step.i]
    <3>1. CASE CreateIntegrationVault(deployer, deployer, k)
      <4>1. k \in {"erc20", "integration"}
        BY <3>1 DEF CreateIntegrationVault
      <4> QED
        BY <1>1, <3>1, <4>1
    <3> QED
      BY <2>2, <3>1 DEF CreateVaultStep, vars, vaultVars
  <2>3. CASE CreateRootVaultStep
    <3> DEFINE zero == ExpectedNft(Build.nfts[1])
               s == IF Build.rebalanced THEN Rebalancer ELSE saved
    <3>1. ASSUME StartCreation(deployer, deployer, "root", zero, ExpectedNfts \ {zero}, s)
          PROVE  /\ creating'.subvaults = {zero} \cup (ExpectedNfts \ {zero})
                 /\ UNCHANGED <<kind, subvaults, vaultNft>>
      BY <3>1 DEF StartCreation, vaultVars
    <3> HIDE DEF zero, s
    <3> QED
      BY <2>3, <3>1 DEF CreateRootVaultStep, CreateRootVault, Throw, Continue, vars, vaultVars, zero, s
  <2>4. CASE ApproveStep \/ GiveStep
    BY <2>4 DEF ApproveStep, GiveStep, Approve, TransferFrom, Throw, vars, vaultVars
  <2> QED
    BY <1>2, <2>1, <2>2, <2>3, <2>4 DEF ScriptStep
<1>3. CASE ApproveAllStep
  BY <1>3 DEF ApproveAllStep, SetApprovalForAll, vaultVars
<1>4. CASE StartRun \/ LoseConfirmation \/ Crash \/ OtherStrategy \/ OtherPosition \/ UNCHANGED buildVars
  BY <1>4 DEF StartRun, LoseConfirmation, Crash, Throw, OtherStrategy, OtherPosition, buildVars, vars, vaultVars
<1>5. CASE OtherVault
  BY <1>1, <1>5 DEF OtherVault, RegisterVault, vaultVars
<1>6. CASE OtherOwner
  BY <1>6 DEF OtherOwner, TransferFrom, Approve, LockNft, vaultVars
<1>7. CASE MineApproval
  BY <1>7 DEF MineApproval, Approve, Throw, vars, vaultVars
<1> QED
  BY <1>2, <1>3, <1>4, <1>5, <1>6, <1>7 DEF BuildNext, Others

(* The root vault the script creates is initialised over what it expects.  *)
LEMMA NextCombine ==
    ASSUME BInv, StageInv, RootsInv, CombineInv, [BuildNext]_buildVars
    PROVE  CombineInv'
<1>1. pc \in Nat /\ (pc # 0 => startNft \in Nat \ {0})
  BY DEF BInv, ScriptTypeOK
<1>2. \A op : Current(op) => ~CreatingRoot /\ pc # 0
  BY Parts, AtStep DEF CreatingRoot
<1>3. plan' = plan
  BY ScriptPace
<1>4. CASE FinishCreation
  <2>1. UNCHANGED <<pc, startNft>> /\ At' = At /\ N' = N /\ ExpectedNfts' = ExpectedNfts
    BY <1>3, <1>4, StageRests, SameScript DEF FinishCreation, builderVars, scriptVars
  <2>2. creating' = NoCreation /\ ~CreatingRoot'
    BY <1>4 DEF FinishCreation, FinishIntegrationVault, FinishRootVault, CreatingRoot
  <2>3. creating.nft \in Nft /\ creating.nft \in Vault /\ kind = [v \in Vault |-> kind[v]]
        /\ kind' = [kind EXCEPT ![creating.nft] = creating.kind] /\ \A n \in Nft : n \in Vault
    BY <1>4
    DEF FinishCreation, FinishIntegrationVault, FinishRootVault, Initialize, BInv, IInv, CreationInv, Clone,
        RootsInv, Vault
  <2>4. CASE FinishIntegrationVault
    BY <2>1, <2>2, <2>3, <2>4 DEF FinishIntegrationVault, CombineInv
  <2>5. CASE FinishRootVault
    <3>1. CreatingRoot /\ subvaults' = [subvaults EXCEPT ![creating.nft] = creating.subvaults]
      BY <2>5 DEF FinishRootVault, CreatingRoot, Clone
    <3>2. subvaults \in [Nft -> SUBSET Nft]
      BY DEF BInv, IInv, OwnerInv
    <3> QED
      BY <2>1, <2>2, <2>3, <3>1, <3>2 DEF CombineInv
  <2> QED
    BY <1>4, <2>4, <2>5 DEF FinishCreation
<1>5. CASE CreateRootVaultStep /\ pc' = pc + 1 /\ startNft' = startNft
           /\ creating'.subvaults = {ExpectedNft(Build.nfts[1])}
                                         \cup (ExpectedNfts \ {ExpectedNft(Build.nfts[1])})
           /\ UNCHANGED <<kind, subvaults, vaultNft>>
  <2>1. Current("createRootVault") /\ ScriptOK /\ pc # 0
    BY <1>5, Parts, AtStep DEF CreateRootVaultStep
  <2>2. At'.built = N + 1
    <3>1. Step.op = "createRootVault" /\ Fits(Step, At, N, Maker)
      BY <2>1, StageAt
    <3>2. Counted(Step) /\ At.built = N
      BY <3>1 DEF Fits, Counted
    <3> QED
      BY <1>3, <1>5, <2>1, <3>2, StageAdvances
  <2>3. ExpectedNft(Build.nfts[1]) \in ExpectedNfts
    BY <2>1, ExpectedIsNft DEF BInv
  <2>4. creating'.subvaults = ExpectedNfts
    BY <1>5, <2>3
  <2> QED
    BY <1>1, <1>3, <1>5, <2>1, <2>2, <2>4, SameScript DEF CombineInv
<1>6. CASE /\ UNCHANGED <<kind, subvaults, vaultNft>>
           /\ creating' = creating \/ (creating' # NoCreation /\ creating'.kind # "root")
  <2>1. CreatingRoot' => CreatingRoot /\ creating' = creating
    BY <1>6 DEF CreatingRoot
  <2>2. CASE ScriptRests
    BY <1>3, <1>6, <2>1, <2>2, StageRests, SameScript DEF ScriptRests, CombineInv
  <2>3. CASE pc' = 0
    <3>1. ~CreatingRoot'
      <4>1. CASE pc = 0
        BY <2>1, <4>1 DEF CombineInv
      <4>2. CASE EndRun
        <5>1. PathOK
          BY PathIsOK DEF BInv, ScriptTypeOK
        <5>2. At = Finish(Maker, N) /\ N \in Nat
          BY <4>2, <5>1 DEF EndRun, At, PathOK
        <5>3. At.built # N + 1
          <6>1. At \in {Stage(N + 6, 0, 2), Stage(N + 13, 4, 1), Stage(N + 6, 0, 1)}
            BY <5>2 DEF Finish
          <6>2. At.built \in {N + 6, N + 13}
            BY <5>2, <6>1, StageIsTyped
          <6> QED
            BY <5>2, <6>2
        <5> QED
          BY <2>1, <5>3 DEF CombineInv
      <4>3. CASE pc # 0 /\ ~EndRun
        <5>1. creating = NoCreation
          <6>1. CASE ScriptStep
            BY <4>3, <6>1
            DEF ScriptStep, CreateVaultStep, CreateRootVaultStep, ConfigureStep, PredictStep, CloneStep,
                DeployStep, DeployProxyStep, MulticallStep, RoleStep, ApproveStep, SendStep, PushStep,
                GiveStep, Current
          <6>2. CASE StartRun \/ ApproveAllStep \/ Crash \/ MineApproval
            BY <4>3, <6>2 DEF StartRun, ApproveAllStep, Crash, MineApproval
          <6>3. CASE LoseConfirmation \/ Others \/ FinishCreation \/ UNCHANGED buildVars
            BY <2>3, <4>3, <6>3
            DEF LoseConfirmation, Others, OtherVault, OtherStrategy, OtherPosition, OtherOwner,
                OthersCall, FinishCreation, buildVars, builderVars, scriptVars
          <6> QED
            BY <6>1, <6>2, <6>3 DEF BuildNext
        <5> QED
          BY <2>1, <5>1 DEF CreatingRoot
      <4> QED
        BY <4>1, <4>2, <4>3
    <3> QED
      BY <2>3, <3>1 DEF CombineInv
  <2>4. CASE ScriptMovesOn
    <3>1. pc # 0 /\ ~CreatingRoot
      BY <1>2, <2>4 DEF ScriptMovesOn
    <3> QED
      BY <1>3, <1>6, <2>1, <2>4, <3>1, SameScript DEF ScriptMovesOn, CombineInv
  <2>5. CASE StartRun
    <3>1. creating' = NoCreation /\ startNft' = topNft /\ UNCHANGED kind
      BY <2>5 DEF StartRun, vars, BInv, IInv, IndexInv, vaultVars
    <3>2. ASSUME NEW n \in Nft, kind[n] = "root"
          PROVE  ~(n >= topNft)
      <4>1. nftIndex[n] = n /\ n \in Vault /\ n # 0
        BY <3>2, HoldersAreNoVaults DEF RootsInv
      <4>2. vaultIndex[n] = n /\ n # NoOne
        BY <4>1, HoldersAreNoVaults, <3>2 DEF BInv, IInv, IndexInv
      <4>3. n < topNft /\ n \in Nat /\ topNft \in Nat
        BY <4>2, HoldersAreNoVaults DEF BInv, IInv, IndexInv
      <4> QED
        BY <4>3
    <3> QED
      BY <3>1, <3>2 DEF CombineInv, CreatingRoot
  <2> QED
    BY <2>2, <2>3, <2>4, <2>5, ScriptPace
<1> QED
  BY <1>4, <1>5, <1>6, CreationPace

-----------------------------------------------------------------------------
(* The root vault of a run is configured and given away one call after the *)
(* other, and what was done stays done.                                    *)
ConfOps == {"setStrategyParams", "stageDelayedStrategyParams", "commitDelayedStrategyParams",
            "addDepositorsToAllowlist"}
GivenTo == {mStrategyAdmin} \cup Destinations
Configured(root, b) ==
    /\ b > N + 1 => "setStrategyParams" \in configured[root]
    /\ b > N + 2 => "stageDelayedStrategyParams" \in configured[root]
    /\ b > N + 3 => "commitDelayedStrategyParams" \in configured[root]
    /\ b > N + 4 => "addDepositorsToAllowlist" \in configured[root] /\ kind[root] = "root"
    /\ b > N + 5 => ownerOf[root] \in GivenTo
ConfiguredInv ==
    /\ configured \in [Nft -> SUBSET ConfOps]
    /\ pc # 0 => Configured(ExpectedNft(0), At.built)

(* Nobody but the script takes its steps.                                  *)
LEMMA OnlyScriptAdvances ==
    ASSUME pc \in Nat \ {0}, pc' = pc + 1, [BuildNext]_buildVars
    PROVE  ScriptStep
<1>1. pc' # pc /\ pc' # 0 /\ pc # 0
  OBVIOUS
<1>2. ~LoseConfirmation /\ ~Others /\ ~FinishCreation /\ ~UNCHANGED buildVars
  BY <1>1
  DEF LoseConfirmation, Others, OtherVault, OtherStrategy, OtherPosition, OtherOwner, Throw, End,
      FinishCreation, buildVars, builderVars, scriptVars
<1>3. ~Crash
  BY <1>1 DEF Crash, Throw, End
<1>4. ~MineApproval
  BY <1>1 DEF MineApproval, Throw, End
<1>5. ~StartRun
  BY <1>1 DEF StartRun
<1>6. ~ApproveAllStep
  BY <1>1 DEF ApproveAllStep
<1> QED
  BY <1>2, <1>3, <1>4, <1>5, <1>6 DEF BuildNext

(* Calls that configure are the script's only.                             *)
LEMMA ConfigurePace ==
    ASSUME pc \in Nat, [BuildNext]_buildVars
    PROVE  \/ ConfigureStep /\ pc' = pc + 1
              /\ configured' = [configured EXCEPT ![ExpectedNft(Step.i)] = @ \cup {Step.op}]
           \/ configured' = configured
              /\ (pc # 0 /\ pc' = pc + 1 => \A op \in ConfOps : ~Current(op))
<1>1. CASE ScriptStep /\ ConfigureStep
  <2>1. CASE Continue /\ configured' = [configured EXCEPT ![ExpectedNft(Step.i)] = @ \cup {Step.op}]
    BY <1>1, <2>1 DEF Continue
  <2>2. CASE Throw("reverted")
    BY <2>2 DEF Throw, End
  <2> QED
    BY <1>1, <2>1, <2>2 DEF ConfigureStep
<1>2. CASE ScriptStep /\ ~ConfigureStep
  <2>1. configured' = configured
    BY <1>2
    DEF ScriptStep, EndRun, CreateVaultStep, CreateRootVaultStep, PredictStep, CloneStep, DeployStep,
        DeployProxyStep, MulticallStep, RoleStep, ApproveStep, SendStep, PushStep, GiveStep, Throw,
        builderVars
  <2>2. pc' = pc + 1 => \A op \in ConfOps : ~Current(op)
    <3>1. ASSUME pc' = pc + 1 PROVE ~EndRun
      BY <3>1 DEF EndRun, End
    <3>2. ASSUME NEW op \in ConfOps, Current(op)
          PROVE  /\ ~CreateVaultStep /\ ~CreateRootVaultStep /\ ~PredictStep /\ ~CloneStep /\ ~DeployStep
                 /\ ~DeployProxyStep /\ ~MulticallStep /\ ~RoleStep /\ ~ApproveStep /\ ~SendStep
                 /\ ~PushStep /\ ~GiveStep
      <4>1. Step.op \in ConfOps
        BY <3>2 DEF Current
      <4>2. \A o \in {"createVault", "createRootVault", "predict", "clone", "deploy", "deployProxy",
                      "multicall", "role", "approve", "sendApproval", "push", "give"} : ~Current(o)
        BY <4>1 DEF Current, ConfOps
      <4> QED
        BY <4>2
        DEF CreateVaultStep, CreateRootVaultStep, PredictStep, CloneStep, DeployStep, DeployProxyStep,
            MulticallStep, RoleStep, ApproveStep, SendStep, PushStep, GiveStep
    <3> QED
      BY <1>2, <3>1, <3>2 DEF ScriptStep
  <2> QED
    BY <2>1, <2>2
<1>3. CASE ~ScriptStep
  <2>1. pc # 0 => pc' # pc + 1
    BY <1>3, OnlyScriptAdvances
  <2>2. configured' = configured
    BY <1>3
    DEF BuildNext, ApproveAllStep, StartRun, LoseConfirmation, Crash, MineApproval, FinishCreation,
        Others, OtherVault, OtherStrategy, OtherPosition, OtherOwner, Throw, buildVars, builderVars
  <2> QED
    BY <2>1, <2>2
<1> QED
  BY <1>1, <1>2, <1>3

(* A root vault stays one.                                                 *)
LEMMA RootStaysRoot ==
    ASSUME BInv, RootsInv, [BuildNext]_buildVars, NEW n \in Nft, kind[n] = "root"
    PROVE  kind'[n] = "root"
<1>1. CASE FinishCreation
  <2> DEFINE v == Clone(creating.nft)
  <2>1. v \in Vault /\ vaultNft[v] = 0 /\ kind' = [kind EXCEPT ![v] = creating.kind]
    BY <1>1, HoldersAreNoVaults
    DEF FinishCreation, FinishIntegrationVault, FinishRootVault, Initialize, BInv, IInv, CreationInv, Clone
  <2>2. n # v
    BY <2>1, HoldersAreNoVaults DEF RootsInv
  <2> HIDE DEF v
  <2> QED
    BY <2>1, <2>2, HoldersAreNoVaults DEF RootsInv
<1> QED
  BY <1>1, CreationPace

(* What was given away is given on to those that transfers name only.      *)
LEMMA GivenStays ==
    ASSUME IInv, RegistryMoves, ~CreatingRoot, NEW n \in Nft, ownerOf[n] \in GivenTo
    PROVE  ownerOf'[n] \in GivenTo
<1>1. ownerOf \in [Nft -> Account \cup {NoOne}] /\ topNft \in Nat /\ ownerOf[n] # NoOne /\ n < topNft
      /\ n # topNft
  <2>1. ownerOf[n] \in Account /\ NoOne \notin Account
    BY Actors, InputAssumption, AddressAssumption DEF GivenTo
  <2> QED
    BY <2>1, HoldersAreNoVaults DEF IInv, OwnerInv, IndexInv
<1>2. ASSUME NEW s, NEW v, NEW u, Register(s, v, u) PROVE ownerOf'[n] = ownerOf[n]
  BY <1>1, <1>2 DEF Register
<1>3. CASE UNCHANGED ownerOf \/ FinishRootVault
  BY <1>3 DEF FinishRootVault, CreatingRoot
<1>4. CASE \/ \E u \in User : \E k, zero, rest, s : StartCreation(u, u, k, zero, rest, s)
           \/ \E u \in User, v \in Foreign : RegisterVault(u, v, u)
  BY <1>2, <1>4 DEF StartCreation, RegisterVault
<1>5. ASSUME NEW a, NEW to \in GivenTo, NEW m \in Nft, TransferFrom(a, to, m) PROVE ownerOf'[n] \in GivenTo
  BY <1>1, <1>5 DEF TransferFrom
<1>6. CASE OwnersMove
  <2>1. CASE \E a : \E to \in GivenTo, m \in Nft : TransferFrom(a, to, m)
    BY <1>5, <2>1
  <2>2. CASE (\E a, to, m : Approve(a, to, m)) \/ (\E a, m : LockNft(a, m))
    BY <1>3, <2>2 DEF Approve, LockNft
  <2> QED
    BY <1>6, <2>1, <2>2 DEF OwnersMove, GivenTo
<1>7. CASE UNCHANGED vars \/ SetApprovalForAll(deployer, Governance, TRUE) \/ FinishIntegrationVault
  BY <1>3, <1>7 DEF vars, ownerVars, SetApprovalForAll, FinishIntegrationVault
<1> QED
  BY <1>3, <1>4, <1>6, <1>7 DEF RegistryMoves

LEMMA NextConfiguredIsTyped ==
    ASSUME BInv, ConfiguredInv, [BuildNext]_buildVars
    PROVE  configured' \in [Nft -> SUBSET ConfOps] /\ \A n \in Nft : configured[n] \subseteq configured'[n]
<1>1. pc \in Nat
  BY DEF BInv, ScriptTypeOK
<1>2. CASE ConfigureStep
           /\ configured' = [configured EXCEPT ![ExpectedNft(Step.i)] = @ \cup {Step.op}]
  <2>1. PICK op \in ConfOps : Current(op)
    BY <1>2 DEF ConfigureStep, ConfOps
  <2>2. op # "role"
    BY DEF ConfOps
  <2>3. Step.op \in ConfOps /\ ExpectedNft(Step.i) \in Nft
    BY <2>1, <2>2, Parts, AtStep
  <2> QED
    BY <1>2, <2>3 DEF ConfiguredInv
<1> QED
  BY <1>1, <1>2, ConfigurePace DEF ConfiguredInv

(* A call on the root vault that succeeds has configured it.               *)
LEMMA StepConfigures ==
    ASSUME BInv, OwnersInv, RootsInv, StageInv, ConfiguredInv, NEW op \in ConfOps, Current(op),
           ConfigureStep, configured' = [configured EXCEPT ![ExpectedNft(Step.i)] = @ \cup {Step.op}],
           UNCHANGED kind, Step.i = 0, pc' = pc + 1
    PROVE  /\ op \in configured'[ExpectedNft(0)]
           /\ op = "addDepositorsToAllowlist" => kind'[ExpectedNft(0)] = "root"
<1> DEFINE root == ExpectedNft(0)
<1>1. Step.op = op /\ root \in Nft /\ pc # 0
  <2>1. op # "role"
    BY DEF ConfOps
  <2> QED
    BY <2>1, Parts, AtStep
<1>2. op \in configured'[root]
  BY <1>1 DEF ConfiguredInv
<1>3. ~Throw("reverted")
  BY <1>1 DEF Throw, End, BInv, ScriptTypeOK
<1>4. deployer \in {ownerOf[root], getApproved[root]}
      /\ (op = "addDepositorsToAllowlist" => kind[vaultIndex[root]] = "root")
  BY <1>1, <1>3 DEF ConfigureStep
<1> HIDE DEF root
<1>5. ASSUME op = "addDepositorsToAllowlist" PROVE kind[root] = "root"
  <2>1. vaultIndex[root] # NoOne
    BY <1>1, <1>4, HoldersAreNoVaults, Actors DEF OwnersInv
  <2>2. vaultIndex[root] \in Vault /\ nftIndex[vaultIndex[root]] = root
    BY <1>1, <2>1 DEF BInv, IInv, IndexInv
  <2> QED
    BY <1>4, <1>5, <2>2 DEF RootsInv
<1> QED
  BY <1>2, <1>5 DEF root

(* The calls on the root vault, one after the other, through every step.   *)
LEMMA NextConfigured ==
    ASSUME BInv, OwnersInv, RootsInv, SentInv, StageInv, CombineInv, ConfiguredInv, [BuildNext]_buildVars
    PROVE  ConfiguredInv'
<1> DEFINE root == ExpectedNft(0)
<1>1. /\ configured' \in [Nft -> SUBSET ConfOps] /\ \A n \in Nft : configured[n] \subseteq configured'[n]
      /\ pc \in Nat /\ plan' = plan /\ RegistryMoves
  BY NextConfiguredIsTyped, ScriptPace, RegistryStep DEF BInv, ScriptTypeOK
<1>2. PathOK /\ ScriptOK /\ N \in Nat \ {0}
  BY PathIsOK, PlansAreOK DEF BInv, ScriptTypeOK, PathOK
<1>3. pc # 0 => root \in Nft
  BY <1>2, ExpectedIsNft DEF BInv, ScriptOK
<1>4. startNft' = startNft => root' = root /\ N' = N
  BY <1>1, <1>2, SameScript
<1>5. pc # 0 /\ At.built > N + 5 /\ ownerOf[root] \in GivenTo => ownerOf'[root] \in GivenTo
  <2>1. pc # 0 /\ At.built > N + 5 => At.built # N + 1
    BY <1>2
  <2> QED
    BY <1>1, <1>3, <2>1, GivenStays DEF BInv, CombineInv
<1>6. pc # 0 /\ kind[root] = "root" => kind'[root] = "root"
  BY <1>3, RootStaysRoot
<1> HIDE DEF root
<1>7. ASSUME pc # 0, root' = root, N' = N, At'.built = At.built
      PROVE  Configured(root, At.built)'
  BY <1>1, <1>3, <1>5, <1>6, <1>7 DEF Configured, ConfiguredInv, root
<1>8. CASE ScriptRests
  BY <1>1, <1>4, <1>7, <1>8, StageRests DEF ScriptRests, ConfiguredInv, root
<1>9. CASE StartRun
  <2>1. At'.built = 0 /\ N' = N
    BY <1>1, <1>9, StageStarts, SameScript DEF StartRun
  <2> QED
    BY <1>1, <1>2, <2>1 DEF ConfiguredInv, Configured
<1>10. CASE ScriptMovesOn
  <2>1. PICK op : Current(op)
    BY <1>10 DEF ScriptMovesOn
  <2>2. /\ pc' = pc + 1 /\ root' = root /\ N' = N /\ pc # 0 /\ Step.op = op
        /\ At.built \in Nat /\ Fits(Step, At, N, Maker) /\ Step.i \in Nat
        /\ At'.built = IF Counted(Step) THEN At.built + 1 ELSE At.built
    BY <1>1, <1>4, <1>10, <2>1, StageAt, StageAdvances DEF ScriptMovesOn
  <2>3. CASE ~Counted(Step)
    BY <1>1, <1>7, <2>2, <2>3 DEF ConfiguredInv, root
  <2>4. CASE Counted(Step) /\ op \in ConfOps
    <3>1. /\ ConfigureStep
          /\ configured' = [configured EXCEPT ![ExpectedNft(Step.i)] = @ \cup {Step.op}]
      BY <1>1, <2>1, <2>2, <2>4, ConfigurePace
    <3>2. Step.i = 0
      BY <2>2, <2>4 DEF Fits, Counted, ConfOps
    <3>3. UNCHANGED kind
      BY <3>1 DEF ConfigureStep, Throw, vars, vaultVars
    <3>4. /\ op \in configured'[root]
          /\ op = "addDepositorsToAllowlist" => kind'[root] = "root"
      BY <2>1, <2>2, <2>4, <3>1, <3>2, <3>3, StepConfigures DEF root
    <3>5. /\ op = "setStrategyParams" => At.built = N + 1
          /\ op = "stageDelayedStrategyParams" => At.built = N + 2
          /\ op = "commitDelayedStrategyParams" => At.built = N + 3
          /\ op = "addDepositorsToAllowlist" => At.built = N + 4
      BY <2>2, <3>2 DEF Fits
    <3>6. At'.built = At.built + 1 /\ configured[root] \subseteq configured'[root]
          /\ Configured(root, At.built)
      BY <1>1, <1>3, <2>2, <2>4 DEF ConfiguredInv, root
    <3>7. Configured(root, At.built)'
      BY <1>2, <1>6, <2>2, <2>4, <3>4, <3>5, <3>6 DEF Configured, ConfOps
    <3> QED
      BY <1>1, <3>7 DEF ConfiguredInv, root
  <2>5. CASE Counted(Step) /\ op \in {"createVault", "createRootVault"}
    <3>1. At'.built <= N + 1
      BY <1>2, <2>2, <2>5 DEF Fits
    <3> QED
      BY <1>1, <1>2, <2>2, <3>1 DEF ConfiguredInv, Configured
  <2>6. CASE op = "give"
    <3>1. ScriptStep /\ pc' # 0
      BY <1>1, <2>2, OnlyScriptAdvances
    <3>2. GiveStep
      BY <2>1, <2>2, <2>6, <3>1
      DEF ScriptStep, EndRun, End, CreateVaultStep, CreateRootVaultStep, ConfigureStep, PredictStep,
          CloneStep, DeployStep, DeployProxyStep, MulticallStep, RoleStep, ApproveStep, SendStep, PushStep,
          Current
    <3>3. ownerOf'[root] = mStrategyAdmin
      <4>1. TransferFrom(deployer, mStrategyAdmin, root)
        BY <3>1, <3>2 DEF GiveStep, Throw, End, root
      <4> QED
        BY <1>3, <2>2, <4>1 DEF TransferFrom, BInv, IInv, OwnerInv
    <3>4. At.built = N + 5 /\ At'.built = N + 6
      BY <1>2, <2>2, <2>6 DEF Fits, Counted
    <3>5. Configured(root, At.built) /\ configured[root] \subseteq configured'[root]
      BY <1>1, <1>3, <2>2 DEF ConfiguredInv, root
    <3>6. Configured(root, At.built)'
      BY <1>2, <1>6, <2>2, <3>3, <3>4, <3>5 DEF Configured, GivenTo
    <3> QED
      BY <1>1, <3>6 DEF ConfiguredInv, root
  <2>7. CASE op = "role"
    <3>1. At.built > N + 5 /\ At'.built > N + 5
      BY <1>2, <2>2, <2>7 DEF Fits
    <3>2. Configured(root, At.built) /\ configured[root] \subseteq configured'[root]
      BY <1>1, <1>3, <2>2 DEF ConfiguredInv, root
    <3>3. Configured(root, At.built)'
      BY <1>2, <1>5, <1>6, <2>2, <3>1, <3>2 DEF Configured
    <3> QED
      BY <1>1, <3>3 DEF ConfiguredInv, root
  <2> QED
    BY <2>2, <2>3, <2>4, <2>5, <2>6, <2>7 DEF Counted, ConfOps
<1>11. CASE pc' = 0
  BY <1>1, <1>11 DEF ConfiguredInv
<1> QED
  BY <1>8, <1>9, <1>10, <1>11, ScriptPace

-----------------------------------------------------------------------------
(* What a role holder's calls make of the roles, and what the deployer has *)
(* of them before the v-th step of LStrategy's script.                     *)
Typed(held) == \A r \in held : r = <<r[1], r[2]>>
DeployerHas(held, own) ==
    /\ Typed(held) /\ \A r \in held : r[2] = deployer => r[1] \in own
    /\ \A q \in own : <<q, deployer>> \in held
HandedTo(held) ==
    /\ <<"ADMIN_ROLE", mStrategyAdmin>> \in held
    /\ \A r \in held : r[2] = deployer => r[1] = "OPERATOR"
OwnRoles(v) ==
    IF v <= N + 8 THEN {"ADMIN_ROLE", "OPERATOR"} ELSE
    IF v <= N + 10 THEN {"ADMIN_ROLE", "OPERATOR", "ADMIN_DELEGATE_ROLE"} ELSE
    IF v = N + 11 THEN {"ADMIN_ROLE", "ADMIN_DELEGATE_ROLE"} ELSE
    IF v = N + 12 THEN {"ADMIN_ROLE"} ELSE {}

LEMMA CallIsAlone ==
    ASSUME NEW held, NEW c
    PROVE  /\ MayCallRole(held, c) => Called({held}, c) = {CalledRole(held, c)}
           /\ ~MayCallRole(held, c) => Called({held}, c) = {}
           /\ Called({}, c) = {}
BY DEF Called

LEMMA FirstRolesHave == DeployerHas(FirstRoles(deployer), {"ADMIN_ROLE", "OPERATOR"})
BY DEF FirstRoles, DeployerHas, Typed

(* What a call leaves the deployer, and which he may make.                 *)
LEMMA CallsGive ==
    ASSUME NEW held, NEW own, DeployerHas(held, own), NEW role
    PROVE  /\ DeployerHas(CalledRole(held, Grant(role, mStrategyAdmin)), own)
           /\ DeployerHas(CalledRole(held, Grant(role, deployer)), own \cup {role})
           /\ DeployerHas(CalledRole(held, Revoke(role)), own \ {role})
<1>1. mStrategyAdmin # deployer
  BY Actors
<1>2. \A a : CalledRole(held, Grant(role, a)) = held \cup {<<role, a>>}
  BY DEF CalledRole, Grant
<1>3. CalledRole(held, Revoke(role)) = held \ {<<role, deployer>>}
  BY DEF CalledRole, Revoke
<1>4. \A r \in held : r = <<r[1], r[2]>> /\ (r[2] = deployer => r[1] \in own)
  BY DEF DeployerHas, Typed
<1>5. \A q \in own : <<q, deployer>> \in held
  BY DEF DeployerHas
<1>6. \A a : <<role, a>>[1] = role /\ <<role, a>>[2] = a
  OBVIOUS
<1>7. DeployerHas(held \cup {<<role, mStrategyAdmin>>}, own)
  BY <1>1, <1>4, <1>5, <1>6 DEF DeployerHas, Typed
<1>8. DeployerHas(held \cup {<<role, deployer>>}, own \cup {role})
  BY <1>4, <1>5, <1>6 DEF DeployerHas, Typed
<1>9. DeployerHas(held \ {<<role, deployer>>}, own \ {role})
  <2>1. \A r \in held \ {<<role, deployer>>} : r[2] = deployer => r[1] # role
    BY <1>4
  <2>2. \A q \in own \ {role} : <<q, deployer>> # <<role, deployer>>
    OBVIOUS
  <2> QED
    BY <1>4, <1>5, <2>1, <2>2 DEF DeployerHas, Typed
<1> QED
  BY <1>2, <1>3, <1>7, <1>8, <1>9

LEMMA MayCall ==
    ASSUME NEW held, NEW own, DeployerHas(held, own), NEW a
    PROVE  /\ "ADMIN_ROLE" \in own =>
                 /\ MayCallRole(held, Grant("ADMIN_ROLE", a))
                 /\ MayCallRole(held, Grant("ADMIN_DELEGATE_ROLE", a))
                 /\ MayCallRole(held, Revoke("ADMIN_ROLE"))
                 /\ MayCallRole(held, Revoke("ADMIN_DELEGATE_ROLE"))
           /\ "ADMIN_DELEGATE_ROLE" \in own =>
                 /\ MayCallRole(held, Grant("OPERATOR", a))
                 /\ MayCallRole(held, Revoke("OPERATOR"))
<1>1. \A role : Grant(role, a).role = role /\ Revoke(role).role = role
  BY DEF Grant, Revoke
<1>2. \A q \in own : <<q, deployer>> \in held
  BY DEF DeployerHas
<1> QED
  BY <1>1, <1>2 DEF MayCallRole, AdminOf

(* Multicalls of the two lengths the plans have, call by call.             *)
LEMMA MulticallOfTwo ==
    ASSUME NEW held, NEW cs, Len(cs) = 2
    PROVE  MulticallRoles(held, cs) = Called(Called({held}, cs[1]), cs[2])
<1> DEFINE n == Len(cs)
<1>1. n = 2
  OBVIOUS
<1>2. (\E after : RolesAfter(after, held, cs, n)) =>
         \E after : RolesAfter(after, held, cs, n) /\ MulticallRoles(held, cs) = after[n]
  BY MulticallIsSequence
<1> HIDE DEF n
<1>3. PICK after : RolesAfter(after, held, cs, 2) /\ MulticallRoles(held, cs) = after[2]
  BY <1>1, <1>2, RolesAfterTwo
<1>4. /\ after[0] = {held} /\ after[1] = Called(after[1 - 1], cs[1])
      /\ after[2] = Called(after[2 - 1], cs[2])
  BY <1>3 DEF RolesAfter
<1> QED
  BY <1>3, <1>4

LEMMA MulticallOfFive ==
    ASSUME NEW held, NEW cs, Len(cs) = 5
    PROVE  MulticallRoles(held, cs) =
             Called(Called(Called(Called(Called({held}, cs[1]), cs[2]), cs[3]), cs[4]), cs[5])
<1> DEFINE n == Len(cs)
<1>1. n = 5
  OBVIOUS
<1>2. (\E after : RolesAfter(after, held, cs, n)) =>
         \E after : RolesAfter(after, held, cs, n) /\ MulticallRoles(held, cs) = after[n]
  BY MulticallIsSequence
<1> HIDE DEF n
<1>3. PICK after : RolesAfter(after, held, cs, 5) /\ MulticallRoles(held, cs) = after[5]
  BY <1>1, <1>2, RolesAfterFive
<1>4. /\ after[0] = {held} /\ after[1] = Called(after[1 - 1], cs[1])
      /\ after[2] = Called(after[2 - 1], cs[2]) /\ after[3] = Called(after[3 - 1], cs[3])
      /\ after[4] = Called(after[4 - 1], cs[4]) /\ after[5] = Called(after[5 - 1], cs[5])
  BY <1>3 DEF RolesAfter
<1>5. /\ 1 - 1 = 0 /\ 2 - 1 = 1 /\ 3 - 1 = 2 /\ 4 - 1 = 3 /\ 5 - 1 = 4
  OBVIOUS
<1> QED
  BY <1>3, <1>4, <1>5

(* A multicall of the strategy's maker succeeds and hands the strategy     *)
(* over; nobody else's succeeds.                                           *)
LEMMA MulticallNeedsAdmin ==
    ASSUME NEW held, NEW cs \in {AdminAlone, AdminLast}, <<"ADMIN_ROLE", deployer>> \notin held
    PROVE  MulticallRoles(held, cs) = {}
<1>1. ~MayCallRole(held, cs[1])
  <2>1. cs[1].role \in {"ADMIN_ROLE", "ADMIN_DELEGATE_ROLE"}
    BY DEF AdminAlone, AdminLast, Grant
  <2> QED
    BY <2>1 DEF MayCallRole, AdminOf
<1>2. Called({held}, cs[1]) = {} /\ \A c : Called({}, c) = {}
  BY <1>1, CallIsAlone
<1>3. CASE cs = AdminAlone
  <2>1. Len(cs) = 2
    BY <1>3 DEF AdminAlone
  <2> QED
    BY <1>2, <2>1, MulticallOfTwo
<1>4. CASE cs = AdminLast
  <2>1. Len(cs) = 5
    BY <1>4 DEF AdminLast
  <2>2. MulticallRoles(held, cs) =
          Called(Called(Called(Called(Called({held}, cs[1]), cs[2]), cs[3]), cs[4]), cs[5])
    BY <2>1, MulticallOfFive
  <2>3. /\ Called(Called({held}, cs[1]), cs[2]) = {} /\ Called({}, cs[3]) = {}
        /\ Called({}, cs[4]) = {} /\ Called({}, cs[5]) = {}
    BY <1>2
  <2> QED
    BY <2>2, <2>3
<1> QED
  BY <1>3, <1>4

LEMMA MulticallFromFirst ==
    ASSUME NEW cs \in {AdminAlone, AdminLast}
    PROVE  /\ MulticallRoles(FirstRoles(deployer), cs) # {}
           /\ \A h \in MulticallRoles(FirstRoles(deployer), cs) : HandedTo(h)
<1> DEFINE h0 == FirstRoles(deployer)
           h1 == CalledRole(h0, cs[1])
           h2 == CalledRole(h1, cs[2])
           h3 == CalledRole(h2, cs[3])
           h4 == CalledRole(h3, cs[4])
           h5 == CalledRole(h4, cs[5])
           A == "ADMIN_ROLE"
           D == "ADMIN_DELEGATE_ROLE"
           O == "OPERATOR"
<1>1. DeployerHas(h0, {A, O})
  BY FirstRolesHave
<1> HIDE DEF h0
<1>2. CASE cs = AdminAlone
  <2>1. Len(cs) = 2 /\ cs[1] = Grant(A, mStrategyAdmin) /\ cs[2] = Revoke(A)
    BY <1>2 DEF AdminAlone
  <2>2. MayCallRole(h0, cs[1]) /\ DeployerHas(h1, {A, O})
    BY <1>1, <2>1, CallsGive, MayCall
  <2>3. MayCallRole(h1, cs[2]) /\ DeployerHas(h2, {O})
    <3> HIDE DEF h1
    <3>1. {A, O} \ {A} = {O}
      OBVIOUS
    <3>2. MayCallRole(h1, cs[2])
      BY <2>1, <2>2, MayCall
    <3>3. DeployerHas(h2, {A, O} \ {A})
      BY <2>1, <2>2, CallsGive
    <3> QED
      BY <3>1, <3>2, <3>3
  <2>4. <<A, mStrategyAdmin>> \in h2
    BY <2>1, AdminGranted, CallKeepsAdmin, RevokesAreDeployers
  <2>5. MulticallRoles(h0, cs) = {h2}
    <3>1. Called({h0}, cs[1]) = {h1}
      BY <2>2, CallIsAlone
    <3> HIDE DEF h1
    <3>2. Called({h1}, cs[2]) = {h2}
      BY <2>3, CallIsAlone
    <3>3. MulticallRoles(h0, cs) = Called(Called({h0}, cs[1]), cs[2])
      BY <2>1, MulticallOfTwo
    <3> QED
      BY <3>1, <3>2, <3>3
  <2> HIDE DEF h2
  <2> QED
    BY <2>3, <2>4, <2>5 DEF HandedTo, DeployerHas, h0
<1>3. CASE cs = AdminLast
  <2>1. /\ Len(cs) = 5 /\ cs[1] = Grant(D, deployer) /\ cs[2] = Grant(A, mStrategyAdmin)
        /\ cs[3] = Revoke(O) /\ cs[4] = Revoke(D) /\ cs[5] = Revoke(A)
    BY <1>3 DEF AdminLast
  <2>2. MayCallRole(h0, cs[1]) /\ DeployerHas(h1, {A, O} \cup {D})
    BY <1>1, <2>1, CallsGive, MayCall
  <2> HIDE DEF h1
  <2>3. MayCallRole(h1, cs[2]) /\ DeployerHas(h2, {A, O} \cup {D}) /\ <<A, mStrategyAdmin>> \in h2
    BY <2>1, <2>2, CallsGive, MayCall, AdminGranted
  <2> HIDE DEF h2
  <2>4. MayCallRole(h2, cs[3]) /\ DeployerHas(h3, ({A, O} \cup {D}) \ {O}) /\ <<A, mStrategyAdmin>> \in h3
    BY <2>1, <2>3, CallsGive, MayCall, CallKeepsAdmin, RevokesAreDeployers
  <2> HIDE DEF h3
  <2>5. ({A, O} \cup {D}) \ {O} = {A, D} /\ {A, D} \ {D} = {A} /\ {A} \ {A} = {}
    OBVIOUS
  <2>6. MayCallRole(h3, cs[4]) /\ DeployerHas(h4, {A}) /\ <<A, mStrategyAdmin>> \in h4
    BY <2>1, <2>4, <2>5, CallsGive, MayCall, CallKeepsAdmin, RevokesAreDeployers
  <2> HIDE DEF h4
  <2>7. MayCallRole(h4, cs[5]) /\ DeployerHas(h5, {}) /\ <<A, mStrategyAdmin>> \in h5
    BY <2>1, <2>5, <2>6, CallsGive, MayCall, CallKeepsAdmin, RevokesAreDeployers
  <2>8. MulticallRoles(h0, cs) = {h5}
    <3>1. Called({h0}, cs[1]) = {h1}
      BY <2>2, CallIsAlone DEF h1
    <3>2. Called({h1}, cs[2]) = {h2}
      BY <2>3, CallIsAlone DEF h2
    <3>3. Called({h2}, cs[3]) = {h3}
      BY <2>4, CallIsAlone DEF h3
    <3>4. Called({h3}, cs[4]) = {h4}
      BY <2>6, CallIsAlone DEF h4
    <3>5. Called({h4}, cs[5]) = {h5}
      BY <2>7, CallIsAlone
    <3>6. MulticallRoles(h0, cs) =
            Called(Called(Called(Called(Called({h0}, cs[1]), cs[2]), cs[3]), cs[4]), cs[5])
      BY <2>1, MulticallOfFive
    <3> HIDE DEF h5
    <3> QED
      BY <3>1, <3>2, <3>3, <3>4, <3>5, <3>6
  <2> HIDE DEF h5
  <2> QED
    BY <2>7, <2>8 DEF HandedTo, DeployerHas, h0
<1> QED
  BY <1>2, <1>3

(* The calls of LStrategy's script: each is allowed, and leads to the next. *)
LEMMA RoleCallsGo ==
    ASSUME N \in Nat, NEW i \in 1..7, NEW held, DeployerHas(held, OwnRoles(N + 5 + i)),
           i # 1 => <<"ADMIN_ROLE", mStrategyAdmin>> \in held
    PROVE  /\ MayCallRole(held, LStrategyRoles[i])
           /\ DeployerHas(CalledRole(held, LStrategyRoles[i]), OwnRoles(N + 5 + i + 1))
           /\ <<"ADMIN_ROLE", mStrategyAdmin>> \in CalledRole(held, LStrategyRoles[i])
<1> DEFINE A == "ADMIN_ROLE"
           D == "ADMIN_DELEGATE_ROLE"
           O == "OPERATOR"
<1>1. /\ LStrategyRoles[1] = Grant(A, mStrategyAdmin) /\ LStrategyRoles[2] = Grant(D, mStrategyAdmin)
      /\ LStrategyRoles[3] = Grant(D, deployer) /\ LStrategyRoles[4] = Grant(O, mStrategyAdmin)
      /\ LStrategyRoles[5] = Revoke(O) /\ LStrategyRoles[6] = Revoke(D) /\ LStrategyRoles[7] = Revoke(A)
  BY DEF LStrategyRoles
<1>2. /\ OwnRoles(N + 5 + 1) = {A, O} /\ OwnRoles(N + 5 + 2) = {A, O} /\ OwnRoles(N + 5 + 3) = {A, O}
      /\ OwnRoles(N + 5 + 4) = {A, O, D} /\ OwnRoles(N + 5 + 5) = {A, O, D} /\ OwnRoles(N + 5 + 6) = {A, D}
      /\ OwnRoles(N + 5 + 7) = {A} /\ OwnRoles(N + 5 + 8) = {}
  BY DEF OwnRoles
<1>3. /\ {A, O} \cup {D} = {A, O, D} /\ {A, O, D} \ {O} = {A, D} /\ {A, D} \ {D} = {A} /\ {A} \ {A} = {}
  OBVIOUS
<1>4. <<"ADMIN_ROLE", mStrategyAdmin>> \in CalledRole(held, LStrategyRoles[i])
  <2>1. CASE i = 1
    BY <1>1, <2>1, AdminGranted
  <2>2. CASE i # 1
    <3>1. LStrategyRoles[i].op # "grant" => LStrategyRoles[i].to = deployer
      BY LStrategyRolesKeepAdmin
    <3> QED
      BY <2>2, <3>1, CallKeepsAdmin
  <2> QED
    BY <2>1, <2>2
<1>5. CASE i = 1
  <2>1. N + 5 + i + 1 = N + 5 + 2
    BY <1>5
  <2>2. MayCallRole(held, LStrategyRoles[i])
    BY <1>1, <1>2, <1>5, MayCall
  <2>3. DeployerHas(CalledRole(held, LStrategyRoles[i]), OwnRoles(N + 5 + 2))
    BY <1>1, <1>2, <1>5, CallsGive
  <2> QED
    BY <1>4, <2>1, <2>2, <2>3
<1>6. CASE i = 2
  <2>1. N + 5 + i + 1 = N + 5 + 3
    BY <1>6
  <2>2. MayCallRole(held, LStrategyRoles[i])
    BY <1>1, <1>2, <1>6, MayCall
  <2>3. DeployerHas(CalledRole(held, LStrategyRoles[i]), OwnRoles(N + 5 + 3))
    BY <1>1, <1>2, <1>6, CallsGive
  <2> QED
    BY <1>4, <2>1, <2>2, <2>3
<1>7. CASE i = 3
  <2>1. N + 5 + i + 1 = N + 5 + 4
    BY <1>7
  <2>2. MayCallRole(held, LStrategyRoles[i])
    BY <1>1, <1>2, <1>7, MayCall
  <2>3. DeployerHas(CalledRole(held, LStrategyRoles[i]), OwnRoles(N + 5 + 4))
    BY <1>1, <1>2, <1>3, <1>7, CallsGive, SMTT(30)
  <2> QED
    BY <1>4, <2>1, <2>2, <2>3
<1>8. CASE i = 4
  <2>1. N + 5 + i + 1 = N + 5 + 5
    BY <1>8
  <2>2. MayCallRole(held, LStrategyRoles[i])
    BY <1>1, <1>2, <1>8, MayCall
  <2>3. DeployerHas(CalledRole(held, LStrategyRoles[i]), OwnRoles(N + 5 + 5))
    BY <1>1, <1>2, <1>8, CallsGive
  <2> QED
    BY <1>4, <2>1, <2>2, <2>3
<1>9. CASE i = 5
  <2>1. N + 5 + i + 1 = N + 5 + 6
    BY <1>9
  <2>2. MayCallRole(held, LStrategyRoles[i])
    BY <1>1, <1>2, <1>9, MayCall
  <2>3. DeployerHas(CalledRole(held, LStrategyRoles[i]), OwnRoles(N + 5 + 6))
    BY <1>1, <1>2, <1>3, <1>9, CallsGive
  <2> QED
    BY <1>4, <2>1, <2>2, <2>3
<1>10. CASE i = 6
  <2>1. N + 5 + i + 1 = N + 5 + 7
    BY <1>10
  <2>2. MayCallRole(held, LStrategyRoles[i])
    BY <1>1, <1>2, <1>10, MayCall
  <2>3. DeployerHas(CalledRole(held, LStrategyRoles[i]), OwnRoles(N + 5 + 7))
    BY <1>1, <1>2, <1>3, <1>10, CallsGive
  <2> QED
    BY <1>4, <2>1, <2>2, <2>3
<1>11. CASE i = 7
  <2>1. N + 5 + i + 1 = N + 5 + 8
    BY <1>11
  <2>2. MayCallRole(held, LStrategyRoles[i])
    BY <1>1, <1>2, <1>11, MayCall
  <2>3. DeployerHas(CalledRole(held, LStrategyRoles[i]), OwnRoles(N + 5 + 8))
    BY <1>1, <1>2, <1>3, <1>11, CallsGive
  <2> QED
    BY <1>4, <2>1, <2>2, <2>3
<1> QED
  BY <1>5, <1>6, <1>7, <1>8, <1>9, <1>10, <1>11

-----------------------------------------------------------------------------
(* The roles in the run's strategy: a clone that was made for the run's    *)
(* vaults is the deployer's until a multicall hands it over; in a strategy *)
(* deployed for the run, the deployer has what its script says.            *)
RoleInv ==
    pc # 0 =>
        /\ At.hand = 0 => At.built <= N
        /\ Makes("clone") /\ At.hand = 1 /\ vaultsOf[saved] # {} =>
              roles[saved] = FirstRoles(deployer) \/ <<"ADMIN_ROLE", deployer>> \notin roles[saved]
        /\ Makes("clone") /\ At.hand > 1 /\ vaultsOf[saved] # {} => HandedTo(roles[saved])
        /\ Makes("deploy") /\ At.hand # 0 =>
              /\ DeployerHas(roles[saved], OwnRoles(At.built))
              /\ At.built > N + 6 => <<"ADMIN_ROLE", mStrategyAdmin>> \in roles[saved]

(* What happens to the roles of a strategy that a run has made.            *)
LEMMA RolesPace ==
    ASSUME BInv, pc > MakerAt, pc' # 0, [BuildNext]_buildVars
    PROVE  /\ saved' = saved /\ saved \in Strategy /\ vaultsOf'[saved] = vaultsOf[saved]
           /\ \/ roles'[saved] = roles[saved]
                 /\ (pc' = pc + 1 => ~Current("multicall") /\ ~Current("role"))
              \/ /\ Current("multicall") /\ (pc' = pc + 1 \/ LoseConfirmation)
                 /\ roles'[saved] \in MulticallRoles(roles[saved], Build.roles)
              \/ Current("role") /\ pc' = pc + 1 /\ roles'[saved] = CalledRole(roles[saved], Build.roles[Step.i])
<1>1. /\ pc \in Nat /\ ScriptOK /\ MakerAt \in Nat \ {0} /\ roles = [s \in Strategy |-> roles[s]]
  BY PlansAreOK DEF BInv, ScriptTypeOK, ScriptOK, MakerOK
<1>2. saved \in Made /\ saved \in Strategy /\ pc # 0
  BY <1>1, Addresses DEF BInv, SavedInv
<1>3. \A op \in MakerOps \cup {"predict"} : ~Current(op)
  BY <1>1 DEF Current, ScriptOK, StepOK, Step
<1>4. ASSUME NEW held, roles' = [roles EXCEPT ![saved] = held]
      PROVE  roles'[saved] = held
  BY <1>1, <1>2, <1>4
<1>5. CASE ScriptStep
  <2>1. ~PredictStep /\ ~CloneStep /\ ~DeployStep /\ ~DeployProxyStep
    BY <1>3 DEF PredictStep, CloneStep, DeployStep, DeployProxyStep, MakerOps
  <2>2. CASE EndRun
    BY <2>2 DEF EndRun, End
  <2>3. CASE CreateVaultStep \/ CreateRootVaultStep \/ ConfigureStep
    <3>1. UNCHANGED <<strategyVars, saved>> /\ ~Current("multicall") /\ ~Current("role")
      BY <2>3 DEF CreateVaultStep, CreateRootVaultStep, ConfigureStep, Throw, End, Current
    <3> QED
      BY <1>2, <3>1 DEF strategyVars
  <2>4. CASE ApproveStep \/ SendStep \/ PushStep \/ GiveStep
    <3>1. UNCHANGED <<strategyVars, saved>> /\ ~Current("multicall") /\ ~Current("role")
      BY <2>4 DEF ApproveStep, SendStep, PushStep, GiveStep, Throw, End, Current
    <3> QED
      BY <1>2, <3>1 DEF strategyVars
  <2>5. CASE MulticallStep
    <3>1. CASE UNCHANGED <<vars, builderVars>>
      BY <1>1, <1>2, <3>1 DEF builderVars, strategyVars, scriptVars
    <3>2. CASE \E why : Throw(why)
      BY <3>2 DEF Throw, End
    <3>3. ASSUME NEW held \in MulticallRoles(roles[saved], Build.roles), Continue,
                 roles' = [roles EXCEPT ![saved] = held], UNCHANGED <<vaultsOf, saved>>
          PROVE  /\ pc' = pc + 1 /\ saved' = saved /\ vaultsOf'[saved] = vaultsOf[saved]
                 /\ roles'[saved] \in MulticallRoles(roles[saved], Build.roles)
      BY <1>4, <3>3 DEF Continue
    <3> QED
      BY <1>2, <2>5, <3>1, <3>2, <3>3 DEF MulticallStep
  <2>6. CASE RoleStep
    <3> DEFINE held == CalledRole(roles[saved], Build.roles[Step.i])
    <3>1. CASE roles' = [roles EXCEPT ![saved] = held] /\ UNCHANGED <<vaultsOf, saved>>
      BY <1>2, <1>4, <2>6, <3>1 DEF RoleStep, Throw, End, Continue
    <3>2. CASE \E why : Throw(why)
      BY <3>2 DEF Throw, End
    <3> QED
      BY <2>6, <3>1, <3>2 DEF RoleStep
  <2> QED
    BY <1>5, <2>1, <2>2, <2>3, <2>4, <2>5, <2>6 DEF ScriptStep
<1>6. ~ScriptStep => pc' # pc + 1
  BY <1>1, <1>2, OnlyScriptAdvances
<1>7. CASE LoseConfirmation
  <2>1. PICK held \in MulticallRoles(roles[saved], Build.roles) : roles' = [roles EXCEPT ![saved] = held]
    BY <1>7 DEF LoseConfirmation
  <2> QED
    BY <1>2, <1>4, <1>7, <2>1 DEF LoseConfirmation, scriptVars
<1>8. CASE OtherStrategy
  <2> DEFINE new == StrategyAddress[made + 1]
  <2>1. PICK u \in Creators \ {deployer} : Make(u, {}, FirstRoles(u))
    BY <1>8 DEF OtherStrategy
  <2>2. others < MaxOthers /\ UNCHANGED scriptVars
    BY <1>8 DEF OtherStrategy, OthersCall
  <2>3. new \in Strategy \ Made
    BY <2>2, Addresses DEF BInv
  <2>4. saved # new
    BY <1>2, <2>3
  <2> HIDE DEF new
  <2>5. vaultsOf' = [vaultsOf EXCEPT ![new] = {}] /\ roles' = [roles EXCEPT ![new] = FirstRoles(u)]
    BY <2>1 DEF Make, new
  <2>6. vaultsOf = [s \in Strategy |-> vaultsOf[s]]
    BY DEF BInv, ScriptTypeOK
  <2>7. pc' # pc + 1
    BY <1>1, <2>2 DEF scriptVars
  <2> QED
    BY <1>1, <1>2, <2>2, <2>4, <2>5, <2>6, <2>7 DEF scriptVars
<1>9. CASE ~ScriptStep /\ ~LoseConfirmation /\ ~OtherStrategy
  <2>1. UNCHANGED strategyVars /\ (pc' # 0 => saved' = saved)
    BY <1>9
    DEF BuildNext, ApproveAllStep, StartRun, Crash, MineApproval, FinishCreation, Others, OtherVault,
        OtherPosition, OtherOwner, Throw, End, buildVars, builderVars, scriptVars
  <2> QED
    BY <1>2, <1>6, <1>9, <2>1 DEF strategyVars
<1> QED
  BY <1>5, <1>7, <1>8, <1>9

(* A strategy just made.                                                   *)
LEMMA MakerGivesRoles ==
    ASSUME BInv, NEW op \in {"clone", "deploy"}, Current(op), pc' # 0, [BuildNext]_buildVars, pc' = pc + 1
    PROVE  vaultsOf'[saved'] # {} \/ op = "deploy" => roles'[saved'] = FirstRoles(deployer)
<1> DEFINE new == StrategyAddress[made + 1]
<1>1. /\ pc = MakerAt /\ Makes(op) /\ made \in Nat /\ new \in Strategy \ Made
      /\ made + 1 \in DOMAIN StrategyAddress /\ ScriptOK /\ creating = NoCreation
  BY AtMaker DEF MakerOps
<1>2. ScriptStep /\ Step.op = op
  <2>1. pc \in Nat \ {0}
    BY <1>1 DEF ScriptOK, MakerOK
  <2> QED
    BY <2>1, OnlyScriptAdvances DEF Current
<1>3. (op = "clone" /\ CloneStep) \/ (op = "deploy" /\ DeployStep)
  <2>1. \A o \in Ops \ {op} : ~Current(o)
    BY <1>2 DEF Current
  <2>2. ~EndRun
    BY DEF EndRun, End
  <2> QED
    BY <1>2, <2>1, <2>2
    DEF ScriptStep, CreateVaultStep, CreateRootVaultStep, ConfigureStep, PredictStep,
        CloneStep, DeployStep, DeployProxyStep, MulticallStep, RoleStep, ApproveStep, SendStep, PushStep,
        GiveStep, Ops, MakerOps, EarlyOps, LateOps
<1>4. /\ Make(deployer, ExpectedNfts, FirstRoles(deployer))
      /\ op = "clone" => saved' = saved
      /\ op = "deploy" => saved' = new
  BY <1>3 DEF CloneStep, DeployStep, DeployAnew
<1>5. /\ roles'[new] = FirstRoles(deployer)
      /\ \A s \in Strategy : s # new => vaultsOf'[s] = vaultsOf[s]
  <2>1. UNCHANGED <<subvaults, strategyOf, creating>>
    BY <1>3 DEF CloneStep, DeployStep, vars, vaultVars
  <2> QED
    BY <1>1, <1>4, <2>1, Parts, MakeKeeps DEF BInv
<1>6. CASE op = "clone"
  <2>1. Foretold
    BY <1>1, <1>6 DEF BInv, SavedInv
  <2>2. saved \in Made \cup {new}
    BY <1>1, <2>1 DEF Foretold, Made
  <2>3. saved # new => saved \in Strategy
    BY <2>2, Addresses DEF BInv
  <2> QED
    BY <1>4, <1>5, <1>6, <2>1, <2>3 DEF Foretold
<1> QED
  BY <1>4, <1>5, <1>6

LEMMA RolesStay ==
    ASSUME RoleInv, NEW s, saved = s, saved' = s, roles'[s] = roles[s], vaultsOf'[s] = vaultsOf[s],
           pc # 0, At'.hand = At.hand, At'.hand = 0 => At'.built <= N, N \in Nat, N' = N, Makes("clone")' = Makes("clone"),
           Makes("deploy")' = Makes("deploy"),
           Makes("deploy") /\ At.hand # 0 =>
               /\ OwnRoles(At.built)' = OwnRoles(At.built)
               /\ At'.built > N + 6 => At.built > N + 6
    PROVE  RoleInv'
BY DEF RoleInv, DeployerHas, Typed, FirstRoles, HandedTo

LEMMA RolesRest ==
    ASSUME BInv, StageInv, RoleInv, [BuildNext]_buildVars, ScriptRests, pc # 0
    PROVE  RoleInv'
<1>1. /\ plan' = plan /\ PathOK /\ N \in Nat /\ pc' = pc /\ At' = At /\ N' = N
      /\ Makes("clone")' = Makes("clone") /\ Makes("deploy")' = Makes("deploy")
  BY ScriptPace, PathIsOK, StageRests, SameScript DEF BInv, ScriptTypeOK, PathOK, ScriptRests, Makes
<1>2. CASE At.hand = 0
  BY <1>1, <1>2 DEF RoleInv
<1>3. CASE At.hand # 0
  <2>1. pc > MakerAt
    BY <1>1, <1>3 DEF StageInv
  <2>2. saved' = saved /\ saved \in Strategy /\ vaultsOf'[saved] = vaultsOf[saved]
    BY <1>1, <2>1, RolesPace
  <2>3. CASE roles'[saved] = roles[saved]
    <3> DEFINE s == saved
    <3>1. OwnRoles(At.built)' = OwnRoles(At.built)
      BY <1>1 DEF OwnRoles
    <3> QED
      BY <1>1, <1>3, <2>2, <2>3, <3>1, RolesStay
  <2>4. CASE Current("multicall") /\ roles'[saved] \in MulticallRoles(roles[saved], Build.roles)
    <3>1. Makes("clone") /\ At.hand = 1 /\ Build.roles \in {AdminAlone, AdminLast}
      BY <1>1, <2>4, StageAt DEF Fits, Maker, Makes, PathOK, PlanKinds
    <3>2. ~Makes("deploy")
      BY <3>1 DEF Makes
    <3>3. ASSUME vaultsOf[saved] # {}
          PROVE  <<"ADMIN_ROLE", deployer>> \notin roles'[saved]
      <4>1. roles[saved] = FirstRoles(deployer)
        BY <1>1, <2>4, <3>1, <3>3, MulticallNeedsAdmin DEF RoleInv
      <4>2. HandedTo(roles'[saved])
        BY <2>4, <3>1, <4>1, MulticallFromFirst
      <4> QED
        BY <4>2 DEF HandedTo
    <3> QED
      BY <1>1, <2>2, <3>1, <3>2, <3>3 DEF RoleInv
  <2>5. pc' # pc + 1
    BY <1>1 DEF BInv, ScriptTypeOK
  <2> QED
    BY <1>1, <2>1, <2>3, <2>4, <2>5, RolesPace
<1> QED
  BY <1>2, <1>3

(* Every step keeps what is said of the roles in the run's strategy.       *)
LEMMA NextRole ==
    ASSUME BInv, StageInv, RoleInv, [BuildNext]_buildVars
    PROVE  RoleInv'
<1>1. /\ plan' = plan /\ PathOK /\ ScriptOK /\ N \in Nat \ {0} /\ pc \in Nat /\ N' = N
      /\ Makes("clone")' = Makes("clone") /\ Makes("deploy")' = Makes("deploy")
  BY ScriptPace, PathIsOK, PlansAreOK, SameScript DEF BInv, ScriptTypeOK, PathOK, Makes
<1>2. CASE pc' = 0
  BY <1>2 DEF RoleInv
<1>3. CASE StartRun
  <2>1. At'.hand = 0 /\ At'.built = 0
    BY <1>1, <1>3, StageStarts DEF StartRun
  <2> QED
    BY <1>1, <2>1 DEF RoleInv
<1>4. CASE ScriptRests
  BY <1>2, <1>4, RolesRest DEF ScriptRests
<1>5. CASE ScriptMovesOn
  <2>1. PICK op : Current(op)
    BY <1>5 DEF ScriptMovesOn
  <2>2. /\ pc' = pc + 1 /\ pc # 0 /\ Step.op = op /\ op \in Ops /\ Step.i \in Nat
        /\ At.built \in Nat /\ At.hand \in Nat /\ Fits(Step, At, N, Maker) /\ StepOK(pc)
        /\ At.hand = 0 <=> ~(pc > MakerAt)
        /\ At'.built = IF Counted(Step) THEN At.built + 1 ELSE At.built
        /\ At'.hand = IF op \in MakerOps \cup {"multicall"} THEN At.hand + 1 ELSE At.hand
    BY <1>1, <1>5, <2>1, StageAt, StageAdvances DEF ScriptMovesOn
  <2>3. pc' # 0 /\ (At'.hand = 0 => At'.built <= N)
    <3>1. ASSUME At'.hand = 0, Counted(Step)
          PROVE  At.built < N
      <4>1. At.hand = 0 /\ op \notin LateOps \ EarlyOps /\ At.built <= N
        BY <1>1, <2>2, <3>1 DEF StepOK, Step, RoleInv
      <4>2. op = "createVault" \/ (Step.i = 0 /\ op \in {"stageDelayedStrategyParams", "commitDelayedStrategyParams"})
        BY <2>2, <3>1, <4>1 DEF Counted, LateOps, EarlyOps
      <4> QED
        BY <1>1, <2>2, <4>1, <4>2 DEF Fits
    <3> QED
      BY <1>1, <2>2, <3>1 DEF RoleInv
  <2>4. CASE op \in MakerOps
    <3>1. At.hand = 0 /\ At'.hand = 1 /\ Maker = op /\ ~Counted(Step) /\ At'.built <= N
      BY <1>1, <2>2, <2>4 DEF Fits, MakerOps, Counted, RoleInv
    <3>2. Makes("clone") => op = "clone"
      BY <3>1 DEF Makes, Maker
    <3>3. Makes("deploy") => op = "deploy"
      BY <3>1 DEF Makes, Maker
    <3>4. CASE op = "clone"
      <4>1. ~Makes("deploy")
        BY <3>3, <3>4
      <4>2. vaultsOf'[saved'] # {} => roles'[saved'] = FirstRoles(deployer)
        BY <2>1, <2>2, <2>3, <3>4, MakerGivesRoles
      <4> QED
        BY <1>1, <3>1, <4>1, <4>2 DEF RoleInv
    <3>5. CASE op = "deploy"
      <4>1. ~Makes("clone")
        BY <3>2, <3>5
      <4>2. roles'[saved'] = FirstRoles(deployer)
        BY <2>1, <2>2, <2>3, <3>5, MakerGivesRoles
      <4>3. OwnRoles(At.built)' = {"ADMIN_ROLE", "OPERATOR"} /\ ~(At'.built > N + 6)
        BY <1>1, <2>2, <3>1 DEF OwnRoles
      <4>4. DeployerHas(FirstRoles(deployer), {"ADMIN_ROLE", "OPERATOR"})
        BY FirstRolesHave
      <4>5. DeployerHas(roles'[saved'], OwnRoles(At.built)')
        BY <4>2, <4>3, <4>4
      <4> QED
        BY <1>1, <3>1, <4>1, <4>3, <4>5 DEF RoleInv, DeployerHas, Typed
    <3>6. CASE op = "deployProxy"
      BY <1>1, <3>1, <3>2, <3>3, <3>6 DEF RoleInv
    <3> QED
      BY <2>4, <3>4, <3>5, <3>6 DEF MakerOps
  <2>5. CASE At.hand = 0 /\ op \notin MakerOps
    <3>1. At'.hand = 0
      BY <2>2, <2>5 DEF Fits
    <3> QED
      BY <2>3, <3>1, <1>1 DEF RoleInv
  <2>6. CASE At.hand # 0 /\ op \notin MakerOps
    <3>1. pc > MakerAt
      BY <2>2, <2>6
    <3>2. saved' = saved /\ saved \in Strategy /\ vaultsOf'[saved] = vaultsOf[saved]
      BY <2>3, <3>1, RolesPace
    <3>3. CASE Current("multicall") /\ roles'[saved] \in MulticallRoles(roles[saved], Build.roles)
      <4>1. op = "multicall"
        BY <2>1, <3>3 DEF Current
      <4>2. Makes("clone") /\ At.hand = 1 /\ At'.hand = 2 /\ Build.roles \in {AdminAlone, AdminLast}
        BY <1>1, <2>2, <4>1 DEF Fits, Maker, Makes, PathOK, PlanKinds
      <4>3. ~Makes("deploy")
        BY <4>2 DEF Makes
      <4>4. ASSUME vaultsOf[saved] # {}
            PROVE  HandedTo(roles'[saved])
        <5>1. roles[saved] = FirstRoles(deployer)
          BY <2>2, <3>3, <4>2, <4>4, MulticallNeedsAdmin DEF RoleInv
        <5> QED
          BY <3>3, <4>2, <5>1, MulticallFromFirst
      <4> QED
        BY <1>1, <3>2, <4>2, <4>3, <4>4 DEF RoleInv, HandedTo
    <3>4. CASE Current("role") /\ roles'[saved] = CalledRole(roles[saved], Build.roles[Step.i])
      <4> DEFINE i == Step.i
                 held == roles[saved]
                 new == roles'[saved]
      <4>1. op = "role"
        BY <2>1, <3>4 DEF Current
      <4>2. /\ i \in 1..7 /\ At.built = N + 5 + i /\ At'.built = N + 5 + i + 1 /\ Makes("deploy")
            /\ Build.roles = LStrategyRoles /\ At'.hand = At.hand
        BY <1>1, <2>2, <4>1 DEF Fits, Counted, Maker, Makes, PathOK, PlanKinds, MakerOps
      <4>3. ~Makes("clone")
        BY <4>2 DEF Makes
      <4>4. DeployerHas(held, OwnRoles(N + 5 + i)) /\ (i # 1 => <<"ADMIN_ROLE", mStrategyAdmin>> \in held)
        <5>1. i # 1 => At.built > N + 6
          BY <1>1, <4>2
        <5> QED
          BY <2>2, <2>6, <4>2, <5>1 DEF RoleInv
      <4>5. new = CalledRole(held, LStrategyRoles[i])
        BY <3>4, <4>2
      <4> HIDE DEF i, held, new
      <4>6. DeployerHas(new, OwnRoles(N + 5 + i + 1)) /\ <<"ADMIN_ROLE", mStrategyAdmin>> \in new
        BY <1>1, <4>2, <4>4, <4>5, RoleCallsGo
      <4>7. OwnRoles(At.built)' = OwnRoles(N + 5 + i + 1)
        BY <1>1, <4>2 DEF OwnRoles
      <4>8. /\ DeployerHas(roles'[saved'], OwnRoles(At.built)')
            /\ <<"ADMIN_ROLE", mStrategyAdmin>> \in roles'[saved']
        BY <3>2, <4>6, <4>7 DEF new
      <4> QED
        BY <1>1, <2>3, <4>3, <4>8 DEF RoleInv, DeployerHas, Typed
    <3>5. CASE roles'[saved] = roles[saved] /\ op \notin {"multicall", "role"}
      <4> DEFINE s == saved
      <4>1. At'.hand = At.hand
        BY <2>2, <2>6, <3>5
      <4>2. Counted(Step) => At.built <= N + 5
        BY <1>1, <2>2, <3>5 DEF Counted, Fits
      <4>3. OwnRoles(At.built)' = OwnRoles(At.built) /\ (At'.built > N + 6 => At.built > N + 6)
        BY <1>1, <2>2, <4>2 DEF OwnRoles
      <4> QED
        BY <1>1, <2>2, <2>3, <3>2, <3>5, <4>1, <4>3, RolesStay
    <3> QED
      BY <2>1, <2>2, <2>3, <3>1, <3>3, <3>4, <3>5, RolesPace
  <2> QED
    BY <2>4, <2>5, <2>6
<1> QED
  BY <1>2, <1>3, <1>4, <1>5, ScriptPace

-----------------------------------------------------------------------------
(* What a script that ends has done.                                       *)
FinishInv ==
    /\ BInv /\ OwnersInv /\ RootsInv /\ SentInv /\ StageInv /\ CombineInv /\ ConfiguredInv /\ RoleInv

LEMMA InitFinishInv == ASSUME BuildInit PROVE FinishInv
<1>1. BInv
  BY InitBInv
<1>2. OwnersInv
  <2>1. deployer # NoOne
    BY Actors, AddressAssumption
  <2> QED
    BY <2>1 DEF BuildInit, Init, OwnersInv
<1>3. RootsInv
  BY DEF BuildInit, Init, RootsInv
<1>4. SentInv
  BY DEF BuildInit, SentInv
<1>5. StageInv /\ RoleInv
  BY DEF BuildInit, StageInv, RoleInv
<1>6. CombineInv
  BY DEF BuildInit, Init, CombineInv, CreatingRoot
<1>7. ConfiguredInv
  BY DEF BuildInit, ConfiguredInv
<1> QED
  BY <1>1, <1>2, <1>3, <1>4, <1>5, <1>6, <1>7 DEF FinishInv

LEMMA NextFinishInv == ASSUME FinishInv, [BuildNext]_buildVars PROVE FinishInv'
<1>1. BInv' /\ RegistryMoves /\ IInv
  BY NextBInv, RegistryStep DEF FinishInv, BInv
<1>2. OwnersInv' /\ RootsInv' /\ SentInv'
  BY <1>1, NextOwners, NextRoots, NextSent DEF FinishInv
<1>3. StageInv' /\ CombineInv' /\ ConfiguredInv' /\ RoleInv'
  BY NextStage, NextCombine, NextConfigured, NextRole DEF FinishInv
<1> QED
  BY <1>1, <1>2, <1>3 DEF FinishInv

(* Behind its last step the script has configured the root vault it gave   *)
(* away and handed the strategy over, if it made one.                      *)
LEMMA FinishedIsHandedOver ==
    ASSUME FinishInv, pc = Len(Build.steps) + 1
    PROVE  /\ ownerOf[ExpectedNft(0)] \in {mStrategyAdmin} \cup Destinations
           /\ subvaults[ExpectedNft(0)] = ExpectedNfts
           /\ Cardinality(configured[ExpectedNft(0)]) = 4
           /\ vaultsOf[saved] # {} =>
                  /\ <<"ADMIN_ROLE", mStrategyAdmin>> \in roles[saved]
                  /\ \A r \in roles[saved] : r[2] = deployer => r[1] = "OPERATOR"
<1> DEFINE root == ExpectedNft(0)
<1>1. PathOK /\ ScriptOK /\ N \in Nat \ {0} /\ Len(Build.steps) \in Nat \ {0} /\ pc # 0
  BY PathIsOK, PlansAreOK DEF FinishInv, BInv, ScriptTypeOK, PathOK
<1>2. At = Finish(Maker, N)
  BY <1>1 DEF At, PathOK
<1>3. /\ At.built \in {N + 6, N + 13} /\ At.hand \in {1, 2}
      /\ Makes("clone") => At.hand = 2
      /\ Makes("deploy") => At.hand = 1 /\ At.built = N + 13
  <2>1. CASE Maker = "clone"
    <3>1. At = Stage(N + 6, 0, 2)
      BY <1>2, <2>1 DEF Finish
    <3>2. N + 6 \in Nat /\ 0 \in Nat /\ 2 \in Nat
      BY <1>1
    <3>3. At.built = N + 6 /\ At.hand = 2
      BY <3>1, <3>2, StageIsTyped
    <3> QED
      BY <2>1, <3>3 DEF Makes, Maker
  <2>2. CASE Maker = "deploy"
    <3>1. At = Stage(N + 13, 4, 1)
      BY <1>2, <2>2 DEF Finish
    <3>2. N + 13 \in Nat /\ 4 \in Nat /\ 1 \in Nat
      BY <1>1
    <3>3. At.built = N + 13 /\ At.hand = 1
      BY <3>1, <3>2, StageIsTyped
    <3> QED
      BY <2>2, <3>3 DEF Makes, Maker
  <2>3. CASE Maker = "deployProxy"
    <3>1. At = Stage(N + 6, 0, 1)
      BY <1>2, <2>3 DEF Finish
    <3>2. N + 6 \in Nat /\ 0 \in Nat /\ 1 \in Nat
      BY <1>1
    <3>3. At.built = N + 6 /\ At.hand = 1
      BY <3>1, <3>2, StageIsTyped
    <3> QED
      BY <2>3, <3>3 DEF Makes, Maker
  <2> QED
    BY <1>1, <2>1, <2>2, <2>3 DEF PathOK, MakerOps
<1>4. root \in Nft /\ root >= startNft
  <2>1. root \in Nft /\ root = startNft + N /\ startNft \in Nat
    BY <1>1, ExpectedIsNft DEF FinishInv, BInv, ScriptOK, ScriptTypeOK, ExpectedNft, N
  <2> QED
    BY <1>1, <2>1
<1> HIDE DEF root
<1>5. Configured(root, At.built) /\ configured[root] \subseteq ConfOps
  BY <1>1, <1>4 DEF FinishInv, ConfiguredInv, root
<1>6. At.built > N + 1 /\ At.built > N + 2 /\ At.built > N + 3 /\ At.built > N + 4 /\ At.built > N + 5
  BY <1>1, <1>3
<1>7. ownerOf[root] \in {mStrategyAdmin} \cup Destinations
  BY <1>5, <1>6 DEF Configured, GivenTo
<1>8. subvaults[root] = ExpectedNfts
  BY <1>1, <1>4, <1>5, <1>6 DEF Configured, FinishInv, CombineInv
<1>9. Cardinality(configured[root]) = 4
  <2>1. configured[root] = ConfOps
    BY <1>5, <1>6 DEF Configured, ConfOps
  <2> DEFINE one == {"setStrategyParams"}
             two == one \cup {"stageDelayedStrategyParams"}
             three == two \cup {"commitDelayedStrategyParams"}
  <2>2. /\ "stageDelayedStrategyParams" \notin one /\ "commitDelayedStrategyParams" \notin two
        /\ "addDepositorsToAllowlist" \notin three
    OBVIOUS
  <2>3. IsFiniteSet(one) /\ Cardinality(one) = 1
    BY FS_Singleton
  <2> HIDE DEF one
  <2>4. IsFiniteSet(two) /\ Cardinality(two) = 1 + 1
    BY <2>2, <2>3, FS_AddElement
  <2> HIDE DEF two
  <2>5. IsFiniteSet(three) /\ Cardinality(three) = 1 + 1 + 1
    BY <2>2, <2>4, FS_AddElement
  <2> HIDE DEF three
  <2>6. Cardinality(three \cup {"addDepositorsToAllowlist"}) = 1 + 1 + 1 + 1
    BY <2>2, <2>5, FS_AddElement
  <2>7. ConfOps = three \cup {"addDepositorsToAllowlist"}
    BY DEF ConfOps, one, two, three
  <2> QED
    BY <2>1, <2>6, <2>7
<1>10. ASSUME vaultsOf[saved] # {}
       PROVE  HandedTo(roles[saved])
  <2>1. CASE Makes("clone")
    BY <1>1, <1>3, <1>10, <2>1 DEF FinishInv, RoleInv
  <2>2. CASE Makes("deploy")
    <3>1. OwnRoles(At.built) = {}
      BY <1>1, <1>3, <2>2 DEF OwnRoles
    <3>2. DeployerHas(roles[saved], {}) /\ <<"ADMIN_ROLE", mStrategyAdmin>> \in roles[saved]
      <4>1. At.built > N + 6
        BY <1>1, <1>3, <2>2
      <4> QED
        BY <1>1, <1>3, <2>2, <3>1, <4>1 DEF FinishInv, RoleInv
    <3> QED
      BY <3>2 DEF HandedTo, DeployerHas
  <2>3. CASE Makes("deployProxy")
    <3>1. pc > MakerAt
      BY <1>1, <1>3 DEF FinishInv, StageInv
    <3>2. saved \in Strategy /\ saved # NoOne
      BY <3>1, Addresses, AddressAssumption DEF FinishInv, BInv, SavedInv, Account
    <3> QED
      BY <1>10, <2>3, <3>2 DEF FinishInv, BInv, SavedInv
  <2> QED
    BY <1>1, <2>1, <2>2, <2>3 DEF PathOK, Makes, Maker, MakerOps
<1> QED
  BY <1>7, <1>8, <1>9, <1>10 DEF HandedTo, root

(* In every reachable state, the script's stage tells what its run has     *)
(* built, configured, given away and handed over.                          *)
THEOREM FinishInvariant == BuildSpec => []FinishInv
<1>1. BuildInit => FinishInv
  BY InitFinishInv
<1>2. FinishInv /\ [BuildNext]_buildVars => FinishInv'
  BY NextFinishInv
<1> QED
  BY <1>1, <1>2, PTL DEF BuildSpec

(* A script that ends leaves mStrategyAdmin the root vault it built over   *)
(* its subvaults, configured, and the strategy it made, for every number   *)
(* of runs, crashes and others in between.                                 *)
THEOREM FinishedBuildsAreHandedOver == BuildSpec => FinishedBuildIsHandedOver
<1>1. FinishInv =>
        [outcome' = "done" /\ pc = Len(Build.steps) + 1 =>
           /\ ownerOf[ExpectedNft(0)] \in {mStrategyAdmin} \cup Destinations
           /\ subvaults[ExpectedNft(0)] = ExpectedNfts
           /\ Cardinality(configured[ExpectedNft(0)]) = 4
           /\ vaultsOf[saved] # {} =>
                  /\ <<"ADMIN_ROLE", mStrategyAdmin>> \in roles[saved]
                  /\ \A r \in roles[saved] : r[2] = deployer => r[1] = "OPERATOR"]_buildVars
  BY FinishedIsHandedOver
<1> QED
  BY <1>1, FinishInvariant, PTL DEF FinishedBuildIsHandedOver

-----------------------------------------------------------------------------
(* Runs in which nobody else makes a vault or a strategy: a vault that the *)
(* run has made, or begun to make, and the deployer still owns.            *)
Mine(n, k) ==
    /\ ownerOf[n] = deployer /\ n \notin locks /\ vaultIndex[n] = Clone(n)
    /\ creating.nft = n => creating.kind = k
    /\ kind[Clone(n)] = k \/ creating.nft = n

(* A run's vaults are different ones, numbered as they are made.           *)
LEMMA ExpectedApart ==
    ASSUME ScriptTypeOK, ScriptOK, pc # 0
    PROVE  /\ \A i, j \in 0..N : ExpectedNft(i) = ExpectedNft(j) => i = j
           /\ ExpectedNfts = {ExpectedNft(i) : i \in 1..N}
           /\ ExpectedNft(0) \notin ExpectedNfts
           /\ \A i \in 1..N : ExpectedNft(i) = startNft + i - 1
           /\ ExpectedNft(0) = startNft + N
           /\ startNft \in Nat \ {0} /\ N \in Nat \ {0} /\ startNft + N <= MaxNft
<1>1. N \in Nat \ {0} /\ startNft \in Nat \ {0} /\ DOMAIN Build.vaults = 1..N /\ startNft + N <= MaxNft
  BY DEF ScriptTypeOK, ScriptOK, N
<1>2. \A i \in 0..N : ExpectedNft(i) = IF i = 0 THEN startNft + N ELSE startNft + i - 1
  BY <1>1 DEF ExpectedNft, N
<1>3. \A i, j \in 0..N : ExpectedNft(i) = ExpectedNft(j) => i = j
  BY <1>1, <1>2
<1>4. ExpectedNfts = {ExpectedNft(i) : i \in 1..N}
  BY <1>1 DEF ExpectedNfts
<1>5. 0 \in 0..N /\ \A i \in 1..N : i \in 0..N /\ i # 0
  BY <1>1
<1>6. ExpectedNft(0) \notin ExpectedNfts
  BY <1>3, <1>4, <1>5
<1> QED
  BY <1>1, <1>2, <1>3, <1>4, <1>5, <1>6

(* The action behind a step of the script.                                 *)
LEMMA StepOf ==
    ASSUME ScriptStep, pc' # 0, NEW op, Current(op)
    PROVE  /\ op = "createVault" => CreateVaultStep
           /\ op = "createRootVault" => CreateRootVaultStep
           /\ op \in ConfOps => ConfigureStep
           /\ op = "predict" => PredictStep
           /\ op = "clone" => CloneStep
           /\ op = "deploy" => DeployStep
           /\ op = "deployProxy" => DeployProxyStep
           /\ op = "multicall" => MulticallStep
           /\ op = "role" => RoleStep
           /\ op = "approve" => ApproveStep
           /\ op = "sendApproval" => SendStep
           /\ op = "push" => PushStep
           /\ op = "give" => GiveStep
<1>1. \A o : Current(o) => o = op
  BY DEF Current
<1>2. ~EndRun
  BY DEF EndRun, End
<1>3. /\ CreateVaultStep => op = "createVault"
      /\ CreateRootVaultStep => op = "createRootVault"
      /\ ConfigureStep => op \in ConfOps
      /\ PredictStep => op = "predict"
      /\ CloneStep => op = "clone"
      /\ DeployStep => op = "deploy"
      /\ DeployProxyStep => op = "deployProxy"
      /\ MulticallStep => op = "multicall"
      /\ RoleStep => op = "role"
      /\ ApproveStep => op = "approve"
      /\ SendStep => op = "sendApproval"
      /\ PushStep => op = "push"
      /\ GiveStep => op = "give"
  BY <1>1
  DEF CreateVaultStep, CreateRootVaultStep, ConfigureStep, PredictStep, CloneStep, DeployStep,
      DeployProxyStep, MulticallStep, RoleStep, ApproveStep, SendStep, PushStep, GiveStep, ConfOps
<1> QED
  BY <1>2, <1>3 DEF ScriptStep, ConfOps

(* What the deployer owns he keeps, unless his script gives it away.       *)
LEMMA OwnKept ==
    ASSUME BInv, OwnersInv, [BuildNext]_buildVars, NEW n \in Nft, ownerOf[n] = deployer, n \notin locks
    PROVE  \/ ownerOf'[n] = deployer
           \/ FinishRootVault /\ n \in creating.subvaults
           \/ GiveStep /\ pc' = pc + 1
<1>1. /\ ownerOf \in [Nft -> Account \cup {NoOne}] /\ topNft \in Nat /\ n # topNft
      /\ deployer # NoOne
  <2>1. deployer # NoOne
    BY Actors, AddressAssumption
  <2>2. n < topNft
    BY <2>1 DEF BInv, IInv, OwnerInv
  <2> QED
    BY <2>1, <2>2, HoldersAreNoVaults DEF BInv, IInv, OwnerInv, IndexInv
<1>2. ASSUME NEW s, NEW v, NEW u, Register(s, v, u) PROVE ownerOf'[n] = ownerOf[n]
  BY <1>1, <1>2 DEF Register
<1>3. ASSUME NEW u, NEW o, NEW k, NEW zero, NEW rest, NEW s, StartCreation(u, o, k, zero, rest, s)
      PROVE  ownerOf'[n] = ownerOf[n]
  BY <1>2, <1>3 DEF StartCreation
<1>4. CASE ScriptStep
  <2>1. CASE EndRun \/ ConfigureStep \/ PredictStep \/ CloneStep \/ DeployStep \/ DeployProxyStep
             \/ MulticallStep \/ RoleStep \/ SendStep \/ PushStep
    <3>1. UNCHANGED vars
      BY <2>1
      DEF EndRun, ConfigureStep, PredictStep, CloneStep, DeployStep, DeployProxyStep, MulticallStep,
          RoleStep, SendStep, PushStep, Throw
    <3> QED
      BY <3>1 DEF vars, ownerVars
  <2>2. CASE CreateVaultStep
    BY <1>3, <2>2 DEF CreateVaultStep, CreateIntegrationVault, vars, ownerVars
  <2>3. CASE CreateRootVaultStep
    BY <1>3, <2>3 DEF CreateRootVaultStep, CreateRootVault, Throw, vars, ownerVars
  <2>4. CASE ApproveStep
    BY <2>4 DEF ApproveStep, Approve, Throw, vars, ownerVars
  <2>5. CASE GiveStep
    BY <2>5 DEF GiveStep, Continue, Throw, vars, ownerVars
  <2> QED
    BY <1>4, <2>1, <2>2, <2>3, <2>4, <2>5 DEF ScriptStep
<1>5. CASE OtherVault
  BY <1>2, <1>3, <1>5 DEF OtherVault, CreateIntegrationVault, RegisterVault
<1>6. CASE ApproveAllStep
  BY <1>6 DEF ApproveAllStep, SetApprovalForAll
<1>7. CASE StartRun \/ LoseConfirmation \/ Crash \/ OtherStrategy \/ OtherPosition \/ UNCHANGED buildVars
  BY <1>7 DEF StartRun, LoseConfirmation, Crash, Throw, OtherStrategy, OtherPosition, buildVars, vars, ownerVars
<1>8. CASE FinishCreation
  BY <1>1, <1>8 DEF FinishCreation, FinishIntegrationVault, FinishRootVault, ownerVars
<1>9. CASE MineApproval
  BY <1>9 DEF MineApproval, Approve, Throw, vars, ownerVars
<1>10. CASE OtherOwner
  <2>1. PICK a \in Holder \ {deployer, approver}, m \in Nft :
          /\ a \in Strategy => m \in locks
          /\ \/ \E to \in Destinations : TransferFrom(a, to, m)
             \/ \E to \in Approvees : Approve(a, to, m)
             \/ LockNft(a, m)
    BY <1>10 DEF OtherOwner
  <2>2. CASE m # n
    BY <1>1, <2>1, <2>2 DEF TransferFrom, Approve, LockNft
  <2>3. CASE m = n
    BY <2>1, <2>3, OnlyDeployerMoves DEF TransferFrom, Approve, LockNft
  <2> QED
    BY <2>2, <2>3
<1> QED
  BY <1>4, <1>5, <1>6, <1>7, <1>8, <1>9, <1>10 DEF BuildNext, Others

(* No other vault that is registered, and no move of others, changes that. *)
LEMMA RegisterKeepsMine ==
    ASSUME IInv, NEW n \in Nft, NEW k, Mine(n, k), NEW s, NEW v, NEW u, Register(s, v, u),
           UNCHANGED vaultVars, creating' = creating \/ (creating = NoCreation /\ creating'.nft = topNft)
    PROVE  Mine(n, k)'
<1>1. /\ n < topNft /\ n # topNft /\ n # 0 /\ topNft \in Nat
      /\ ownerOf \in [Nft -> Account \cup {NoOne}] /\ vaultIndex \in [Nft -> Vault \cup {NoOne}]
  BY HoldersAreNoVaults, Actors, AddressAssumption DEF Mine, IInv, OwnerInv, IndexInv
<1>2. ownerOf'[n] = ownerOf[n] /\ vaultIndex'[n] = vaultIndex[n] /\ UNCHANGED <<locks, kind>>
  BY <1>1 DEF Register, vaultVars
<1>3. creating = NoCreation => creating.nft = 0
  BY DEF NoCreation
<1> QED
  BY <1>1, <1>2, <1>3 DEF Mine, Clone

LEMMA MineKept ==
    ASSUME BInv, OwnersInv, RootsInv, RegistryMoves, [BuildNext]_buildVars, NEW n \in Nft, NEW k, Mine(n, k),
           FinishRootVault => n \notin creating.subvaults,
           ~(GiveStep /\ pc' = pc + 1)
    PROVE  Mine(n, k)'
<1>1. ownerOf'[n] = deployer
  BY OwnKept DEF Mine
<1>2. IInv /\ n # 0 /\ n \in Vault
  BY HoldersAreNoVaults DEF BInv
<1>3. CASE UNCHANGED vars \/ SetApprovalForAll(deployer, Governance, TRUE)
  <2>1. UNCHANGED <<locks, vaultIndex, creating, kind>>
    BY <1>3 DEF vars, ownerVars, indexVars, vaultVars, SetApprovalForAll
  <2> QED
    BY <1>1, <2>1 DEF Mine
<1>4. ASSUME NEW u \in User, NEW kk, NEW zero, NEW rest, NEW s, StartCreation(u, u, kk, zero, rest, s)
      PROVE  Mine(n, k)'
  <2>1. /\ Register(Governance, Clone(Len(vaults) + 1), u) /\ UNCHANGED vaultVars
        /\ creating = NoCreation /\ creating'.nft = topNft
    BY <1>2, <1>4 DEF StartCreation, IInv, IndexInv
  <2> QED
    BY <1>2, <2>1, RegisterKeepsMine
<1>5. ASSUME NEW u \in User, NEW v \in Foreign, RegisterVault(u, v, u)
      PROVE  Mine(n, k)'
  BY <1>2, <1>5, RegisterKeepsMine DEF RegisterVault
<1>6. CASE FinishIntegrationVault \/ FinishRootVault
  <2>1. /\ creating' = NoCreation /\ creating'.nft = 0 /\ UNCHANGED vaultIndex
        /\ locks' \subseteq locks \cup (IF FinishRootVault THEN creating.subvaults ELSE {})
        /\ creating.nft \in Vault /\ kind' = [kind EXCEPT ![creating.nft] = creating.kind]
    BY <1>2, <1>6, HoldersAreNoVaults
    DEF FinishIntegrationVault, FinishRootVault, Initialize, NoCreation, indexVars, ownerVars, LockSubvaults,
        IInv, CreationInv, Clone
  <2>2. n \notin locks'
    BY <2>1 DEF Mine
  <2>3. kind'[n] = k
    BY <1>2, <2>1 DEF Mine, Clone, RootsInv
  <2> QED
    BY <1>1, <1>2, <2>1, <2>2, <2>3 DEF Mine, Clone
<1>7. CASE OwnersMove
  <2>1. UNCHANGED <<vaultIndex, creating, kind>>
    BY <1>7 DEF OwnersMove, TransferFrom, Approve, LockNft, indexVars, vaultVars
  <2>2. n \notin locks'
    <3>1. CASE \/ \E a, to, m : TransferFrom(a, to, m)
               \/ \E a, to, m : Approve(a, to, m)
      BY <3>1 DEF TransferFrom, Approve, Mine
    <3>2. CASE \E a \in Holder \ {deployer, approver}, m \in Nft : LockNft(a, m)
      BY <3>2 DEF LockNft, Mine
    <3> QED
      BY <1>7, <3>1, <3>2 DEF OwnersMove
  <2> QED
    BY <1>1, <2>1, <2>2 DEF Mine
<1> QED
  BY <1>3, <1>4, <1>5, <1>6, <1>7 DEF RegistryMoves

(* A quiet run has made the vaults it wanted and no other is there; its    *)
(* subvaults are the deployer's until they are combined, the root vault    *)
(* until it is given away.                                                 *)
MineInv ==
    pc # 0 /\ quiet =>
        /\ Len(vaults) = startNft - 1 + (IF At.built <= N THEN At.built ELSE N + 1)
        /\ At.built <= N => \A i \in 1..At.built : Mine(ExpectedNft(i), Build.vaults[i])
        /\ N < At.built /\ At.built <= N + 5 => Mine(ExpectedNft(0), "root")

(* What cannot happen in such a run, and how its vaults grow.              *)
LEMMA QuietPace ==
    ASSUME [BuildNext]_buildVars, quiet'
    PROVE  /\ ~OtherVault /\ ~OtherStrategy /\ ~OtherPosition /\ ~LoseConfirmation
           /\ (quiet \/ StartRun)
<1>1. ~OtherVault /\ ~OtherStrategy /\ ~OtherPosition /\ ~LoseConfirmation
  BY DEF OtherVault, OtherStrategy, OtherPosition, LoseConfirmation
<1>2. ~StartRun => quiet' = quiet
  BY <1>1
  DEF BuildNext, ApproveAllStep, ScriptStep, Crash, FinishCreation, Others, OtherOwner, buildVars
<1> QED
  BY <1>1, <1>2

LEMMA VaultsPace ==
    ASSUME [BuildNext]_buildVars, quiet', pc \in Nat
    PROVE  \/ vaults' = vaults
           \/ pc' = pc + 1 /\ (CreateVaultStep \/ CreateRootVaultStep)
<1>1. CASE ScriptStep
  <2>1. CASE CreateVaultStep
    BY <2>1 DEF CreateVaultStep, Continue
  <2>2. CASE CreateRootVaultStep
    BY <2>2 DEF CreateRootVaultStep, Continue, Throw, vars, indexVars
  <2>3. CASE ApproveStep \/ GiveStep
    BY <2>3 DEF ApproveStep, GiveStep, Approve, TransferFrom, Throw, vars, indexVars
  <2>4. CASE EndRun \/ ConfigureStep \/ PredictStep \/ CloneStep \/ DeployStep \/ DeployProxyStep
             \/ MulticallStep \/ RoleStep \/ SendStep \/ PushStep
    <3>1. UNCHANGED vars
      BY <2>4
      DEF EndRun, ConfigureStep, PredictStep, CloneStep, DeployStep, DeployProxyStep, MulticallStep,
          RoleStep, SendStep, PushStep, Throw
    <3> QED
      BY <3>1 DEF vars, indexVars
  <2> QED
    BY <1>1, <2>1, <2>2, <2>3, <2>4 DEF ScriptStep
<1>2. CASE StartRun \/ Crash \/ UNCHANGED buildVars
  BY <1>2 DEF StartRun, Crash, Throw, buildVars, vars, indexVars
<1>3. CASE ApproveAllStep \/ FinishCreation
  BY <1>3
  DEF ApproveAllStep, SetApprovalForAll, FinishCreation, FinishIntegrationVault, FinishRootVault, indexVars
<1>4. CASE MineApproval
  BY <1>4 DEF MineApproval, Approve, Throw, vars, indexVars
<1>5. CASE OtherOwner
  BY <1>5 DEF OtherOwner, TransferFrom, Approve, LockNft, indexVars
<1> QED
  BY <1>1, <1>2, <1>3, <1>4, <1>5, QuietPace DEF BuildNext, Others

(* A vault the deployer begins to make is his.                             *)
LEMMA NewIsMine ==
    ASSUME BInv, NEW n, n = Len(vaults) + 1, NEW k, NEW zero, NEW rest, NEW s,
           StartCreation(deployer, deployer, k, zero, rest, s)
    PROVE  Mine(n, k)' /\ Len(vaults') = n
<1>1. /\ topNft = n /\ n \in Nft /\ n \in Nat /\ vaults \in Seq(Vault) /\ n \notin locks
      /\ ownerOf \in [Nft -> Account \cup {NoOne}] /\ vaultIndex \in [Nft -> Vault \cup {NoOne}]
  BY HoldersAreNoVaults DEF StartCreation, Register, BInv, IInv, IndexInv, OwnerInv
<1>2. /\ ownerOf' = [ownerOf EXCEPT ![n] = deployer] /\ vaultIndex' = [vaultIndex EXCEPT ![n] = Clone(n)]
      /\ locks' = locks /\ vaults' = Append(vaults, Clone(n)) /\ creating'.nft = n /\ creating'.kind = k
  BY <1>1 DEF StartCreation, Register
<1>3. Clone(n) \in Vault
  BY <1>1, HoldersAreNoVaults DEF Clone
<1> QED
  BY <1>1, <1>2, <1>3 DEF Mine

(* What a run that goes on has made.                                       *)
LEMMA RunKeepsMine ==
    ASSUME BInv, OwnersInv, RootsInv, RegistryMoves, CombineInv, PathOK, ScriptOK, [BuildNext]_buildVars,
           pc # 0, NEW i \in 0..N, NEW k, Mine(ExpectedNft(i), k), ExpectedNft(i)' = ExpectedNft(i),
           At.built = N + 1 => i = 0, ~(GiveStep /\ pc' = pc + 1)
    PROVE  Mine(ExpectedNft(i), k)'
<1> DEFINE n == ExpectedNft(i)
<1>1. n \in Nft
  BY ExpectedIsNft DEF BInv, N
<1>2. FinishRootVault => n \notin creating.subvaults
  <2>1. ASSUME FinishRootVault PROVE CreatingRoot
    BY <2>1 DEF FinishRootVault, CreatingRoot
  <2> QED
    BY <2>1, ExpectedApart DEF CombineInv, BInv
<1> HIDE DEF n
<1>3. Mine(n, k)'
  BY <1>1, <1>2, MineKept DEF n
<1>4. n' = n
  BY DEF n
<1>5. Mine(n, k)' <=> Mine(ExpectedNft(i), k)'
  BY <1>4 DEF Mine, n
<1> QED
  BY <1>3, <1>5

(* The run's vaults while its script waits.                                *)
LEMMA RestKeepsMine ==
    ASSUME FinishInv, MineInv, [BuildNext]_buildVars, ScriptRests, pc # 0, quiet'
    PROVE  MineInv'
<1>1. /\ plan' = plan /\ PathOK /\ ScriptOK /\ N \in Nat \ {0} /\ pc \in Nat /\ N' = N /\ pc' = pc
      /\ At' = At /\ startNft' = startNft /\ Build' = Build /\ quiet
      /\ \A i \in 0..N : ExpectedNft(i)' = ExpectedNft(i)
  <2>1. ~StartRun
    BY DEF StartRun
  <2> QED
    BY <2>1, ScriptPace, QuietPace, PathIsOK, PlansAreOK, SameScript, StageRests
    DEF FinishInv, BInv, ScriptTypeOK, PathOK, ScriptRests
<1>2. vaults' = vaults /\ RegistryMoves /\ ~(GiveStep /\ pc' = pc + 1)
  BY <1>1, VaultsPace, RegistryStep DEF FinishInv
<1>3. At.built <= N => \A i \in 1..At.built : Mine(ExpectedNft(i), Build.vaults[i])'
  <2>1. ASSUME At.built <= N, NEW i \in 1..At.built
        PROVE  Mine(ExpectedNft(i), Build.vaults[i])'
    <3> DEFINE k == Build.vaults[i]
    <3>1. At.built \in Nat
      <4>1. Path[pc] \in Stages
        BY <1>1 DEF PathOK, IsPath, FinishInv, StageInv
      <4> QED
        BY <4>1 DEF At, Stages
    <3>2. i \in 0..N /\ At.built # N + 1 /\ k' = k /\ Mine(ExpectedNft(i), k)
      BY <1>1, <2>1, <3>1 DEF MineInv
    <3> HIDE DEF k
    <3>3. Mine(ExpectedNft(i), k)'
      BY <1>1, <1>2, <3>2, RunKeepsMine DEF FinishInv
    <3> QED
      BY <1>1, <3>3 DEF k
  <2> QED
    BY <2>1
<1>4. N < At.built /\ At.built <= N + 5 => Mine(ExpectedNft(0), "root")'
  BY <1>1, <1>2, RunKeepsMine DEF MineInv, FinishInv
<1> QED
  BY <1>1, <1>2, <1>3, <1>4 DEF MineInv

(* A step that makes a subvault of the run.                                *)
LEMMA SubvaultIsMade ==
    ASSUME FinishInv, MineInv, quiet, Current("createVault"), CreateVaultStep,
           NEW n, n = ExpectedNft(At.built + 1), NEW k, k = Build.vaults[At.built + 1]
    PROVE  Mine(n, k)' /\ Len(vaults') = n /\ n = startNft + At.built
<1>1. /\ PathOK /\ ScriptOK /\ N \in Nat \ {0} /\ At.built \in Nat /\ pc # 0
      /\ Step.i = At.built + 1 /\ At.built < N
  BY StageAt DEF FinishInv, Fits
<1>2. n = startNft + At.built /\ startNft \in Nat \ {0}
  <2>1. At.built + 1 \in 1..N /\ (startNft \in Nat => startNft + (At.built + 1) - 1 = startNft + At.built)
    BY <1>1
  <2> QED
    BY <1>1, <2>1, ExpectedApart DEF FinishInv, BInv
<1>3. Len(vaults) = startNft - 1 + At.built
  BY <1>1 DEF MineInv
<1>4. Len(vaults) <= n /\ n = Len(vaults) + 1
  BY <1>1, <1>2, <1>3
<1>5. CreateIntegrationVault(deployer, deployer, k)
  BY <1>1, <1>4 DEF CreateVaultStep
<1> QED
  BY <1>2, <1>4, <1>5, NewIsMine DEF FinishInv, CreateIntegrationVault

(* A quiet run's subvaults may be combined.                                *)
LEMMA QuietMayCombine ==
    ASSUME FinishInv, MineInv, quiet, Current("createRootVault")
    PROVE  MayCombine /\ ExpectedNft(0) = Len(vaults) + 1
<1>1. /\ PathOK /\ ScriptOK /\ N \in Nat \ {0} /\ At.built = N /\ pc # 0 /\ creating = NoCreation
  BY StageAt DEF FinishInv, Fits
<1>2. /\ ExpectedNfts = {ExpectedNft(i) : i \in 1..N} /\ ExpectedNft(0) = startNft + N
      /\ startNft \in Nat \ {0} /\ \A i \in 0..N : ExpectedNft(i) \in Nft
  BY <1>1, ExpectedApart, ExpectedIsNft DEF FinishInv, BInv, N
<1>3. ExpectedNft(0) = Len(vaults) + 1
  BY <1>1, <1>2 DEF MineInv
<1>4. \A i \in 1..N : LET n == ExpectedNft(i) IN
         ownerOf[n] = deployer /\ n \notin locks /\ vaultIndex[n] = n /\ n # NoOne
         /\ kind[n] = Build.vaults[i]
  <2>1. creating.nft = 0
    BY <1>1 DEF NoCreation
  <2>2. \A i \in 1..N : ExpectedNft(i) # 0 /\ ExpectedNft(i) # NoOne /\ Mine(ExpectedNft(i), Build.vaults[i])
    <3>1. At.built <= N /\ \A i \in 1..N : i \in 0..N
      BY <1>1
    <3> QED
      BY <1>1, <1>2, <3>1, HoldersAreNoVaults DEF MineInv
  <2> QED
    BY <2>1, <2>2 DEF Mine, Clone
<1>5. \A i \in 1..N : Build.vaults[i] \in {"erc20", "integration"}
  BY <1>1 DEF PathOK, PlanKinds, ScriptOK, N
<1>6. operators = {<<deployer, Governance>>}
  BY <1>1 DEF FinishInv, SentInv
<1>7. \A n \in ExpectedNfts : Subvault(n) /\ Unlocked(n) /\ ownerOf[n] = deployer
                               /\ ApprovedOrOwner(Governance, n)
  BY <1>2, <1>4, <1>5, <1>6 DEF Subvault, Unlocked, ApprovedOrOwner
<1>8. kind[vaultIndex[ExpectedNft(Build.nfts[1])]] = "erc20"
  <2>1. Build.nfts[1] \in 1..N /\ Build.vaults[Build.nfts[1]] = "erc20"
    BY <1>1 DEF PathOK, PlanKinds, ScriptOK, N
  <2> QED
    BY <1>4, <2>1
<1> QED
  BY <1>3, <1>7, <1>8 DEF MayCombine

(* The step that makes its root vault.                                     *)
LEMMA RootIsMade ==
    ASSUME FinishInv, MineInv, quiet, Current("createRootVault"), CreateRootVaultStep,
           NEW n, n = ExpectedNft(0)
    PROVE  Mine(n, "root")' /\ Len(vaults') = n
<1> DEFINE zero == ExpectedNft(Build.nfts[1])
           rest == ExpectedNfts \ {zero}
           s == IF Build.rebalanced THEN Rebalancer ELSE saved
<1>1. MayCombine /\ n = Len(vaults) + 1
  BY QuietMayCombine
<1>2. ~(Len(vaults) > n)
  <2>1. Len(vaults) \in Nat
    BY DEF FinishInv, BInv, IInv, IndexInv
  <2> QED
    BY <1>1, <2>1
<1>3. CreateRootVault(deployer, deployer, zero, rest, s)
  BY <1>1, <1>2 DEF CreateRootVaultStep
<1> HIDE DEF zero, rest, s
<1> QED
  BY <1>1, <1>3, NewIsMine DEF FinishInv, CreateRootVault

(* Every step keeps what a quiet run owns.                                 *)
LEMMA NextMine == ASSUME FinishInv, MineInv, [BuildNext]_buildVars PROVE MineInv'
<1>1. /\ plan' = plan /\ PathOK /\ ScriptOK /\ N \in Nat \ {0} /\ pc \in Nat /\ N' = N
      /\ Build' = Build /\ RegistryMoves
      /\ startNft' = startNft => \A i \in 0..N : ExpectedNft(i)' = ExpectedNft(i)
  BY ScriptPace, PathIsOK, PlansAreOK, SameScript, RegistryStep DEF FinishInv, BInv, ScriptTypeOK, PathOK
<1>2. CASE pc' = 0 \/ ~quiet'
  BY <1>2 DEF MineInv
<1>3. CASE StartRun
  <2>1. At'.built = 0 /\ startNft' = Len(vaults) + 1 /\ vaults' = vaults /\ Len(vaults) \in Nat
    BY <1>1, <1>3, StageStarts DEF StartRun, vars, indexVars, FinishInv, BInv, IInv, IndexInv
  <2>2. Len(vaults') = startNft' - 1 + 0 /\ 0 <= N' /\ ~(N' < 0) /\ 1..0 = {}
    BY <1>1, <2>1
  <2> QED
    BY <2>1, <2>2 DEF MineInv
<1>4. CASE ScriptRests /\ pc' # 0 /\ quiet'
  BY <1>4, RestKeepsMine DEF ScriptRests
<1>5. CASE ScriptMovesOn /\ quiet'
  <2>1. PICK op : Current(op)
    BY <1>5 DEF ScriptMovesOn
  <2>2. /\ pc' = pc + 1 /\ startNft' = startNft /\ pc # 0 /\ Step.op = op
        /\ At.built \in Nat /\ Fits(Step, At, N, Maker) /\ StepOK(pc)
        /\ At'.built = IF Counted(Step) THEN At.built + 1 ELSE At.built
        /\ startNft \in Nat \ {0}
    BY <1>1, <1>5, <2>1, StageAt, StageAdvances DEF ScriptMovesOn, FinishInv, BInv, ScriptTypeOK
  <2>3. quiet /\ ScriptStep /\ pc' # 0
    <3>1. ~StartRun
      BY <2>2 DEF StartRun
    <3> QED
      BY <1>1, <1>5, <2>2, <3>1, QuietPace, OnlyScriptAdvances
  <2>4. /\ Len(vaults) = startNft - 1 + (IF At.built <= N THEN At.built ELSE N + 1)
        /\ At.built <= N => \A i \in 1..At.built : Mine(ExpectedNft(i), Build.vaults[i])
        /\ N < At.built /\ At.built <= N + 5 => Mine(ExpectedNft(0), "root")
    BY <2>2, <2>3 DEF MineInv
  <2>5. ASSUME op # "give", At.built <= N, NEW i \in 1..At.built
        PROVE  Mine(ExpectedNft(i), Build.vaults[i])'
    <3> DEFINE k == Build.vaults[i]
    <3>1. i \in 0..N /\ At.built # N + 1 /\ k' = k /\ Mine(ExpectedNft(i), k)
      BY <1>1, <2>2, <2>4, <2>5
    <3>2. ~(GiveStep /\ pc' = pc + 1)
      BY <2>1, <2>5 DEF GiveStep, Current
    <3> HIDE DEF k
    <3>3. Mine(ExpectedNft(i), k)'
      BY <1>1, <2>2, <3>1, <3>2, RunKeepsMine DEF FinishInv
    <3> QED
      BY <1>1, <3>3 DEF k
  <2>6. ASSUME op # "give", N < At.built, At.built <= N + 5
        PROVE  Mine(ExpectedNft(0), "root")'
    <3>1. ~(GiveStep /\ pc' = pc + 1)
      BY <2>1, <2>6 DEF GiveStep, Current
    <3>2. 0 \in 0..N
      BY <1>1
    <3> QED
      BY <1>1, <2>2, <2>4, <2>6, <3>1, <3>2, RunKeepsMine DEF FinishInv
  <2>7. CASE op = "createVault"
    <3>1. CreateVaultStep
      BY <2>1, <2>3, <2>7, StepOf
    <3>2. At'.built = At.built + 1 /\ At.built < N /\ At.built + 1 \in 0..N
      BY <1>1, <2>2, <2>7 DEF Fits, Counted
    <3>3. PICK n, k : n = ExpectedNft(At.built + 1) /\ k = Build.vaults[At.built + 1]
      OBVIOUS
    <3>4. Mine(n, k)' /\ Len(vaults') = n /\ n = startNft + At.built
      BY <2>1, <2>3, <2>7, <3>1, <3>3, SubvaultIsMade
    <3>5. ASSUME NEW i \in 1..At.built + 1
          PROVE  Mine(ExpectedNft(i), Build.vaults[i])'
      <4>1. CASE i \in 1..At.built
        BY <2>5, <2>7, <3>2, <4>1, <1>1, <2>2
      <4>2. CASE i = At.built + 1
        <5>1. ExpectedNft(i)' = n /\ Build.vaults[i]' = k
          BY <1>1, <2>2, <3>2, <3>3, <4>2
        <5> QED
          BY <3>4, <5>1 DEF Mine
      <4> QED
        BY <2>2, <4>1, <4>2
    <3>6. Len(vaults') = startNft' - 1 + At'.built /\ At'.built <= N' /\ ~(N' < At'.built)
      BY <1>1, <2>2, <3>2, <3>4
    <3> QED
      BY <3>2, <3>5, <3>6 DEF MineInv
  <2>8. CASE op = "createRootVault"
    <3>1. CreateRootVaultStep
      BY <2>1, <2>3, <2>8, StepOf
    <3>2. At'.built = N + 1
      BY <1>1, <2>2, <2>8 DEF Fits, Counted
    <3>3. PICK n : n = ExpectedNft(0)
      OBVIOUS
    <3>4. Mine(n, "root")' /\ Len(vaults') = n
      BY <2>1, <2>3, <2>8, <3>1, <3>3, RootIsMade
    <3>5. ExpectedNft(0)' = n /\ n = startNft + N
      BY <1>1, <2>2, <3>3, ExpectedApart DEF FinishInv, BInv
    <3>6. Mine(ExpectedNft(0), "root")'
      BY <3>4, <3>5 DEF Mine
    <3>7. Len(vaults') = startNft' - 1 + (N' + 1) /\ ~(At'.built <= N') /\ At'.built = N' + 1
      BY <1>1, <2>2, <3>2, <3>4, <3>5
    <3> QED
      BY <3>6, <3>7 DEF MineInv
  <2>9. CASE op \notin {"createVault", "createRootVault"}
    <3>1. vaults' = vaults
      <4>1. ~CreateVaultStep /\ ~CreateRootVaultStep
        BY <2>1, <2>9 DEF CreateVaultStep, CreateRootVaultStep, Current
      <4> QED
        BY <1>1, <1>5, <4>1, VaultsPace
    <3>2. CASE ~Counted(Step)
      <4>1. op # "give" /\ At'.built = At.built
        BY <2>2, <3>2 DEF Counted
      <4>2. Len(vaults') = startNft' - 1 + (IF At'.built <= N' THEN At'.built ELSE N' + 1)
        BY <1>1, <2>2, <2>4, <3>1, <4>1
      <4>3. At'.built <= N' => \A i \in 1..At'.built : Mine(ExpectedNft(i), Build.vaults[i])'
        BY <1>1, <2>5, <4>1
      <4>4. N' < At'.built /\ At'.built <= N' + 5 => Mine(ExpectedNft(0), "root")'
        BY <1>1, <2>6, <4>1
      <4> QED
        BY <4>2, <4>3, <4>4 DEF MineInv
    <3>3. CASE Counted(Step)
      <4>1. At.built > N /\ At'.built = At.built + 1
        BY <1>1, <2>2, <2>9, <3>3 DEF Counted, Fits
      <4>2. Len(vaults') = startNft' - 1 + (IF At'.built <= N' THEN At'.built ELSE N' + 1)
            /\ ~(At'.built <= N')
        BY <1>1, <2>2, <2>4, <3>1, <4>1
      <4>3. op = "give" => At'.built = N + 6
        BY <1>1, <2>2, <4>1 DEF Fits
      <4>4. N' < At'.built /\ At'.built <= N' + 5 => Mine(ExpectedNft(0), "root")'
        BY <1>1, <2>2, <2>6, <4>1, <4>3
      <4> QED
        BY <4>2, <4>4 DEF MineInv
    <3> QED
      BY <3>2, <3>3
  <2> QED
    BY <2>7, <2>8, <2>9
<1> QED
  BY <1>2, <1>3, <1>4, <1>5, ScriptPace DEF ScriptRests

-----------------------------------------------------------------------------
(* What a quiet run sent and does not wait for are approvals for its       *)
(* subvaults; between the approval of the approver and the push, that      *)
(* approval is mined or will be the next one for its vault.                *)
Awaits(m) ==
    \E i \in 1..N : /\ m[2] = ExpectedNft(i) /\ 2 * i - 1 <= At.sent
                    /\ At.sent = 2 * i - 1 => m[1] = approver
Pending(n) == \E j \in DOMAIN unawaited : unawaited[j] = <<approver, n>>
WaitInv ==
    pc # 0 /\ quiet =>
        /\ \A j \in DOMAIN unawaited : Awaits(unawaited[j])
        /\ At.built <= N =>
              \A i \in 1..N : At.sent = 2 * i - 1 =>
                  getApproved[ExpectedNft(i)] = approver \/ Pending(ExpectedNft(i))

(* Who changes an approval for what the deployer owns.                     *)
LEMMA ApprovalKept ==
    ASSUME BInv, OwnersInv, [BuildNext]_buildVars, NEW n \in Nft, ownerOf[n] = deployer, n \notin locks
    PROVE  \/ getApproved'[n] = getApproved[n]
           \/ FinishRootVault
           \/ GiveStep /\ pc' = pc + 1
           \/ ApproveStep /\ pc' = pc + 1
           \/ MineApproval /\ Head(unawaited)[2] = n /\ getApproved'[n] = Head(unawaited)[1]
<1>1. getApproved \in [Nft -> Account \cup Approvees \cup {NoOne}]
  BY DEF BInv, IInv, OwnerInv
<1>2. ASSUME NEW u, NEW o, NEW k, NEW zero, NEW rest, NEW s, StartCreation(u, o, k, zero, rest, s)
      PROVE  getApproved' = getApproved
  BY <1>2 DEF StartCreation, Register
<1>3. CASE ScriptStep
  <2>1. CASE EndRun \/ ConfigureStep \/ PredictStep \/ CloneStep \/ DeployStep \/ DeployProxyStep
             \/ MulticallStep \/ RoleStep \/ SendStep \/ PushStep
    <3>1. UNCHANGED vars
      BY <2>1
      DEF EndRun, ConfigureStep, PredictStep, CloneStep, DeployStep, DeployProxyStep, MulticallStep,
          RoleStep, SendStep, PushStep, Throw
    <3> QED
      BY <3>1 DEF vars, ownerVars
  <2>2. CASE CreateVaultStep
    BY <1>2, <2>2 DEF CreateVaultStep, CreateIntegrationVault, vars, ownerVars
  <2>3. CASE CreateRootVaultStep
    BY <1>2, <2>3 DEF CreateRootVaultStep, CreateRootVault, Throw, vars, ownerVars
  <2>4. CASE ApproveStep
    BY <2>4 DEF ApproveStep, Continue, Throw, vars, ownerVars
  <2>5. CASE GiveStep
    BY <2>5 DEF GiveStep, Continue, Throw, vars, ownerVars
  <2> QED
    BY <1>3, <2>1, <2>2, <2>3, <2>4, <2>5 DEF ScriptStep
<1>4. CASE OtherVault
  BY <1>2, <1>4 DEF OtherVault, CreateIntegrationVault, RegisterVault, Register
<1>5. CASE ApproveAllStep
  BY <1>5 DEF ApproveAllStep, SetApprovalForAll
<1>6. CASE StartRun \/ LoseConfirmation \/ Crash \/ OtherStrategy \/ OtherPosition \/ UNCHANGED buildVars
  BY <1>6 DEF StartRun, LoseConfirmation, Crash, Throw, OtherStrategy, OtherPosition, buildVars, vars, ownerVars
<1>7. CASE FinishCreation
  BY <1>7 DEF FinishCreation, FinishIntegrationVault, ownerVars
<1>8. CASE MineApproval
  BY <1>1, <1>8 DEF MineApproval, Approve, Throw, vars, ownerVars
<1>9. CASE OtherOwner
  <2>1. PICK a \in Holder \ {deployer, approver}, m \in Nft :
          /\ a \in Strategy => m \in locks
          /\ \/ \E to \in Destinations : TransferFrom(a, to, m)
             \/ \E to \in Approvees : Approve(a, to, m)
             \/ LockNft(a, m)
    BY <1>9 DEF OtherOwner
  <2>2. CASE m # n
    BY <1>1, <2>1, <2>2 DEF TransferFrom, Approve, LockNft
  <2>3. CASE m = n
    BY <2>1, <2>3, OnlyDeployerMoves DEF TransferFrom, Approve, LockNft
  <2> QED
    BY <2>2, <2>3
<1> QED
  BY <1>3, <1>4, <1>5, <1>6, <1>7, <1>8, <1>9 DEF BuildNext, Others

(* What a quiet run waits for while it rests: an approval that is mined is *)
(* no longer among those to come, and gives what it names.                 *)
LEMMA RestKeepsWaits ==
    ASSUME FinishInv, MineInv, WaitInv, [BuildNext]_buildVars, ScriptRests, pc # 0, quiet'
    PROVE  WaitInv'
<1>1. /\ plan' = plan /\ PathOK /\ ScriptOK /\ N \in Nat \ {0} /\ pc \in Nat /\ N' = N /\ pc' = pc
      /\ At' = At /\ startNft' = startNft /\ quiet /\ unawaited \in Seq(Account \X Nft)
      /\ \A i \in 0..N : ExpectedNft(i)' = ExpectedNft(i)
  <2>1. ~StartRun
    BY DEF StartRun
  <2> QED
    BY <2>1, ScriptPace, QuietPace, PathIsOK, PlansAreOK, SameScript, StageRests
    DEF FinishInv, BInv, ScriptTypeOK, PathOK, ScriptRests
<1>2. At.built \in Nat /\ At.sent \in Nat /\ At.sent <= 2 * At.built
  <2>1. Path[pc] \in Stages
    BY <1>1 DEF PathOK, IsPath, FinishInv, StageInv
  <2> QED
    BY <2>1 DEF At, Stages, FinishInv, StageInv
<1>3. \/ unawaited' = unawaited /\ ~(MineApproval /\ unawaited' = Tail(unawaited))
      \/ MineApproval /\ unawaited' = Tail(unawaited)
  BY <1>1, SentPace
<1>4. MineApproval => /\ 1 \in DOMAIN unawaited /\ Head(unawaited) = unawaited[1]
                      /\ \A j \in DOMAIN unawaited : j # 1 =>
                            /\ j - 1 \in DOMAIN Tail(unawaited)
                            /\ Tail(unawaited)[j - 1] = unawaited[j]
  <2>1. unawaited \in Seq(Account \X Nft)
    BY <1>1
  <2>2. MineApproval => unawaited # <<>>
    BY DEF MineApproval
  <2> HIDE DEF MineApproval
  <2> QED
    BY <2>1, <2>2
<1>5. \A j \in DOMAIN unawaited' : \E l \in DOMAIN unawaited : unawaited'[j] = unawaited[l]
  <2>1. CASE unawaited' = unawaited
    BY <2>1
  <2>2. CASE unawaited' = Tail(unawaited) /\ unawaited # <<>>
    <3>1. \A j \in DOMAIN unawaited' : j + 1 \in DOMAIN unawaited /\ unawaited'[j] = unawaited[j + 1]
      BY <1>1, <2>2
    <3> QED
      BY <3>1
  <2> QED
    BY <1>3, <2>1, <2>2 DEF MineApproval
<1>6. \A m : Awaits(m)' <=> Awaits(m)
  <2>1. \A i \in 1..N : i \in 0..N
    BY <1>1
  <2> QED
    BY <1>1, <2>1 DEF Awaits
<1>7. \A j \in DOMAIN unawaited' : Awaits(unawaited[j])'
  BY <1>1, <1>5, <1>6 DEF WaitInv, Awaits
<1>8. ASSUME At.built <= N, NEW i \in 1..N, At.sent = 2 * i - 1
      PROVE  getApproved'[ExpectedNft(i)] = approver \/ Pending(ExpectedNft(i))'
  <2> DEFINE n == ExpectedNft(i)
  <2>1. i \in 1..At.built /\ i \in 0..N /\ n \in Nft /\ n' = n
    BY <1>1, <1>2, <1>8, ExpectedIsNft DEF FinishInv, BInv, N
  <2>2. ownerOf[n] = deployer /\ n \notin locks
    BY <1>1, <1>8, <2>1 DEF MineInv, Mine
  <2>3. getApproved[n] = approver \/ Pending(n)
    BY <1>1, <1>8 DEF WaitInv
  <2>4. ~FinishRootVault
    <3>1. ~CreatingRoot
      BY <1>1, <1>2, <1>8 DEF FinishInv, CombineInv
    <3> QED
      BY <3>1 DEF FinishRootVault, CreatingRoot
  <2>5. ASSUME MineApproval, Head(unawaited)[2] = n
        PROVE  Head(unawaited)[1] = approver
    <3>1. 1 \in DOMAIN unawaited /\ Head(unawaited) = unawaited[1]
      BY <1>4, <2>5 DEF MineApproval
    <3>2. PICK k \in 1..N : /\ unawaited[1][2] = ExpectedNft(k) /\ 2 * k - 1 <= At.sent
                            /\ At.sent = 2 * k - 1 => unawaited[1][1] = approver
      BY <1>1, <3>1 DEF WaitInv, Awaits
    <3>3. k = i
      <4>1. k \in 0..N
        BY <1>1
      <4> QED
        BY <1>1, <2>1, <2>5, <3>1, <3>2, <4>1, ExpectedApart DEF FinishInv, BInv
    <3> QED
      BY <1>8, <3>1, <3>2, <3>3
  <2>6. getApproved[n] = approver => getApproved'[n] = approver
    BY <1>1, <2>1, <2>2, <2>4, <2>5, ApprovalKept DEF FinishInv
  <2>7. ASSUME Pending(n) PROVE getApproved'[n] = approver \/ Pending(n)'
    <3>1. PICK j \in DOMAIN unawaited : unawaited[j] = <<approver, n>>
      BY <2>7 DEF Pending
    <3>2. CASE unawaited' = unawaited
      BY <2>1, <3>1, <3>2 DEF Pending
    <3>3. CASE MineApproval /\ unawaited' = Tail(unawaited) /\ j # 1
      <4>1. j - 1 \in DOMAIN unawaited' /\ unawaited'[j - 1] = unawaited[j]
        BY <1>4, <3>1, <3>3
      <4> QED
        BY <2>1, <3>1, <4>1 DEF Pending
    <3>4. CASE MineApproval /\ unawaited' = Tail(unawaited) /\ j = 1
      <4>1. Head(unawaited) = <<approver, n>>
        BY <1>4, <3>1, <3>4
      <4>2. Head(unawaited)[1] = approver /\ Head(unawaited)[2] = n
        BY <4>1
      <4>3. getApproved' = [getApproved EXCEPT ![n] = approver]
        BY <2>2, <3>4, <4>2 DEF MineApproval, Approve
      <4> QED
        BY <2>1, <4>3 DEF FinishInv, BInv, IInv, OwnerInv
    <3> QED
      BY <1>3, <3>2, <3>3, <3>4
  <2> QED
    BY <2>3, <2>6, <2>7
<1>9. \A i \in 1..N : i \in 0..N
  BY <1>1
<1> QED
  BY <1>1, <1>7, <1>8, <1>9 DEF WaitInv

(* Sending an approval, or none: what was waited for before still is.      *)
LEMMA SendKeepsWaits ==
    ASSUME N \in Nat, At.sent \in Nat, NEW k \in 1..N, NEW to, NEW u, u = <<to, ExpectedNft(k)>>,
           unawaited \in Seq(Account \X Nft), u \in Account \X Nft,
           \A j \in DOMAIN unawaited : Awaits(unawaited[j]),
           unawaited' = Append(unawaited, u), N' = N, At'.sent = At.sent + 1,
           \A i \in 1..N : ExpectedNft(i)' = ExpectedNft(i), approver' = approver,
           \/ At.sent = 2 * k - 2 /\ to = approver
           \/ At.sent = 2 * k - 1
    PROVE  /\ \A j \in DOMAIN unawaited' : Awaits(unawaited[j])'
           /\ \A i \in 1..N : At'.sent = 2 * i - 1 => u = <<approver, ExpectedNft(i)>>
           /\ \E j \in DOMAIN unawaited' : unawaited'[j] = u
<1>1. /\ DOMAIN unawaited' = 1..Len(unawaited) + 1 /\ DOMAIN unawaited = 1..Len(unawaited)
      /\ Len(unawaited) \in Nat
      /\ \A j \in DOMAIN unawaited : unawaited'[j] = unawaited[j]
      /\ unawaited'[Len(unawaited) + 1] = u
  <2>1. unawaited \in Seq(Account \X Nft) /\ u \in Account \X Nft /\ unawaited' = Append(unawaited, u)
    OBVIOUS
  <2> QED
    BY <2>1
<1>2. \A i \in 1..N : 2 * i - 1 <= At.sent => 2 * i - 1 <= At'.sent /\ At'.sent # 2 * i - 1
  <2>1. At.sent + 1 = 2 * k - 1 \/ At.sent + 1 = 2 * k
    OBVIOUS
  <2>2. ASSUME NEW i \in 1..N, 2 * i - 1 <= At.sent
        PROVE  2 * i - 1 <= At.sent + 1 /\ At.sent + 1 # 2 * i - 1
    BY <2>2
  <2> QED
    BY <2>2
<1>3. 2 * k - 1 <= At'.sent /\ (At'.sent = 2 * k - 1 => to = approver)
      /\ \A i \in 1..N : At'.sent = 2 * i - 1 => i = k
  <2> DEFINE x == At.sent
  <2>1. x \in Nat /\ N \in Nat /\ k \in 1..N /\ (x = 2 * k - 2 \/ x = 2 * k - 1)
        /\ At'.sent = x + 1 /\ (x = 2 * k - 2 => to = approver)
    <3>1. x = 2 * k - 1 => x # 2 * k - 2
      OBVIOUS
    <3> QED
      BY <3>1
  <2> HIDE DEF x
  <2>2. 2 * k - 1 <= x + 1 /\ (x + 1 = 2 * k - 1 => x = 2 * k - 2)
        /\ \A i \in 1..N : x + 1 = 2 * i - 1 => i = k
    BY <2>1
  <2> QED
    BY <2>1, <2>2
<1>4. ASSUME NEW j \in DOMAIN unawaited, NEW m, m = unawaited[j] PROVE Awaits(m)'
  <2>1. PICK i \in 1..N : m[2] = ExpectedNft(i) /\ 2 * i - 1 <= At.sent
    BY <1>4 DEF Awaits
  <2>2. m[2] = ExpectedNft(i)' /\ 2 * i - 1 <= At'.sent /\ At'.sent # 2 * i - 1 /\ i \in 1..N'
    BY <1>2, <2>1
  <2> QED
    BY <2>2 DEF Awaits
<1>5. ASSUME NEW m, m = u PROVE Awaits(m)'
  <2>1. m[1] = to /\ m[2] = ExpectedNft(k)' /\ k \in 1..N'
    BY <1>5
  <2> QED
    BY <1>3, <2>1 DEF Awaits
<1>6. ASSUME NEW j \in DOMAIN unawaited', NEW m, m = unawaited'[j] PROVE Awaits(m)'
  <2>1. j = Len(unawaited) + 1 \/ j \in DOMAIN unawaited
    BY <1>1
  <2> QED
    BY <1>1, <1>4, <1>5, <1>6, <2>1
<1>7. \A j \in DOMAIN unawaited' : Awaits(unawaited[j])'
  BY <1>6 DEF Awaits
<1>8. Len(unawaited) + 1 \in DOMAIN unawaited'
  BY <1>1
<1>9. ASSUME NEW i \in 1..N, At'.sent = 2 * i - 1 PROVE u = <<approver, ExpectedNft(i)>>
  BY <1>3, <1>9
<1> QED
  BY <1>1, <1>7, <1>8, <1>9

(* Every step keeps what a quiet run waits for.                            *)
LEMMA NextWaits == ASSUME FinishInv, MineInv, WaitInv, [BuildNext]_buildVars PROVE WaitInv'
<1>1. /\ plan' = plan /\ PathOK /\ ScriptOK /\ N \in Nat \ {0} /\ pc \in Nat /\ N' = N
      /\ startNft' = startNft => \A i \in 0..N : ExpectedNft(i)' = ExpectedNft(i)
      /\ unawaited \in Seq(Account \X Nft)
  BY ScriptPace, PathIsOK, PlansAreOK, SameScript DEF FinishInv, BInv, ScriptTypeOK, PathOK
<1>2. CASE pc' = 0 \/ ~quiet'
  BY <1>2 DEF WaitInv
<1>3. CASE StartRun
  <2>1. At'.sent = 0 /\ unawaited' = <<>>
    BY <1>1, <1>3, StageStarts DEF StartRun, FinishInv, SentInv
  <2>2. DOMAIN unawaited' = {} /\ \A i \in 1..N' : At'.sent # 2 * i - 1
    BY <1>1, <2>1
  <2> QED
    BY <2>2 DEF WaitInv
<1>4. CASE ScriptRests /\ pc' # 0 /\ quiet'
  BY <1>4, RestKeepsWaits DEF ScriptRests
<1>5. CASE ScriptMovesOn /\ quiet'
  <2>1. PICK op : Current(op)
    BY <1>5 DEF ScriptMovesOn
  <2>2. /\ pc' = pc + 1 /\ startNft' = startNft /\ pc # 0 /\ Step.op = op
        /\ At.built \in Nat /\ At.sent \in Nat /\ Fits(Step, At, N, Maker) /\ creating = NoCreation
        /\ At.sent <= 2 * At.built
        /\ At'.built = IF Counted(Step) THEN At.built + 1 ELSE At.built
        /\ At'.sent = IF op \in {"sendApproval", "push"} THEN At.sent + 1 ELSE At.sent
    BY <1>1, <1>5, <2>1, StageAt, StageAdvances DEF ScriptMovesOn, FinishInv
  <2>3. quiet /\ pc' # 0
    <3>1. ~StartRun
      BY <2>2 DEF StartRun
    <3> QED
      BY <1>1, <1>5, <2>2, <3>1, QuietPace
  <2>4. /\ \A j \in DOMAIN unawaited : Awaits(unawaited[j])
        /\ At.built <= N =>
              \A i \in 1..N : At.sent = 2 * i - 1 =>
                  getApproved[ExpectedNft(i)] = approver \/ Pending(ExpectedNft(i))
    BY <2>2, <2>3 DEF WaitInv
  <2>5. \A i \in 1..N : i \in 0..N /\ ExpectedNft(i)' = ExpectedNft(i) /\ ExpectedNft(i) \in Nft
    <3>1. \A i \in 1..N : i \in 0..N
      BY <1>1
    <3> QED
      BY <1>1, <2>2, <3>1, ExpectedIsNft DEF FinishInv, BInv, N
  <2>6. CASE op \in {"sendApproval", "push"}
    <3>1. PICK k, to, u : /\ k = Step.i /\ to = IF op = "push" THEN saved ELSE approver
                          /\ u = <<to, ExpectedNft(k)>>
      OBVIOUS
    <3>2. /\ k \in 1..N /\ At'.built = At.built
          /\ \/ At.sent = 2 * k - 2 /\ to = approver
             \/ At.sent = 2 * k - 1
      <4>1. ~Counted(Step) /\ OfVault(k, At, N)
        BY <2>2, <2>6, <3>1 DEF Counted, Fits
      <4>2. k \in 1..N
        BY <1>1, <2>2, <4>1 DEF OfVault
      <4> QED
        BY <2>2, <2>6, <3>1, <4>1, <4>2 DEF Fits
    <3>3. unawaited' = Append(unawaited, u)
      <4>1. \A o : Current(o) => o = op
        BY <2>1 DEF Current
      <4>2. CASE op = "sendApproval"
        <5>1. SendStep
          BY <1>1, <1>5, <2>1, <2>2, <2>3, <4>2, OnlyScriptAdvances, StepOf
        <5> QED
          BY <3>1, <4>2, <5>1 DEF SendStep, SendApproval
      <4>3. CASE op = "push"
        <5>1. PushStep
          BY <1>1, <1>5, <2>1, <2>2, <2>3, <4>3, OnlyScriptAdvances, StepOf
        <5> QED
          BY <2>2, <2>3, <3>1, <4>3, <5>1 DEF PushStep, SendApproval, Throw, End
      <4> QED
        BY <2>6, <4>2, <4>3
    <3>4. u \in Account \X Nft
      <4>1. unawaited' \in Seq(Account \X Nft)
        <5>1. BInv'
          BY NextBInv DEF FinishInv
        <5> QED
          BY <5>1 DEF BInv, ScriptTypeOK
      <4>2. unawaited'[Len(unawaited) + 1] = u /\ Len(unawaited) + 1 \in DOMAIN unawaited'
        <5>1. unawaited \in Seq(Account \X Nft)
          BY <1>1
        <5> QED
          BY <3>3, <5>1
      <4> QED
        BY <4>1, <4>2
    <3>5. At'.sent = At.sent + 1
      BY <2>2, <2>6
    <3>6. /\ \A j \in DOMAIN unawaited' : Awaits(unawaited[j])'
          /\ \A i \in 1..N : At'.sent = 2 * i - 1 => u = <<approver, ExpectedNft(i)>>
          /\ \E j \in DOMAIN unawaited' : unawaited'[j] = u
      <4>1. /\ N \in Nat /\ At.sent \in Nat /\ k \in 1..N /\ u = <<to, ExpectedNft(k)>>
            /\ unawaited \in Seq(Account \X Nft) /\ u \in Account \X Nft
            /\ \A j \in DOMAIN unawaited : Awaits(unawaited[j])
            /\ unawaited' = Append(unawaited, u) /\ N' = N /\ At'.sent = At.sent + 1
        BY <1>1, <2>2, <2>4, <3>1, <3>2, <3>3, <3>4, <3>5
      <4>2. \A i \in 1..N : ExpectedNft(i)' = ExpectedNft(i)
        BY <2>5
      <4>3. (At.sent = 2 * k - 2 /\ to = approver) \/ At.sent = 2 * k - 1
        BY <3>2
      <4> QED
        BY <4>1, <4>2, <4>3, SendKeepsWaits
    <3>7. ASSUME NEW i \in 1..N', At'.sent = 2 * i - 1 PROVE Pending(ExpectedNft(i))'
      <4>1. i \in 1..N
        BY <1>1, <3>7
      <4> QED
        BY <2>5, <3>6, <3>7, <4>1 DEF Pending
    <3> QED
      BY <3>6, <3>7 DEF WaitInv
  <2>7. CASE op \notin {"sendApproval", "push"}
    <3>1. unawaited' = unawaited /\ At'.sent = At.sent
      <4>1. ~Current("sendApproval") /\ ~Current("push")
        BY <2>1, <2>7 DEF Current
      <4> QED
        BY <1>1, <2>2, <2>3, <2>7, <4>1, SentPace
    <3>2. \A m : Awaits(m) => Awaits(m)'
      BY <1>1, <2>5, <3>1 DEF Awaits
    <3>3. \A j \in DOMAIN unawaited' : Awaits(unawaited[j])'
      BY <2>4, <3>1, <3>2 DEF Awaits
    <3>4. ASSUME At'.built <= N, NEW i \in 1..N, At'.sent = 2 * i - 1
          PROVE  getApproved'[ExpectedNft(i)'] = approver \/ Pending(ExpectedNft(i))'
      <4>1. PICK n : n = ExpectedNft(i)
        OBVIOUS
      <4>2. i \in 1..At.built /\ At.built <= N
        <5> DEFINE b == At.built
        <5>1. b \in Nat /\ (At'.built = b \/ At'.built = b + 1) /\ 2 * i - 1 <= 2 * b
          BY <2>2, <3>1, <3>4
        <5>2. N \in Nat
          BY <1>1
        <5> HIDE DEF b
        <5>3. i \in 1..b /\ b <= N
          BY <3>4, <5>1, <5>2
        <5> QED
          BY <5>3 DEF b
      <4>3. ownerOf[n] = deployer /\ n \notin locks /\ n \in Nft
        BY <2>2, <2>3, <2>5, <4>1, <4>2 DEF MineInv, Mine
      <4>4. getApproved[n] = approver \/ Pending(n)
        BY <2>4, <3>1, <3>4, <4>1, <4>2
      <4>5. getApproved'[n] = getApproved[n]
        <5>1. ~FinishRootVault
          BY <2>2 DEF FinishRootVault, NoCreation
        <5>2. ~GiveStep
          <6>1. op # "give"
            BY <1>1, <2>2, <4>2 DEF Fits
          <6> QED
            BY <2>1, <6>1 DEF GiveStep, Current
        <5>3. ~ApproveStep
          <6>1. 2 * i - 1 # 0
            OBVIOUS
          <6>2. op # "approve"
            BY <2>2, <3>1, <3>4, <6>1 DEF Fits
          <6> QED
            BY <2>1, <6>2 DEF ApproveStep, Current
        <5>4. ~MineApproval
          <6>1. MineApproval => pc' = pc \/ pc' = 0
            BY DEF MineApproval, Throw, End
          <6>2. pc' # pc /\ pc' # 0
            BY <1>1, <2>2
          <6> QED
            BY <6>1, <6>2
        <5> QED
          BY <4>3, <5>1, <5>2, <5>3, <5>4, ApprovalKept DEF FinishInv
      <4>6. Pending(n) => Pending(n)'
        BY <3>1 DEF Pending
      <4> QED
        BY <2>5, <4>1, <4>4, <4>5, <4>6 DEF Pending
    <3> QED
      BY <1>1, <3>3, <3>4 DEF WaitInv
  <2> QED
    BY <2>6, <2>7
<1> QED
  BY <1>2, <1>3, <1>4, <1>5, ScriptPace DEF ScriptRests

(* A quiet run's clone gets the address that was asked for, and its first  *)
(* roles are the deployer's until the multicall.                           *)
NewInv ==
    pc # 0 /\ quiet /\ Makes("clone") =>
        /\ pc = MakerAt => saved = StrategyAddress[made + 1]
        /\ At.hand = 1 => roles[saved] = FirstRoles(deployer)

(* While the script waits, only others make strategies.                    *)
LEMMA SavedPace ==
    ASSUME [BuildNext]_buildVars, ~OtherStrategy, pc \in Nat, pc' = pc, pc # 0
    PROVE  saved' = saved /\ made' = made
<1>1. pc # pc + 1 /\ pc # 0
  OBVIOUS
<1>2. ~StartRun
  BY DEF StartRun
<1>3. CASE ScriptStep
  <2>1. CASE MulticallStep
    BY <1>1, <2>1 DEF MulticallStep, Continue, Throw, End, builderVars, strategyVars, scriptVars
  <2> QED
    BY <1>1, <1>3, <2>1
    DEF ScriptStep, EndRun, CreateVaultStep, CreateRootVaultStep, ConfigureStep, PredictStep, CloneStep,
        DeployStep, DeployProxyStep, RoleStep, ApproveStep, SendStep, PushStep, GiveStep, Continue, Throw, End
<1>4. CASE ~ScriptStep
  BY <1>1, <1>2, <1>4
  DEF BuildNext, ApproveAllStep, LoseConfirmation, Crash, MineApproval, FinishCreation, Others,
      OtherVault, OtherPosition, OtherOwner, Throw, End, buildVars, builderVars, scriptVars, strategyVars
<1> QED
  BY <1>3, <1>4

(* Every step keeps what is said of a quiet run's clone.                   *)
LEMMA NextNew == ASSUME BInv, StageInv, NewInv, [BuildNext]_buildVars PROVE NewInv'
<1>1. /\ plan' = plan /\ PathOK /\ ScriptOK /\ pc \in Nat /\ MakerAt' = MakerAt /\ MakerAt \in Nat \ {0}
      /\ Makes("clone")' = Makes("clone")
  BY ScriptPace, PathIsOK, PlansAreOK, SameScript DEF BInv, ScriptTypeOK, ScriptOK, MakerOK, Makes
<1>2. CASE pc' = 0 \/ ~quiet' \/ ~Makes("clone")
  BY <1>1, <1>2 DEF NewInv
<1>3. CASE StartRun /\ Makes("clone")
  <2>1. At'.hand = 0 /\ pc' = 1
    BY <1>1, <1>3, StageStarts DEF StartRun
  <2>2. pc' # MakerAt'
    BY <1>1, <1>3, <2>1 DEF ScriptOK, MakerOK
  <2> QED
    BY <2>1, <2>2 DEF NewInv
<1>4. ASSUME pc # 0, pc' # 0, quiet', Makes("clone"), pc > MakerAt, ~(Current("multicall") /\ pc' = pc + 1)
      PROVE  saved' = saved /\ roles'[saved] = roles[saved]
  <2>1. ~Current("role")
    <3>1. ASSUME Current("role") PROVE Makes("deploy")
      BY <3>1, StageAt DEF Fits, Maker, Makes
    <3> QED
      BY <1>4, <3>1 DEF Makes
  <2>2. ~LoseConfirmation
    BY <1>4, QuietPace
  <2> QED
    BY <1>4, <2>1, <2>2, RolesPace
<1>5. ASSUME ScriptRests, pc # 0, quiet', Makes("clone")
      PROVE  NewInv'
  <2>1. quiet /\ pc' = pc /\ ~OtherStrategy /\ At' = At /\ pc' # pc + 1
    <3>1. ~StartRun
      BY <1>5 DEF StartRun
    <3> QED
      BY <1>1, <1>5, <3>1, QuietPace, StageRests DEF ScriptRests
  <2>2. saved' = saved /\ made' = made
    BY <1>1, <1>5, <2>1, SavedPace
  <2>3. At.hand = 1 => roles'[saved] = roles[saved]
    <3>1. At.hand = 1 => pc > MakerAt
      BY <1>5 DEF StageInv
    <3> QED
      BY <1>4, <1>5, <2>1, <3>1
  <2> QED
    BY <1>1, <1>5, <2>1, <2>2, <2>3 DEF NewInv
<1>6. ASSUME ScriptMovesOn, quiet', Makes("clone")
      PROVE  NewInv'
  <2>1. PICK op : Current(op)
    BY <1>6 DEF ScriptMovesOn
  <2>2. /\ pc' = pc + 1 /\ pc # 0 /\ Step.op = op /\ Fits(Step, At, N, Maker) /\ StepOK(pc)
        /\ At.hand \in Nat /\ creating = NoCreation
        /\ At.hand = 0 <=> ~(pc > MakerAt)
        /\ At'.hand = IF op \in MakerOps \cup {"multicall"} THEN At.hand + 1 ELSE At.hand
    BY <1>1, <1>6, <2>1, StageAt, StageAdvances DEF ScriptMovesOn
  <2>3. quiet /\ pc' # 0 /\ ScriptStep
    <3>1. ~StartRun
      BY <2>2 DEF StartRun
    <3> QED
      BY <1>1, <1>6, <2>2, <3>1, QuietPace, OnlyScriptAdvances
  <2>4. ASSUME pc' = MakerAt PROVE saved' = StrategyAddress[made' + 1]
    <3>1. op = "predict"
      <4>1. pc = MakerAt - 1
        BY <1>1, <2>2, <2>4
      <4> QED
        BY <1>1, <1>6, <2>2, <4>1 DEF ScriptOK, MakerOK, Step
    <3>2. PredictStep
      BY <2>1, <2>3, <3>1, StepOf
    <3> QED
      BY <3>2 DEF PredictStep, strategyVars
  <2>5. ASSUME At'.hand = 1 PROVE roles'[saved'] = FirstRoles(deployer)
    <3>1. CASE op \in MakerOps
      <4> DEFINE new == StrategyAddress[made + 1]
      <4>1. op = "clone"
        BY <1>6, <2>2, <3>1 DEF Fits, Maker, Makes
      <4>2. CloneStep
        BY <2>1, <2>3, <4>1, StepOf
      <4>3. /\ pc = MakerAt /\ made \in Nat /\ new \in Strategy \ Made
            /\ made + 1 \in DOMAIN StrategyAddress
        BY <2>1, <4>1, AtMaker DEF MakerOps
      <4>4. Make(deployer, ExpectedNfts, FirstRoles(deployer)) /\ saved' = saved
        BY <4>2 DEF CloneStep
      <4>5. saved = new
        BY <1>6, <2>2, <2>3, <4>3 DEF NewInv
      <4>6. roles'[new] = FirstRoles(deployer)
        BY <4>3, <4>4 DEF Make, BInv, ScriptTypeOK
      <4> QED
        BY <4>4, <4>5, <4>6
    <3>2. CASE op \notin MakerOps
      <4>1. At.hand = 1 /\ op # "multicall"
        BY <2>2, <2>5, <3>2 DEF Fits
      <4>2. pc > MakerAt /\ ~Current("multicall")
        BY <2>2, <4>1 DEF Current
      <4> QED
        BY <1>4, <1>6, <2>2, <2>3, <4>1, <4>2 DEF NewInv
    <3> QED
      BY <3>1, <3>2
  <2> QED
    BY <1>1, <2>4, <2>5 DEF NewInv
<1> QED
  BY <1>2, <1>3, <1>5, <1>6, ScriptPace DEF ScriptRests

(* The call that the script makes next reverts.                            *)
Reverts ==
    \/ Current("createRootVault") /\ ~MayCombine
    \/ /\ \E op \in ConfOps : Current(op)
       /\ ~ /\ deployer \in {ownerOf[ExpectedNft(Step.i)], getApproved[ExpectedNft(Step.i)]}
            /\ Step.op = "addDepositorsToAllowlist" => kind[vaultIndex[ExpectedNft(Step.i)]] = "root"
    \/ Current("multicall") /\ MulticallRoles(roles[saved], Build.roles) = {}
    \/ Current("role") /\ ~MayCallRole(roles[saved], Build.roles[Step.i])
    \/ Current("approve") /\ ownerOf[ExpectedNft(Step.i)] # deployer
    \/ Current("give") /\ ownerOf[ExpectedNft(0)] # deployer
    \/ /\ Current("push") /\ getApproved[ExpectedNft(Step.i)] # approver
       /\ <<approver, ExpectedNft(Step.i)>> \notin ToSet(unawaited)

(* A run ends as reverted only by a call that does, or as another minter   *)
(* takes its position's number.                                            *)
LEMMA RevertPace ==
    ASSUME [BuildNext]_buildVars, outcome' = "reverted", ~OtherPosition
    PROVE  Reverts \/ (outcome = "reverted" /\ ~StartRun)
<1>1. ~StartRun
  BY DEF StartRun
<1>2. CASE ScriptStep
  <2>1. CASE EndRun
    BY <2>1 DEF EndRun, End
  <2>2. CASE CreateVaultStep \/ PredictStep \/ CloneStep \/ DeployStep \/ DeployProxyStep \/ SendStep
    BY <1>1, <2>2 DEF CreateVaultStep, PredictStep, CloneStep, DeployStep, DeployProxyStep, SendStep, Continue
  <2>3. CASE CreateRootVaultStep
    <3>1. CASE MayCombine \/ Len(vaults) > ExpectedNft(0)
      <4>1. Continue
        BY <2>3, <3>1 DEF CreateRootVaultStep
      <4> QED
        BY <1>1, <4>1 DEF Continue
    <3> QED
      BY <2>3, <3>1 DEF CreateRootVaultStep, Reverts
  <2>4. CASE ConfigureStep
    BY <1>1, <2>4 DEF ConfigureStep, Continue, Reverts, ConfOps
  <2>5. CASE MulticallStep
    BY <1>1, <2>5 DEF MulticallStep, Throw, End, Continue, Reverts, builderVars, scriptVars
  <2>6. CASE RoleStep
    BY <1>1, <2>6 DEF RoleStep, Throw, End, Continue, Reverts
  <2>7. CASE ApproveStep \/ GiveStep
    BY <1>1, <2>7 DEF ApproveStep, GiveStep, Continue, Reverts
  <2>8. CASE PushStep
    BY <1>1, <2>8 DEF PushStep, Throw, End, Reverts
  <2> QED
    BY <1>2, <2>1, <2>2, <2>3, <2>4, <2>5, <2>6, <2>7, <2>8 DEF ScriptStep
<1>3. CASE MineApproval
  BY <1>1, <1>3 DEF MineApproval, Throw, End
<1>4. CASE Crash
  BY <1>4 DEF Crash, Throw, End
<1>5. CASE ~ScriptStep /\ ~MineApproval /\ ~Crash
  BY <1>1, <1>5
  DEF BuildNext, ApproveAllStep, LoseConfirmation, FinishCreation, Others,
      OtherVault, OtherStrategy, OtherOwner, buildVars, builderVars, scriptVars
<1> QED
  BY <1>2, <1>3, <1>4, <1>5

(* Nothing reverts in a run that nobody disturbs.                          *)
LEMMA QuietRunsGoOn ==
    ASSUME FinishInv, MineInv, WaitInv, NewInv, quiet
    PROVE  ~Reverts
<1>1. ASSUME NEW op, Current(op)
      PROVE  /\ Step.op = op /\ creating.nft = 0 /\ PathOK /\ ScriptOK /\ N \in Nat \ {0} /\ pc # 0
             /\ At.built \in Nat /\ At.sent \in Nat /\ At.hand \in Nat /\ Fits(Step, At, N, Maker) /\ StepOK(pc)
             /\ At.sent <= 2 * At.built /\ Step.i \in Nat
  BY <1>1, StageAt DEF FinishInv, NoCreation
<1>2. ASSUME NEW op, Current(op), OfVault(Step.i, At, N)
      PROVE  ownerOf[ExpectedNft(Step.i)] = deployer
  BY <1>1, <1>2 DEF OfVault, MineInv, Mine
<1>3. ASSUME NEW op, Current(op), N < At.built, At.built <= N + 5
      PROVE  ownerOf[ExpectedNft(0)] = deployer /\ kind[vaultIndex[ExpectedNft(0)]] = "root"
  <2>1. PICK n : n = ExpectedNft(0)
    OBVIOUS
  <2>2. Mine(n, "root") /\ creating.nft = 0
    BY <1>1, <1>3, <2>1 DEF MineInv
  <2>3. n # 0
    <3>1. n \in Nft
      BY <1>1, <1>3, <2>1, ExpectedIsNft DEF FinishInv, BInv
    <3> QED
      BY <3>1, HoldersAreNoVaults
  <2> QED
    BY <2>1, <2>2, <2>3 DEF Mine
<1>4. ASSUME Current("createRootVault") PROVE MayCombine
  BY <1>4, QuietMayCombine
<1>5. ASSUME NEW op \in ConfOps, Current(op)
      PROVE  /\ ownerOf[ExpectedNft(Step.i)] = deployer
             /\ Step.op = "addDepositorsToAllowlist" => kind[vaultIndex[ExpectedNft(Step.i)]] = "root"
  <2>1. /\ Step.op = op /\ op \in ConfOps /\ N \in Nat /\ At.built \in Nat /\ Fits(Step, At, N, Maker)
    BY <1>1, <1>5
  <2>2. CASE Step.i = 0
    <3>1. N < At.built /\ At.built <= N + 5
      BY <2>1, <2>2 DEF ConfOps, Fits
    <3> QED
      BY <1>3, <1>5, <2>2, <3>1
  <2>3. CASE Step.i # 0
    <3>1. OfVault(Step.i, At, N) /\ op # "addDepositorsToAllowlist"
      BY <2>1, <2>3 DEF ConfOps, Fits
    <3> QED
      BY <1>2, <1>5, <2>1, <3>1
  <2> QED
    BY <2>2, <2>3
<1>6. ASSUME Current("multicall")
      PROVE  MulticallRoles(roles[saved], Build.roles) # {}
  <2>1. Makes("clone") /\ At.hand = 1 /\ Build.roles \in {AdminAlone, AdminLast} /\ pc # 0
    BY <1>1, <1>6 DEF Fits, Maker, Makes, PathOK, PlanKinds
  <2>2. roles[saved] = FirstRoles(deployer)
    BY <2>1 DEF NewInv
  <2> QED
    BY <2>1, <2>2, MulticallFromFirst
<1>7. ASSUME Current("role")
      PROVE  MayCallRole(roles[saved], Build.roles[Step.i])
  <2>1. PICK i, held : i = Step.i /\ held = roles[saved]
    OBVIOUS
  <2>2. /\ i \in 1..7 /\ At.built = N + 5 + i /\ Makes("deploy") /\ Build.roles = LStrategyRoles /\ At.hand = 1
    BY <1>1, <1>7, <2>1 DEF Fits, Maker, Makes, PathOK, PlanKinds
  <2>3. DeployerHas(held, OwnRoles(N + 5 + i)) /\ (i # 1 => <<"ADMIN_ROLE", mStrategyAdmin>> \in held)
    <3>1. N \in Nat /\ pc # 0
      BY <1>1, <1>7
    <3>2. i # 1 => At.built > N + 6
      BY <2>2, <3>1
    <3> QED
      BY <2>1, <2>2, <3>1, <3>2 DEF FinishInv, RoleInv
  <2>4. MayCallRole(held, LStrategyRoles[i])
    BY <1>1, <1>7, <2>2, <2>3, RoleCallsGo
  <2> QED
    BY <2>1, <2>2, <2>4
<1>8. ASSUME Current("approve") PROVE ownerOf[ExpectedNft(Step.i)] = deployer
  BY <1>1, <1>2, <1>8 DEF Fits
<1>9. ASSUME Current("give") PROVE ownerOf[ExpectedNft(0)] = deployer
  <2>1. N < At.built /\ At.built <= N + 5
    BY <1>1, <1>9 DEF Fits
  <2> QED
    BY <1>3, <1>9, <2>1
<1>10. ASSUME Current("push"), getApproved[ExpectedNft(Step.i)] # approver
       PROVE  <<approver, ExpectedNft(Step.i)>> \in ToSet(unawaited)
  <2>1. At.sent = 2 * Step.i - 1 /\ Step.i \in 1..N /\ At.built <= N /\ pc # 0
    BY <1>1, <1>10 DEF Fits, OfVault
  <2>2. Pending(ExpectedNft(Step.i))
    BY <1>10, <2>1 DEF WaitInv
  <2> QED
    BY <2>2 DEF Pending, ToSet
<1> QED
  BY <1>4, <1>5, <1>6, <1>7, <1>8, <1>9, <1>10 DEF Reverts

(* What comes too early or too late was sent without waiting.              *)
Untimely == {"too early", "too late"}
SendsInv ==
    /\ unawaited # <<>> => ~Build.waits
    /\ outcome \in Untimely => ~Build.waits

LEMMA SendersDoNotWait ==
    ASSUME BInv, StageInv, NEW op \in {"sendApproval", "push", "role"}, Current(op)
    PROVE  ~Build.waits
<1>1. Step.op = op /\ PathOK /\ Fits(Step, At, N, Maker)
  BY StageAt
<1> QED
  BY <1>1 DEF Fits, PathOK, PlanKinds

LEMMA UntimelyPace ==
    ASSUME [BuildNext]_buildVars, outcome' \in Untimely
    PROVE  \/ outcome' = outcome
           \/ ~Build.waits \/ Current("push") \/ Current("role")
           \/ unawaited # <<>>
<1> USE DEF Untimely
<1>1. CASE ScriptStep
  <2>1. CASE EndRun
    BY <2>1 DEF EndRun, End
  <2>2. CASE CreateVaultStep \/ PredictStep \/ CloneStep \/ DeployStep \/ DeployProxyStep \/ SendStep
    BY <2>2 DEF CreateVaultStep, PredictStep, CloneStep, DeployStep, DeployProxyStep, SendStep, Continue
  <2>3. CASE CreateRootVaultStep
    BY <2>3 DEF CreateRootVaultStep, Continue, Throw, End
  <2>4. CASE ConfigureStep \/ ApproveStep \/ GiveStep
    BY <2>4 DEF ConfigureStep, ApproveStep, GiveStep, Continue, Throw, End
  <2>5. CASE MulticallStep
    BY <2>5 DEF MulticallStep, Continue, Throw, End, builderVars, scriptVars
  <2>6. CASE RoleStep \/ PushStep
    BY <2>6 DEF RoleStep, PushStep
  <2> QED
    BY <1>1, <2>1, <2>2, <2>3, <2>4, <2>5, <2>6 DEF ScriptStep
<1>2. CASE MineApproval
  BY <1>2 DEF MineApproval
<1>3. CASE Crash \/ StartRun \/ OtherPosition
  BY <1>3 DEF Crash, StartRun, OtherPosition, Throw, End
<1>4. CASE ~ScriptStep /\ ~MineApproval /\ ~Crash /\ ~StartRun /\ ~OtherPosition
  BY <1>4
  DEF BuildNext, ApproveAllStep, LoseConfirmation, FinishCreation, Others,
      OtherVault, OtherStrategy, OtherOwner, buildVars, builderVars, scriptVars
<1> QED
  BY <1>1, <1>2, <1>3, <1>4

LEMMA NextSends == ASSUME BInv, StageInv, SendsInv, [BuildNext]_buildVars PROVE SendsInv'
<1>1. plan' = plan /\ pc \in Nat
  BY ScriptPace DEF BInv, ScriptTypeOK
<1>2. Build'.waits = Build.waits
  BY <1>1 DEF Build
<1>3. unawaited' # <<>> => ~Build.waits
  <2>1. CASE Current("sendApproval") \/ Current("push")
    BY <2>1, SendersDoNotWait
  <2>2. CASE unawaited # <<>>
    BY <2>2 DEF SendsInv
  <2> QED
    BY <1>1, <2>1, <2>2, SentPace DEF MineApproval
<1>4. outcome' \in Untimely => ~Build.waits
  BY UntimelyPace, SendersDoNotWait DEF SendsInv
<1> QED
  BY <1>2, <1>3, <1>4 DEF SendsInv

(* The inductive invariant of runs that nobody disturbs.                   *)
QuietInv ==
    /\ FinishInv /\ MineInv /\ WaitInv /\ NewInv /\ SendsInv
    /\ outcome = "reverted" => ~quiet

LEMMA InitQuietInv == ASSUME BuildInit PROVE QuietInv
BY InitFinishInv DEF BuildInit, QuietInv, MineInv, WaitInv, NewInv, SendsInv, Untimely

LEMMA NextQuietInv == ASSUME QuietInv, [BuildNext]_buildVars PROVE QuietInv'
<1>1. FinishInv' /\ MineInv' /\ WaitInv' /\ NewInv' /\ SendsInv'
  BY NextFinishInv, NextMine, NextWaits, NextNew, NextSends DEF QuietInv, FinishInv
<1>2. ASSUME outcome' = "reverted", quiet' PROVE FALSE
  <2>1. quiet /\ ~OtherPosition
    BY <1>2, QuietPace DEF StartRun
  <2>2. ~Reverts
    BY <2>1, QuietRunsGoOn DEF QuietInv
  <2> QED
    BY <1>2, <2>1, <2>2, RevertPace DEF QuietInv
<1> QED
  BY <1>1, <1>2 DEF QuietInv

(* The invariant of runs that nobody disturbs, of every behaviour.         *)
THEOREM QuietInvariant == BuildSpec => []QuietInv
<1>1. BuildInit => QuietInv
  BY InitQuietInv
<1>2. QuietInv /\ [BuildNext]_buildVars => QuietInv'
  BY NextQuietInv
<1> QED
  BY <1>1, <1>2, PTL DEF BuildSpec

(* A run that nobody disturbs does not throw, for whatever reason, if its  *)
(* script waits for all it sends; MStrategy's and LStrategy's, which do    *)
(* not, throw only because a transaction of theirs was not mined yet, or   *)
(* too late: for all plans and any number of runs, crashes and calls of    *)
(* others.                                                                 *)
THEOREM OnlyDisturbedRunsThrow == BuildSpec => []OnlyDisturbedRunsFail
<1>1. QuietInv => OnlyDisturbedRunsFail
  BY DEF QuietInv, SendsInv, Untimely, OnlyDisturbedRunsFail
<1> QED
  BY <1>1, QuietInvariant, PTL
=============================================================================
