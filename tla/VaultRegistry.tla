--------------------------- MODULE VaultRegistry ---------------------------
(***************************************************************************)
(* VaultRegistry and the creation of vaults: the ERC721 ownership of vault *)
(* NFTs, their locks, and the trees of subvaults that createVault and      *)
(* initialize build from them.                                             *)
(*                                                                         *)
(* One action is one call, except that createVault is two: registerVault   *)
(* mints with _safeMint, so a contract that becomes the owner is called    *)
(* back while the new vault is not initialised yet, and may use the        *)
(* registry.  `creating` is the creation under way; until it is finished   *)
(* only that owner acts.  Where the second half would revert, the model    *)
(* stops, while the code undoes the whole transaction: the model visits    *)
(* states of abandoned transactions, and none that follows them.           *)
(*                                                                         *)
(* All vaults hold the same tokens, and the NFTs a callback may create are *)
(* those of its own creation only.                                         *)
(*                                                                         *)
(* An operator that stands before its namesake and is used nowhere is a    *)
(* wrong version of it, kept to show that the properties would notice.     *)
(***************************************************************************)
EXTENDS Integers, Sequences, FiniteSets

CONSTANTS
    User,            \* accounts that create, own and trade vault NFTs
    Strategy,        \* strategies, approved for the subvaults they manage
    Governance,      \* the VaultGovernance contract
    Foreign,         \* vaults that are registered without a governance
    NoOne,           \* address(0)
    Creators,        \* holders of CREATE_VAULT
    Protocol,        \* ProtocolGovernance contracts
    Registrars,      \* [Protocol -> SUBSET Account], holders of REGISTER_VAULT
    Delay,           \* [Protocol -> Nat], governanceDelay
    Destinations,    \* accounts that transfers name
    Approvees,       \* accounts that approvals name
    Operators,       \* accounts that approvals for all name
    MaxNft, MaxTime, MaxCalls  \* bounds: vaults registered, clock, calls

Nft == 1..MaxNft
Account == User \cup Strategy \cup {Governance} \cup Nft
(* The address of a clone is determined by the NFT that salts it.          *)
Clone(n) == n
Vault == Nft \cup Foreign
NoCreation == [nft |-> 0]

ASSUME AddressAssumption ==
    /\ NoOne \notin Account \cup Foreign
    /\ (User \cup Strategy \cup {Governance} \cup Foreign) \cap Nft = {}
    /\ Governance \notin User \cup Strategy
    /\ Creators \subseteq User
ASSUME ProtocolAssumption ==
    /\ Registrars \in [Protocol -> SUBSET (User \cup {Governance})]
    /\ Delay \in [Protocol -> Nat]
    /\ NoOne \notin Protocol
ASSUME InputAssumption ==
    /\ Destinations \cup Operators \subseteq Account
    /\ Approvees \subseteq Account \cup {NoOne}
ASSUME BoundAssumption == {MaxNft, MaxTime, MaxCalls} \subseteq Nat

VARIABLES
    (* VaultRegistry *)
    vaults, nftIndex, vaultIndex, topNft, locks,
    protocolGovernance, stagedProtocolGovernance, stagedProtocolGovernanceTimestamp,
    (* its ERC721 part *)
    ownerOf, getApproved, operators,
    (* the vaults: those initialised, with their own _nft, their kind, and  *)
    (* the subvaults and the strategy a root vault was initialised with     *)
    vaultNft, kind, subvaults, strategyOf,
    creating, now,
    calls  \* calls made, to bound them

indexVars == <<vaults, nftIndex, vaultIndex, topNft>>
protocolVars == <<protocolGovernance, stagedProtocolGovernance,
                  stagedProtocolGovernanceTimestamp>>
ownerVars == <<ownerOf, getApproved, operators, locks>>
vaultVars == <<vaultNft, kind, subvaults, strategyOf>>
vars == <<indexVars, protocolVars, ownerVars, vaultVars, creating, now, calls>>

(* During the callback of a creation only the new owner acts.              *)
MayAct(a) == creating # NoCreation => creating.owner = a
Call == calls < MaxCalls /\ calls' = calls + 1

-----------------------------------------------------------------------------
(* Registration.                                                           *)

(* The checks and effects of registerVault called by `sender`.             *)
AnyVault(vault) == TRUE
NotRegistered(vault) == nftIndex[vault] = 0

TopNftStays(n) == n
TopNftAfter(n) == n + 1

Register(sender, vault, owner) ==
    /\ topNft \in Nft
    /\ sender \in Registrars[protocolGovernance]
    /\ NotRegistered(vault)
    /\ vaultIndex' = [vaultIndex EXCEPT ![topNft] = vault]
    /\ nftIndex' = [nftIndex EXCEPT ![vault] = topNft]
    /\ vaults' = Append(vaults, vault)
    /\ topNft' = TopNftAfter(topNft)
    /\ ownerOf' = [ownerOf EXCEPT ![topNft] = owner]
    /\ UNCHANGED <<getApproved, operators, locks>>

(* registerVault by an account that may register vaults of its own.        *)
RegisterVault(u, vault, owner) ==
    /\ Call
    /\ MayAct(u)
    /\ Register(u, vault, owner)
    /\ UNCHANGED <<protocolVars, vaultVars, creating, now>>

(* createVault of an integration vault or of a root vault, up to the       *)
(* callback: _createVault computes the NFT from vaultsCount and registers  *)
(* the clone.                                                              *)
StartCreation(u, owner, k, zero, others, strategy) ==
    LET nft == Len(vaults) + 1
    IN  /\ Call
        /\ creating = NoCreation
        /\ u \in Creators
        /\ Register(Governance, Clone(nft), owner)
        /\ creating' = [nft |-> nft, sender |-> u, owner |-> owner, kind |-> k,
                        subvaults |-> {zero} \cup others, zero |-> zero,
                        strategy |-> strategy]
        /\ UNCHANGED <<protocolVars, vaultVars, now>>

CreateIntegrationVault(u, owner, k) ==
    /\ k \in {"erc20", "integration"}
    /\ StartCreation(u, owner, k, 0, {}, NoOne)

CreateRootVault(u, owner, zero, others, strategy) ==
    StartCreation(u, owner, "root", zero, others, strategy)

(* Vault._initialize succeeds once.                                        *)
Initialize(v, nft) ==
    /\ vaultNft[v] = 0
    /\ vaultNft' = [vaultNft EXCEPT ![v] = nft]
    /\ kind' = [kind EXCEPT ![v] = creating.kind]

FinishIntegrationVault ==
    /\ creating # NoCreation
    /\ creating.kind # "root"
    /\ Initialize(Clone(creating.nft), creating.nft)
    /\ creating' = NoCreation
    /\ UNCHANGED <<indexVars, protocolVars, ownerVars, subvaults, strategyOf, now, calls>>

-----------------------------------------------------------------------------
(* ERC721.                                                                 *)

(* _beforeTokenTransfer                                                    *)
Unlocked(n) == n \notin locks

ApprovedOrOwner(a, n) ==
    a = ownerOf[n] \/ a = getApproved[n] \/ <<ownerOf[n], a>> \in operators

(* createVault of a root vault after the callback.  The sender's NFTs of   *)
(* the subvaults go to the new vault, which needs the sender's approval of *)
(* the governance; AggregateVault._initialize approves the strategy for    *)
(* them and locks them.                                                    *)
Subvault(n) == vaultIndex[n] # NoOne /\ kind[vaultIndex[n]] \in {"erc20", "integration"}

LockNone(nfts) == locks
LockSubvaults(nfts) == locks \cup nfts

FinishRootVault ==
    LET root == Clone(creating.nft)
        nfts == creating.subvaults
    IN  /\ creating # NoCreation
        /\ creating.kind = "root"
        /\ \A n \in nfts :
               /\ Subvault(n)
               /\ ownerOf[n] = creating.sender
               /\ ApprovedOrOwner(Governance, n)
               /\ Unlocked(n)
        /\ kind[vaultIndex[creating.zero]] = "erc20"
        /\ ownerOf' = [n \in Nft |-> IF n \in nfts THEN root ELSE ownerOf[n]]
        /\ getApproved' = [n \in Nft |-> IF n \in nfts THEN creating.strategy
                                         ELSE getApproved[n]]
        /\ locks' = LockSubvaults(nfts)
        /\ subvaults' = [subvaults EXCEPT ![root] = nfts]
        /\ strategyOf' = [strategyOf EXCEPT ![root] = creating.strategy]
        /\ Initialize(root, creating.nft)
        /\ creating' = NoCreation
        /\ UNCHANGED <<indexVars, protocolVars, operators, now, calls>>

(* transferFrom: a transfer clears the approval.                           *)
TransferFrom(a, to, n) ==
    /\ Call
    /\ MayAct(a)
    /\ ownerOf[n] # NoOne
    /\ ApprovedOrOwner(a, n)
    /\ Unlocked(n)
    /\ ownerOf' = [ownerOf EXCEPT ![n] = to]
    /\ getApproved' = [getApproved EXCEPT ![n] = NoOne]
    /\ UNCHANGED <<indexVars, protocolVars, operators, locks, vaultVars, creating, now>>

(* approve: by the owner or one of its operators, also of a locked NFT.    *)
Approve(a, to, n) ==
    /\ Call
    /\ MayAct(a)
    /\ ownerOf[n] # NoOne /\ to # ownerOf[n]
    /\ a = ownerOf[n] \/ <<ownerOf[n], a>> \in operators
    /\ getApproved' = [getApproved EXCEPT ![n] = to]
    /\ UNCHANGED <<indexVars, protocolVars, ownerOf, operators, locks, vaultVars, creating, now>>

SetApprovalForAll(a, operator, approved) ==
    /\ Call
    /\ MayAct(a)
    /\ a # operator
    /\ operators' = IF approved THEN operators \cup {<<a, operator>>}
                    ELSE operators \ {<<a, operator>>}
    /\ UNCHANGED <<indexVars, protocolVars, ownerOf, getApproved, locks, vaultVars, creating, now>>

LockNft(a, n) ==
    /\ Call
    /\ MayAct(a)
    /\ ownerOf[n] = a
    /\ locks' = locks \cup {n}
    /\ UNCHANGED <<indexVars, protocolVars, ownerOf, getApproved, operators, vaultVars,
                   creating, now>>

-----------------------------------------------------------------------------
(* The registry's own ProtocolGovernance; calls of its admin.              *)

StageProtocolGovernance(p) ==
    /\ Call
    /\ creating = NoCreation
    /\ stagedProtocolGovernance' = p
    /\ stagedProtocolGovernanceTimestamp' = now + Delay[protocolGovernance]
    /\ UNCHANGED <<indexVars, protocolGovernance, ownerVars, vaultVars, creating, now>>

CommitStagedProtocolGovernance ==
    /\ Call
    /\ creating = NoCreation
    /\ stagedProtocolGovernanceTimestamp # 0
    /\ now >= stagedProtocolGovernanceTimestamp
    /\ protocolGovernance' = stagedProtocolGovernance
    /\ stagedProtocolGovernance' = NoOne
    /\ stagedProtocolGovernanceTimestamp' = 0
    /\ UNCHANGED <<indexVars, ownerVars, vaultVars, creating, now>>

Tick ==
    /\ creating = NoCreation
    /\ now < MaxTime
    /\ now' = now + 1
    /\ UNCHANGED <<indexVars, protocolVars, ownerVars, vaultVars, creating, calls>>

Init ==
    /\ vaults = <<>>
    /\ nftIndex = [v \in Vault |-> 0]
    /\ vaultIndex = [n \in Nft |-> NoOne]
    /\ topNft = 1
    /\ locks = {}
    /\ protocolGovernance \in Protocol
    /\ stagedProtocolGovernance = NoOne /\ stagedProtocolGovernanceTimestamp = 0
    /\ ownerOf = [n \in Nft |-> NoOne]
    /\ getApproved = [n \in Nft |-> NoOne]
    /\ operators = {}
    /\ vaultNft = [v \in Vault |-> 0]
    /\ kind \in [Vault -> {"none", "integration"}]
    /\ \A v \in Vault : kind[v] = "integration" => v \in Foreign
    /\ subvaults = [n \in Nft |-> {}]
    /\ strategyOf = [n \in Nft |-> NoOne]
    /\ creating = NoCreation
    /\ now = 1 /\ calls = 0

Holder == User \cup Strategy

CreationNext ==
    \/ \E u, owner \in User, k \in {"erc20", "integration"} : CreateIntegrationVault(u, owner, k)
    \/ \E u, owner \in User, zero \in Nft, others \in SUBSET Nft, s \in Strategy :
           CreateRootVault(u, owner, zero, others, s)
    \/ FinishIntegrationVault
    \/ FinishRootVault
    \/ \E u, owner \in User, v \in Foreign : RegisterVault(u, v, owner)

OwnerNext ==
    \/ \E a \in Holder, to \in Destinations, n \in Nft : TransferFrom(a, to, n)
    \/ \E a \in Holder, to \in Approvees, n \in Nft : Approve(a, to, n)
    \/ \E a \in Holder, o \in Operators, b \in BOOLEAN : SetApprovalForAll(a, o, b)
    \/ \E a \in Holder, n \in Nft : LockNft(a, n)

ProtocolNext ==
    \/ \E p \in Protocol : StageProtocolGovernance(p)
    \/ CommitStagedProtocolGovernance

Next == CreationNext \/ OwnerNext \/ ProtocolNext \/ Tick

Spec == Init /\ [][Next]_vars

-----------------------------------------------------------------------------
(* Properties.                                                             *)

(* Owners, approvals and indices are what they should be; an NFT has an    *)
(* owner and a vault exactly when it is below _topNft.                     *)
IndexTypeOK ==
    /\ vaults \in Seq(Vault)
    /\ nftIndex \in [Vault -> Nat] /\ vaultIndex \in [Nft -> Vault \cup {NoOne}]
    /\ topNft \in 1..MaxNft + 1
    /\ ownerOf \in [Nft -> Account \cup {NoOne}]
    /\ \A n \in Nft : (ownerOf[n] # NoOne <=> n < topNft)
                      /\ (vaultIndex[n] # NoOne <=> n < topNft)
OwnerTypeOK ==
    /\ getApproved \in [Nft -> Account \cup {NoOne}]
    /\ operators \subseteq Holder \X Account
    /\ locks \subseteq Nft
    /\ vaultNft \in [Vault -> Nat]
    /\ subvaults \in [Nft -> SUBSET Nft]
    /\ strategyOf \in [Nft -> Strategy \cup {NoOne}]
ProtocolTypeOK ==
    /\ protocolGovernance \in Protocol
    /\ stagedProtocolGovernance \in Protocol \cup {NoOne}
    /\ stagedProtocolGovernanceTimestamp # 0 => stagedProtocolGovernance \in Protocol
    /\ stagedProtocolGovernanceTimestamp \in Nat /\ now \in Nat
TypeOK == IndexTypeOK /\ OwnerTypeOK /\ ProtocolTypeOK

(* The two indices are inverse to each other, and a vault knows itself by  *)
(* the NFT the registry gave it, although the governance computes that NFT *)
(* from vaultsCount before the registry assigns it.                        *)
IndicesAreInverse ==
    /\ topNft = Len(vaults) + 1
    /\ \A n \in Nft : vaultIndex[n] # NoOne => nftIndex[vaultIndex[n]] = n
    /\ \A v \in Vault : nftIndex[v] # 0 => nftIndex[v] \in Nft /\ vaultIndex[nftIndex[v]] = v
    /\ \A v \in Vault : vaultNft[v] # 0 => vaultNft[v] = nftIndex[v]

(* The subvaults of a root vault belong to it for good: owned by it,       *)
(* locked, and managed by the strategy it was initialised with, although   *)
(* that strategy and everybody else may try to transfer, approve or use    *)
(* them in another root vault.                                             *)
SubvaultsStay ==
    \A root \in Nft : \A n \in subvaults[root] :
        /\ ownerOf[n] = Clone(root)
        /\ n \in locks
        /\ getApproved[n] = strategyOf[root]

(* A locked NFT is never transferred or unlocked.                          *)
LockedNftsStay ==
    [][\A n \in locks : n \in locks' /\ ownerOf'[n] = ownerOf[n]]_vars
=============================================================================
