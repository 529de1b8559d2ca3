------------------------- MODULE ProtocolGovernance -------------------------
(***************************************************************************)
(* ProtocolGovernance: parameters, permission grants and validators are    *)
(* staged, wait, and are committed.  The wait is itself a parameter that   *)
(* the admin can stage and commit.  The unit prices, which the contract    *)
(* inherits, wait by a rule of their own: see UnitPricesGovernance.        *)
(*                                                                         *)
(* One action is one call of the admin; calls of anybody else revert and   *)
(* are stuttering steps.  An address set of the contract is a set, and the *)
(* loops over one (commitAll..., rollback...) are modelled by the elements *)
(* they reach, which is all of them: they advance or remove at each turn.  *)
(*                                                                         *)
(* An operator that stands before its namesake and is used nowhere is a    *)
(* wrong version of it, kept to show that the properties would notice.     *)
(***************************************************************************)
EXTENDS Integers, FiniteSetsExt

CONSTANTS
    Target,        \* addresses that get permissions and validators
    Permission,    \* permission ids
    Validator,     \* validator contracts
    NoValidator,   \* address(0)
    GovernanceDelays, MAX_GOVERNANCE_DELAY,
    MaxTime, MaxCalls \* bounds: clock, calls

ASSUME DelayAssumption ==
    /\ GovernanceDelays \subseteq Nat
    /\ MAX_GOVERNANCE_DELAY \in Nat
    /\ MaxTime \in Nat /\ MaxCalls \in Nat
ASSUME ValidatorAssumption == NoValidator \notin Validator

VARIABLES
    params, stagedParams, stagedParamsTimestamp,
    permissionMasks, stagedMasks, stagedMasksAt,
    permissionAddresses, stagedMaskAddresses,
    validators, stagedValidators, stagedValidatorsAt,
    validatorsAddresses, stagedValidatorsAddresses,
    now, calls,
    seen  \* history: what somebody read from the contract at one moment

paramVars == <<params, stagedParams, stagedParamsTimestamp>>
maskVars == <<permissionMasks, stagedMasks, stagedMasksAt, permissionAddresses,
              stagedMaskAddresses>>
validatorVars == <<validators, stagedValidators, stagedValidatorsAt, validatorsAddresses,
                   stagedValidatorsAddresses>>
vars == <<paramVars, maskVars, validatorVars, now, calls, seen>>

(* The governance delay and the permissions granted to everybody; the      *)
(* other parameters wait in the same way and are left out.                 *)
Params == [governanceDelay : Nat, forceAllowMask : SUBSET Permission]
NoParams == [governanceDelay |-> 0, forceAllowMask |-> {}]

Call == calls < MaxCalls /\ calls' = calls + 1

(* When something staged now can be committed.                             *)
ReadyAtOnce == now
ReadyAt == now + params.governanceDelay

(* The two conditions of a commit: something is staged, its wait is over.  *)
IsStaged(at) == at # 0
Mature(at) == at # 0 /\ now >= at

-----------------------------------------------------------------------------
(* Parameters.                                                             *)

ValidDelay(delay) == delay \in 1..MAX_GOVERNANCE_DELAY

StageParams(p) ==
    /\ Call
    /\ ValidDelay(p.governanceDelay)
    /\ stagedParams' = p
    /\ stagedParamsTimestamp' = ReadyAt
    /\ UNCHANGED <<params, maskVars, validatorVars, now, seen>>

CommitParams ==
    /\ Call
    /\ Mature(stagedParamsTimestamp)
    /\ params' = stagedParams
    /\ stagedParams' = NoParams
    /\ stagedParamsTimestamp' = 0
    /\ UNCHANGED <<maskVars, validatorVars, now, seen>>

-----------------------------------------------------------------------------
(* Permission grants.                                                      *)

(* stagePermissionGrants: replaces what was staged and starts a new wait.  *)
StageGrants(t, permissionIds) ==
    /\ Call
    /\ stagedMaskAddresses' = stagedMaskAddresses \cup {t}
    /\ stagedMasks' = [stagedMasks EXCEPT ![t] = permissionIds]
    /\ stagedMasksAt' = [stagedMasksAt EXCEPT ![t] = ReadyAt]
    /\ UNCHANGED <<paramVars, permissionMasks, permissionAddresses, validatorVars, now, seen>>

(* A committed grant adds to the permissions; nothing of it stays staged.  *)
UnstageSetOnly(targets) ==
    /\ UNCHANGED <<stagedMasks, stagedMasksAt>>
    /\ stagedMaskAddresses' = stagedMaskAddresses \ targets
UnstageGrants(targets) ==
    /\ stagedMasks' = [t \in Target |-> IF t \in targets THEN {} ELSE stagedMasks[t]]
    /\ stagedMasksAt' = [t \in Target |-> IF t \in targets THEN 0 ELSE stagedMasksAt[t]]
    /\ stagedMaskAddresses' = stagedMaskAddresses \ targets

GrantTo(targets) ==
    /\ permissionMasks' = [t \in Target |-> permissionMasks[t] \cup
                              (IF t \in targets THEN stagedMasks[t] ELSE {})]
    /\ permissionAddresses' = permissionAddresses \cup targets
    /\ UnstageGrants(targets)

CommitGrants(t) ==
    /\ Call
    /\ Mature(stagedMasksAt[t])
    /\ GrantTo({t})
    /\ UNCHANGED <<paramVars, validatorVars, now, seen>>

CommitAllGrants ==
    /\ Call
    /\ GrantTo({t \in stagedMaskAddresses : now >= stagedMasksAt[t]})
    /\ UNCHANGED <<paramVars, validatorVars, now, seen>>

RollbackGrants ==
    /\ Call
    /\ UnstageGrants(stagedMaskAddresses)
    /\ UNCHANGED <<paramVars, permissionMasks, permissionAddresses, validatorVars, now, seen>>

(* revokePermissions: at once; a grant that is staged stays staged.        *)
RevokePermissions(t, permissionIds) ==
    LET newMask == permissionMasks[t] \ permissionIds
    IN  /\ Call
        /\ permissionMasks' = [permissionMasks EXCEPT ![t] = newMask]
        /\ permissionAddresses' = permissionAddresses \ (IF newMask = {} THEN {t} ELSE {})
        /\ UNCHANGED <<paramVars, stagedMasks, stagedMasksAt, stagedMaskAddresses,
                       validatorVars, now, seen>>

-----------------------------------------------------------------------------
(* Validators.                                                             *)

StageValidator(t, validator) ==
    /\ Call
    /\ stagedValidatorsAddresses' = stagedValidatorsAddresses \cup {t}
    /\ stagedValidators' = [stagedValidators EXCEPT ![t] = validator]
    /\ stagedValidatorsAt' = [stagedValidatorsAt EXCEPT ![t] = ReadyAt]
    /\ UNCHANGED <<paramVars, maskVars, validators, validatorsAddresses, now, seen>>

UnstageValidators(targets) ==
    /\ stagedValidators' =
           [t \in Target |-> IF t \in targets THEN NoValidator ELSE stagedValidators[t]]
    /\ stagedValidatorsAt' =
           [t \in Target |-> IF t \in targets THEN 0 ELSE stagedValidatorsAt[t]]
    /\ stagedValidatorsAddresses' = stagedValidatorsAddresses \ targets

InstallValidators(targets) ==
    /\ validators' = [t \in Target |-> IF t \in targets THEN stagedValidators[t]
                                       ELSE validators[t]]
    /\ validatorsAddresses' = validatorsAddresses \cup targets
    /\ UnstageValidators(targets)

CommitValidator(t) ==
    /\ Call
    /\ Mature(stagedValidatorsAt[t])
    /\ InstallValidators({t})
    /\ UNCHANGED <<paramVars, maskVars, now, seen>>

CommitAllValidators ==
    /\ Call
    /\ InstallValidators({t \in stagedValidatorsAddresses : now >= stagedValidatorsAt[t]})
    /\ UNCHANGED <<paramVars, maskVars, now, seen>>

RollbackValidators ==
    /\ Call
    /\ UnstageValidators(stagedValidatorsAddresses)
    /\ UNCHANGED <<paramVars, maskVars, validators, validatorsAddresses, now, seen>>

RevokeValidator(t) ==
    /\ Call
    /\ validators' = [validators EXCEPT ![t] = NoValidator]
    /\ validatorsAddresses' = validatorsAddresses \ {t}
    /\ UNCHANGED <<paramVars, maskVars, stagedValidators, stagedValidatorsAt,
                   stagedValidatorsAddresses, now, seen>>

-----------------------------------------------------------------------------
(* Time, and somebody who reads the contract once.                         *)

Tick ==
    /\ now < MaxTime
    /\ now' = now + 1
    /\ UNCHANGED <<paramVars, maskVars, validatorVars, calls, seen>>

(* hasPermission *)
HasPermission(t, p) == p \in permissionMasks[t] \cup params.forceAllowMask

(* What the reader concludes: the delay in force, or the one that a staged *)
(* commit may put in force, is how long nothing unannounced can happen.    *)
NotBefore(at) == IF at > now THEN at ELSE now
StagedDelayEnds == NotBefore(stagedParamsTimestamp) + stagedParams.governanceDelay
CurrentDelayEnds == now + params.governanceDelay
SafeUntil ==
    IF stagedParamsTimestamp # 0 /\ StagedDelayEnds < CurrentDelayEnds THEN StagedDelayEnds
    ELSE CurrentDelayEnds

NothingSeen ==
    [until |-> 0,
     permissions |-> [t \in Target |-> {}],
     validators |-> [t \in Target |-> {}]]

Look ==
    /\ seen = NothingSeen
    /\ seen' = [until |-> SafeUntil,
                permissions |-> [t \in Target |->
                                    permissionMasks[t] \cup stagedMasks[t] \cup
                                    params.forceAllowMask \cup stagedParams.forceAllowMask],
                validators |-> [t \in Target |->
                                    {validators[t], stagedValidators[t], NoValidator}]]
    /\ UNCHANGED <<paramVars, maskVars, validatorVars, now, calls>>

Init ==
    /\ params = NoParams /\ stagedParams = NoParams /\ stagedParamsTimestamp = 0
    /\ permissionMasks = [t \in Target |-> {}] /\ stagedMasks = [t \in Target |-> {}]
    /\ stagedMasksAt = [t \in Target |-> 0]
    /\ permissionAddresses = {} /\ stagedMaskAddresses = {}
    /\ validators = [t \in Target |-> NoValidator]
    /\ stagedValidators = [t \in Target |-> NoValidator]
    /\ stagedValidatorsAt = [t \in Target |-> 0]
    /\ validatorsAddresses = {} /\ stagedValidatorsAddresses = {}
    /\ now = 1 /\ calls = 0 /\ seen = NothingSeen

GrantNext(t) ==
    \/ \E ps \in SUBSET Permission : StageGrants(t, ps)
    \/ CommitGrants(t)
    \/ \E ps \in SUBSET Permission : RevokePermissions(t, ps)

ValidatorNext(t) ==
    \/ \E v \in Validator : StageValidator(t, v)
    \/ CommitValidator(t)
    \/ RevokeValidator(t)

ParamsNext ==
    \/ \E d \in GovernanceDelays, ps \in SUBSET Permission :
           StageParams([governanceDelay |-> d, forceAllowMask |-> ps])
    \/ CommitParams

AdminNext ==
    \/ ParamsNext
    \/ \E t \in Target : GrantNext(t) \/ ValidatorNext(t)
    \/ CommitAllGrants \/ RollbackGrants
    \/ CommitAllValidators \/ RollbackValidators

Next == AdminNext \/ Tick \/ Look

Spec == Init /\ [][Next]_vars

-----------------------------------------------------------------------------
(* Properties.                                                             *)

(* Masks are sets of permissions, times are natural numbers, and a delay   *)
(* in force or staged is within the maximum.                               *)
ParamTypeOK ==
    /\ params \in Params /\ stagedParams \in Params /\ stagedParamsTimestamp \in Nat
    /\ params.governanceDelay <= MAX_GOVERNANCE_DELAY
    /\ stagedParams.governanceDelay <= MAX_GOVERNANCE_DELAY
MaskTypeOK ==
    /\ permissionMasks \in [Target -> SUBSET Permission]
    /\ stagedMasks \in [Target -> SUBSET Permission]
    /\ stagedMasksAt \in [Target -> Nat]
    /\ permissionAddresses \subseteq Target /\ stagedMaskAddresses \subseteq Target
ValidatorTypeOK ==
    /\ validators \in [Target -> Validator \cup {NoValidator}]
    /\ stagedValidators \in [Target -> Validator \cup {NoValidator}]
    /\ stagedValidatorsAt \in [Target -> Nat]
    /\ validatorsAddresses \subseteq Target /\ stagedValidatorsAddresses \subseteq Target
TypeOK ==
    /\ ParamTypeOK /\ MaskTypeOK /\ ValidatorTypeOK
    /\ now \in Nat \ {0} /\ calls \in Nat

(* The address sets, which the loops go through, and the mappings, which   *)
(* they read, agree: the staged addresses are those with a time to wait    *)
(* for, and an address with a validator or a permission is listed.         *)
MaskSetsMatch ==
    /\ stagedMaskAddresses = {t \in Target : stagedMasksAt[t] # 0}
    /\ {t \in Target : permissionMasks[t] # {}} \subseteq permissionAddresses
ValidatorSetsMatch ==
    /\ stagedValidatorsAddresses = {t \in Target : stagedValidatorsAt[t] # 0}
    /\ validatorsAddresses = {t \in Target : validators[t] # NoValidator}
AddressSetsMatch == MaskSetsMatch /\ ValidatorSetsMatch

(* Nothing unannounced: until the time a reader can compute from the       *)
(* delays in force and staged, no address has a permission, by a grant or  *)
(* by force, that was neither in force nor staged when the reader looked.  *)
(* It holds although the delay itself may be cut, staged grants replaced   *)
(* and revoked permissions granted again in the meantime.                  *)
NoUnannouncedPermission ==
    now < seen.until =>
        \A t \in Target : \A p \in Permission : HasPermission(t, p) => p \in seen.permissions[t]

(* Likewise no unannounced validator is in force.                          *)
NoUnannouncedValidator ==
    now < seen.until => \A t \in Target : validators[t] \in seen.validators[t]
=============================================================================
