-------------------------- MODULE Governance_proofs --------------------------
(***************************************************************************)
(* For every set of addresses, permissions and validators and every delay: *)
(* the address sets of ProtocolGovernance agree with its mappings, and     *)
(* nothing unannounced takes effect before the time that a reader of the   *)
(* contract can compute.  On top of that, for every collection of          *)
(* parameter sets and fees: no parameters of a vault take effect           *)
(* unannounced.                                                            *)
(*                                                                         *)
(* The argument: call `until` what the reader computed.  Whatever is       *)
(* staged after the reading waits for a delay that ends at or after until, *)
(* because the delay in force does, and so does the staged delay, counted  *)
(* from its own commit.  So whatever is committed before until was staged  *)
(* when the reader looked.                                                 *)
(***************************************************************************)
EXTENDS VaultGovernance, TLAPS

TimeOK ==
    /\ now \in Nat \ {0} /\ calls \in Nat
    /\ seen.until \in Nat
    /\ seen.permissions \in [Target -> SUBSET Permission]

(* The delay in force, and the one that is staged from its commit on, end  *)
(* at or after until; permissions forced before until were read.           *)
DelayNotice ==
    /\ now + params.governanceDelay >= seen.until
    /\ stagedParamsTimestamp # 0 => StagedDelayEnds >= seen.until
ForceNotice ==
    \A t \in Target :
        /\ now < seen.until => params.forceAllowMask \subseteq seen.permissions[t]
        /\ (stagedParamsTimestamp # 0 /\ stagedParamsTimestamp < seen.until)
               => stagedParams.forceAllowMask \subseteq seen.permissions[t]
ParamInv == ParamTypeOK /\ DelayNotice /\ ForceNotice

(* Grants, and validators, that can be committed before until were read.   *)
MaskNotice ==
    \A t \in Target :
        /\ now < seen.until => permissionMasks[t] \subseteq seen.permissions[t]
        /\ (stagedMasksAt[t] # 0 /\ stagedMasksAt[t] < seen.until)
               => stagedMasks[t] \subseteq seen.permissions[t]
MaskInv == MaskTypeOK /\ MaskSetsMatch /\ MaskNotice

ValidatorNotice ==
    \A t \in Target :
        /\ stagedValidatorsAt[t] # 0 => stagedValidators[t] \in Validator
        /\ now < seen.until => validators[t] \in seen.validators[t]
        /\ (stagedValidatorsAt[t] # 0 /\ stagedValidatorsAt[t] < seen.until)
               => stagedValidators[t] \in seen.validators[t]
        /\ now < seen.until => NoValidator \in seen.validators[t]
ValidatorInv == ValidatorTypeOK /\ ValidatorSetsMatch /\ ValidatorNotice

IInv == TimeOK /\ ParamInv /\ MaskInv /\ ValidatorInv

-----------------------------------------------------------------------------
(* What is staged now cannot be committed before until.                    *)
LEMMA ReadyAfterUntil == ASSUME IInv PROVE ReadyAt \in Nat \ {0} /\ ReadyAt >= seen.until
  BY DEF IInv, TimeOK, ParamInv, ParamTypeOK, DelayNotice, ReadyAt, Params

(* A part of the invariant outlives the steps that leave its variables and *)
(* the reading alone.                                                      *)
LEMMA ParamFrame ==
  ASSUME ParamInv, UNCHANGED <<paramVars, now, seen>>
  PROVE  ParamInv'
BY DEF ParamInv, ParamTypeOK, DelayNotice, ForceNotice, StagedDelayEnds, NotBefore, paramVars

LEMMA MaskFrame ==
  ASSUME MaskInv, UNCHANGED <<maskVars, now, seen>>
  PROVE  MaskInv'
BY DEF MaskInv, MaskTypeOK, MaskSetsMatch, MaskNotice, maskVars

LEMMA ValidatorFrame ==
  ASSUME ValidatorInv, UNCHANGED <<validatorVars, now, seen>>
  PROVE  ValidatorInv'
BY DEF ValidatorInv, ValidatorTypeOK, ValidatorSetsMatch, ValidatorNotice, validatorVars

-----------------------------------------------------------------------------
(* Parameters.                                                             *)

LEMMA StageParamsInv ==
  ASSUME IInv, NEW p \in Params, StageParams(p)
  PROVE  ParamInv'
<1>1. /\ stagedParams' = p /\ stagedParamsTimestamp' = ReadyAt
      /\ p.governanceDelay \in 1..MAX_GOVERNANCE_DELAY
      /\ UNCHANGED <<params, now, seen>>
  BY DEF StageParams, ValidDelay
<1>2. ReadyAt \in Nat \ {0} /\ ReadyAt >= seen.until
  BY ReadyAfterUntil
<1>3. ParamTypeOK'
  BY <1>1, <1>2, DelayAssumption DEF IInv, ParamInv, ParamTypeOK, Params
<1>4. DelayNotice'
  <2>1. StagedDelayEnds' >= ReadyAt
    BY <1>1, <1>2, DelayAssumption DEF IInv, TimeOK, StagedDelayEnds, NotBefore, Params
  <2>2. StagedDelayEnds' \in Nat
    BY <1>1, <1>2 DEF IInv, TimeOK, StagedDelayEnds, NotBefore, Params
  <2> QED BY <1>1, <1>2, <2>1, <2>2 DEF IInv, TimeOK, ParamInv, DelayNotice
<1>5. ForceNotice'
  BY <1>1, <1>2 DEF IInv, TimeOK, ParamInv, ForceNotice
<1> QED BY <1>3, <1>4, <1>5 DEF ParamInv

LEMMA CommitParamsInv ==
  ASSUME IInv, CommitParams
  PROVE  ParamInv'
<1>1. /\ stagedParamsTimestamp # 0 /\ now >= stagedParamsTimestamp
      /\ params' = stagedParams /\ stagedParams' = NoParams /\ stagedParamsTimestamp' = 0
      /\ UNCHANGED <<now, seen>>
  BY DEF CommitParams, Mature
<1>2. ParamTypeOK'
  BY <1>1, DelayAssumption DEF IInv, ParamInv, ParamTypeOK, Params, NoParams
<1>3. DelayNotice'
  <2>1. StagedDelayEnds = now + stagedParams.governanceDelay
    BY <1>1 DEF IInv, TimeOK, ParamInv, ParamTypeOK, StagedDelayEnds, NotBefore
  <2> QED BY <1>1, <2>1 DEF IInv, ParamInv, DelayNotice
<1>4. ForceNotice'
  BY <1>1 DEF IInv, TimeOK, ParamInv, ParamTypeOK, ForceNotice
<1> QED BY <1>2, <1>3, <1>4 DEF ParamInv

-----------------------------------------------------------------------------
(* Permission grants.                                                      *)

LEMMA StageGrantsInv ==
  ASSUME IInv, NEW t \in Target, NEW ps \in SUBSET Permission, StageGrants(t, ps)
  PROVE  MaskInv'
<1>1. /\ stagedMaskAddresses' = stagedMaskAddresses \cup {t}
      /\ stagedMasks' = [stagedMasks EXCEPT ![t] = ps]
      /\ stagedMasksAt' = [stagedMasksAt EXCEPT ![t] = ReadyAt]
      /\ UNCHANGED <<permissionMasks, permissionAddresses, now, seen>>
  BY DEF StageGrants
<1>2. ReadyAt \in Nat \ {0} /\ ReadyAt >= seen.until
  BY ReadyAfterUntil
<1>3. MaskTypeOK'
  BY <1>1, <1>2 DEF IInv, MaskInv, MaskTypeOK
<1>4. MaskSetsMatch'
  BY <1>1, <1>2 DEF IInv, MaskInv, MaskTypeOK, MaskSetsMatch
<1>5. MaskNotice'
  BY <1>1, <1>2 DEF IInv, TimeOK, MaskInv, MaskTypeOK, MaskNotice
<1> QED BY <1>3, <1>4, <1>5 DEF MaskInv

LEMMA UnstageGrantsInv ==
  ASSUME IInv, NEW targets \in SUBSET Target, UnstageGrants(targets),
         UNCHANGED <<permissionMasks, permissionAddresses, now, seen>>
  PROVE  MaskInv'
<1>1. MaskTypeOK'
  BY DEF IInv, MaskInv, MaskTypeOK, UnstageGrants
<1>2. MaskSetsMatch'
  BY DEF IInv, MaskInv, MaskTypeOK, MaskSetsMatch, UnstageGrants
<1>3. MaskNotice'
  BY DEF IInv, MaskInv, MaskTypeOK, MaskNotice, UnstageGrants
<1> QED BY <1>1, <1>2, <1>3 DEF MaskInv

LEMMA GrantInv ==
  ASSUME IInv, NEW targets \in SUBSET Target, GrantTo(targets), UNCHANGED <<now, seen>>,
         \A t \in targets : stagedMasksAt[t] # 0 /\ now >= stagedMasksAt[t]
  PROVE  MaskInv'
<1>1. /\ permissionMasks' = [t \in Target |-> permissionMasks[t] \cup
                                (IF t \in targets THEN stagedMasks[t] ELSE {})]
      /\ permissionAddresses' = permissionAddresses \cup targets
      /\ stagedMasks' = [t \in Target |-> IF t \in targets THEN {} ELSE stagedMasks[t]]
      /\ stagedMasksAt' = [t \in Target |-> IF t \in targets THEN 0 ELSE stagedMasksAt[t]]
      /\ stagedMaskAddresses' = stagedMaskAddresses \ targets
  BY DEF GrantTo, UnstageGrants
<1>2. MaskTypeOK'
  BY <1>1 DEF IInv, MaskInv, MaskTypeOK
<1>3. MaskSetsMatch'
  BY <1>1 DEF IInv, MaskInv, MaskTypeOK, MaskSetsMatch
<1>4. MaskNotice'
  BY <1>1 DEF IInv, TimeOK, MaskInv, MaskTypeOK, MaskNotice
<1> QED BY <1>2, <1>3, <1>4 DEF MaskInv

LEMMA RevokePermissionsInv ==
  ASSUME IInv, NEW t \in Target, NEW ps \in SUBSET Permission, RevokePermissions(t, ps)
  PROVE  MaskInv'
<1>1. /\ permissionMasks' = [permissionMasks EXCEPT ![t] = permissionMasks[t] \ ps]
      /\ permissionAddresses' =
             permissionAddresses \ (IF permissionMasks[t] \ ps = {} THEN {t} ELSE {})
      /\ UNCHANGED <<stagedMasks, stagedMasksAt, stagedMaskAddresses, now, seen>>
  BY DEF RevokePermissions
<1>2. MaskTypeOK'
  BY <1>1 DEF IInv, MaskInv, MaskTypeOK
<1>3. MaskSetsMatch'
  BY <1>1 DEF IInv, MaskInv, MaskTypeOK, MaskSetsMatch
<1>4. MaskNotice'
  BY <1>1 DEF IInv, MaskInv, MaskTypeOK, MaskNotice
<1> QED BY <1>2, <1>3, <1>4 DEF MaskInv

-----------------------------------------------------------------------------
(* Validators.                                                             *)

LEMMA StageValidatorInv ==
  ASSUME IInv, NEW t \in Target, NEW v \in Validator, StageValidator(t, v)
  PROVE  ValidatorInv'
<1>1. /\ stagedValidatorsAddresses' = stagedValidatorsAddresses \cup {t}
      /\ stagedValidators' = [stagedValidators EXCEPT ![t] = v]
      /\ stagedValidatorsAt' = [stagedValidatorsAt EXCEPT ![t] = ReadyAt]
      /\ UNCHANGED <<validators, validatorsAddresses, now, seen>>
  BY DEF StageValidator
<1>2. ReadyAt \in Nat \ {0} /\ ReadyAt >= seen.until
  BY ReadyAfterUntil
<1>3. ValidatorTypeOK'
  BY <1>1, <1>2 DEF IInv, ValidatorInv, ValidatorTypeOK
<1>4. ValidatorSetsMatch'
  BY <1>1, <1>2 DEF IInv, ValidatorInv, ValidatorTypeOK, ValidatorSetsMatch
<1>5. ValidatorNotice'
  BY <1>1, <1>2 DEF IInv, TimeOK, ValidatorInv, ValidatorTypeOK, ValidatorNotice
<1> QED BY <1>3, <1>4, <1>5 DEF ValidatorInv

LEMMA UnstageValidatorsInv ==
  ASSUME IInv, NEW targets \in SUBSET Target, UnstageValidators(targets),
         UNCHANGED <<validators, validatorsAddresses, now, seen>>
  PROVE  ValidatorInv'
<1>1. ValidatorTypeOK'
  BY DEF IInv, ValidatorInv, ValidatorTypeOK, UnstageValidators
<1>2. ValidatorSetsMatch'
  BY DEF IInv, ValidatorInv, ValidatorTypeOK, ValidatorSetsMatch, UnstageValidators
<1>3. ValidatorNotice'
  BY DEF IInv, ValidatorInv, ValidatorTypeOK, ValidatorNotice, UnstageValidators
<1> QED BY <1>1, <1>2, <1>3 DEF ValidatorInv

LEMMA InstallValidatorsInv ==
  ASSUME IInv, NEW targets \in SUBSET Target, InstallValidators(targets),
         UNCHANGED <<now, seen>>,
         \A t \in targets : stagedValidatorsAt[t] # 0 /\ now >= stagedValidatorsAt[t]
  PROVE  ValidatorInv'
<1>1. /\ validators' = [t \in Target |-> IF t \in targets THEN stagedValidators[t]
                                          ELSE validators[t]]
      /\ validatorsAddresses' = validatorsAddresses \cup targets
      /\ stagedValidators' =
             [t \in Target |-> IF t \in targets THEN NoValidator ELSE stagedValidators[t]]
      /\ stagedValidatorsAt' =
             [t \in Target |-> IF t \in targets THEN 0 ELSE stagedValidatorsAt[t]]
      /\ stagedValidatorsAddresses' = stagedValidatorsAddresses \ targets
  BY DEF InstallValidators, UnstageValidators
<1>2. \A t \in targets : stagedValidators[t] \in Validator /\ stagedValidators[t] # NoValidator
  BY ValidatorAssumption DEF IInv, ValidatorInv, ValidatorNotice
<1>3. ValidatorTypeOK'
  BY <1>1 DEF IInv, ValidatorInv, ValidatorTypeOK
<1>4. ValidatorSetsMatch'
  BY <1>1, <1>2 DEF IInv, ValidatorInv, ValidatorTypeOK, ValidatorSetsMatch
<1>5. ValidatorNotice'
  BY <1>1 DEF IInv, TimeOK, ValidatorInv, ValidatorTypeOK, ValidatorNotice
<1> QED BY <1>3, <1>4, <1>5 DEF ValidatorInv

LEMMA RevokeValidatorInv ==
  ASSUME IInv, NEW t \in Target, RevokeValidator(t)
  PROVE  ValidatorInv'
<1>1. /\ validators' = [validators EXCEPT ![t] = NoValidator]
      /\ validatorsAddresses' = validatorsAddresses \ {t}
      /\ UNCHANGED <<stagedValidators, stagedValidatorsAt, stagedValidatorsAddresses,
                     now, seen>>
  BY DEF RevokeValidator
<1>2. ValidatorTypeOK'
  BY <1>1 DEF IInv, ValidatorInv, ValidatorTypeOK
<1>3. ValidatorSetsMatch'
  BY <1>1 DEF IInv, ValidatorInv, ValidatorTypeOK, ValidatorSetsMatch
<1>4. ValidatorNotice'
  BY <1>1 DEF IInv, ValidatorInv, ValidatorTypeOK, ValidatorNotice
<1> QED BY <1>2, <1>3, <1>4 DEF ValidatorInv

-----------------------------------------------------------------------------
(* The clock, and the reader.                                              *)

LEMMA TickInv == ASSUME IInv, Tick PROVE IInv'
<1>1. /\ now' = now + 1 /\ now \in Nat \ {0}
      /\ UNCHANGED <<paramVars, maskVars, validatorVars, calls, seen>>
  BY DEF Tick, IInv, TimeOK
<1>2. TimeOK'
  BY <1>1 DEF IInv, TimeOK
<1>3. ParamInv'
  <2>1. ParamTypeOK' /\ ForceNotice'
    BY <1>1 DEF IInv, TimeOK, ParamInv, ParamTypeOK, ForceNotice, paramVars
  <2>2. DelayNotice'
    BY <1>1 DEF IInv, TimeOK, ParamInv, ParamTypeOK, Params, DelayNotice, StagedDelayEnds,
                NotBefore, paramVars
  <2> QED BY <2>1, <2>2 DEF ParamInv
<1>4. MaskInv'
  BY <1>1 DEF IInv, TimeOK, MaskInv, MaskTypeOK, MaskSetsMatch, MaskNotice, maskVars
<1>5. ValidatorInv'
  BY <1>1 DEF IInv, TimeOK, ValidatorInv, ValidatorTypeOK, ValidatorSetsMatch,
              ValidatorNotice, validatorVars
<1> QED BY <1>2, <1>3, <1>4, <1>5 DEF IInv

LEMMA LookInv == ASSUME IInv, Look PROVE IInv'
<1>1. /\ UNCHANGED <<paramVars, maskVars, validatorVars, now, calls>>
      /\ seen'.until = SafeUntil
      /\ seen'.permissions = [t \in Target |->
                                 permissionMasks[t] \cup stagedMasks[t] \cup
                                 params.forceAllowMask \cup stagedParams.forceAllowMask]
      /\ seen'.validators = [t \in Target |->
                                {validators[t], stagedValidators[t], NoValidator}]
  BY DEF Look
<1>2. ParamTypeOK /\ MaskTypeOK /\ now \in Nat \ {0} /\ calls \in Nat
  BY DEF IInv, TimeOK, ParamInv, MaskInv
<1>3. /\ SafeUntil \in Nat
      /\ SafeUntil <= now + params.governanceDelay
      /\ stagedParamsTimestamp # 0 => SafeUntil <= StagedDelayEnds
  BY <1>2 DEF ParamTypeOK, Params, SafeUntil, StagedDelayEnds, NotBefore, CurrentDelayEnds
<1>4. TimeOK'
  <2>1. seen'.permissions \in [Target -> SUBSET Permission]
    BY <1>1, <1>2 DEF ParamTypeOK, Params, MaskTypeOK
  <2> QED BY <1>1, <1>2, <1>3, <2>1 DEF TimeOK
<1>5. ParamInv'
  <2>1. ParamTypeOK'
    BY <1>1, <1>2 DEF ParamTypeOK, paramVars
  <2>2. StagedDelayEnds' = StagedDelayEnds
    BY <1>1 DEF StagedDelayEnds, NotBefore, paramVars
  <2>3. DelayNotice'
    BY <1>1, <1>3, <2>2, <1>2 DEF DelayNotice, ParamTypeOK, Params, paramVars
  <2>4. ForceNotice'
    BY <1>1 DEF ForceNotice, paramVars
  <2> QED BY <2>1, <2>3, <2>4 DEF ParamInv
<1>6. MaskInv'
  BY <1>1 DEF IInv, MaskInv, MaskTypeOK, MaskSetsMatch, MaskNotice, maskVars
<1>7. ValidatorInv'
  BY <1>1 DEF IInv, ValidatorInv, ValidatorTypeOK, ValidatorSetsMatch, ValidatorNotice,
              validatorVars
<1> QED BY <1>4, <1>5, <1>6, <1>7 DEF IInv

-----------------------------------------------------------------------------
(* The invariant holds at first and is kept by every step.                 *)

LEMMA InitInv == ASSUME Init PROVE IInv
<1>1. now \in Nat \ {0} /\ calls \in Nat /\ seen.until = 0
      /\ seen.permissions = [t \in Target |-> {}]
  BY DEF Init, NothingSeen
<1>2. TimeOK
  BY <1>1 DEF TimeOK
<1>3. ParamInv
  BY <1>1, DelayAssumption DEF Init, NoParams, ParamInv, ParamTypeOK, Params, DelayNotice,
                               ForceNotice
<1>4. MaskInv
  BY <1>1 DEF Init, MaskInv, MaskTypeOK, MaskSetsMatch, MaskNotice
<1>5. ValidatorInv
  BY <1>1, ValidatorAssumption DEF Init, ValidatorInv, ValidatorTypeOK, ValidatorSetsMatch,
                                   ValidatorNotice
<1> QED BY <1>2, <1>3, <1>4, <1>5 DEF IInv

LEMMA CallInv ==
  ASSUME IInv, Call, UNCHANGED <<now, seen>>
  PROVE  TimeOK'
BY DEF IInv, TimeOK, Call

LEMMA ParamsNextInv == ASSUME IInv, ParamsNext PROVE IInv'
<1>1. ParamInv'
  <2>1. CASE CommitParams
    BY <2>1, CommitParamsInv
  <2>2. CASE \E d \in GovernanceDelays, ps \in SUBSET Permission :
                 StageParams([governanceDelay |-> d, forceAllowMask |-> ps])
    <3>1. PICK d \in GovernanceDelays, ps \in SUBSET Permission :
              StageParams([governanceDelay |-> d, forceAllowMask |-> ps])
      BY <2>2
    <3>2. [governanceDelay |-> d, forceAllowMask |-> ps] \in Params
      BY DelayAssumption DEF Params
    <3> QED BY <3>1, <3>2, StageParamsInv
  <2> QED BY <2>1, <2>2 DEF ParamsNext
<1>2. Call /\ UNCHANGED <<maskVars, validatorVars, now, seen>>
  BY DEF ParamsNext, StageParams, CommitParams
<1>3. TimeOK' /\ MaskInv' /\ ValidatorInv'
  BY <1>2, CallInv, MaskFrame, ValidatorFrame DEF IInv
<1> QED BY <1>1, <1>3 DEF IInv

(* What is left to show of a call about permissions, or about validators.  *)
LEMMA MaskCallInv ==
  ASSUME IInv, Call, UNCHANGED <<paramVars, validatorVars, now, seen>>, MaskInv'
  PROVE  IInv'
BY CallInv, ParamFrame, ValidatorFrame DEF IInv

LEMMA ValidatorCallInv ==
  ASSUME IInv, Call, UNCHANGED <<paramVars, maskVars, now, seen>>, ValidatorInv'
  PROVE  IInv'
BY CallInv, ParamFrame, MaskFrame DEF IInv

LEMMA GrantNextInv == ASSUME IInv, NEW t \in Target, GrantNext(t) PROVE IInv'
<1>1. CASE \E ps \in SUBSET Permission : StageGrants(t, ps)
  <2>1. MaskInv'
    BY <1>1, StageGrantsInv
  <2>2. Call /\ UNCHANGED <<paramVars, validatorVars, now, seen>>
    BY <1>1 DEF StageGrants
  <2> QED BY <2>1, <2>2, MaskCallInv
<1>2. CASE CommitGrants(t)
  <2>1. /\ Call /\ GrantTo({t}) /\ UNCHANGED <<paramVars, validatorVars, now, seen>>
        /\ stagedMasksAt[t] # 0 /\ now >= stagedMasksAt[t]
    BY <1>2 DEF CommitGrants, Mature
  <2>2. MaskInv'
    BY <2>1, GrantInv
  <2> QED BY <2>1, <2>2, MaskCallInv
<1>3. CASE \E ps \in SUBSET Permission : RevokePermissions(t, ps)
  <2>1. MaskInv'
    BY <1>3, RevokePermissionsInv
  <2>2. Call /\ UNCHANGED <<paramVars, validatorVars, now, seen>>
    BY <1>3 DEF RevokePermissions
  <2> QED BY <2>1, <2>2, MaskCallInv
<1> QED BY <1>1, <1>2, <1>3 DEF GrantNext

LEMMA AllGrantsInv == ASSUME IInv, CommitAllGrants \/ RollbackGrants PROVE IInv'
<1>1. CASE CommitAllGrants
  <2> DEFINE targets == {t \in stagedMaskAddresses : now >= stagedMasksAt[t]}
  <2>1. Call /\ GrantTo(targets) /\ UNCHANGED <<paramVars, validatorVars, now, seen>>
    BY <1>1 DEF CommitAllGrants
  <2>2. /\ targets \in SUBSET Target
        /\ \A t \in targets : stagedMasksAt[t] # 0 /\ now >= stagedMasksAt[t]
    BY DEF IInv, MaskInv, MaskSetsMatch
  <2>3. MaskInv'
    BY <2>1, <2>2, GrantInv
  <2> QED BY <2>1, <2>3, MaskCallInv
<1>2. CASE RollbackGrants
  <2>1. /\ Call /\ UnstageGrants(stagedMaskAddresses)
        /\ UNCHANGED <<paramVars, permissionMasks, permissionAddresses, validatorVars, now, seen>>
    BY <1>2 DEF RollbackGrants
  <2>2. MaskInv'
    BY <2>1, UnstageGrantsInv DEF IInv, MaskInv, MaskTypeOK
  <2> QED BY <2>1, <2>2, MaskCallInv
<1> QED BY <1>1, <1>2

LEMMA ValidatorNextInv == ASSUME IInv, NEW t \in Target, ValidatorNext(t) PROVE IInv'
<1>1. CASE \E v \in Validator : StageValidator(t, v)
  <2>1. ValidatorInv'
    BY <1>1, StageValidatorInv
  <2>2. Call /\ UNCHANGED <<paramVars, maskVars, now, seen>>
    BY <1>1 DEF StageValidator
  <2> QED BY <2>1, <2>2, ValidatorCallInv
<1>2. CASE CommitValidator(t)
  <2>1. /\ Call /\ InstallValidators({t}) /\ UNCHANGED <<paramVars, maskVars, now, seen>>
        /\ stagedValidatorsAt[t] # 0 /\ now >= stagedValidatorsAt[t]
    BY <1>2 DEF CommitValidator, Mature
  <2>2. ValidatorInv'
    BY <2>1, InstallValidatorsInv
  <2> QED BY <2>1, <2>2, ValidatorCallInv
<1>3. CASE RevokeValidator(t)
  <2>1. ValidatorInv'
    BY <1>3, RevokeValidatorInv
  <2>2. Call /\ UNCHANGED <<paramVars, maskVars, now, seen>>
    BY <1>3 DEF RevokeValidator
  <2> QED BY <2>1, <2>2, ValidatorCallInv
<1> QED BY <1>1, <1>2, <1>3 DEF ValidatorNext

LEMMA AllValidatorsInv == ASSUME IInv, CommitAllValidators \/ RollbackValidators PROVE IInv'
<1>1. CASE CommitAllValidators
  <2> DEFINE targets == {t \in stagedValidatorsAddresses : now >= stagedValidatorsAt[t]}
  <2>1. Call /\ InstallValidators(targets) /\ UNCHANGED <<paramVars, maskVars, now, seen>>
    BY <1>1 DEF CommitAllValidators
  <2>2. /\ targets \in SUBSET Target
        /\ \A t \in targets : stagedValidatorsAt[t] # 0 /\ now >= stagedValidatorsAt[t]
    BY DEF IInv, ValidatorInv, ValidatorSetsMatch
  <2>3. ValidatorInv'
    BY <2>1, <2>2, InstallValidatorsInv
  <2> QED BY <2>1, <2>3, ValidatorCallInv
<1>2. CASE RollbackValidators
  <2>1. /\ Call /\ UnstageValidators(stagedValidatorsAddresses)
        /\ UNCHANGED <<paramVars, maskVars, validators, validatorsAddresses, now, seen>>
    BY <1>2 DEF RollbackValidators
  <2>2. ValidatorInv'
    BY <2>1, UnstageValidatorsInv DEF IInv, ValidatorInv, ValidatorTypeOK
  <2> QED BY <2>1, <2>2, ValidatorCallInv
<1> QED BY <1>1, <1>2

LEMMA StepInv == ASSUME IInv, [Next]_vars PROVE IInv'
<1>1. CASE ParamsNext
  BY <1>1, ParamsNextInv
<1>2. CASE \E t \in Target : GrantNext(t) \/ ValidatorNext(t)
  BY <1>2, GrantNextInv, ValidatorNextInv
<1>3. CASE CommitAllGrants \/ RollbackGrants
  BY <1>3, AllGrantsInv
<1>4. CASE CommitAllValidators \/ RollbackValidators
  BY <1>4, AllValidatorsInv
<1>5. CASE Tick
  BY <1>5, TickInv
<1>6. CASE Look
  BY <1>6, LookInv
<1>7. CASE UNCHANGED vars
  <2>1. UNCHANGED <<paramVars, maskVars, validatorVars, now, calls, seen>>
    BY <1>7 DEF vars
  <2> QED BY <2>1, ParamFrame, MaskFrame, ValidatorFrame DEF IInv, TimeOK
<1> QED BY <1>1, <1>2, <1>3, <1>4, <1>5, <1>6, <1>7 DEF Next, AdminNext

LEMMA Invariance == Spec => []IInv
<1>1. Init => IInv
  BY InitInv
<1>2. IInv /\ [Next]_vars => IInv'
  BY StepInv
<1> QED BY <1>1, <1>2, PTL DEF Spec

-----------------------------------------------------------------------------
(* Delays stay within the maximum, masks are sets of permissions, times    *)
(* are natural numbers, whatever the admin stages and commits.             *)
THEOREM TypeCorrect == Spec => []TypeOK
<1>1. IInv => TypeOK
  BY DEF IInv, TimeOK, ParamInv, MaskInv, ValidatorInv, TypeOK
<1> QED BY <1>1, Invariance, PTL

(* The address sets, which the commit and rollback loops go through, agree *)
(* with the mappings they read.                                            *)
THEOREM SetsMatch == Spec => []AddressSetsMatch
<1>1. IInv => AddressSetsMatch
  BY DEF IInv, MaskInv, ValidatorInv, AddressSetsMatch
<1> QED BY <1>1, Invariance, PTL

(* Before the time a reader computed, no address has a permission that was *)
(* neither in force nor staged at the reading, although the admin may cut  *)
(* the delay, restage, revoke and grant in the meantime.                   *)
THEOREM PermissionNotice == Spec => []NoUnannouncedPermission
<1>1. IInv => NoUnannouncedPermission
  <2> SUFFICES ASSUME IInv, now < seen.until, NEW t \in Target, NEW p \in Permission,
                      HasPermission(t, p)
               PROVE  p \in seen.permissions[t]
    BY DEF NoUnannouncedPermission
  <2>1. permissionMasks[t] \subseteq seen.permissions[t]
    BY DEF IInv, MaskInv, MaskNotice
  <2>2. params.forceAllowMask \subseteq seen.permissions[t]
    BY DEF IInv, ParamInv, ForceNotice
  <2> QED BY <2>1, <2>2 DEF HasPermission
<1> QED BY <1>1, Invariance, PTL

(* Likewise no validator is in force that was neither in force nor staged  *)
(* at the reading: at worst an address has lost its validator.             *)
THEOREM ValidatorNotification == Spec => []NoUnannouncedValidator
<1>1. IInv => NoUnannouncedValidator
  BY DEF IInv, ValidatorInv, ValidatorNotice, NoUnannouncedValidator
<1> QED BY <1>1, Invariance, PTL

-----------------------------------------------------------------------------
(* VaultGovernance, on top of the invariant of ProtocolGovernance.  As     *)
(* long as the governance in force is one that the reader reckoned with,   *)
(* its delay ends at or after until; another one can come into force only  *)
(* at or after until.  So parameters that are staged after the reading     *)
(* wait until then, unless the set was empty, and then the reader knew     *)
(* that anything may come; and no set becomes empty again.                 *)

(* The delay of this ProtocolGovernance, in force and staged, counted from *)
(* the earliest it can be used.                                            *)
ThisNotice ==
    /\ now + params.governanceDelay >= seenSlots.until
    /\ stagedParamsTimestamp # 0 => StagedDelayEnds >= seenSlots.until
GovernanceNotice ==
    /\ now < seenSlots.until =>
           /\ internalParams = "this" => ThisNotice
           /\ internalParams = "other" => now + OtherDelay >= seenSlots.until
    /\ (internalParamsTimestamp # 0 /\ internalParamsTimestamp < seenSlots.until) =>
           /\ stagedInternalParams = "this" => ThisNotice
           /\ stagedInternalParams = "other" =>
                  NotBefore(internalParamsTimestamp) + OtherDelay >= seenSlots.until
InternalInv == InternalTypeOK /\ GovernanceNotice

(* What can be committed before until was read; an empty set was read as   *)
(* one that may become anything.                                           *)
AnyFeeRead(slot) == Fees \cup {Empty} \subseteq seenSlots.params[slot]
SlotNotice(slot) ==
    /\ now < seenSlots.until => slotParams[slot] \in seenSlots.params[slot]
    /\ (slotParamsTimestamp[slot] # 0 /\ slotParamsTimestamp[slot] < seenSlots.until)
           => stagedSlotParams[slot] \in seenSlots.params[slot]
    /\ (now < seenSlots.until /\ slotParams[slot] = Empty) => AnyFeeRead(slot)
StagedFees == stagedSlotParams \in [Slot -> Fees \cup {Empty}]
SlotInv == SlotTypeOK /\ StagedFees /\ ParamsStaySet /\ \A slot \in Slot : SlotNotice(slot)

VGInv == IInv /\ seenSlots.until \in Nat /\ InternalInv /\ SlotInv

-----------------------------------------------------------------------------
(* What holds of the protocol's part before a step, for the steps below.   *)
LEMMA ProtocolTypes ==
  ASSUME IInv
  PROVE  /\ now \in Nat \ {0} /\ params.governanceDelay \in Nat
         /\ stagedParams.governanceDelay \in Nat /\ stagedParamsTimestamp \in Nat
BY DEF IInv, TimeOK, ParamInv, ParamTypeOK, Params

(* What is staged now cannot be committed before until.                    *)
LEMMA DelayEndsAfterUntil ==
  ASSUME VGInv
  PROVE  governanceDelay \in Nat /\ now + governanceDelay >= seenSlots.until
BY ProtocolTypes, SlotAssumption
   DEF VGInv, InternalInv, InternalTypeOK, Governance, GovernanceNotice, ThisNotice,
       governanceDelay, DelayOf

(* The steps of the contract itself leave the protocol's invariant alone.  *)
LEMMA ProtocolFrame ==
  ASSUME IInv, Call, UNCHANGED <<protocolVars, now>>
  PROVE  IInv'
<1>1. UNCHANGED <<paramVars, maskVars, validatorVars, now, seen>>
  BY DEF protocolVars
<1> QED BY <1>1, CallInv, ParamFrame, MaskFrame, ValidatorFrame DEF IInv

LEMMA InternalFrame ==
  ASSUME InternalInv, UNCHANGED <<internalVars, protocolVars, now, seenSlots>>
  PROVE  InternalInv'
<1>1. /\ UNCHANGED <<internalParams, stagedInternalParams, internalParamsTimestamp>>
      /\ UNCHANGED <<params, stagedParams, stagedParamsTimestamp, now, seenSlots>>
  BY DEF internalVars, protocolVars, paramVars
<1>2. ThisNotice' = ThisNotice
  BY <1>1 DEF ThisNotice, StagedDelayEnds, NotBefore
<1> QED BY <1>1, <1>2 DEF InternalInv, InternalTypeOK, GovernanceNotice, NotBefore

LEMMA SlotFrame ==
  ASSUME SlotInv, UNCHANGED <<slotVars, now, seenSlots>>
  PROVE  SlotInv'
BY DEF SlotInv, SlotTypeOK, StagedFees, ParamsStaySet, SlotNotice, AnyFeeRead, slotVars

-----------------------------------------------------------------------------
(* A step of the ProtocolGovernance, or of the clock: the delay that is in *)
(* force or staged still ends at or after until.                           *)

LEMMA ThisNoticeStep ==
  ASSUME IInv, seenSlots.until \in Nat, ThisNotice, AdminNext \/ Tick, UNCHANGED seenSlots
  PROVE  ThisNotice'
<1> USE ProtocolTypes
<1>1. CASE \E d \in GovernanceDelays, ps \in SUBSET Permission :
               StageParams([governanceDelay |-> d, forceAllowMask |-> ps])
  <2>1. PICK d \in GovernanceDelays, ps \in SUBSET Permission :
            StageParams([governanceDelay |-> d, forceAllowMask |-> ps])
    BY <1>1
  <2>2. /\ stagedParams'.governanceDelay = d /\ d \in Nat
        /\ stagedParamsTimestamp' = now + params.governanceDelay
        /\ UNCHANGED <<params, now>>
    BY <2>1, DelayAssumption DEF StageParams, ReadyAt
  <2> QED BY <2>2 DEF ThisNotice, StagedDelayEnds, NotBefore
<1>2. CASE CommitParams
  BY <1>2 DEF CommitParams, Mature, ThisNotice, StagedDelayEnds, NotBefore
<1>3. CASE Tick
  BY <1>3 DEF Tick, paramVars, ThisNotice, StagedDelayEnds, NotBefore
<1>4. CASE UNCHANGED <<paramVars, now>>
  BY <1>4 DEF paramVars, ThisNotice, StagedDelayEnds, NotBefore
<1>5. CASE \E t \in Target : GrantNext(t) \/ ValidatorNext(t)
  <2>1. UNCHANGED <<paramVars, now>>
    BY <1>5 DEF GrantNext, ValidatorNext, StageGrants, CommitGrants, RevokePermissions,
                StageValidator, CommitValidator, RevokeValidator
  <2> QED BY <1>4, <2>1
<1>6. CASE CommitAllGrants \/ RollbackGrants \/ CommitAllValidators \/ RollbackValidators
  <2>1. UNCHANGED <<paramVars, now>>
    BY <1>6 DEF CommitAllGrants, RollbackGrants, CommitAllValidators, RollbackValidators
  <2> QED BY <1>4, <2>1
<1> QED BY <1>1, <1>2, <1>3, <1>5, <1>6 DEF AdminNext, ParamsNext

(* The clock is the only one of these steps that a wait notices.           *)
LEMMA ProtocolTime ==
  ASSUME IInv, AdminNext \/ Tick
  PROVE  now' \in Nat /\ now' >= now
<1>1. IInv'
  BY StepInv DEF Next
<1>2. CASE Tick
  BY <1>2, ProtocolTypes DEF Tick
<1>3. CASE AdminNext
  <2>1. now' = now
    BY <1>3 DEF AdminNext, ParamsNext, StageParams, CommitParams, GrantNext, ValidatorNext,
                StageGrants, CommitGrants, RevokePermissions, StageValidator,
                CommitValidator, RevokeValidator, CommitAllGrants, RollbackGrants,
                CommitAllValidators, RollbackValidators
  <2> QED BY <2>1, ProtocolTypes
<1> QED BY <1>2, <1>3

LEMMA ProtocolStepInv == ASSUME VGInv, ProtocolStep PROVE VGInv'
<1>1. /\ AdminNext \/ Tick
      /\ UNCHANGED <<internalParams, stagedInternalParams, internalParamsTimestamp>>
      /\ UNCHANGED <<slotParams, stagedSlotParams, slotParamsTimestamp, seenSlots>>
  BY DEF ProtocolStep, internalVars, slotVars
<1>2. IInv'
  BY <1>1, StepInv DEF VGInv, Next
<1>3. now \in Nat /\ now' \in Nat /\ now' >= now /\ seenSlots.until \in Nat
  BY <1>1, ProtocolTime, ProtocolTypes DEF VGInv
<1>4. InternalInv'
  <2>1. ThisNotice => ThisNotice'
    BY <1>1, ThisNoticeStep DEF VGInv
  <2>2. InternalTypeOK'
    BY <1>1 DEF VGInv, InternalInv, InternalTypeOK
  <2>3. /\ internalParamsTimestamp \in Nat
        /\ NotBefore(internalParamsTimestamp)' >= NotBefore(internalParamsTimestamp)
        /\ NotBefore(internalParamsTimestamp)' \in Nat
        /\ NotBefore(internalParamsTimestamp) \in Nat
    BY <1>1, <1>3 DEF VGInv, InternalInv, InternalTypeOK, NotBefore
  <2>4. GovernanceNotice'
    BY <1>1, <1>3, <2>1, <2>3, SlotAssumption DEF VGInv, InternalInv, GovernanceNotice
  <2> QED BY <2>2, <2>4 DEF InternalInv
<1>5. SlotInv'
  BY <1>1, <1>3 DEF VGInv, SlotInv, SlotTypeOK, StagedFees, ParamsStaySet, SlotNotice, AnyFeeRead
<1> QED BY <1>1, <1>2, <1>4, <1>5 DEF VGInv

-----------------------------------------------------------------------------
(* Internal parameters.                                                    *)

LEMMA StageInternalInv ==
  ASSUME VGInv, NEW g \in Governance, StageInternalParams(g)
  PROVE  VGInv'
<1>1. /\ Call
      /\ stagedInternalParams' = g /\ internalParamsTimestamp' = now + governanceDelay
      /\ UNCHANGED <<protocolVars, now, internalParams, slotVars, seenSlots>>
  BY DEF StageInternalParams
<1>2. IInv' /\ SlotInv'
  BY <1>1, ProtocolFrame, SlotFrame DEF VGInv
<1>3. /\ internalParamsTimestamp' \in Nat /\ ~(internalParamsTimestamp' < seenSlots.until)
      /\ seenSlots.until \in Nat
  BY <1>1, DelayEndsAfterUntil, ProtocolTypes DEF VGInv
<1>4. InternalTypeOK'
  BY <1>1, <1>3 DEF VGInv, InternalInv, InternalTypeOK
<1>5. GovernanceNotice'
  <2>1. ThisNotice' = ThisNotice
    BY <1>1 DEF ThisNotice, StagedDelayEnds, NotBefore, protocolVars, paramVars
  <2> QED BY <1>1, <1>3, <2>1 DEF VGInv, InternalInv, GovernanceNotice
<1> QED BY <1>1, <1>2, <1>3, <1>4, <1>5 DEF VGInv, InternalInv

LEMMA CommitInternalInv == ASSUME VGInv, CommitInternalParams PROVE VGInv'
<1>1. /\ Call /\ internalParamsTimestamp # 0 /\ now >= internalParamsTimestamp
      /\ internalParams' = stagedInternalParams /\ stagedInternalParams' = NoGovernance
      /\ internalParamsTimestamp' = 0
      /\ UNCHANGED <<protocolVars, now, slotVars, seenSlots>>
  BY DEF CommitInternalParams, Mature
<1>2. IInv' /\ SlotInv'
  BY <1>1, ProtocolFrame, SlotFrame DEF VGInv
<1>3. InternalTypeOK'
  BY <1>1 DEF VGInv, InternalInv, InternalTypeOK, NoGovernance
<1>4. GovernanceNotice'
  <2>1. ThisNotice' = ThisNotice
    BY <1>1 DEF ThisNotice, StagedDelayEnds, NotBefore, protocolVars, paramVars
  <2>2. /\ internalParamsTimestamp \in Nat /\ now \in Nat /\ seenSlots.until \in Nat
        /\ NotBefore(internalParamsTimestamp) = now
    BY <1>1, ProtocolTypes DEF VGInv, InternalInv, InternalTypeOK, NotBefore
  <2> QED BY <1>1, <2>1, <2>2 DEF VGInv, InternalInv, GovernanceNotice
<1> QED BY <1>1, <1>2, <1>3, <1>4 DEF VGInv, InternalInv

-----------------------------------------------------------------------------
(* Delayed parameters.                                                     *)

LEMMA StageSlotInv ==
  ASSUME VGInv, NEW slot \in Slot, NEW fee \in Fees, StageSlot(slot, fee)
  PROVE  VGInv'
<1> DEFINE at == now + governanceDelay * DelayFactor(slot)
<1>1. /\ Call /\ fee <= MAX_FEE
      /\ stagedSlotParams' = [stagedSlotParams EXCEPT ![slot] = fee]
      /\ slotParamsTimestamp' = [slotParamsTimestamp EXCEPT ![slot] = at]
      /\ UNCHANGED <<protocolVars, now, internalVars, slotParams, seenSlots>>
  BY DEF StageSlot, WithinCap
<1>2. IInv' /\ InternalInv'
  BY <1>1, ProtocolFrame, InternalFrame DEF VGInv
<1>3. /\ now \in Nat \ {0} /\ seenSlots.until \in Nat /\ fee \in Nat /\ fee # Empty
      /\ governanceDelay \in Nat /\ now + governanceDelay >= seenSlots.until
  BY <1>1, ProtocolTypes, DelayEndsAfterUntil, SlotAssumption DEF VGInv, Empty
<1>4. CASE slotParams[slot] = Empty
  <2>1. at = now
    BY <1>3, <1>4 DEF DelayFactor
  <2>2. at < seenSlots.until => fee \in seenSlots.params[slot]
    BY <2>1, <1>4 DEF VGInv, SlotInv, SlotNotice, AnyFeeRead
  <2> QED
    <3> HIDE DEF at
    <3>1. SlotTypeOK' /\ StagedFees' /\ ParamsStaySet'
      BY <1>1, <1>3, <2>1, SlotAssumption
         DEF VGInv, SlotInv, SlotTypeOK, StagedFees, ParamsStaySet, Empty
    <3>2. \A s \in Slot : SlotNotice(s)'
      BY <1>1, <1>3, <2>1, <2>2 DEF VGInv, SlotInv, SlotTypeOK, SlotNotice, AnyFeeRead
    <3> QED BY <1>1, <1>2, <3>1, <3>2 DEF VGInv, SlotInv
<1>5. CASE slotParams[slot] # Empty
  <2>1. at = now + governanceDelay
    BY <1>3, <1>5 DEF DelayFactor
  <2>2. at \in Nat \ {0} /\ ~(at < seenSlots.until)
    BY <1>3, <2>1
  <2> QED
    <3> HIDE DEF at
    <3>1. SlotTypeOK' /\ StagedFees' /\ ParamsStaySet'
      BY <1>1, <1>3, <2>2, SlotAssumption
         DEF VGInv, SlotInv, SlotTypeOK, StagedFees, ParamsStaySet, Empty
    <3>2. \A s \in Slot : SlotNotice(s)'
      BY <1>1, <1>3, <2>2 DEF VGInv, SlotInv, SlotTypeOK, SlotNotice, AnyFeeRead
    <3> QED BY <1>1, <1>2, <3>1, <3>2 DEF VGInv, SlotInv
<1> QED BY <1>4, <1>5

LEMMA CommitSlotInv == ASSUME VGInv, NEW slot \in Slot, CommitSlot(slot) PROVE VGInv'
<1>1. /\ Call /\ slotParamsTimestamp[slot] # 0 /\ now >= slotParamsTimestamp[slot]
      /\ slotParams' = [slotParams EXCEPT ![slot] = stagedSlotParams[slot]]
      /\ stagedSlotParams' = [stagedSlotParams EXCEPT ![slot] = Empty]
      /\ slotParamsTimestamp' = [slotParamsTimestamp EXCEPT ![slot] = 0]
      /\ UNCHANGED <<protocolVars, now, internalVars, seenSlots>>
  BY DEF CommitSlot, Mature, UnstageSlot
<1>2. IInv' /\ InternalInv'
  BY <1>1, ProtocolFrame, InternalFrame DEF VGInv
<1>3. /\ now \in Nat /\ seenSlots.until \in Nat /\ slotParamsTimestamp[slot] \in Nat
      /\ stagedSlotParams[slot] # Empty
  BY <1>1, ProtocolTypes DEF VGInv, SlotInv, SlotTypeOK, ParamsStaySet
<1>4. SlotTypeOK' /\ StagedFees' /\ ParamsStaySet'
  BY <1>1, <1>3, SlotAssumption DEF VGInv, SlotInv, SlotTypeOK, StagedFees, ParamsStaySet
<1>5. ASSUME NEW s \in Slot PROVE SlotNotice(s)'
  <2>1. CASE s # slot
    BY <1>1, <2>1 DEF VGInv, SlotInv, SlotTypeOK, SlotNotice, AnyFeeRead
  <2>2. CASE s = slot
    <3>1. /\ slotParams'[slot] = stagedSlotParams[slot] /\ slotParamsTimestamp'[slot] = 0
          /\ now < seenSlots.until => slotParamsTimestamp[slot] < seenSlots.until
      BY <1>1, <1>3 DEF VGInv, SlotInv, SlotTypeOK
    <3> QED BY <1>1, <1>3, <2>2, <3>1 DEF VGInv, SlotInv, SlotNotice
  <2> QED BY <2>1, <2>2
<1> QED BY <1>1, <1>2, <1>4, <1>5 DEF VGInv, SlotInv

-----------------------------------------------------------------------------
(* The reader.                                                             *)

LEMMA LookAtSlotsInv == ASSUME VGInv, LookAtSlots PROVE VGInv'
<1>1. /\ Look
      /\ UNCHANGED <<internalParams, stagedInternalParams, internalParamsTimestamp>>
      /\ UNCHANGED <<slotParams, stagedSlotParams, slotParamsTimestamp>>
      /\ UNCHANGED <<params, stagedParams, stagedParamsTimestamp, now>>
      /\ seenSlots'.until = SlotsSafeUntil
      /\ \A slot \in Slot : seenSlots'.params[slot] =
            IF slotParams[slot] = Empty THEN Fees \cup {Empty}
            ELSE {slotParams[slot]} \cup
                 (IF slotParamsTimestamp[slot] # 0 THEN {stagedSlotParams[slot]} ELSE {})
  BY DEF LookAtSlots, Look, internalVars, slotVars, paramVars
<1>2. IInv'
  BY <1>1, LookInv DEF VGInv
<1>3. /\ SafeUntil \in Nat /\ StagedDelayEnds \in Nat
      /\ now + params.governanceDelay >= SafeUntil
      /\ stagedParamsTimestamp # 0 => StagedDelayEnds >= SafeUntil
  BY ProtocolTypes DEF VGInv, SafeUntil, StagedDelayEnds, NotBefore, CurrentDelayEnds
<1>4. /\ internalParams \in Governance
      /\ internalParamsTimestamp \in Nat
      /\ internalParamsTimestamp # 0 => stagedInternalParams \in Governance
      /\ NotBefore(internalParamsTimestamp) \in Nat /\ now \in Nat /\ OtherDelay \in Nat
  BY ProtocolTypes, SlotAssumption DEF VGInv, InternalInv, InternalTypeOK, NotBefore
<1>5. /\ SlotsSafeUntil \in Nat
      /\ SlotsSafeUntil <= SafeUnder(internalParams, now)
      /\ internalParamsTimestamp # 0 =>
             SlotsSafeUntil <= SafeUnder(stagedInternalParams, NotBefore(internalParamsTimestamp))
  BY <1>3, <1>4 DEF SlotsSafeUntil, SafeUnder
<1>6. InternalInv'
  <2>1. InternalTypeOK'
    BY <1>1 DEF VGInv, InternalInv, InternalTypeOK
  <2>2. SlotsSafeUntil <= SafeUntil => ThisNotice'
    <3>1. StagedDelayEnds' = StagedDelayEnds
      BY <1>1 DEF StagedDelayEnds, NotBefore
    <3>2. now + params.governanceDelay \in Nat
      BY ProtocolTypes DEF VGInv
    <3> QED BY <1>1, <1>3, <1>5, <3>1, <3>2 DEF ThisNotice
  <2>3. internalParams = "this" => ThisNotice'
    BY <1>5, <2>2 DEF SafeUnder
  <2>4. internalParams = "other" => SlotsSafeUntil <= now + OtherDelay
    BY <1>5 DEF SafeUnder
  <2>5. internalParamsTimestamp # 0 =>
            /\ stagedInternalParams = "this" => ThisNotice'
            /\ stagedInternalParams = "other" =>
                   SlotsSafeUntil <= NotBefore(internalParamsTimestamp) + OtherDelay
    BY <1>5, <2>2 DEF SafeUnder
  <2>6. NotBefore(internalParamsTimestamp)' = NotBefore(internalParamsTimestamp)
    BY <1>1 DEF NotBefore
  <2>7. GovernanceNotice'
    BY <1>1, <1>4, <1>5, <2>3, <2>4, <2>5, <2>6 DEF GovernanceNotice
  <2> QED BY <2>1, <2>7 DEF InternalInv
<1>7. SlotInv'
  <2>1. SlotTypeOK' /\ StagedFees' /\ ParamsStaySet'
    BY <1>1 DEF VGInv, SlotInv, SlotTypeOK, StagedFees, ParamsStaySet
  <2>2. ASSUME NEW slot \in Slot PROVE SlotNotice(slot)'
    <3>1. stagedSlotParams[slot] \in Fees \cup {Empty}
      BY DEF VGInv, SlotInv, StagedFees
    <3> QED BY <1>1, <3>1 DEF SlotNotice, AnyFeeRead
  <2> QED BY <2>1, <2>2 DEF SlotInv
<1> QED BY <1>1, <1>2, <1>5, <1>6, <1>7 DEF VGInv

LEMMA VGInitInv == ASSUME VGInit PROVE VGInv
<1>1. IInv
  BY InitInv DEF VGInit
<1>2. now = 1 /\ seenSlots.until = 0
  BY DEF VGInit, Init
<1>3. InternalInv
  BY <1>2 DEF VGInit, InternalInv, InternalTypeOK, Governance, GovernanceNotice
<1>4. SlotInv
  BY <1>2, SlotAssumption DEF VGInit, SlotInv, SlotTypeOK, StagedFees, ParamsStaySet, SlotNotice
<1> QED BY <1>1, <1>2, <1>3, <1>4 DEF VGInv

LEMMA VGStepInv == ASSUME VGInv, [VGNext]_vgVars PROVE VGInv'
<1>1. CASE \E g \in Governance : StageInternalParams(g)
  BY <1>1, StageInternalInv
<1>2. CASE CommitInternalParams
  BY <1>2, CommitInternalInv
<1>3. CASE \E slot \in Slot, fee \in Fees : StageSlot(slot, fee)
  BY <1>3, StageSlotInv
<1>4. CASE \E slot \in Slot : CommitSlot(slot)
  BY <1>4, CommitSlotInv
<1>5. CASE ProtocolStep
  BY <1>5, ProtocolStepInv
<1>6. CASE LookAtSlots
  BY <1>6, LookAtSlotsInv
<1>7. CASE UNCHANGED vgVars
  <2>1. UNCHANGED vars /\ UNCHANGED <<internalVars, protocolVars, slotVars, now, seenSlots>>
    BY <1>7 DEF vgVars, vars, protocolVars
  <2> QED BY <2>1, StepInv, InternalFrame, SlotFrame DEF VGInv
<1> QED BY <1>1, <1>2, <1>3, <1>4, <1>5, <1>6, <1>7 DEF VGNext

LEMMA VGInvariance == VGSpec => []VGInv
<1>1. VGInit => VGInv
  BY VGInitInv
<1>2. VGInv /\ [VGNext]_vgVars => VGInv'
  BY VGStepInv
<1> QED BY <1>1, <1>2, PTL DEF VGSpec

-----------------------------------------------------------------------------
(* A parameter set that a constructor filled is never empty, and nothing   *)
(* empty is ever staged: the short wait of an empty set is for its first   *)
(* parameters only.                                                        *)
THEOREM SetsStaySet == VGSpec => []ParamsStaySet
<1>1. VGInv => ParamsStaySet
  BY DEF VGInv, SlotInv
<1> QED BY <1>1, VGInvariance, PTL

(* Before the time a reader computed, the parameters of a vault are those  *)
(* in force or staged at the reading, whatever becomes of the delay and of *)
(* the governance in the meantime.                                         *)
THEOREM ParamsNotice == VGSpec => []NoUnannouncedParams
<1>1. VGInv => NoUnannouncedParams
  BY DEF VGInv, SlotInv, SlotNotice, NoUnannouncedParams
<1> QED BY <1>1, VGInvariance, PTL

=============================================================================
