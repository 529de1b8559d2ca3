--------------------------- MODULE VaultGovernance ---------------------------
(***************************************************************************)
(* VaultGovernance: the delayed parameters of the vaults of one kind, and  *)
(* the internal parameters of the contract itself, which name the          *)
(* ProtocolGovernance that says how long a change has to wait.  The module *)
(* composes the contract with that ProtocolGovernance; the internal        *)
(* parameters may be moved to another one, of which only the delay shows.  *)
(*                                                                         *)
(* A slot is a delayed parameter set of one vault (strategy parameters,    *)
(* protocol parameters per vault) or of all (protocol parameters); the     *)
(* contract has the same stage and commit pair for each.  The parameters   *)
(* of a slot are represented by the fee they contain.  Calls of those not  *)
(* entitled to the slot revert and are stuttering steps.                   *)
(*                                                                         *)
(* An operator that stands before its namesake and is used nowhere is a    *)
(* wrong version of it, kept to show that the properties would notice.     *)
(***************************************************************************)
EXTENDS ProtocolGovernance

CONSTANTS
    Slot,          \* delayed parameter sets
    ConstructorSlot, \* those that a constructor fills
    Fees, MAX_FEE, \* fees somebody may stage, and the cap on them
    OtherDelay     \* delay of another ProtocolGovernance

ASSUME SlotAssumption ==
    /\ ConstructorSlot \subseteq Slot
    /\ Fees \subseteq Nat
    /\ MAX_FEE \in Nat /\ OtherDelay \in Nat

(* The internal parameters name this ProtocolGovernance or the other one.  *)
Governance == {"this", "other"}
NoGovernance == "none"
(* A parameter set of which nothing was ever committed is empty bytes.     *)
Empty == MAX_FEE + 1

VARIABLES
    internalParams, stagedInternalParams, internalParamsTimestamp,
    slotParams, stagedSlotParams, slotParamsTimestamp,
    seenSlots  \* history: what the reader of `seen` read here

internalVars == <<internalParams, stagedInternalParams, internalParamsTimestamp>>
slotVars == <<slotParams, stagedSlotParams, slotParamsTimestamp>>
protocolVars == <<paramVars, maskVars, validatorVars, seen>>
vgVars == <<vars, internalVars, slotVars, seenSlots>>

DelayOf(g) == IF g = "this" THEN params.governanceDelay ELSE OtherDelay
governanceDelay == DelayOf(internalParams)

-----------------------------------------------------------------------------
(* Internal parameters.                                                    *)

StageInternalParams(g) ==
    /\ Call
    /\ stagedInternalParams' = g
    /\ internalParamsTimestamp' = now + governanceDelay
    /\ UNCHANGED <<protocolVars, now, internalParams, slotVars, seenSlots>>

CommitInternalParams ==
    /\ Call
    /\ Mature(internalParamsTimestamp)
    /\ internalParams' = stagedInternalParams
    /\ stagedInternalParams' = NoGovernance
    /\ internalParamsTimestamp' = 0
    /\ UNCHANGED <<protocolVars, now, slotVars, seenSlots>>

-----------------------------------------------------------------------------
(* Delayed parameters: no wait while the slot is empty.                    *)

DelayFactorIfNothingStaged(slot) == IF stagedSlotParams[slot] = Empty THEN 1 ELSE 0
DelayFactor(slot) == IF slotParams[slot] = Empty THEN 0 ELSE 1

WithinCap(fee) == fee <= MAX_FEE

StageSlot(slot, fee) ==
    /\ Call
    /\ WithinCap(fee)
    /\ stagedSlotParams' = [stagedSlotParams EXCEPT ![slot] = fee]
    /\ slotParamsTimestamp' =
           [slotParamsTimestamp EXCEPT ![slot] = now + governanceDelay * DelayFactor(slot)]
    /\ UNCHANGED <<protocolVars, now, internalVars, slotParams, seenSlots>>

(* delete of the staged parameters and of their timestamp.                 *)
UnstageParamsOnly(slot) ==
    /\ stagedSlotParams' = [stagedSlotParams EXCEPT ![slot] = Empty]
    /\ UNCHANGED slotParamsTimestamp
UnstageSlot(slot) ==
    /\ stagedSlotParams' = [stagedSlotParams EXCEPT ![slot] = Empty]
    /\ slotParamsTimestamp' = [slotParamsTimestamp EXCEPT ![slot] = 0]

CommitSlot(slot) ==
    /\ Call
    /\ Mature(slotParamsTimestamp[slot])
    /\ slotParams' = [slotParams EXCEPT ![slot] = stagedSlotParams[slot]]
    /\ UnstageSlot(slot)
    /\ UNCHANGED <<protocolVars, now, internalVars, seenSlots>>
-----------------------------------------------------------------------------
(* The reader of `seen` also reads this contract, and reckons with the     *)
(* governance that is named here and the one that is staged.               *)
SafeUnder(g, from) == IF g = "this" THEN SafeUntil ELSE from + OtherDelay
SlotsSafeUntil ==
    LET current == SafeUnder(internalParams, now)
        staged == SafeUnder(stagedInternalParams, NotBefore(internalParamsTimestamp))
    IN  IF internalParamsTimestamp # 0 /\ staged < current THEN staged ELSE current

LookAtSlots ==
    /\ Look
    /\ seenSlots' = [until |-> SlotsSafeUntil,
                     params |-> [slot \in Slot |->
                         IF slotParams[slot] = Empty THEN Fees \cup {Empty}
                         ELSE {slotParams[slot]} \cup
                              (IF slotParamsTimestamp[slot] # 0 THEN {stagedSlotParams[slot]}
                               ELSE {})]]
    /\ UNCHANGED <<internalVars, slotVars>>

VGInit ==
    /\ Init
    /\ internalParams = "this" /\ stagedInternalParams = NoGovernance
    /\ internalParamsTimestamp = 0
    /\ slotParams \in [Slot -> {Empty} \cup (Fees \cap 0..MAX_FEE)]
    /\ \A slot \in Slot : slotParams[slot] # Empty <=> slot \in ConstructorSlot
    /\ stagedSlotParams = [slot \in Slot |-> Empty]
    /\ slotParamsTimestamp = [slot \in Slot |-> 0]
    /\ seenSlots = [until |-> 0, params |-> [slot \in Slot |-> {}]]

ProtocolStep == (AdminNext \/ Tick) /\ UNCHANGED <<internalVars, slotVars, seenSlots>>

VGNext ==
    \/ \E g \in Governance : StageInternalParams(g)
    \/ CommitInternalParams
    \/ \E slot \in Slot, fee \in Fees : StageSlot(slot, fee)
    \/ \E slot \in Slot : CommitSlot(slot)
    \/ ProtocolStep
    \/ LookAtSlots

VGSpec == VGInit /\ [][VGNext]_vgVars

-----------------------------------------------------------------------------
(* Properties.                                                             *)

(* Parameters in force and staged are capped fees, or empty.               *)
InternalTypeOK ==
    /\ internalParams \in Governance
    /\ stagedInternalParams \in Governance \cup {NoGovernance}
    /\ internalParamsTimestamp \in Nat
    /\ internalParamsTimestamp # 0 => stagedInternalParams \in Governance
SlotTypeOK ==
    /\ slotParams \in [Slot -> 0..MAX_FEE \cup {Empty}]
    /\ stagedSlotParams \in [Slot -> 0..MAX_FEE \cup {Empty}]
    /\ slotParamsTimestamp \in [Slot -> Nat]
VGTypeOK == ParamTypeOK /\ InternalTypeOK /\ SlotTypeOK /\ now \in Nat \ {0}

(* No commit can empty a parameter set: what a constructor filled stays    *)
(* filled ("params are initialized in constructor, so cannot be 0"), and a *)
(* set that was committed once always waits from then on.                  *)
ParamsStaySet ==
    /\ \A slot \in Slot : slotParamsTimestamp[slot] # 0 => stagedSlotParams[slot] # Empty
    /\ \A slot \in ConstructorSlot : slotParams[slot] # Empty

(* Nothing unannounced: until the time a reader can compute from the       *)
(* delays and the governance in force and staged, parameters of a vault    *)
(* are those in force or staged when the reader looked.  It holds although *)
(* the delay may be cut, the governance replaced, and a parameter set that *)
(* is empty filled without a wait.                                         *)
NoUnannouncedParams ==
    now < seenSlots.until => \A slot \in Slot : slotParams[slot] \in seenSlots.params[slot]
=============================================================================
