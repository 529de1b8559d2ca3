------------------------ MODULE UnitPricesGovernance ------------------------
(***************************************************************************)
(* UnitPricesGovernance, the part of ProtocolGovernance that keeps the     *)
(* price of each token, used to scale withdraw limits: a fixed delay       *)
(* between staging and committing, and none for the first price of a       *)
(* token.  One action is one call of the admin.                            *)
(*                                                                         *)
(* An operator that stands before its namesake and is used nowhere is a    *)
(* wrong version of it, kept to show that the properties would notice.     *)
(***************************************************************************)
EXTENDS Integers

CONSTANTS
    Token,
    Prices,   \* unit prices the admin may stage; 0 is none
    DELAY,    \* 14 days
    MaxTime   \* bound on the clock

ASSUME PriceAssumption ==
    /\ Prices \subseteq Nat
    /\ DELAY \in Nat /\ MaxTime \in Nat

VARIABLES
    unitPrices, stagedUnitPrices, stagedUnitPricesTimestamps,
    now,
    seen  \* history: what somebody read from the contract at one moment

priceVars == <<unitPrices, stagedUnitPrices, stagedUnitPricesTimestamps>>
vars == <<priceVars, now, seen>>

ReadyAtOnce(k) == now
ReadyAt(k) == IF unitPrices[k] = 0 THEN now ELSE now + DELAY

SetStaged(k, price, at) ==
    /\ stagedUnitPrices' = [stagedUnitPrices EXCEPT ![k] = price]
    /\ stagedUnitPricesTimestamps' = [stagedUnitPricesTimestamps EXCEPT ![k] = at]

StageUnitPrice(k, price) ==
    /\ SetStaged(k, price, ReadyAt(k))
    /\ UNCHANGED <<unitPrices, now, seen>>

RollbackUnitPrice(k) ==
    /\ SetStaged(k, 0, 0)
    /\ UNCHANGED <<unitPrices, now, seen>>

ClearTimeOnly(k) == SetStaged(k, stagedUnitPrices[k], 0)
ClearStaged(k) == SetStaged(k, 0, 0)

CommitUnitPrice(k) ==
    /\ stagedUnitPricesTimestamps[k] # 0
    /\ stagedUnitPricesTimestamps[k] <= now
    /\ unitPrices' = [unitPrices EXCEPT ![k] = stagedUnitPrices[k]]
    /\ ClearStaged(k)
    /\ UNCHANGED <<now, seen>>

Tick ==
    /\ now < MaxTime
    /\ now' = now + 1
    /\ UNCHANGED <<priceVars, seen>>

(* Somebody reads the contract: a price in force stays, or becomes the     *)
(* staged one, for DELAY; without one, or once the price 0 is staged, the  *)
(* next price may be anything.                                             *)
NothingSeen == [until |-> 0, prices |-> [k \in Token |-> {}]]

Unset(k) ==
    unitPrices[k] = 0 \/ (stagedUnitPricesTimestamps[k] # 0 /\ stagedUnitPrices[k] = 0)

Look ==
    /\ seen = NothingSeen
    /\ seen' = [until |-> now + DELAY,
                prices |-> [k \in Token |->
                               IF Unset(k) THEN Prices \cup {0} ELSE
                               {unitPrices[k]} \cup
                               (IF stagedUnitPricesTimestamps[k] # 0 THEN {stagedUnitPrices[k]}
                                ELSE {})]]
    /\ UNCHANGED <<priceVars, now>>

Init ==
    /\ unitPrices = [k \in Token |-> 0] /\ stagedUnitPrices = [k \in Token |-> 0]
    /\ stagedUnitPricesTimestamps = [k \in Token |-> 0]
    /\ now = 1 /\ seen = NothingSeen

Next ==
    \/ \E k \in Token, price \in Prices : StageUnitPrice(k, price)
    \/ \E k \in Token : RollbackUnitPrice(k) \/ CommitUnitPrice(k)
    \/ Tick \/ Look

Spec == Init /\ [][Next]_vars

-----------------------------------------------------------------------------
(* Properties.                                                             *)

(* Prices and times are natural numbers; with nothing staged there is no   *)
(* staged price left over from earlier.                                    *)
TypeOK ==
    /\ unitPrices \in [Token -> Nat] /\ stagedUnitPrices \in [Token -> Nat]
    /\ stagedUnitPricesTimestamps \in [Token -> Nat]
    /\ \A k \in Token : stagedUnitPricesTimestamps[k] = 0 => stagedUnitPrices[k] = 0
    /\ now \in Nat \ {0} /\ seen.until \in Nat

(* Until DELAY after somebody read the contract, a price in force is the   *)
(* one that was in force or the one that was staged then, although a token *)
(* without a price gets one with no wait and a price can be unset.         *)
NoUnannouncedPrice ==
    now < seen.until => \A k \in Token : unitPrices[k] \in seen.prices[k]
=============================================================================
