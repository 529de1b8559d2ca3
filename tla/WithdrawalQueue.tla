-------------------------- MODULE WithdrawalQueue --------------------------
(***************************************************************************)
(* What the withdrawal epochs of GearboxRootVault promise, without the     *)
(* lazy bookkeeping: LP tokens asked for during an epoch are settled all   *)
(* together when the epoch ends, at one price that never changes later;    *)
(* until then they can be taken back; what is settled stays the user's     *)
(* until the user claims it.                                               *)
(***************************************************************************)
EXTENDS Integers

CONSTANTS User,      \* accounts with LP tokens
          Epoch,     \* epochs that can be executed, 1..n
          D18        \* fixed-point scale of the prices

VARIABLES epoch,          \* the current epoch
          pending,        \* LP tokens asked for in the current epoch
          settledLp,      \* LP tokens of executed epochs, not yet claimed
          settledPrimary, \* the primary tokens they are worth
          price           \* price of each executed epoch

vars == <<epoch, pending, settledLp, settledPrimary, price>>

Init ==
    /\ epoch = 1
    /\ pending = [u \in User |-> 0]
    /\ settledLp = [u \in User |-> 0]
    /\ settledPrimary = [u \in User |-> 0]
    /\ price = [e \in Epoch |-> 0]

(* A user asks for more, or takes back a part of what was asked for.       *)
ChangeRequest(u) ==
    /\ pending'[u] \in Nat
    /\ pending' = [pending EXCEPT ![u] = pending'[u]]
    /\ UNCHANGED <<epoch, settledLp, settledPrimary, price>>

(* The epoch ends: one price for every request in it.                      *)
Execute ==
    /\ epoch \in Epoch
    /\ price'[epoch] \in Nat
    /\ price' = [price EXCEPT ![epoch] = price'[epoch]]
    /\ settledLp' = [u \in User |-> settledLp[u] + pending[u]]
    /\ settledPrimary' =
           [u \in User |-> settledPrimary[u] + (pending[u] * price'[epoch]) \div D18]
    /\ pending' = [u \in User |-> 0]
    /\ epoch' = epoch + 1

(* A user claims all that is settled, and nothing else.                    *)
Claim(u) ==
    /\ settledLp' = [settledLp EXCEPT ![u] = 0]
    /\ settledPrimary' = [settledPrimary EXCEPT ![u] = 0]
    /\ UNCHANGED <<epoch, pending, price>>

Next == Execute \/ \E u \in User : ChangeRequest(u) \/ Claim(u)

Spec == Init /\ [][Next]_vars
=============================================================================
