------------------------- MODULE MC_ERC20RootVault -------------------------
(* A root vault of two tokens of two decimals (pull existential 10, first  *)
(* deposit exactly 100 of each) and one user beside the treasuries.        *)
EXTENDS ERC20RootVault, TLC

CONSTANTS t1, t2

MCToken == {t1, t2}
MCPullExistential == [t \in MCToken |-> 10]
Pair(a, b) == (t1 :> a) @@ (t2 :> b)
MCAmounts == {Pair(100, 100), Pair(120, 7)}
MCStrategyAmounts == {Pair(190, 40)}
MCDonations == {Pair(20, 3)}
MCPrices == {Pair(4, 8)}

(* Fees and a high withdraw limit; or a private vault, no fees, a lower    *)
(* limit and a fee delay.                                                  *)
Gov(private, fee, performance, delay, limit) ==
    [disableDeposit |-> FALSE, privateVault |-> private,
     managementFee |-> fee, protocolFee |-> fee, performanceFee |-> performance,
     managementFeeChargeDelay |-> delay, tokenLimit |-> 400,
     tokenLimitPerAddress |-> 200, withdrawLimit |-> Pair(limit, limit)]

MCGov == {Gov(FALSE, 1, 5, 0, 120), Gov(TRUE, 0, 0, 1, 70)}
=============================================================================
