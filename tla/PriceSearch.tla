----------------------------- MODULE PriceSearch -----------------------------
(***************************************************************************)
(* makeDesiredPoolPrice of the LStrategy tasks: one token after the other  *)
(* is swapped until the pool is at a given tick.  The amount is halved     *)
(* when the direction changes.  Nothing bounds the loop, and a swap of     *)
(* nothing reverts, so it matters that the amount neither stays so large   *)
(* that every swap jumps over the tick nor gets so small that none moves   *)
(* the price.                                                              *)
(*                                                                         *)
(* The pool is external.  Its price is counted in the amount that moves it *)
(* where its liquidity is least, and a tick is TickSize of these.  A tick  *)
(* is named by its lowest price.                                           *)
(*                                                                         *)
(* An operator that stands before its namesake and is used nowhere is a    *)
(* wrong version of it, kept to show that the properties would notice.     *)
(***************************************************************************)
EXTENDS Integers

CONSTANTS
    Targets,    \* lowest prices of the ticks asked for
    TickSize,   \* amount that moves the pool by a tick
    startTry,   \* the first amount
    LeastMove(_)    \* how far an amount moves the pool where liquidity is greatest

(* A tick is worth swapping for, and more than nothing moves the price,    *)
(* however deep the pool.                                                  *)
ASSUME PoolAssumption ==
    /\ Targets \subseteq Int /\ Targets # {}
    /\ TickSize \in Nat \ {0}
    /\ startTry \in Nat /\ startTry > 1
    /\ \A a \in 1..startTry : LeastMove(a) \in 1..a

VARIABLES
    poolPrice,
    tickAsked,
    try,        \* the amount of the next swap, startTry before the first
    needIncrease,
    searching
searchVars == <<poolPrice, tickAsked, try, needIncrease, searching>>

Below == poolPrice < tickAsked
Above == poolPrice >= tickAsked + TickSize

-----------------------------------------------------------------------------
(* fullPriceUpdate for the next row of prices.                             *)
StartSearch ==
    /\ ~searching
    /\ searching' = TRUE
    /\ tickAsked' \in Targets
    /\ try' = startTry /\ needIncrease' = 0
    /\ UNCHANGED poolPrice

EndSearch ==
    /\ searching /\ ~Below /\ ~Above
    /\ searching' = FALSE
    /\ UNCHANGED <<poolPrice, tickAsked, try, needIncrease>>

(* The amount is halved when the direction is another one than before; at  *)
(* first it is taken to have been down.                                    *)
NotHalved(direction) == try
HalvedAlways(direction) == try \div 2
Halved(direction) == IF needIncrease = direction THEN try ELSE try \div 2

(* exactInputSingle: the price moves as far as the amount goes in the      *)
(* liquidity that is there.  A swap of nothing reverts.                    *)
Swap(direction) ==
    /\ searching
    /\ needIncrease' = direction
    /\ try' = Halved(direction)
    /\ try' > 0
    /\ \E d \in LeastMove(try')..try' :
           poolPrice' = IF direction = 1 THEN poolPrice + d ELSE poolPrice - d
    /\ UNCHANGED <<tickAsked, searching>>

SwapWethForWsteth == Below /\ Swap(1)
SwapWstethForWeth == Above /\ Swap(0)
Step == EndSearch \/ SwapWethForWsteth \/ SwapWstethForWeth

SearchInit ==
    /\ poolPrice \in Targets /\ tickAsked = poolPrice
    /\ try = startTry /\ needIncrease = 0 /\ searching = FALSE
SearchNext == StartSearch \/ Step

(* A search goes on while the process lives.                               *)
SearchSpec == SearchInit /\ [][SearchNext]_searchVars /\ WF_searchVars(Step)

-----------------------------------------------------------------------------
(* Properties.                                                             *)

SearchTypeOK ==
    /\ poolPrice \in Int /\ tickAsked \in Targets
    /\ try \in 0..startTry
    /\ needIncrease \in {0, 1} /\ searching \in BOOLEAN

(* The amount never falls below half of what moves the pool by a tick,     *)
(* unless half of the first amount is less: so no swap is of nothing.      *)
SwapsStayUseful ==
    /\ 2 * try >= TickSize \/ 2 * try + 1 >= startTry
    /\ try > 0

(* When the direction is about to change, the last swap has jumped over    *)
(* the tick, and was of more than moves the pool by a tick; or there was   *)
(* none yet.                                                               *)
JumpedBefore ==
    searching =>
        /\ Above /\ needIncrease = 1 => try > TickSize
        /\ Below /\ needIncrease = 0 => try > TickSize \/ try = startTry

SearchInv == SearchTypeOK /\ SwapsStayUseful /\ JumpedBefore

(* Every search comes to an end, at the tick asked for.                    *)
SearchEnds == searching ~> (~searching /\ ~Below /\ ~Above)
=============================================================================
