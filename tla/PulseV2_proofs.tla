---------------------------- MODULE PulseV2_proofs ----------------------------
(***************************************************************************)
(* What PulseV2 promises, for all five AMMs, every grid of ticks, every    *)
(* set of parameters, farms, deposits and withdrawals, and any number of   *)
(* steps: the vaults hold one position at most and everybody agrees where  *)
(* it is, a new interval holds the tick, value is lost to the swap's       *)
(* slippage only, and a holder of everything can take everything.          *)
(*                                                                         *)
(* The calls are followed one by one.  Of a call that goes from v to w it  *)
(* is shown that w is sound again and worth the same (Keeps where the NFT  *)
(* stays where it is, Passes where it may move between vault and farm,     *)
(* Conserves with the vault's own flag right as well), then of a rebalance *)
(* that what is new is chosen as it should be and that the swap is all     *)
(* that costs.  The inductive invariant, PulseInv, says that the vaults    *)
(* are sound between transactions.                                         *)
(***************************************************************************)
EXTENDS PulseV2, TLAPS

-----------------------------------------------------------------------------
(* What the vaults hold, in transactions too: leaving is what the root     *)
(* vault has been paid in the withdrawal under way.                        *)
Place == {"erc20Vault", "rootVault"}
Pairs == Nat \X Nat
Position == [owner : Owner, liquidity : Nat, fees : Pairs, tickLower : Int, tickUpper : Int]
Holdings ==
    [positions : [NFT -> Position \cup {NoPosition}], nft : 0..3, inFarm : BOOLEAN,
     stakedIn : Farms \cup {NoFarm}, reward : Nat, idle : Pairs, leaving : Pairs]

(* The NFT the vault knows is the only one, and only the vault or the farm *)
(* of the vault's record has it.                                           *)
Held(v) ==
    /\ v \in Holdings
    /\ \A nft \in NFT : nft = v.nft <=> v.positions[nft] # NoPosition
    /\ HasPosition(v) => Current(v).owner \in {"vault", "farm"}
    /\ Staked(v) <=> v.stakedIn # NoFarm

(* Everything counted, what leaves included.                               *)
Worth(v) == Value(v) + Amount(v.leaving)

SameInterval(v, w) ==
    HasPosition(v) => /\ Current(w).tickLower = Current(v).tickLower
                      /\ Current(w).tickUpper = Current(v).tickUpper
SamePlace(v, w) ==
    /\ w.nft = v.nft
    /\ w.inFarm = v.inFarm
    /\ w.stakedIn = v.stakedIn
    /\ HasPosition(v) => Current(w).owner = Current(v).owner
Brings(v, w, to) ==
    /\ v.leaving[1] <= w.leaving[1] /\ v.leaving[2] <= w.leaving[2]
    /\ to = "erc20Vault" => w.leaving = v.leaving

(* A call that pays to one of the places and moves no NFT.                 *)
Keeps(v, w, to) ==
    /\ Held(w)
    /\ SamePlace(v, w)
    /\ SameInterval(v, w)
    /\ Brings(v, w, to)
    /\ Worth(w) = Worth(v)

(* The NFT that the vault knows is a position.                             *)
LEMMA CurrentPosition ==
    ASSUME NEW v, Held(v), HasPosition(v)
    PROVE  /\ v.nft \in NFT
           /\ Current(v) \in Position
PROOF
<1>1. v.nft \in NFT
    BY DEF Held, Holdings, HasPosition, NFT
<1>2. v.positions \in [NFT -> Position \cup {NoPosition}]
    BY DEF Held, Holdings
<1> QED BY <1>1, <1>2 DEF Held, Current

(* Another state of the same position, held by the same account.           *)
LEMMA PositionChanged ==
    ASSUME NEW v, Held(v), HasPosition(v), NEW q \in Position, q.owner = Current(v).owner,
           NEW u, u \in Holdings, u.nft = v.nft, u.stakedIn = v.stakedIn,
           u.positions = [v.positions EXCEPT ![v.nft] = q]
    PROVE  Held(u) /\ HasPosition(u) /\ Current(u) = q
PROOF
<1>1. v.nft \in NFT /\ v.positions \in [NFT -> Position \cup {NoPosition}]
    BY CurrentPosition DEF Held, Holdings
<1>2. q # NoPosition
    BY DEF Position, Owner, NoPosition
<1>3. Current(u) = q /\ HasPosition(u)
    BY <1>1 DEF Current, HasPosition
<1>4. \A nft \in NFT : nft = u.nft <=> u.positions[nft] # NoPosition
    BY <1>1, <1>2 DEF Held
<1>5. Staked(u) <=> Staked(v)
    BY <1>3 DEF Staked, HasPosition
<1> QED BY <1>3, <1>4, <1>5 DEF Held

(* A payment adds to what there is and to nothing else.                    *)
LEMMA Pays ==
    ASSUME NEW v, Held(v), NEW to \in Place, NEW a \in Pairs
    PROVE  /\ Held(Pay(v, to, a))
           /\ SamePlace(v, Pay(v, to, a)) /\ SameInterval(v, Pay(v, to, a))
           /\ Pay(v, to, a).positions = v.positions
           /\ Worth(Pay(v, to, a)) = Worth(v) + Amount(a)
           /\ Brings(v, Pay(v, to, a), to)
           /\ to = "rootVault" => Pay(v, to, a).leaving = Plus(v.leaving, a)
PROOF
<1> DEFINE w == Pay(v, to, a)
<1>1. /\ w \in Holdings
      /\ w.positions = v.positions /\ w.nft = v.nft /\ w.inFarm = v.inFarm
      /\ w.stakedIn = v.stakedIn /\ w.reward = v.reward
      /\ Amount(w.idle) + Amount(w.leaving) = Amount(v.idle) + Amount(v.leaving) + Amount(a)
    BY DEF Held, Holdings, Pay, Place, Plus, Amount, Pairs
<1>6. /\ Brings(v, w, to)
      /\ to = "rootVault" => w.leaving = Plus(v.leaving, a)
    BY DEF Held, Holdings, Pay, Place, Plus, Pairs, Brings
<1> HIDE DEF w
<1>2. Current(w) = Current(v) /\ (HasPosition(w) <=> HasPosition(v))
    BY <1>1 DEF Current, HasPosition
<1>3. Held(w)
    BY <1>1, <1>2 DEF Held, Staked
<1>4. SamePlace(v, w) /\ SameInterval(v, w)
    BY <1>1, <1>2 DEF SamePlace, SameInterval
<1>5. Worth(w) = Worth(v) + Amount(a)
    <2> DEFINE r == IF HasPosition(v) THEN 2 * Current(v).liquidity + Amount(Current(v).fees) ELSE 0
    <2>1. r \in Nat
        BY CurrentPosition DEF Position, Amount, Pairs
    <2>2. r = IF HasPosition(w) THEN 2 * Current(w).liquidity + Amount(Current(w).fees) ELSE 0
        BY <1>2
    <2> HIDE DEF r
    <2>3. /\ Amount(w.idle) \in Nat /\ Amount(v.idle) \in Nat /\ Amount(a) \in Nat
          /\ Amount(w.leaving) \in Nat /\ Amount(v.leaving) \in Nat /\ v.reward \in Nat
        BY <1>1 DEF Held, Holdings, Amount, Pairs
    <2>4. Value(w) = Amount(w.idle) + v.reward + r
        BY <1>1, <2>2 DEF Value
    <2>5. Value(v) = Amount(v.idle) + v.reward + r
        BY DEF Value, r
    <2> QED BY <1>1, <2>1, <2>3, <2>4, <2>5 DEF Worth
<1> QED BY <1>1, <1>3, <1>4, <1>5, <1>6 DEF w

(* Fees collected are worth what they were.                                *)
LEMMA CollectKeeps ==
    ASSUME NEW v, Held(v), HasPosition(v), NEW to \in Place
    PROVE  /\ Keeps(v, Collect(v, to), to)
           /\ Current(Collect(v, to)).fees = Zero
           /\ Current(Collect(v, to)).liquidity = Current(v).liquidity
PROOF
<1> DEFINE u == [v EXCEPT !.positions[v.nft].fees = Zero]
           q == [Current(v) EXCEPT !.fees = Zero]
<1>1. v.nft \in NFT /\ Current(v) \in Position
    BY CurrentPosition
<1>2. /\ u \in Holdings /\ u.nft = v.nft /\ u.inFarm = v.inFarm
      /\ u.stakedIn = v.stakedIn /\ u.reward = v.reward
      /\ u.idle = v.idle /\ u.leaving = v.leaving
      /\ u.positions = [v.positions EXCEPT ![v.nft] = q]
    BY <1>1 DEF Held, Holdings, Position, Current, Zero, Pairs
<1>3. /\ q \in Position /\ q.owner = Current(v).owner /\ q.liquidity = Current(v).liquidity
      /\ q.tickLower = Current(v).tickLower /\ q.tickUpper = Current(v).tickUpper
      /\ q.fees = Zero
    BY <1>1 DEF Position, Zero, Pairs
<1> HIDE DEF u, q
<1>4. Held(u) /\ HasPosition(u) /\ Current(u) = q
    BY <1>2, <1>3, PositionChanged
<1>5. Current(v).fees \in Pairs
    BY <1>1 DEF Position
<1> DEFINE w == Pay(u, to, Current(v).fees)
<1>6. /\ Held(w) /\ SamePlace(u, w) /\ SameInterval(u, w) /\ w.positions = u.positions
      /\ Worth(w) = Worth(u) + Amount(Current(v).fees) /\ Brings(u, w, to)
    BY <1>4, <1>5, Pays
<1> HIDE DEF w
<1>7. Current(w) = q
    BY <1>4, <1>6 DEF Current, SamePlace
<1>8. SamePlace(v, w) /\ SameInterval(v, w)
    BY <1>2, <1>3, <1>6, <1>7 DEF SamePlace, SameInterval, HasPosition
<1>9. Worth(u) = Worth(v) - Amount(Current(v).fees)
    BY <1>1, <1>2, <1>3, <1>4 DEF Worth, Value, Amount, Held, Holdings, Position, Pairs, Zero
<1>10. Worth(v) \in Int /\ Amount(Current(v).fees) \in Int
    BY <1>1 DEF Worth, Value, Amount, Held, Holdings, Position, Pairs
<1>11. w = Collect(v, to)
    BY DEF w, u, Collect
<1>12. Brings(v, w, to)
    BY <1>2, <1>6 DEF Brings
<1> QED BY <1>3, <1>6, <1>7, <1>8, <1>9, <1>10, <1>11, <1>12 DEF Keeps

(* The world around the vaults.                                            *)
Market == tick \in Int /\ kind \in Kinds /\ farm \in Farms \cup {NoFarm}

(* Calls that keep, one after the other.                                   *)
LEMMA KeepsOn ==
    ASSUME NEW to, NEW u, NEW v, NEW w, Held(u), Keeps(u, v, to), Keeps(v, w, to)
    PROVE  Keeps(u, w, to)
PROOF
<1>1. HasPosition(u) => HasPosition(v)
    BY DEF Keeps, SamePlace, HasPosition
<1>2. /\ u.leaving[1] <= v.leaving[1] /\ v.leaving[1] <= w.leaving[1]
      /\ u.leaving[2] <= v.leaving[2] /\ v.leaving[2] <= w.leaving[2]
    BY DEF Keeps, Brings
<1>5. to = "erc20Vault" => w.leaving = u.leaving
    BY DEF Keeps, Brings
<1>3. /\ u.leaving \in Pairs /\ v.leaving \in Pairs /\ w.leaving \in Pairs
    BY DEF Keeps, Held, Holdings
<1>4. Brings(u, w, to)
    BY <1>2, <1>3, <1>5 DEF Brings, Pairs
<1> QED BY <1>1, <1>4 DEF Keeps, SamePlace, SameInterval

LEMMA KeepsAnyway ==
    ASSUME NEW to, NEW v, NEW w, Keeps(v, w, "erc20Vault")
    PROVE  Keeps(v, w, to)
PROOF BY DEF Keeps, Brings

LEMMA WorthIsNumber ==
    ASSUME NEW v, Held(v)
    PROVE  Worth(v) \in Nat
PROOF
<1>1. /\ Amount(v.idle) \in Nat /\ Amount(v.leaving) \in Nat /\ v.reward \in Nat
    BY DEF Held, Holdings, Amount, Pairs
<1>2. HasPosition(v) => Current(v).liquidity \in Nat /\ Amount(Current(v).fees) \in Nat
    BY CurrentPosition DEF Position, Pairs, Amount
<1> QED BY <1>1, <1>2 DEF Worth, Value

(* A unit of liquidity is worth two tokens, wherever the tick is.          *)
LEMMA TokenAmountsAdd ==
    ASSUME Market, NEW p \in Position, NEW n \in Nat
    PROVE  /\ TokenAmounts(p, n) \in Pairs
           /\ Amount(TokenAmounts(p, n)) = 2 * n
PROOF
<1>1. PerLiquidity(p) \in {<<2, 0>>, <<0, 2>>, <<1, 1>>}
    BY DEF PerLiquidity
<1>2. CASE PerLiquidity(p) = <<2, 0>>
    BY <1>2 DEF TokenAmounts, Pairs, Amount
<1>3. CASE PerLiquidity(p) = <<0, 2>>
    BY <1>3 DEF TokenAmounts, Pairs, Amount
<1>4. CASE PerLiquidity(p) = <<1, 1>>
    BY <1>4 DEF TokenAmounts, Pairs, Amount
<1> QED BY <1>1, <1>2, <1>3, <1>4

(* Liquidity is taken out for what it is worth.                            *)
LEMMA DecreaseKeeps ==
    ASSUME Market, NEW v, Held(v), HasPosition(v), NEW to \in Place,
           NEW n \in Nat, n <= Current(v).liquidity
    PROVE  /\ Keeps(v, DecreaseLiquidity(v, n, to), to)
           /\ Current(DecreaseLiquidity(v, n, to)).liquidity = Current(v).liquidity - n
           /\ to = "rootVault" => DecreaseLiquidity(v, n, to).leaving
                                    = Plus(v.leaving, TokenAmounts(Current(v), n))
PROOF
<1> DEFINE u == [v EXCEPT !.positions[v.nft].liquidity = @ - n]
           q == [Current(v) EXCEPT !.liquidity = @ - n]
           a == TokenAmounts(Current(v), n)
<1>1. v.nft \in NFT /\ Current(v) \in Position
    BY CurrentPosition
<1>2. Current(v).liquidity - n \in Nat
    BY <1>1 DEF Position
<1>3. /\ u \in Holdings /\ u.nft = v.nft /\ u.inFarm = v.inFarm
      /\ u.stakedIn = v.stakedIn /\ u.reward = v.reward
      /\ u.idle = v.idle /\ u.leaving = v.leaving
      /\ u.positions = [v.positions EXCEPT ![v.nft] = q]
    BY <1>1, <1>2 DEF Held, Holdings, Position, Current, Pairs
<1>4. /\ q \in Position /\ q.owner = Current(v).owner
      /\ q.liquidity = Current(v).liquidity - n /\ q.fees = Current(v).fees
      /\ q.tickLower = Current(v).tickLower /\ q.tickUpper = Current(v).tickUpper
    BY <1>1, <1>2 DEF Position, Pairs
<1>5. a \in Pairs /\ Amount(a) = 2 * n
    BY <1>1, TokenAmountsAdd
<1> HIDE DEF u, q, a
<1>6. Held(u) /\ HasPosition(u) /\ Current(u) = q
    BY <1>3, <1>4, PositionChanged
<1> DEFINE w == Pay(u, to, a)
<1>7. /\ Held(w) /\ SamePlace(u, w) /\ SameInterval(u, w) /\ w.positions = u.positions
      /\ Worth(w) = Worth(u) + Amount(a)
      /\ Brings(u, w, to)
      /\ to = "rootVault" => w.leaving = Plus(u.leaving, a)
    BY <1>5, <1>6, Pays
<1> HIDE DEF w
<1>8. Current(w) = q
    BY <1>6, <1>7 DEF Current, SamePlace
<1>9. SamePlace(v, w) /\ SameInterval(v, w)
    BY <1>3, <1>4, <1>7, <1>8 DEF SamePlace, SameInterval, HasPosition
<1>10. Worth(u) = Worth(v) - 2 * n
    BY <1>1, <1>3, <1>4, <1>6 DEF Worth, Value, Amount, Held, Holdings, Position, Pairs
<1>11. Worth(v) \in Int
    BY WorthIsNumber
<1>12. w = DecreaseLiquidity(v, n, to)
    BY DEF w, u, a, DecreaseLiquidity
<1>13. Worth(w) = Worth(v)
    BY <1>5, <1>7, <1>10, <1>11
<1>14. Brings(v, w, to)
    BY <1>3, <1>7 DEF Brings
<1>15. to = "rootVault" => w.leaving = Plus(v.leaving, TokenAmounts(Current(v), n))
    BY <1>3, <1>7 DEF a
<1> QED BY <1>4, <1>7, <1>8, <1>9, <1>12, <1>13, <1>14, <1>15 DEF Keeps

(* What leaves with the liquidity taken out.                               *)
TakesAlong(v, w, n) ==
    LET taken == TokenAmounts(Current(v), n)
    IN  /\ v.leaving[1] + taken[1] <= w.leaving[1]
        /\ v.leaving[2] + taken[2] <= w.leaving[2]

LEMMA TakeOutKeeps ==
    ASSUME Market, NEW v, Held(v), HasPosition(v), NEW to \in Place,
           NEW n \in Nat, n <= Current(v).liquidity, NEW w \in TakeOut(v, n, to)
    PROVE  /\ Current(v).owner = "vault"
           /\ Keeps(v, w, to)
           /\ Current(w).fees = Zero
           /\ Current(w).liquidity = Current(v).liquidity - n
           /\ to = "rootVault" => TakesAlong(v, w, n)
PROOF
<1> DEFINE u == DecreaseLiquidity(v, n, to)
<1>1. Current(v).owner = "vault" /\ w = Collect(u, to)
    BY DEF TakeOut, Require
<1>2. /\ Keeps(v, u, to) /\ Current(u).liquidity = Current(v).liquidity - n
      /\ to = "rootVault" => u.leaving = Plus(v.leaving, TokenAmounts(Current(v), n))
    BY DecreaseKeeps
<1>3. Held(u) /\ HasPosition(u)
    BY <1>2 DEF Keeps, SamePlace, HasPosition
<1> HIDE DEF u
<1>4. Keeps(u, w, to) /\ Current(w).fees = Zero /\ Current(w).liquidity = Current(u).liquidity
    BY <1>1, <1>3, CollectKeeps
<1>5. to = "rootVault" => TakesAlong(v, w, n)
    BY <1>2, <1>4 DEF Keeps, Brings, TakesAlong, Plus
<1> QED BY <1>1, <1>2, <1>4, <1>5, KeepsOn

(* The least and the greatest of one or two.                               *)
LEMMA LeastOfTwo ==
    ASSUME NEW a \in Int, NEW b \in Int
    PROVE  Min({a, b}) = IF a <= b THEN a ELSE b
PROOF BY DEF Min

LEMMA GreatestOfTwo ==
    ASSUME NEW a \in Int, NEW b \in Int
    PROVE  Max({a, b}) = IF a >= b THEN a ELSE b
PROOF BY DEF Max

LEMMA OnlyOne ==
    ASSUME NEW a \in Int
    PROVE  Min({a}) = a /\ Max({a}) = a
PROOF BY DEF Min, Max

(* What amounts buy below, above and inside the interval.                  *)
LEMMA LiquiditiesOfAmounts ==
    ASSUME Market, NEW p \in Position, NEW a \in Pairs
    PROVE  Liquidities(p, a) = IF tick <= p.tickLower THEN {a[1] \div 2}
                               ELSE IF tick >= p.tickUpper THEN {a[2] \div 2}
                               ELSE {a[1], a[2]}
PROOF
<1>1. /\ a[1] \in Nat /\ a[2] \in Nat /\ tick \in Int
      /\ p.tickLower \in Int /\ p.tickUpper \in Int
    BY DEF Pairs, Position, Market
<1>2. a[1] \div 1 = a[1] /\ a[2] \div 1 = a[2]
    BY <1>1
<1>3. CASE tick <= p.tickLower
    <2>1. PerLiquidity(p) = <<2, 0>>
        BY <1>3 DEF PerLiquidity
    <2>2. {u \in 1..2 : PerLiquidity(p)[u] > 0} = {1}
        BY <2>1
    <2> QED BY <1>3, <2>1, <2>2 DEF Liquidities
<1>4. CASE ~(tick <= p.tickLower) /\ tick >= p.tickUpper
    <2>1. PerLiquidity(p) = <<0, 2>>
        BY <1>4 DEF PerLiquidity
    <2>2. {u \in 1..2 : PerLiquidity(p)[u] > 0} = {2}
        BY <2>1
    <2> QED BY <1>4, <2>1, <2>2 DEF Liquidities
<1>5. CASE ~(tick <= p.tickLower) /\ ~(tick >= p.tickUpper)
    <2>1. PerLiquidity(p) = <<1, 1>>
        BY <1>5 DEF PerLiquidity
    <2>2. {u \in 1..2 : PerLiquidity(p)[u] > 0} = {1, 2}
        BY <2>1
    <2>3. Liquidities(p, a) = {a[1] \div 1, a[2] \div 1}
        BY <2>1, <2>2 DEF Liquidities
    <2> QED BY <1>2, <1>5, <2>3
<1> QED BY <1>3, <1>4, <1>5

(* The AMM asks for no more than was offered.                              *)
LEMMA LiquidityIsAffordable ==
    ASSUME Market, NEW p \in Position, NEW a \in Pairs
    PROVE  /\ Liquidity(p, a) \in Nat
           /\ TokenAmounts(p, Liquidity(p, a))[1] <= a[1]
           /\ TokenAmounts(p, Liquidity(p, a))[2] <= a[2]
PROOF
<1>1. /\ a[1] \in Nat /\ a[2] \in Nat /\ tick \in Int
      /\ p.tickLower \in Int /\ p.tickUpper \in Int
    BY DEF Pairs, Position, Market
<1>2. CASE tick <= p.tickLower
    <2>1. Liquidity(p, a) = a[1] \div 2
        BY <1>1, <1>2, LiquiditiesOfAmounts, OnlyOne DEF Liquidity
    <2>2. PerLiquidity(p) = <<2, 0>>
        BY <1>2 DEF PerLiquidity
    <2> QED BY <1>1, <2>1, <2>2 DEF TokenAmounts
<1>3. CASE ~(tick <= p.tickLower) /\ tick >= p.tickUpper
    <2>1. Liquidity(p, a) = a[2] \div 2
        BY <1>1, <1>3, LiquiditiesOfAmounts, OnlyOne DEF Liquidity
    <2>2. PerLiquidity(p) = <<0, 2>>
        BY <1>3 DEF PerLiquidity
    <2> QED BY <1>1, <2>1, <2>2 DEF TokenAmounts
<1>4. CASE ~(tick <= p.tickLower) /\ ~(tick >= p.tickUpper)
    <2>1. Liquidity(p, a) = IF a[1] <= a[2] THEN a[1] ELSE a[2]
        <3>1. Liquidities(p, a) = {a[1], a[2]}
            BY <1>4, LiquiditiesOfAmounts
        <3> QED BY <1>1, <3>1, LeastOfTwo DEF Liquidity
    <2>2. PerLiquidity(p) = <<1, 1>>
        BY <1>4 DEF PerLiquidity
    <2> QED BY <1>1, <2>1, <2>2 DEF TokenAmounts
<1> QED BY <1>2, <1>3, <1>4

(* A pull takes no more liquidity than there is, and all of it when it is  *)
(* asked for what it is worth.                                             *)
LEMMA PullsNoMoreThanAll ==
    ASSUME Market, NEW p \in Position, NEW a \in Pairs
    PROVE  /\ LiquidityToPull(p, a) \in Nat /\ LiquidityToPull(p, a) <= p.liquidity
           /\ KyberLiquidityToPull(p, a) \in Nat /\ KyberLiquidityToPull(p, a) <= p.liquidity
           /\ TokenAmounts(p, p.liquidity)[1] <= a[1] /\ TokenAmounts(p, p.liquidity)[2] <= a[2]
                => LiquidityToPull(p, a) = p.liquidity
PROOF
<1>1. /\ a[1] \in Nat /\ a[2] \in Nat /\ tick \in Int /\ p.liquidity \in Nat
      /\ p.tickLower \in Int /\ p.tickUpper \in Int
    BY DEF Pairs, Position, Market
<1>2. /\ MaximalLiquidity(p, a) \in Nat
      /\ TokenAmounts(p, p.liquidity)[1] <= a[1] /\ TokenAmounts(p, p.liquidity)[2] <= a[2]
            => p.liquidity <= MaximalLiquidity(p, a)
    <2>1. CASE tick <= p.tickLower
        <3>1. MaximalLiquidity(p, a) = a[1] \div 2
            <4>1. Liquidities(p, a) = {a[1] \div 2}
                BY <2>1, LiquiditiesOfAmounts
            <4>2. a[1] \div 2 \in Nat
                BY <1>1
            <4> QED BY <4>1, <4>2 DEF MaximalLiquidity, Max
        <3>2. PerLiquidity(p) = <<2, 0>>
            BY <2>1 DEF PerLiquidity
        <3> QED BY <1>1, <3>1, <3>2 DEF TokenAmounts
    <2>2. CASE ~(tick <= p.tickLower) /\ tick >= p.tickUpper
        <3>1. MaximalLiquidity(p, a) = a[2] \div 2
            <4>1. Liquidities(p, a) = {a[2] \div 2}
                BY <2>2, LiquiditiesOfAmounts
            <4>2. a[2] \div 2 \in Nat
                BY <1>1
            <4> QED BY <4>1, <4>2 DEF MaximalLiquidity, Max
        <3>2. PerLiquidity(p) = <<0, 2>>
            BY <2>2 DEF PerLiquidity
        <3> QED BY <1>1, <3>1, <3>2 DEF TokenAmounts
    <2>3. CASE ~(tick <= p.tickLower) /\ ~(tick >= p.tickUpper)
        <3>1. MaximalLiquidity(p, a) = IF a[1] >= a[2] THEN a[1] ELSE a[2]
            <4>1. Liquidities(p, a) = {a[1], a[2]}
                BY <2>3, LiquiditiesOfAmounts
            <4> QED BY <1>1, <4>1, GreatestOfTwo DEF MaximalLiquidity
        <3>2. PerLiquidity(p) = <<1, 1>>
            BY <2>3 DEF PerLiquidity
        <3> QED BY <1>1, <3>1, <3>2 DEF TokenAmounts
    <2> QED BY <2>1, <2>2, <2>3
<1>3. LiquidityToPull(p, a) = IF p.liquidity <= MaximalLiquidity(p, a)
                              THEN p.liquidity ELSE MaximalLiquidity(p, a)
    BY <1>1, <1>2, LeastOfTwo DEF LiquidityToPull
<1> QED BY <1>1, <1>2, <1>3 DEF KyberLiquidityToPull

(* Liquidity is added for what it is worth.                                *)
LEMMA IncreaseKeeps ==
    ASSUME NEW to, Market, NEW v, Held(v), HasPosition(v), NEW a \in Pairs,
           a[1] <= v.idle[1], a[2] <= v.idle[2]
    PROVE  Keeps(v, IncreaseLiquidity(v, a), to)
PROOF
<1> DEFINE n == Liquidity(Current(v), a)
           b == TokenAmounts(Current(v), n)
           q == [Current(v) EXCEPT !.liquidity = @ + n]
           w == [v EXCEPT !.positions[v.nft].liquidity = @ + n, !.idle = Minus(@, b)]
<1>1. v.nft \in NFT /\ Current(v) \in Position
    BY CurrentPosition
<1>2. n \in Nat /\ b[1] <= a[1] /\ b[2] <= a[2]
    BY <1>1, LiquidityIsAffordable
<1>3. b \in Pairs /\ Amount(b) = 2 * n
    BY <1>1, <1>2, TokenAmountsAdd
<1> HIDE DEF n, b
<1>4. v.idle \in Pairs
    BY DEF Held, Holdings
<1>5. Minus(v.idle, b) \in Pairs
    BY <1>2, <1>3, <1>4 DEF Minus, Pairs
<1>6. /\ w \in Holdings /\ w.nft = v.nft /\ w.inFarm = v.inFarm
      /\ w.stakedIn = v.stakedIn /\ w.reward = v.reward
      /\ w.idle = Minus(v.idle, b) /\ w.leaving = v.leaving
      /\ w.positions = [v.positions EXCEPT ![v.nft] = q]
    <2> DEFINE left == Minus(v.idle, b)
    <2> HIDE DEF left
    <2>1. w = [v EXCEPT !.positions[v.nft].liquidity = @ + n, !.idle = left]
        BY DEF left, w
    <2>2. Current(v).liquidity + n \in Nat
        BY <1>1, <1>2 DEF Position
    <2>3. left \in Pairs
        BY <1>5 DEF left
    <2> HIDE DEF w
    <2> QED BY <1>1, <2>1, <2>2, <2>3 DEF Held, Holdings, Position, Current, left
<1>7. /\ q \in Position /\ q.owner = Current(v).owner
      /\ q.liquidity = Current(v).liquidity + n /\ q.fees = Current(v).fees
      /\ q.tickLower = Current(v).tickLower /\ q.tickUpper = Current(v).tickUpper
    BY <1>1, <1>2 DEF Position
<1>8. w = IncreaseLiquidity(v, a)
    BY DEF n, b, IncreaseLiquidity
<1> HIDE DEF q, w
<1>9. Held(w) /\ HasPosition(w) /\ Current(w) = q
    BY <1>6, <1>7, PositionChanged
<1>10. SamePlace(v, w) /\ SameInterval(v, w)
    BY <1>6, <1>7, <1>9 DEF SamePlace, SameInterval
<1>11. Brings(v, w, to)
    BY <1>6 DEF Brings, Held, Holdings, Pairs
<1>12. Amount(w.idle) = Amount(v.idle) - 2 * n
    BY <1>3, <1>4, <1>6 DEF Amount, Minus, Pairs
<1>13. Worth(w) = Worth(v)
    <2>1. /\ Amount(v.idle) \in Int /\ Amount(v.leaving) \in Int /\ v.reward \in Int
          /\ Current(v).liquidity \in Int /\ Amount(Current(v).fees) \in Int
        BY <1>1 DEF Held, Holdings, Amount, Pairs, Position
    <2>2. Worth(w) = Amount(w.idle) + v.reward
                     + (2 * (Current(v).liquidity + n) + Amount(Current(v).fees)) + Amount(v.leaving)
        BY <1>6, <1>7, <1>9 DEF Worth, Value
    <2>3. Worth(v) = Amount(v.idle) + v.reward
                     + (2 * Current(v).liquidity + Amount(Current(v).fees)) + Amount(v.leaving)
        BY DEF Worth, Value
    <2> QED BY <1>2, <1>12, <2>1, <2>2, <2>3
<1> QED BY <1>8, <1>9, <1>10, <1>11, <1>13 DEF Keeps

(* The NFT may move, everything else is kept.                              *)
Passes(v, w, to) ==
    /\ Held(w)
    /\ w.nft = v.nft
    /\ SameInterval(v, w)
    /\ Brings(v, w, to)
    /\ Worth(w) = Worth(v)

LEMMA KeepsPasses ==
    ASSUME NEW to, NEW v, NEW w, Keeps(v, w, to)
    PROVE  Passes(v, w, to)
PROOF BY DEF Keeps, Passes, SamePlace

LEMMA PassesOn ==
    ASSUME NEW to, NEW u, NEW v, NEW w, Held(u), Passes(u, v, to), Passes(v, w, to)
    PROVE  Passes(u, w, to)
PROOF
<1>1. HasPosition(u) => HasPosition(v)
    BY DEF Passes, HasPosition
<1>2. /\ u.leaving[1] <= v.leaving[1] /\ v.leaving[1] <= w.leaving[1]
      /\ u.leaving[2] <= v.leaving[2] /\ v.leaving[2] <= w.leaving[2]
    BY DEF Passes, Brings
<1>5. to = "erc20Vault" => w.leaving = u.leaving
    BY DEF Passes, Brings
<1>3. /\ u.leaving \in Pairs /\ v.leaving \in Pairs /\ w.leaving \in Pairs
    BY DEF Passes, Held, Holdings
<1>4. Brings(u, w, to)
    BY <1>2, <1>3, <1>5 DEF Brings, Pairs
<1> QED BY <1>1, <1>4 DEF Passes, SameInterval

(* The farm pays what it owes and owes nothing then.                       *)
LEMMA HarvestKeeps ==
    ASSUME NEW v, Held(v), NEW to \in Place
    PROVE  /\ Keeps(v, Harvested(v, to), to)
           /\ Harvested(v, to).positions = v.positions
           /\ Harvested(v, to).reward = 0
PROOF
<1> DEFINE u == [v EXCEPT !.reward = 0]
           a == <<v.reward, 0>>
           w == Pay(u, to, a)
<1>1. /\ u \in Holdings /\ u.nft = v.nft /\ u.inFarm = v.inFarm
      /\ u.stakedIn = v.stakedIn /\ u.positions = v.positions
      /\ u.idle = v.idle /\ u.leaving = v.leaving /\ u.reward = 0
    BY DEF Held, Holdings
<1>2. w.reward = 0
    BY <1>1 DEF Pay, Holdings
<1>3. a \in Pairs /\ Amount(a) = v.reward /\ v.reward \in Nat
    BY DEF Held, Holdings, Pairs, Amount
<1>4. w = Harvested(v, to)
    BY DEF Harvested
<1> HIDE DEF u, a
<1>5. Current(u) = Current(v) /\ (HasPosition(u) <=> HasPosition(v))
    BY <1>1 DEF Current, HasPosition
<1>6. Held(u)
    BY <1>1, <1>5 DEF Held, Staked
<1>7. Worth(u) = Worth(v) - v.reward
    <2> DEFINE r == IF HasPosition(v) THEN 2 * Current(v).liquidity + Amount(Current(v).fees) ELSE 0
    <2>1. r \in Nat
        BY CurrentPosition DEF Position, Amount, Pairs
    <2>2. Amount(v.idle) \in Nat /\ Amount(v.leaving) \in Nat
        BY DEF Held, Holdings, Amount, Pairs
    <2>3. Worth(u) = Amount(v.idle) + 0 + r + Amount(v.leaving)
        BY <1>1, <1>5 DEF Worth, Value
    <2>4. Worth(v) = Amount(v.idle) + v.reward + r + Amount(v.leaving)
        BY DEF Worth, Value
    <2> HIDE DEF r
    <2> QED BY <1>3, <2>1, <2>2, <2>3, <2>4
<1>8. /\ Held(w) /\ SamePlace(u, w) /\ SameInterval(u, w) /\ w.positions = u.positions
      /\ Worth(w) = Worth(u) + Amount(a) /\ Brings(u, w, to)
    BY <1>3, <1>6, Pays
<1> HIDE DEF w
<1>9. SamePlace(v, w) /\ SameInterval(v, w) /\ Brings(v, w, to)
    BY <1>1, <1>5, <1>8 DEF SamePlace, SameInterval, Brings
<1>10. Worth(w) = Worth(v)
    BY <1>3, <1>7, <1>8, WorthIsNumber
<1> QED BY <1>1, <1>2, <1>4, <1>8, <1>9, <1>10 DEF Keeps

-----------------------------------------------------------------------------
(* What the farm's record of the NFT changes.                              *)
MovesTo(v, w, place, f, to) ==
    /\ Passes(v, w, to)
    /\ Current(w) = [Current(v) EXCEPT !.owner = place]
    /\ w.inFarm = v.inFarm /\ w.stakedIn = f
    /\ w.idle = v.idle

(* The NFT goes to the farm or comes back, and nothing else happens.       *)
LEMMA NFTMoves ==
    ASSUME NEW to, NEW v, Held(v), HasPosition(v), NEW place \in {"vault", "farm"},
           NEW f \in Farms \cup {NoFarm}, place = "farm" <=> f # NoFarm,
           NEW w, w = [Moved(v, v.nft, place) EXCEPT !.stakedIn = f]
    PROVE  MovesTo(v, w, place, f, to)
PROOF
<1> DEFINE q == [Current(v) EXCEPT !.owner = place]
<1>1. v.nft \in NFT /\ Current(v) \in Position
    BY CurrentPosition
<1>2. place \in Owner
    BY DEF Owner
<1>3. /\ w \in Holdings /\ w.nft = v.nft /\ w.inFarm = v.inFarm
      /\ w.stakedIn = f /\ w.reward = v.reward
      /\ w.idle = v.idle /\ w.leaving = v.leaving
      /\ w.positions = [v.positions EXCEPT ![v.nft] = q]
    BY <1>1, <1>2 DEF Held, Holdings, Position, Current, Moved
<1>4. /\ q \in Position /\ q.owner = place
      /\ q.liquidity = Current(v).liquidity /\ q.fees = Current(v).fees
      /\ q.tickLower = Current(v).tickLower /\ q.tickUpper = Current(v).tickUpper
    BY <1>1, <1>2 DEF Position
<1> HIDE DEF q
<1>5. q # NoPosition
    BY <1>4 DEF Position, Owner, NoPosition
<1>6. v.positions \in [NFT -> Position \cup {NoPosition}]
    BY DEF Held, Holdings
<1>7. Current(w) = q /\ HasPosition(w)
    BY <1>1, <1>3, <1>6 DEF Current, HasPosition
<1>8. \A nft \in NFT : nft = w.nft <=> w.positions[nft] # NoPosition
    BY <1>1, <1>3, <1>5, <1>6 DEF Held
<1>9. Held(w)
    BY <1>3, <1>4, <1>7, <1>8 DEF Held, Staked
<1>10. SameInterval(v, w) /\ Brings(v, w, to)
    <2>1. v.leaving \in Pairs
        BY DEF Held, Holdings
    <2> QED BY <1>3, <1>4, <1>7, <2>1 DEF SameInterval, Brings, Pairs
<1>11. Worth(w) = Worth(v)
    BY <1>3, <1>4, <1>7 DEF Worth, Value
<1> QED BY <1>3, <1>7, <1>9, <1>10, <1>11 DEF Passes, MovesTo, q

LEMMA EnterPasses ==
    ASSUME NEW to, NEW v, Held(v), HasPosition(v), NEW f, NEW w \in EnterFarm(v, v.nft, f)
    PROVE  /\ Passes(v, w, to) /\ Staked(w) /\ w.inFarm = v.inFarm /\ w.stakedIn = f /\ f \in Farms
           /\ Current(w).liquidity = Current(v).liquidity
PROOF
<1>1. f \in Farms /\ w = [Moved(v, v.nft, "farm") EXCEPT !.stakedIn = f]
    BY DEF EnterFarm, Require, Current
<1>2. f # NoFarm /\ f \in Farms \cup {NoFarm}
    BY <1>1, FarmAssumption
<1>6. MovesTo(v, w, "farm", f, to)
    BY <1>1, <1>2, NFTMoves
<1>3. /\ Passes(v, w, to) /\ Current(w) = [Current(v) EXCEPT !.owner = "farm"]
      /\ w.inFarm = v.inFarm /\ w.stakedIn = f
    BY <1>6 DEF MovesTo
<1>4. Current(v) \in Position
    BY CurrentPosition
<1>5. Current(w).owner = "farm" /\ Current(w).liquidity = Current(v).liquidity
    BY <1>3, <1>4 DEF Position
<1> QED BY <1>1, <1>3, <1>5 DEF Staked, Passes, HasPosition

LEMMA LeavePasses ==
    ASSUME NEW to, NEW v, Held(v), NEW f, NEW w \in LeaveFarm(v, f)
    PROVE  /\ Passes(v, w, to) /\ ~Staked(w) /\ HasPosition(w) /\ Current(w).owner = "vault"
           /\ w.inFarm = v.inFarm /\ w.stakedIn = NoFarm /\ w.idle = v.idle
           /\ Current(w).liquidity = Current(v).liquidity
PROOF
<1>1. f \in Farms /\ v.stakedIn = f /\ w = [Moved(v, v.nft, "vault") EXCEPT !.stakedIn = NoFarm]
    BY DEF LeaveFarm, Require
<1>2. HasPosition(v)
    BY <1>1, FarmAssumption DEF Held, Staked
<1>3. /\ Passes(v, w, to) /\ Current(w) = [Current(v) EXCEPT !.owner = "vault"]
      /\ w.inFarm = v.inFarm /\ w.stakedIn = NoFarm /\ w.idle = v.idle
    <2>1. MovesTo(v, w, "vault", NoFarm, to)
        BY <1>1, <1>2, NFTMoves
    <2> QED BY <2>1 DEF MovesTo
<1>4. Current(v) \in Position
    BY <1>2, CurrentPosition
<1>5. Current(w).owner = "vault" /\ Current(w).liquidity = Current(v).liquidity
    BY <1>3, <1>4 DEF Position
<1> QED BY <1>2, <1>3, <1>5 DEF Staked, Passes, HasPosition

(* Kyber's and PancakeSwap's vaults remember whether the farm has the NFT. *)
FlagRight(v) == kind \in {"Kyber", "PancakeSwap"} => (v.inFarm <=> Staked(v))
Sound(v) == Held(v) /\ FlagRight(v)
Conserves(v, w, to) == Sound(w) /\ Passes(v, w, to)

(* What the ERC20Vault can pay for.                                        *)
Affordable(v, a) == a \in Pairs /\ a[1] <= v.idle[1] /\ a[2] <= v.idle[2]

(* A pull of exactly what the liquidity is worth takes all of it.          *)
Whole(v, a) == a = TokenAmounts(Current(v), Current(v).liquidity)
Empties(v, w) == Current(w).liquidity = 0 /\ TakesAlong(v, w, Current(v).liquidity)

(* What keeps the NFT's place keeps the flag right.                        *)
LEMMA SoundKept ==
    ASSUME NEW to, NEW v, Sound(v), NEW w, Keeps(v, w, to)
    PROVE  Conserves(v, w, to)
PROOF
<1>1. Passes(v, w, to)
    BY KeepsPasses
<1>2. (Staked(w) <=> Staked(v)) /\ w.inFarm = v.inFarm
    BY DEF Keeps, SamePlace, Staked, HasPosition
<1> QED BY <1>1, <1>2 DEF Conserves, Sound, FlagRight, Keeps

LEMMA ConservesOn ==
    ASSUME NEW to, NEW u, NEW v, NEW w, Held(u), Passes(u, v, to), Conserves(v, w, to)
    PROVE  Conserves(u, w, to)
PROOF BY PassesOn DEF Conserves

LEMMA ConservesAnyway ==
    ASSUME NEW to, NEW v, NEW w, Conserves(v, w, "erc20Vault")
    PROVE  Conserves(v, w, to)
PROOF BY DEF Conserves, Passes, Brings

LEMMA NothingDone ==
    ASSUME NEW to, NEW v, Sound(v)
    PROVE  Conserves(v, v, to)
PROOF BY DEF Conserves, Sound, Passes, SameInterval, Brings, Held, Holdings, Pairs

(* A pull goes through only when the vault itself has the NFT.             *)
LEMMA PullUpToKeeps ==
    ASSUME Market, NEW v, Held(v), HasPosition(v), NEW to \in Place, NEW a \in Pairs,
           NEW w \in PullUpTo(v, to, a)
    PROVE  /\ Keeps(v, w, to)
           /\ Current(v).owner = "vault"
           /\ to = "rootVault" /\ Whole(v, a) => Empties(v, w)
PROOF
<1> DEFINE n == LiquidityToPull(Current(v), a)
<1>1. w \in TakeOut(v, n, to)
    BY DEF PullUpTo, With, Then
<1>2. Current(v) \in Position
    BY CurrentPosition
<1>3. /\ n \in Nat /\ n <= Current(v).liquidity
      /\ Whole(v, a) => n = Current(v).liquidity
    <2>1. /\ n \in Nat /\ n <= Current(v).liquidity
          /\ TokenAmounts(Current(v), Current(v).liquidity)[1] <= a[1]
             /\ TokenAmounts(Current(v), Current(v).liquidity)[2] <= a[2]
                => n = Current(v).liquidity
        BY <1>2, PullsNoMoreThanAll
    <2>2. a[1] <= a[1] /\ a[2] <= a[2]
        BY DEF Pairs
    <2> QED BY <2>1, <2>2 DEF Whole
<1> HIDE DEF n
<1>4. /\ Current(v).owner = "vault" /\ Keeps(v, w, to)
      /\ Current(w).liquidity = Current(v).liquidity - n
      /\ to = "rootVault" => TakesAlong(v, w, n)
    BY <1>1, <1>3, TakeOutKeeps
<1>5. Current(v).liquidity \in Nat
    BY <1>2 DEF Position
<1> QED BY <1>3, <1>4, <1>5 DEF Empties

(* What is done to the farm before and after does not matter.              *)
LEMMA EmptiesWithin ==
    ASSUME NEW to, Market, NEW v, Held(v), HasPosition(v),
           NEW x, Passes(v, x, to), Current(x).liquidity = Current(v).liquidity,
           NEW y, Held(y), Empties(x, y),
           NEW w, Passes(y, w, to), Current(w).liquidity = Current(y).liquidity
    PROVE  Empties(v, w)
PROOF
<1> DEFINE b == TokenAmounts(Current(v), Current(v).liquidity)
<1>1. Current(v) \in Position
    BY CurrentPosition
<1>2. b \in Pairs
    <2>1. Current(v).liquidity \in Nat
        BY <1>1 DEF Position
    <2> QED BY <1>1, <2>1, TokenAmountsAdd
<1>3. b = TokenAmounts(Current(x), Current(x).liquidity)
    BY DEF Passes, SameInterval, TokenAmounts, PerLiquidity
<1> HIDE DEF b
<1>4. x.leaving[1] + b[1] <= y.leaving[1] /\ x.leaving[2] + b[2] <= y.leaving[2]
    BY <1>3 DEF Empties, TakesAlong
<1>5. /\ v.leaving \in Pairs /\ x.leaving \in Pairs /\ y.leaving \in Pairs /\ w.leaving \in Pairs
    BY DEF Passes, Held, Holdings
<1>6. /\ v.leaving[1] <= x.leaving[1] /\ v.leaving[2] <= x.leaving[2]
      /\ y.leaving[1] <= w.leaving[1] /\ y.leaving[2] <= w.leaving[2]
    BY DEF Passes, Brings
<1>7. v.leaving[1] + b[1] <= w.leaving[1] /\ v.leaving[2] + b[2] <= w.leaving[2]
    BY <1>2, <1>4, <1>5, <1>6 DEF Pairs
<1> QED BY <1>7 DEF Empties, TakesAlong, b

LEMMA PullUpToGoes ==
    ASSUME NEW v, Current(v).owner = "vault", NEW to, NEW a
    PROVE  PullUpTo(v, to, a) # {}
PROOF BY DEF PullUpTo, With, Then, TakeOut, Require

-----------------------------------------------------------------------------
(* UniV3Vault and CamelotVault.                                            *)

LEMMA UniV3PushConserves ==
    ASSUME NEW to, Market, NEW v, Sound(v), NEW a, Affordable(v, a), NEW w \in UniV3Push(v, a)
    PROVE  Conserves(v, w, to)
PROOF
<1>1. CASE NothingToPush(v, a)
    BY <1>1, NothingDone DEF UniV3Push
<1>2. CASE ~NothingToPush(v, a)
    <2>1. HasPosition(v) /\ w = IncreaseLiquidity(v, a)
        BY <1>2 DEF UniV3Push, NothingToPush
    <2> QED BY <2>1, IncreaseKeeps, SoundKept DEF Sound, Affordable
<1> QED BY <1>1, <1>2

LEMMA UniV3PullConserves ==
    ASSUME Market, NEW v, Sound(v), NEW to \in Place, NEW a \in Pairs, NEW w \in UniV3Pull(v, to, a)
    PROVE  /\ Conserves(v, w, to)
           /\ HasPosition(v) /\ to = "rootVault" /\ Whole(v, a) => Empties(v, w)
PROOF
<1>1. CASE ~HasPosition(v)
    BY <1>1, NothingDone DEF UniV3Pull
<1>2. CASE HasPosition(v)
    <2>1. w \in PullUpTo(v, to, a)
        BY <1>2 DEF UniV3Pull
    <2> QED BY <1>2, <2>1, PullUpToKeeps, SoundKept DEF Sound
<1> QED BY <1>1, <1>2

LEMMA UniV3CollectConserves ==
    ASSUME NEW to, NEW v, Sound(v), NEW w \in UniV3CollectEarnings(v)
    PROVE  Conserves(v, w, to)
PROOF
<1>1. HasPosition(v) /\ w = Collect(v, "erc20Vault")
    BY DEF UniV3CollectEarnings, Require
<1>2. "erc20Vault" \in Place
    BY DEF Place
<1> QED BY <1>1, <1>2, CollectKeeps, KeepsAnyway, SoundKept DEF Sound

LEMMA CamelotCollectConserves ==
    ASSUME NEW to, NEW v, Sound(v), NEW w \in CamelotCollectEarnings(v)
    PROVE  Conserves(v, w, to)
PROOF
<1>1. CASE ~HasPosition(v)
    BY <1>1, NothingDone DEF CamelotCollectEarnings
<1>2. CASE HasPosition(v)
    <2>1. w = Collect(v, "erc20Vault")
        BY <1>2 DEF CamelotCollectEarnings, Require
    <2>2. "erc20Vault" \in Place
        BY DEF Place
    <2> QED BY <1>2, <2>1, <2>2, CollectKeeps, KeepsAnyway, SoundKept DEF Sound
<1> QED BY <1>1, <1>2

-----------------------------------------------------------------------------
(* QuickSwapVault.                                                         *)

LEMMA CollectRewardsKeeps ==
    ASSUME NEW to, NEW v, Held(v), NEW w \in CollectRewards(v)
    PROVE  Keeps(v, w, to) /\ w.positions = v.positions
PROOF
<1>1. CASE w = v
    BY <1>1 DEF Keeps, SamePlace, SameInterval, Brings, Held, Holdings, Pairs
<1>2. CASE w # v
    <2>1. w = Harvested(v, "erc20Vault")
        BY <1>2 DEF CollectRewards
    <2>2. "erc20Vault" \in Place
        BY DEF Place
    <2> QED BY <2>1, <2>2, HarvestKeeps, KeepsAnyway
<1> QED BY <1>1, <1>2

LEMMA BurnFarmingPasses ==
    ASSUME NEW to, NEW v, Held(v), NEW w \in BurnFarmingPosition(v)
    PROVE  /\ Passes(v, w, to) /\ ~Staked(w) /\ HasPosition(w) /\ Current(w).owner = "vault"
           /\ Current(w).liquidity = Current(v).liquidity
PROOF
<1>1. PICK u \in CollectRewards(v) : w \in LeaveFarm(u, farm)
    BY DEF BurnFarmingPosition, Then
<1>2. Keeps(v, u, to) /\ u.positions = v.positions
    BY <1>1, CollectRewardsKeeps
<1>3. Held(u) /\ Passes(v, u, to) /\ Current(u).liquidity = Current(v).liquidity
    BY <1>2, KeepsPasses DEF Keeps, SamePlace, Current
<1>4. /\ Passes(u, w, to) /\ ~Staked(w) /\ HasPosition(w) /\ Current(w).owner = "vault"
      /\ Current(w).liquidity = Current(u).liquidity
    BY <1>1, <1>3, LeavePasses
<1> QED BY <1>3, <1>4, PassesOn

LEMMA QuickSwapPullConserves ==
    ASSUME Market, kind = "QuickSwap",
           NEW v, Sound(v), NEW to \in Place, NEW a \in Pairs, NEW w \in QuickSwapPull(v, to, a)
    PROVE  /\ Conserves(v, w, to)
           /\ HasPosition(v) /\ to = "rootVault" /\ Whole(v, a) => Empties(v, w)
PROOF
<1>1. CASE ~HasPosition(v)
    BY <1>1, NothingDone DEF QuickSwapPull
<1>2. CASE HasPosition(v) /\ ~Staked(v)
    <2>1. w \in PullUpTo(v, to, a)
        BY <1>2 DEF QuickSwapPull
    <2> QED BY <1>2, <2>1, PullUpToKeeps, SoundKept DEF Sound
<1>3. CASE HasPosition(v) /\ Staked(v)
    <2>1. PICK x \in BurnFarmingPosition(v) :
            \E y \in PullUpTo(x, to, a) : w \in OpenFarmingPosition(y, y.nft)
        BY <1>3 DEF QuickSwapPull, Then
    <2>2. PICK y \in PullUpTo(x, to, a) : w \in OpenFarmingPosition(y, y.nft)
        BY <2>1
    <2>3. /\ Passes(v, x, to) /\ HasPosition(x) /\ Current(x).liquidity = Current(v).liquidity
          /\ Held(x)
        BY <2>1, BurnFarmingPasses DEF Sound, Passes
    <2>4. /\ Keeps(x, y, to)
          /\ to = "rootVault" /\ Whole(x, a) => Empties(x, y)
        BY <2>2, <2>3, PullUpToKeeps
    <2>5. Passes(x, y, to) /\ Held(y) /\ HasPosition(y)
        BY <2>3, <2>4, KeepsPasses DEF Passes, HasPosition
    <2>6. Passes(y, w, to) /\ Current(w).liquidity = Current(y).liquidity
        BY <2>2, <2>5, EnterPasses DEF OpenFarmingPosition
    <2>7. Passes(v, w, to)
        BY <2>3, <2>5, <2>6, PassesOn DEF Sound
    <2>8. Conserves(v, w, to)
        BY <2>7 DEF Conserves, Sound, Passes, FlagRight
    <2>9. ASSUME to = "rootVault", Whole(v, a) PROVE Empties(v, w)
        <3>1. \A n : TokenAmounts(Current(x), n) = TokenAmounts(Current(v), n)
            BY <1>3, <2>3 DEF Passes, SameInterval, TokenAmounts, PerLiquidity
        <3>2. Empties(x, y)
            BY <2>3, <2>4, <2>9, <3>1 DEF Whole
        <3> QED BY <1>3, <2>3, <2>5, <2>6, <3>2, EmptiesWithin DEF Sound
    <2> QED BY <2>8, <2>9
<1> QED BY <1>1, <1>2, <1>3

-----------------------------------------------------------------------------
(* What the ERC20Vault can pay for, it can still pay for.                  *)
KeepsIdle(v, w) == v.idle[1] <= w.idle[1] /\ v.idle[2] <= w.idle[2]

LEMMA StillAffordable ==
    ASSUME NEW v, Held(v), NEW w, Held(w), KeepsIdle(v, w), NEW a, Affordable(v, a)
    PROVE  Affordable(w, a)
PROOF
<1>1. v.idle \in Pairs /\ w.idle \in Pairs
    BY DEF Held, Holdings
<1> QED BY <1>1 DEF Affordable, KeepsIdle, Pairs

LEMMA HarvestKeepsIdle ==
    ASSUME NEW v, Held(v), NEW to \in Place
    PROVE  KeepsIdle(v, Harvested(v, to))
PROOF BY DEF Held, Holdings, Harvested, Pay, Place, Plus, Pairs, KeepsIdle

LEMMA Flagged ==
    ASSUME NEW to, NEW v, Held(v), NEW b \in BOOLEAN
    PROVE  /\ Passes(v, [v EXCEPT !.inFarm = b], to)
           /\ [v EXCEPT !.inFarm = b].inFarm = b
           /\ [v EXCEPT !.inFarm = b].positions = v.positions
           /\ [v EXCEPT !.inFarm = b].stakedIn = v.stakedIn
           /\ [v EXCEPT !.inFarm = b].idle = v.idle
PROOF
<1> DEFINE w == [v EXCEPT !.inFarm = b]
<1>1. /\ w \in Holdings /\ w.nft = v.nft /\ w.inFarm = b
      /\ w.stakedIn = v.stakedIn /\ w.positions = v.positions
      /\ w.idle = v.idle /\ w.leaving = v.leaving /\ w.reward = v.reward
    BY DEF Held, Holdings
<1> HIDE DEF w
<1>2. Current(w) = Current(v) /\ (HasPosition(w) <=> HasPosition(v))
    BY <1>1 DEF Current, HasPosition
<1>3. Held(w)
    BY <1>1, <1>2 DEF Held, Staked
<1>4. Worth(w) = Worth(v)
    BY <1>1, <1>2 DEF Worth, Value
<1>5. Brings(v, w, to)
    BY <1>1 DEF Brings, Held, Holdings, Pairs
<1>6. SameInterval(v, w)
    BY <1>2 DEF SameInterval
<1>7. Passes(v, w, to)
    BY <1>1, <1>3, <1>4, <1>5, <1>6 DEF Passes
<1> QED BY <1>1, <1>7 DEF w

-----------------------------------------------------------------------------
(* KyberVault.                                                             *)

LEMMA WithdrawFromFarmConserves ==
    ASSUME kind = "Kyber", NEW v, Sound(v), NEW to \in Place, NEW w \in WithdrawFromFarm(v, to)
    PROVE  /\ Conserves(v, w, to) /\ KeepsIdle(v, w)
           /\ Current(w).liquidity = Current(v).liquidity
PROOF
<1>1. CASE w = v
    <2>1. KeepsIdle(v, v)
        BY DEF Sound, Held, Holdings, Pairs, KeepsIdle
    <2> QED BY <1>1, <2>1, NothingDone
<1>2. CASE w # v
    <2> DEFINE x == [v EXCEPT !.inFarm = FALSE]
               y == Harvested(x, to)
    <2>1. w \in LeaveFarm(y, farm)
        BY <1>2 DEF WithdrawFromFarm
    <2>2. Held(v)
        BY DEF Sound
    <2>3. /\ Passes(v, x, to) /\ x.inFarm = FALSE /\ x.positions = v.positions /\ x.idle = v.idle
        BY <2>2, Flagged
    <2>4. Held(x) /\ x.nft = v.nft
        BY <2>3 DEF Passes
    <2> HIDE DEF x
    <2>5. Keeps(x, y, to) /\ y.positions = x.positions /\ KeepsIdle(x, y)
        BY <2>4, HarvestKeeps, HarvestKeepsIdle
    <2> HIDE DEF y
    <2>6. Passes(x, y, to) /\ Held(y) /\ y.inFarm = FALSE /\ y.nft = x.nft
        BY <2>3, <2>5, KeepsPasses DEF Keeps, SamePlace
    <2>7. /\ Passes(y, w, to) /\ ~Staked(w) /\ w.inFarm = y.inFarm /\ w.idle = y.idle
          /\ Current(w).liquidity = Current(y).liquidity
        BY <2>1, <2>6, LeavePasses
    <2>8. Passes(v, w, to)
        BY <2>2, <2>3, <2>4, <2>6, <2>7, PassesOn
    <2>9. Sound(w)
        BY <2>6, <2>7 DEF Sound, FlagRight, Passes
    <2>10. Current(w).liquidity = Current(v).liquidity
        BY <2>3, <2>4, <2>5, <2>6, <2>7 DEF Current
    <2>11. KeepsIdle(v, w)
        BY <2>3, <2>5, <2>7 DEF KeepsIdle
    <2> QED BY <2>8, <2>9, <2>10, <2>11 DEF Conserves
<1> QED BY <1>1, <1>2

LEMMA DepositIntoFarmConserves ==
    ASSUME NEW to, kind = "Kyber", NEW v, Sound(v), NEW w \in DepositIntoFarm(v)
    PROVE  /\ Conserves(v, w, to)
           /\ HasPosition(v) => Current(w).liquidity = Current(v).liquidity
PROOF
<1>1. CASE w = v
    BY <1>1, NothingDone
<1>2. CASE w # v
    <2> DEFINE x == [v EXCEPT !.inFarm = TRUE]
    <2>1. HasPosition(v) /\ w \in EnterFarm(x, v.nft, farm)
        BY <1>2 DEF DepositIntoFarm
    <2>2. Held(v)
        BY DEF Sound
    <2>3. /\ Passes(v, x, to) /\ x.inFarm = TRUE /\ x.positions = v.positions
        BY <2>2, Flagged
    <2>4. Held(x) /\ x.nft = v.nft /\ HasPosition(x)
        BY <2>1, <2>3 DEF Passes, HasPosition
    <2> HIDE DEF x
    <2>5. /\ Passes(x, w, to) /\ Staked(w) /\ w.inFarm = TRUE
          /\ Current(w).liquidity = Current(x).liquidity
        BY <2>1, <2>3, <2>4, EnterPasses
    <2>6. Passes(v, w, to)
        BY <2>2, <2>3, <2>5, PassesOn
    <2>7. Sound(w)
        BY <2>5 DEF Sound, FlagRight, Passes
    <2>8. Current(w).liquidity = Current(v).liquidity
        BY <2>3, <2>4, <2>5 DEF Current
    <2> QED BY <2>6, <2>7, <2>8 DEF Conserves
<1> QED BY <1>1, <1>2

LEMMA KyberPushConserves ==
    ASSUME NEW to, Market, kind = "Kyber",
           NEW v, Sound(v), NEW a, Affordable(v, a), NEW w \in KyberPush(v, a)
    PROVE  Conserves(v, w, to)
PROOF
<1>1. CASE NothingToPush(v, a)
    BY <1>1, NothingDone DEF KyberPush
<1>2. CASE ~NothingToPush(v, a)
    <2>0. "erc20Vault" \in Place /\ HasPosition(v) /\ Held(v)
        BY <1>2 DEF Place, NothingToPush, Sound
    <2>1. PICK x \in WithdrawFromFarm(v, "erc20Vault") :
            w \in DepositIntoFarm(IncreaseLiquidity(x, a))
        BY <1>2 DEF KyberPush, Then
    <2>2. Conserves(v, x, to) /\ KeepsIdle(v, x)
        BY <2>0, <2>1, WithdrawFromFarmConserves, ConservesAnyway
    <2>3. Sound(x) /\ Held(x) /\ HasPosition(x) /\ Passes(v, x, to)
        BY <2>0, <2>2 DEF Conserves, Passes, HasPosition, Sound
    <2>4. Affordable(x, a)
        BY <2>0, <2>2, <2>3, StillAffordable
    <2> DEFINE y == IncreaseLiquidity(x, a)
    <2>5. Conserves(x, y, to)
        BY <2>3, <2>4, IncreaseKeeps, SoundKept DEF Affordable
    <2> HIDE DEF y
    <2>6. Conserves(y, w, to)
        BY <2>1, <2>5, DepositIntoFarmConserves DEF y, Conserves
    <2>7. Conserves(x, w, to)
        BY <2>3, <2>5, <2>6, ConservesOn DEF Conserves
    <2> QED BY <2>0, <2>3, <2>7, ConservesOn
<1> QED BY <1>1, <1>2

LEMMA KyberPullConserves ==
    ASSUME Market, kind = "Kyber",
           NEW v, Sound(v), NEW to \in Place, NEW a \in Pairs, NEW w \in KyberPull(v, to, a)
    PROVE  /\ Conserves(v, w, to)
           /\ HasPosition(v) /\ ~(tick <= Current(v).tickLower) /\ to = "rootVault" /\ Whole(v, a)
                => Empties(v, w)
PROOF
<1>1. CASE ~HasPosition(v)
    BY <1>1, NothingDone DEF KyberPull
<1>2. CASE HasPosition(v)
    <2> DEFINE Taken(u) == LET n == KyberLiquidityToPull(Current(u), a)
                           IN  IF n = 0 THEN {u} ELSE TakeOut(u, n, to)
    <2>1. PICK x \in WithdrawFromFarm(v, to) : \E z \in Taken(x) : w \in DepositIntoFarm(z)
        BY <1>2 DEF KyberPull, Then, With
    <2>2. PICK y \in Taken(x) : w \in DepositIntoFarm(y)
        BY <2>1
    <2>3. Held(v)
        BY DEF Sound
    <2>4. /\ Conserves(v, x, to) /\ Sound(x) /\ Held(x) /\ Passes(v, x, to) /\ HasPosition(x)
          /\ Current(x).liquidity = Current(v).liquidity
        BY <1>2, <2>1, WithdrawFromFarmConserves DEF Conserves, Sound, Passes, HasPosition
    <2> DEFINE n == KyberLiquidityToPull(Current(x), a)
    <2>5. Current(x) \in Position
        BY <2>4, CurrentPosition
    <2>6. n \in Nat /\ n <= Current(x).liquidity
        BY <2>5, PullsNoMoreThanAll
    <2>7. y \in IF n = 0 THEN {x} ELSE TakeOut(x, n, to)
        BY <2>2
    <2> HIDE DEF n
    <2>8. /\ Keeps(x, y, to) /\ Current(y).liquidity = Current(x).liquidity - n
          /\ to = "rootVault" => TakesAlong(x, y, n)
        <3>1. CASE n = 0
            <4>1. y = x
                BY <2>7, <3>1
            <4>2. Keeps(x, x, to)
                BY <2>4 DEF Keeps, SamePlace, SameInterval, Brings, Held, Holdings, Pairs
            <4>3. TakesAlong(x, x, 0)
                <5>1. TokenAmounts(Current(x), 0) \in Pairs /\ Amount(TokenAmounts(Current(x), 0)) = 2 * 0
                    BY <2>5, TokenAmountsAdd
                <5>2. TokenAmounts(Current(x), 0)[1] = 0 /\ TokenAmounts(Current(x), 0)[2] = 0
                    BY <5>1 DEF Pairs, Amount
                <5> QED BY <2>4, <5>2 DEF TakesAlong, Held, Holdings, Pairs
            <4>4. Current(x).liquidity \in Nat
                BY <2>5 DEF Position
            <4> QED BY <3>1, <4>1, <4>2, <4>3, <4>4
        <3>2. CASE n # 0
            <4>1. y \in TakeOut(x, n, to)
                BY <2>7, <3>2
            <4> QED BY <2>4, <2>6, <4>1, TakeOutKeeps
        <3> QED BY <3>1, <3>2
    <2>9. Conserves(x, y, to) /\ Sound(y) /\ Held(y) /\ HasPosition(y) /\ Passes(x, y, to)
        BY <2>4, <2>8, SoundKept DEF Conserves, Sound, Passes, HasPosition
    <2>10. Conserves(y, w, to) /\ Current(w).liquidity = Current(y).liquidity /\ Passes(y, w, to)
        BY <2>2, <2>9, DepositIntoFarmConserves DEF Conserves
    <2>11. Conserves(v, w, to)
        BY <2>3, <2>4, <2>9, <2>10, ConservesOn
    <2>12. ASSUME ~(tick <= Current(v).tickLower), to = "rootVault", Whole(v, a)
           PROVE  Empties(v, w)
        <3>1. \A k : TokenAmounts(Current(x), k) = TokenAmounts(Current(v), k)
            BY <1>2, <2>4 DEF Passes, SameInterval, TokenAmounts, PerLiquidity
        <3>2. n = LiquidityToPull(Current(x), a)
            BY <1>2, <2>4, <2>12 DEF Passes, SameInterval, KyberLiquidityToPull, n
        <3>3. a = TokenAmounts(Current(x), Current(x).liquidity)
            BY <2>4, <2>12, <3>1 DEF Whole
        <3>4. n = Current(x).liquidity
            <4>1. a[1] <= a[1] /\ a[2] <= a[2]
                BY DEF Pairs
            <4> QED BY <2>5, <3>2, <3>3, <4>1, PullsNoMoreThanAll
        <3>5. Empties(x, y)
            BY <2>5, <2>8, <2>12, <3>4 DEF Empties, Position
        <3> QED BY <1>2, <2>3, <2>4, <2>9, <2>10, <3>5, EmptiesWithin
    <2> QED BY <2>11, <2>12
<1> QED BY <1>1, <1>2

-----------------------------------------------------------------------------
(* PancakeSwapVault.                                                       *)

LEMMA CompoundKeeps ==
    ASSUME NEW to, NEW v, Held(v), NEW w \in Compound(v)
    PROVE  Keeps(v, w, to) /\ w.positions = v.positions /\ KeepsIdle(v, w)
PROOF
<1>1. CASE w = v
    BY <1>1 DEF Keeps, SamePlace, SameInterval, Brings, Held, Holdings, Pairs, KeepsIdle
<1>2. CASE w # v
    <2>1. w = Harvested(v, "erc20Vault")
        BY <1>2 DEF Compound
    <2>2. "erc20Vault" \in Place
        BY DEF Place
    <2> QED BY <2>1, <2>2, HarvestKeeps, KeepsAnyway, HarvestKeepsIdle
<1> QED BY <1>1, <1>2

LEMMA UnstakeConserves ==
    ASSUME NEW to, kind = "PancakeSwap", NEW v, Sound(v), NEW w \in UnstakeUniV3Nft(v)
    PROVE  /\ Conserves(v, w, to) /\ KeepsIdle(v, w) /\ ~Staked(w)
           /\ HasPosition(v) => Current(w).liquidity = Current(v).liquidity
PROOF
<1>0. Held(v)
    BY DEF Sound
<1>1. CASE ~v.inFarm
    <2>1. w = v
        BY <1>1 DEF UnstakeUniV3Nft
    <2>2. KeepsIdle(v, v)
        BY DEF Sound, Held, Holdings, Pairs, KeepsIdle
    <2> QED BY <1>1, <2>1, <2>2, NothingDone DEF Sound, FlagRight
<1>2. CASE v.inFarm
    <2>1. PICK x \in Compound(v) : w \in LeaveFarm([x EXCEPT !.inFarm = FALSE], x.stakedIn)
        BY <1>2 DEF UnstakeUniV3Nft, Then
    <2>2. Keeps(v, x, to) /\ x.positions = v.positions /\ KeepsIdle(v, x)
        BY <1>0, <2>1, CompoundKeeps
    <2>3. Held(x) /\ Passes(v, x, to) /\ x.nft = v.nft
        BY <2>2, KeepsPasses DEF Keeps, Passes
    <2> DEFINE y == [x EXCEPT !.inFarm = FALSE]
    <2>4. Passes(x, y, to) /\ y.inFarm = FALSE /\ y.positions = x.positions /\ y.idle = x.idle
        BY <2>3, Flagged
    <2>5. Held(y) /\ y.nft = x.nft
        BY <2>4 DEF Passes
    <2> HIDE DEF y
    <2>6. /\ Passes(y, w, to) /\ ~Staked(w) /\ w.inFarm = y.inFarm /\ w.idle = y.idle
          /\ Current(w).liquidity = Current(y).liquidity
        BY <2>1, <2>5, LeavePasses DEF y
    <2>7. Passes(v, w, to)
        BY <1>0, <2>3, <2>4, <2>5, <2>6, PassesOn
    <2>8. Sound(w)
        BY <2>4, <2>6 DEF Sound, FlagRight, Passes
    <2>9. Current(w).liquidity = Current(v).liquidity
        BY <2>2, <2>3, <2>4, <2>5, <2>6 DEF Current
    <2>10. KeepsIdle(v, w)
        BY <2>2, <2>4, <2>6 DEF KeepsIdle
    <2> QED BY <2>6, <2>7, <2>8, <2>9, <2>10 DEF Conserves
<1> QED BY <1>1, <1>2

LEMMA StakeConserves ==
    ASSUME NEW to, kind = "PancakeSwap", NEW v, Sound(v), HasPosition(v), NEW w \in StakeUniV3Nft(v)
    PROVE  Conserves(v, w, to) /\ Current(w).liquidity = Current(v).liquidity
PROOF
<1>1. CASE w = v
    BY <1>1, NothingDone
<1>2. CASE w # v
    <2> DEFINE x == [v EXCEPT !.inFarm = TRUE]
    <2>1. w \in EnterFarm(x, v.nft, MasterChef)
        BY <1>2 DEF StakeUniV3Nft
    <2>2. Held(v)
        BY DEF Sound
    <2>3. /\ Passes(v, x, to) /\ x.inFarm = TRUE /\ x.positions = v.positions
        BY <2>2, Flagged
    <2>4. Held(x) /\ x.nft = v.nft /\ HasPosition(x)
        BY <2>3 DEF Passes, HasPosition
    <2> HIDE DEF x
    <2>5. /\ Passes(x, w, to) /\ Staked(w) /\ w.inFarm = TRUE
          /\ Current(w).liquidity = Current(x).liquidity
        <3>1. w \in EnterFarm(x, x.nft, MasterChef)
            BY <2>1, <2>4
        <3> QED BY <2>3, <2>4, <3>1, EnterPasses
    <2>6. Passes(v, w, to)
        BY <2>2, <2>3, <2>5, PassesOn
    <2>7. Sound(w)
        BY <2>5 DEF Sound, FlagRight, Passes
    <2>8. Current(w).liquidity = Current(v).liquidity
        BY <2>3, <2>4, <2>5 DEF Current
    <2> QED BY <2>6, <2>7, <2>8 DEF Conserves
<1> QED BY <1>1, <1>2

LEMMA PancakeSwapPushConserves ==
    ASSUME NEW to, Market, kind = "PancakeSwap",
           NEW v, Sound(v), NEW a, Affordable(v, a), NEW w \in PancakeSwapPush(v, a)
    PROVE  Conserves(v, w, to)
PROOF
<1>1. CASE NothingToPush(v, a)
    BY <1>1, NothingDone DEF PancakeSwapPush
<1>2. CASE ~NothingToPush(v, a)
    <2>0. HasPosition(v) /\ Held(v)
        BY <1>2 DEF NothingToPush, Sound
    <2>1. PICK x \in UnstakeUniV3Nft(v) : w \in StakeUniV3Nft(IncreaseLiquidity(x, a))
        BY <1>2 DEF PancakeSwapPush, Then
    <2>2. Conserves(v, x, to) /\ KeepsIdle(v, x)
        BY <2>1, UnstakeConserves
    <2>3. Sound(x) /\ Held(x) /\ HasPosition(x) /\ Passes(v, x, to)
        BY <2>0, <2>2 DEF Conserves, Passes, HasPosition, Sound
    <2>4. Affordable(x, a)
        BY <2>0, <2>2, <2>3, StillAffordable
    <2> DEFINE y == IncreaseLiquidity(x, a)
    <2>5. Conserves(x, y, to) /\ HasPosition(y)
        BY <2>3, <2>4, IncreaseKeeps, SoundKept DEF Affordable, Conserves, Passes, HasPosition
    <2> HIDE DEF y
    <2>6. Conserves(y, w, to)
        BY <2>1, <2>5, StakeConserves DEF y, Conserves
    <2>7. Conserves(x, w, to)
        BY <2>3, <2>5, <2>6, ConservesOn DEF Conserves
    <2> QED BY <2>0, <2>3, <2>7, ConservesOn
<1> QED BY <1>1, <1>2

LEMMA PancakeSwapPullConserves ==
    ASSUME Market, kind = "PancakeSwap",
           NEW v, Sound(v), NEW to \in Place, NEW a \in Pairs, NEW w \in PancakeSwapPull(v, to, a)
    PROVE  /\ Conserves(v, w, to)
           /\ HasPosition(v) /\ to = "rootVault" /\ Whole(v, a) => Empties(v, w)
PROOF
<1>1. CASE ~HasPosition(v)
    BY <1>1, NothingDone DEF PancakeSwapPull
<1>2. CASE HasPosition(v)
    <2>1. PICK x \in UnstakeUniV3Nft(v) : \E z \in PullUpTo(x, to, a) : w \in StakeUniV3Nft(z)
        BY <1>2 DEF PancakeSwapPull, Then
    <2>2. PICK y \in PullUpTo(x, to, a) : w \in StakeUniV3Nft(y)
        BY <2>1
    <2>3. Held(v)
        BY DEF Sound
    <2>4. /\ Conserves(v, x, to) /\ Sound(x) /\ Held(x) /\ Passes(v, x, to) /\ HasPosition(x)
          /\ Current(x).liquidity = Current(v).liquidity
        BY <1>2, <2>1, UnstakeConserves DEF Conserves, Sound, Passes, HasPosition
    <2>5. /\ Keeps(x, y, to)
          /\ to = "rootVault" /\ Whole(x, a) => Empties(x, y)
        BY <2>2, <2>4, PullUpToKeeps
    <2>6. Conserves(x, y, to) /\ Sound(y) /\ Held(y) /\ HasPosition(y)
        BY <2>4, <2>5, SoundKept DEF Conserves, Sound, Passes, HasPosition
    <2>7. Conserves(y, w, to) /\ Current(w).liquidity = Current(y).liquidity /\ Passes(y, w, to)
        BY <2>2, <2>6, StakeConserves DEF Conserves
    <2>8. Conserves(v, w, to)
        BY <2>3, <2>4, <2>6, <2>7, ConservesOn DEF Conserves
    <2>9. ASSUME to = "rootVault", Whole(v, a) PROVE Empties(v, w)
        <3>1. \A k : TokenAmounts(Current(x), k) = TokenAmounts(Current(v), k)
            BY <1>2, <2>4 DEF Passes, SameInterval, TokenAmounts, PerLiquidity
        <3>2. Empties(x, y)
            BY <2>4, <2>5, <2>9, <3>1 DEF Whole
        <3> QED BY <1>2, <2>3, <2>4, <2>6, <2>7, <3>2, EmptiesWithin
    <2> QED BY <2>8, <2>9
<1> QED BY <1>1, <1>2

LEMMA PancakeSwapCollectConserves ==
    ASSUME NEW to, NEW v, Sound(v), NEW w \in PancakeSwapCollectEarnings(v)
    PROVE  Conserves(v, w, to)
PROOF
<1>0. Held(v) /\ "erc20Vault" \in Place
    BY DEF Sound, Place
<1>1. PICK x \in Compound(v) : Staked(x) /\ w = Collect(x, "erc20Vault")
    BY DEF PancakeSwapCollectEarnings, Then, Require
<1>2. Keeps(v, x, to)
    BY <1>0, <1>1, CompoundKeeps
<1>3. Held(x) /\ HasPosition(x)
    BY <1>1, <1>2 DEF Keeps, Staked
<1>4. Keeps(x, w, to)
    BY <1>0, <1>1, <1>3, CollectKeeps, KeepsAnyway
<1>5. Conserves(v, w, to)
    BY <1>0, <1>2, <1>4, KeepsOn, SoundKept
<1> QED BY <1>5

-----------------------------------------------------------------------------
(* Multiples of the pool's tick spacing.                                   *)

(* On the pool's grid of ticks.                                            *)
Multiple(n) == \E k \in Int : n = TickSpacing * k

LEMMA SpacingIsPositive == TickSpacing \in Nat /\ TickSpacing > 0
PROOF BY SpacingAssumption

LEMMA DivisionByPositive ==
    ASSUME NEW s \in Nat, s > 0, NEW n \in Int
    PROVE  /\ n \div s \in Int /\ n % s \in Int
           /\ 0 <= n % s /\ n % s < s
           /\ n = s * (n \div s) + (n % s)
PROOF OBVIOUS

(* A tick is on the grid if and only if the spacing divides it.            *)
LEMMA RemainderOfMultiple ==
    ASSUME NEW s \in Nat, s > 0, NEW k \in Int
    PROVE  (s * k) % s = 0
PROOF OBVIOUS

LEMMA TimesKeepsOrder ==
    ASSUME NEW a \in Int, NEW b \in Int, NEW c \in Nat, a <= b
    PROVE  c * a <= c * b
PROOF OBVIOUS

LEMMA MultipleOfSpacing ==
    ASSUME NEW n \in Int
    PROVE  Multiple(n) <=> n % TickSpacing = 0
PROOF
<1>1. ASSUME n % TickSpacing = 0 PROVE Multiple(n)
    <2>1. n = TickSpacing * (n \div TickSpacing) + (n % TickSpacing) /\ n \div TickSpacing \in Int
        BY SpacingIsPositive, DivisionByPositive
    <2>2. n = TickSpacing * (n \div TickSpacing)
        BY <1>1, <2>1, SpacingIsPositive
    <2> QED BY <2>1, <2>2 DEF Multiple
<1>2. ASSUME Multiple(n) PROVE n % TickSpacing = 0
    BY <1>2, SpacingIsPositive, RemainderOfMultiple DEF Multiple
<1> QED BY <1>1, <1>2

LEMMA MultiplesAdd ==
    ASSUME NEW a \in Int, NEW b \in Int, Multiple(a), Multiple(b)
    PROVE  Multiple(a + b) /\ Multiple(a - b)
PROOF
<1>1. PICK k \in Int : a = TickSpacing * k
    BY DEF Multiple
<1>2. PICK l \in Int : b = TickSpacing * l
    BY DEF Multiple
<1>3. a + b = TickSpacing * (k + l) /\ a - b = TickSpacing * (k - l)
    BY <1>1, <1>2, SpacingIsPositive
<1> QED BY <1>3 DEF Multiple

(* The center is on the grid and less than a spacing away, below zero too. *)
LEMMA CenterIsNear ==
    ASSUME NEW n \in Int
    PROVE  /\ CentralTick(n) \in Int /\ Multiple(CentralTick(n))
           /\ n - TickSpacing <= CentralTick(n) /\ CentralTick(n) <= n + TickSpacing
PROOF
<1> DEFINE r == Remainder(n, TickSpacing)
<1>1. r \in Int /\ -TickSpacing < r /\ r < TickSpacing /\ Multiple(n - r)
    <2>1. CASE n >= 0
        <3>1. r = n % TickSpacing
            BY <2>1 DEF Remainder
        <3>2. /\ n \div TickSpacing \in Int /\ n % TickSpacing \in Int
              /\ 0 <= n % TickSpacing /\ n % TickSpacing < TickSpacing
              /\ n = TickSpacing * (n \div TickSpacing) + (n % TickSpacing)
            BY SpacingIsPositive, DivisionByPositive
        <3>3. n - r = TickSpacing * (n \div TickSpacing)
            BY <3>1, <3>2, SpacingIsPositive
        <3> QED BY <3>1, <3>2, <3>3, SpacingIsPositive DEF Multiple
    <2>2. CASE ~(n >= 0)
        <3> DEFINE m == -n
                   q == m \div TickSpacing
        <3>1. r = -(m % TickSpacing)
            BY <2>2 DEF Remainder
        <3>2. /\ q \in Int /\ m % TickSpacing \in Int
              /\ 0 <= m % TickSpacing /\ m % TickSpacing < TickSpacing
              /\ m = TickSpacing * q + (m % TickSpacing)
            BY SpacingIsPositive, DivisionByPositive
        <3>3. n - r = -(m - (m % TickSpacing))
            BY <3>1, <3>2
        <3> HIDE DEF q
        <3>4. n - r = TickSpacing * (-q)
            BY <3>2, <3>3, SpacingIsPositive
        <3>5. -q \in Int
            BY <3>2
        <3>6. Multiple(n - r)
            BY <3>4, <3>5 DEF Multiple
        <3> HIDE DEF m
        <3>7. r \in Int /\ -TickSpacing < r /\ r < TickSpacing
            BY <3>1, <3>2, SpacingIsPositive
        <3> QED BY <3>6, <3>7
    <2> QED BY <2>1, <2>2
<1> HIDE DEF r
<1>2. CentralTick(n) = n - r + (IF r * 2 > TickSpacing THEN TickSpacing ELSE 0)
    BY DEF CentralTick, r
<1>3. TickSpacing = TickSpacing * 1
    BY SpacingIsPositive
<1>4. Multiple(TickSpacing)
    BY <1>3 DEF Multiple
<1>5. CASE r * 2 > TickSpacing
    <2>1. CentralTick(n) = (n - r) + TickSpacing
        BY <1>2, <1>5
    <2> QED BY <1>1, <1>4, <1>5, <2>1, SpacingIsPositive, MultiplesAdd
<1>6. CASE ~(r * 2 > TickSpacing)
    <2>1. CentralTick(n) = n - r
        BY <1>1, <1>2, <1>6
    <2> QED BY <1>1, <1>6, <2>1, SpacingIsPositive
<1> QED BY <1>5, <1>6

LEMMA RoundingGoesUp ==
    ASSUME NEW n \in Int
    PROVE  RoundedUp(n) \in Int /\ Multiple(RoundedUp(n)) /\ n <= RoundedUp(n)
PROOF
<1> DEFINE k == IF n = 0 THEN 1 ELSE (n + TickSpacing - 1) \div TickSpacing
<1>1. RoundedUp(n) = TickSpacing * k
    BY DEF RoundedUp
<1>2. k \in Int /\ n <= TickSpacing * k
    <2>1. CASE n = 0
        BY <2>1, SpacingIsPositive
    <2>2. CASE n # 0
        <3> DEFINE m == n + TickSpacing - 1
        <3>1. m \in Int
            BY SpacingIsPositive
        <3> HIDE DEF m
        <3>2. /\ m \div TickSpacing \in Int /\ m % TickSpacing \in Int /\ m % TickSpacing < TickSpacing
              /\ m = TickSpacing * (m \div TickSpacing) + (m % TickSpacing)
            BY <3>1, SpacingIsPositive, DivisionByPositive
        <3>3. TickSpacing * (m \div TickSpacing) >= m - TickSpacing + 1
            BY <3>1, <3>2, SpacingIsPositive
        <3> QED BY <2>2, <3>2, <3>3, SpacingIsPositive DEF m
    <2> QED BY <2>1, <2>2
<1> HIDE DEF k
<1> QED BY <1>1, <1>2, SpacingIsPositive DEF Multiple

-----------------------------------------------------------------------------
(* The interval of a new position.                                         *)

(* Parameters that were accepted, an interval on the grid, and one that a  *)
(* rebalance may choose at that tick.                                      *)
GoodParams(mp) == mp \in MutableParamsType /\ CheckMutableParams(mp)
Interval(i) ==
    /\ i.tickLower \in Int /\ i.tickUpper \in Int
    /\ i.tickLower % TickSpacing = 0 /\ i.tickUpper % TickSpacing = 0
    /\ i.tickLower <= i.tickUpper
LongestOf(mp) == Max({mp.defaultIntervalWidth, mp.maxPositionLengthInTicks})
Chosen(mp, i, spotTick) ==
    /\ Interval(i)
    /\ i.tickLower <= spotTick /\ spotTick <= i.tickUpper
    /\ Length(i) <= LongestOf(mp)

LEMMA HalfTheWidth ==
    ASSUME NEW mp, GoodParams(mp)
    PROVE  /\ mp.defaultIntervalWidth \div 2 \in Int
           /\ mp.defaultIntervalWidth = 2 * (mp.defaultIntervalWidth \div 2)
           /\ Multiple(mp.defaultIntervalWidth \div 2)
           /\ TickSpacing <= mp.defaultIntervalWidth \div 2
PROOF
<1> DEFINE w == mp.defaultIntervalWidth
<1>1. w \in Int /\ w > 0 /\ w % (2 * TickSpacing) = 0
    BY DEF GoodParams, MutableParamsType, CheckMutableParams
<1> HIDE DEF w
<1> DEFINE s == 2 * TickSpacing
<1>2. s \in Nat /\ s > 0
    BY SpacingIsPositive
<1>3. s = 2 * TickSpacing
    OBVIOUS
<1> HIDE DEF s
<1> DEFINE k == w \div s
<1>4. w % s = 0
    BY <1>1, <1>3
<1>5. k \in Int /\ w = s * k
    BY <1>1, <1>2, <1>4, DivisionByPositive
<1> HIDE DEF k
<1>6. w = 2 * (TickSpacing * k)
    BY <1>3, <1>5, SpacingIsPositive
<1>7. TickSpacing * k \in Int
    BY <1>5, SpacingIsPositive
<1>8. w \div 2 = TickSpacing * k
    BY <1>6, <1>7
<1>9. k >= 1
    <2>1. SUFFICES ASSUME k <= 0 PROVE FALSE
        BY <1>5
    <2>2. TickSpacing * k <= TickSpacing * 0
        BY <1>5, <2>1, SpacingIsPositive, TimesKeepsOrder
    <2> QED BY <1>1, <1>6, <1>7, <2>2, SpacingIsPositive
<1>10. TickSpacing * 1 <= TickSpacing * k
    BY <1>5, <1>9, SpacingIsPositive, TimesKeepsOrder
<1>11. TickSpacing <= w \div 2
    BY <1>8, <1>10, SpacingIsPositive
<1>12. Multiple(w \div 2)
    BY <1>5, <1>8 DEF Multiple
<1> QED BY <1>6, <1>7, <1>8, <1>11, <1>12 DEF w

(* An interval around the center holds the tick, as it is at least two     *)
(* spacings wide.                                                          *)
LEMMA CenteredIsChosen ==
    ASSUME NEW mp, GoodParams(mp), NEW n \in Int
    PROVE  Chosen(mp, FormPositionWithSpotTickInCenter(mp, n), n)
PROOF
<1> DEFINE h == mp.defaultIntervalWidth \div 2
           c == CentralTick(n)
           i == FormPositionWithSpotTickInCenter(mp, n)
<1>1. h \in Int /\ mp.defaultIntervalWidth = 2 * h /\ Multiple(h) /\ TickSpacing <= h
    BY HalfTheWidth
<1>2. c \in Int /\ Multiple(c) /\ n - TickSpacing <= c /\ c <= n + TickSpacing
    BY CenterIsNear
<1>3. i.tickLower = c - h /\ i.tickUpper = c + h
    BY DEF FormPositionWithSpotTickInCenter
<1> HIDE DEF h, c, i
<1>4. Multiple(c - h) /\ Multiple(c + h)
    BY <1>1, <1>2, MultiplesAdd
<1>5. Interval(i)
    BY <1>1, <1>2, <1>3, <1>4, SpacingIsPositive, MultipleOfSpacing DEF Interval
<1>6. i.tickLower <= n /\ n <= i.tickUpper
    BY <1>1, <1>2, <1>3, SpacingIsPositive
<1>7. Length(i) = mp.defaultIntervalWidth
    BY <1>1, <1>2, <1>3 DEF Length
<1>8. mp.defaultIntervalWidth <= LongestOf(mp)
    <2>1. mp.defaultIntervalWidth \in Int /\ mp.maxPositionLengthInTicks \in Int
        BY DEF GoodParams, MutableParamsType
    <2> QED BY <2>1 DEF LongestOf, Max
<1> QED BY <1>5, <1>6, <1>7, <1>8 DEF Chosen, i

(* An interval that is extended to the tick stays on the grid, and one     *)
(* that would get too long is not extended.                                *)
LEMMA ExtendedIsChosen ==
    ASSUME NEW mp, GoodParams(mp), NEW p, Interval(p), NEW n \in Int, ~Acceptable(mp, p, n)
    PROVE  Chosen(mp, CalculateNewPosition(mp, p, n), n)
PROOF
<1> DEFINE nb == Neighborhood(mp, p)
           part == (nb * mp.extensionFactorD) \div D
           close == Closeness(mp, p, n)
           e == SideExtension(mp, p, n)
           i == Extended(p, e)
<1>1. /\ D \in Nat /\ D > 0
      /\ mp.neighborhoodFactorD \in Nat /\ mp.extensionFactorD \in Nat
      /\ mp.maxPositionLengthInTicks \in Int /\ mp.defaultIntervalWidth \in Int
    BY DenominatorAssumption DEF GoodParams, MutableParamsType
<1>2. p.tickLower \in Int /\ p.tickUpper \in Int /\ Length(p) \in Nat
    BY DEF Interval, Length
<1>3. nb \in Nat
    <2>1. Length(p) * mp.neighborhoodFactorD \in Nat
        BY <1>1, <1>2
    <2> QED BY <1>1, <2>1 DEF Neighborhood
<1>4. part \in Nat
    <2> HIDE DEF nb
    <2>1. nb * mp.extensionFactorD \in Nat
        BY <1>1, <1>3
    <2> QED BY <1>1, <2>1
<1>5. /\ close \in Int
      /\ p.tickLower + nb - n <= close /\ n - (p.tickUpper - nb) <= close
      /\ close > 0
    BY <1>2, <1>3 DEF Closeness, MinAcceptableTick, MaxAcceptableTick, Acceptable
<1> HIDE DEF nb, close, part
<1>6. e = RoundedUp(close + part)
    BY DEF SideExtension, close, part, nb
<1>7. e \in Int /\ Multiple(e) /\ close + part <= e
    BY <1>4, <1>5, <1>6, RoundingGoesUp
<1> HIDE DEF e
<1>8. i.tickLower = p.tickLower - e /\ i.tickUpper = p.tickUpper + e
    BY DEF Extended
<1> HIDE DEF i
<1>9. Multiple(p.tickLower - e) /\ Multiple(p.tickUpper + e)
    BY <1>2, <1>7, MultiplesAdd, MultipleOfSpacing DEF Interval
<1>10. Interval(i)
    BY <1>2, <1>4, <1>5, <1>7, <1>8, <1>9, MultipleOfSpacing DEF Interval
<1>11. i.tickLower <= n /\ n <= i.tickUpper
    BY <1>2, <1>3, <1>4, <1>5, <1>7, <1>8
<1>12. CASE Length(i) > mp.maxPositionLengthInTicks
    <2>1. CalculateNewPosition(mp, p, n) = FormPositionWithSpotTickInCenter(mp, n)
        BY <1>12 DEF CalculateNewPosition, i, e
    <2> QED BY <2>1, CenteredIsChosen
<1>13. CASE ~(Length(i) > mp.maxPositionLengthInTicks)
    <2>1. CalculateNewPosition(mp, p, n) = i
        BY <1>13 DEF CalculateNewPosition, i, e
    <2>2. Length(i) \in Int
        BY <1>10 DEF Interval, Length
    <2>3. mp.maxPositionLengthInTicks <= LongestOf(mp) /\ LongestOf(mp) \in Int
        BY <1>1 DEF LongestOf, Max
    <2>4. Length(i) <= LongestOf(mp)
        BY <1>1, <1>13, <2>2, <2>3
    <2> QED BY <1>10, <1>11, <2>1, <2>4 DEF Chosen
<1> QED BY <1>12, <1>13

-----------------------------------------------------------------------------
(* The vault in use.                                                       *)

LEMMA FiveKinds ==
    ASSUME Market
    PROVE  kind \in {"UniV3", "Camelot", "QuickSwap", "Kyber", "PancakeSwap"}
PROOF BY KindAssumption DEF Market

(* The vault in use conserves what it is pushed and pulled.                *)
LEMMA VaultPushConserves ==
    ASSUME Market, NEW to, NEW v, Sound(v), NEW a, Affordable(v, a), NEW w \in VaultPush(v, a)
    PROVE  Conserves(v, w, to)
PROOF
<1>1. CASE kind = "UniV3"
    BY <1>1, UniV3PushConserves DEF VaultPush
<1>2. CASE kind = "Camelot"
    <2>1. w \in UniV3Push(v, a)
        BY <1>2 DEF VaultPush, CamelotPush, UniV3Push
    <2> QED BY <2>1, UniV3PushConserves
<1>3. CASE kind = "QuickSwap"
    <2>1. w \in UniV3Push(v, a)
        BY <1>3 DEF VaultPush, QuickSwapPush, UniV3Push
    <2> QED BY <2>1, UniV3PushConserves
<1>4. CASE kind = "Kyber"
    <2>1. w \in KyberPush(v, a)
        BY <1>4 DEF VaultPush
    <2> QED BY <1>4, <2>1, KyberPushConserves
<1>5. CASE kind = "PancakeSwap"
    <2>1. w \in PancakeSwapPush(v, a)
        BY <1>5 DEF VaultPush
    <2> QED BY <1>5, <2>1, PancakeSwapPushConserves
<1> QED BY <1>1, <1>2, <1>3, <1>4, <1>5, FiveKinds

(* Kyber's vault below the interval is the exception.                      *)
KyberBelow(v) == kind = "Kyber" /\ tick <= Current(v).tickLower

LEMMA VaultPullConserves ==
    ASSUME Market, NEW v, Sound(v), NEW to \in Place, NEW a \in Pairs, NEW w \in VaultPull(v, to, a)
    PROVE  /\ Conserves(v, w, to)
           /\ HasPosition(v) /\ ~KyberBelow(v) /\ to = "rootVault" /\ Whole(v, a) => Empties(v, w)
PROOF
<1>1. CASE kind = "UniV3"
    BY <1>1, UniV3PullConserves DEF VaultPull
<1>2. CASE kind = "Camelot"
    <2>1. w \in UniV3Pull(v, to, a)
        BY <1>2 DEF VaultPull, CamelotPull, UniV3Pull
    <2> QED BY <2>1, UniV3PullConserves
<1>3. CASE kind = "QuickSwap"
    <2>1. w \in QuickSwapPull(v, to, a)
        BY <1>3 DEF VaultPull
    <2> QED BY <1>3, <2>1, QuickSwapPullConserves
<1>4. CASE kind = "Kyber"
    <2>1. w \in KyberPull(v, to, a)
        BY <1>4 DEF VaultPull
    <2> QED BY <1>4, <2>1, KyberPullConserves DEF KyberBelow
<1>5. CASE kind = "PancakeSwap"
    <2>1. w \in PancakeSwapPull(v, to, a)
        BY <1>5 DEF VaultPull
    <2> QED BY <1>5, <2>1, PancakeSwapPullConserves
<1> QED BY <1>1, <1>2, <1>3, <1>4, <1>5, FiveKinds

LEMMA PullIdleConserves ==
    ASSUME Market, NEW to, NEW v, Sound(v), NEW w \in PullIdle(v)
    PROVE  Conserves(v, w, to)
PROOF
<1>1. CASE w = v
    BY <1>1, NothingDone
<1>2. CASE w # v
    <2>1. w \in VaultPush(v, v.idle)
        BY <1>2 DEF PullIdle
    <2>2. Affordable(v, v.idle)
        BY DEF Sound, Held, Holdings, Pairs, Affordable
    <2> QED BY <2>1, <2>2, VaultPushConserves
<1> QED BY <1>1, <1>2

LEMMA PushIntoVaultConserves ==
    ASSUME Market, NEW to, NEW v, Sound(v), NEW w \in PushIntoVault(v)
    PROVE  Conserves(v, w, to)
PROOF
<1>1. CASE w \in PullIdle(v)
    BY <1>1, PullIdleConserves
<1>2. CASE ~(w \in PullIdle(v))
    <2>1. kind = "QuickSwap" /\ w \in PushIntoQuickSwap(v)
        BY <1>2 DEF PushIntoVault
    <2>2. PICK x \in BurnFarmingPosition(v) :
            \E y \in PullIdle(x) : w \in OpenFarmingPosition(y, y.nft)
        BY <1>2, <2>1 DEF PushIntoQuickSwap, Then
    <2>3. PICK y \in PullIdle(x) : w \in OpenFarmingPosition(y, y.nft)
        BY <2>2
    <2>4. Held(v)
        BY DEF Sound
    <2>5. Passes(v, x, to) /\ HasPosition(x)
        BY <2>2, <2>4, BurnFarmingPasses
    <2>6. Held(x) /\ Sound(x)
        BY <2>1, <2>5 DEF Passes, Sound, FlagRight
    <2>7. Conserves(x, y, to)
        BY <2>3, <2>6, PullIdleConserves
    <2>8. Passes(x, y, to) /\ Held(y) /\ HasPosition(y)
        BY <2>5, <2>7 DEF Conserves, Passes, HasPosition
    <2>9. Passes(y, w, to)
        BY <2>3, <2>8, EnterPasses DEF OpenFarmingPosition
    <2>10. Sound(w)
        BY <2>1, <2>9 DEF Passes, Sound, FlagRight
    <2>11. Passes(v, w, to)
        BY <2>4, <2>5, <2>6, <2>8, <2>9, PassesOn
    <2> QED BY <2>10, <2>11 DEF Conserves
<1> QED BY <1>1, <1>2

LEMMA DepositCallbackConserves ==
    ASSUME Market, NEW to, NEW v, Sound(v), NEW w \in DepositCallback(v)
    PROVE  Conserves(v, w, to)
PROOF
<1>1. CASE kind = "PancakeSwap"
    <2>1. PICK x \in PancakeSwapCollectEarnings(v) : w \in PushIntoVault(x)
        BY <1>1 DEF DepositCallback, Then
    <2>2. Conserves(v, x, to)
        BY <2>1, PancakeSwapCollectConserves
    <2>3. Conserves(x, w, to)
        BY <2>1, <2>2, PushIntoVaultConserves DEF Conserves
    <2> QED BY <2>2, <2>3, ConservesOn DEF Sound, Conserves
<1>2. CASE kind # "PancakeSwap"
    BY <1>2, PushIntoVaultConserves DEF DepositCallback
<1> QED BY <1>1, <1>2

LEMMA QuickSwapCollectConserves ==
    ASSUME NEW to, NEW v, Sound(v), NEW w \in QuickSwapCollectEarnings(v)
    PROVE  Conserves(v, w, to)
PROOF
<1>1. CASE ~HasPosition(v)
    BY <1>1, NothingDone DEF QuickSwapCollectEarnings
<1>2. CASE HasPosition(v)
    <2>1. w = Collect(v, "erc20Vault")
        BY <1>2 DEF QuickSwapCollectEarnings, Require
    <2>2. "erc20Vault" \in Place
        BY DEF Place
    <2> QED BY <1>2, <2>1, <2>2, CollectKeeps, KeepsAnyway, SoundKept DEF Sound
<1> QED BY <1>1, <1>2

LEMMA CollectRewardsConserves ==
    ASSUME NEW to, NEW v, Sound(v), NEW w \in CollectRewards(v)
    PROVE  Conserves(v, w, to)
PROOF BY CollectRewardsKeeps, SoundKept DEF Sound

LEMMA CompoundConserves ==
    ASSUME NEW to, NEW v, Sound(v), NEW w \in Compound(v)
    PROVE  Conserves(v, w, to)
PROOF BY CompoundKeeps, SoundKept DEF Sound

-----------------------------------------------------------------------------
(* The new position.                                                       *)

LEMMA LeastOfThree ==
    ASSUME NEW S, S \subseteq 1..3, S # {}
    PROVE  Min(S) \in S
PROOF
<1>1. \E x \in S : \A y \in S : x <= y
    <2>1. CASE 1 \in S
        BY <2>1
    <2>2. CASE 1 \notin S /\ 2 \in S
        BY <2>2
    <2>3. CASE 1 \notin S /\ 2 \notin S
        <3>1. \A y \in S : y = 3
            BY <2>3
        <3>2. PICK x \in S : x = 3
            BY <3>1
        <3> QED BY <3>1, <3>2
    <2> QED BY <2>1, <2>2, <2>3
<1> QED BY <1>1 DEF Min

(* There is a free NFT that is not the vault's.                            *)
LEMMA UnusedIsFree ==
    ASSUME NEW v, Held(v)
    PROVE  UnusedNft(v) \in NFT /\ UnusedNft(v) # v.nft /\ UnusedNft(v) # 0
PROOF
<1> DEFINE S == {nft \in NFT : v.positions[nft] = NoPosition}
<1>1. S \subseteq 1..3
    BY DEF NFT
<1>2. S # {}
    <2>1. 1 \in NFT /\ 2 \in NFT
        BY DEF NFT
    <2>2. 1 # v.nft \/ 2 # v.nft
        OBVIOUS
    <2> QED BY <2>1, <2>2 DEF Held
<1>3. UnusedNft(v) \in S
    BY <1>1, <1>2, LeastOfThree DEF UnusedNft
<1>4. UnusedNft(v) \in NFT /\ v.positions[UnusedNft(v)] = NoPosition
    BY <1>3
<1> QED BY <1>4 DEF Held, NFT

(* One position in place of another.                                       *)
Replaced(v, n, p) ==
    [v EXCEPT !.positions = [m \in NFT |-> IF m = n THEN p ELSE NoPosition], !.nft = n]

(* Once the old position is empty, it can be forgotten.                    *)
LEMMA ReplacedIsSound ==
    ASSUME NEW v, Sound(v), v.stakedIn = NoFarm, NEW n \in NFT, NEW p \in Position,
           p.owner = "vault", HasPosition(v) => Cleared(Current(v))
    PROVE  /\ Sound(Replaced(v, n, p))
           /\ Replaced(v, n, p).nft = n
           /\ HasPosition(Replaced(v, n, p))
           /\ Current(Replaced(v, n, p)) = p
           /\ Replaced(v, n, p).leaving = v.leaving
           /\ Worth(Replaced(v, n, p)) = Worth(v) + 2 * p.liquidity + Amount(p.fees)
PROOF
<1> DEFINE w == Replaced(v, n, p)
<1>1. n \in 0..3 /\ n # 0
    BY DEF NFT
<1>2. /\ w \in Holdings /\ w.nft = n /\ w.inFarm = v.inFarm
      /\ w.stakedIn = NoFarm /\ w.reward = v.reward /\ w.idle = v.idle /\ w.leaving = v.leaving
      /\ w.positions = [m \in NFT |-> IF m = n THEN p ELSE NoPosition]
    BY <1>1 DEF Replaced, Sound, Held, Holdings
<1> HIDE DEF w
<1>3. p # NoPosition
    BY DEF Position, Owner, NoPosition
<1>4. Current(w) = p /\ HasPosition(w) /\ ~Staked(w)
    BY <1>1, <1>2 DEF Current, HasPosition, Staked
<1>5. Held(w)
    BY <1>2, <1>3, <1>4 DEF Held
<1>6. ~Staked(v)
    BY DEF Sound, Held
<1>7. FlagRight(w)
    BY <1>2, <1>4, <1>6 DEF Sound, FlagRight
<1>8. Worth(w) = Worth(v) + 2 * p.liquidity + Amount(p.fees)
    <2>1. /\ Amount(v.idle) \in Int /\ Amount(v.leaving) \in Int /\ v.reward \in Int
          /\ p.liquidity \in Int /\ Amount(p.fees) \in Int
        BY DEF Sound, Held, Holdings, Amount, Pairs, Position
    <2>2. Worth(w) = Amount(v.idle) + v.reward + (2 * p.liquidity + Amount(p.fees)) + Amount(v.leaving)
        BY <1>2, <1>4 DEF Worth, Value
    <2>3. Worth(v) = Amount(v.idle) + v.reward + 0 + Amount(v.leaving)
        <3>1. HasPosition(v) => Current(v).liquidity = 0 /\ Amount(Current(v).fees) = 0
            BY DEF Cleared, Zero, Amount
        <3>2. HasPosition(v) => 2 * Current(v).liquidity + Amount(Current(v).fees) = 0
            BY <3>1
        <3> QED BY <3>2 DEF Worth, Value
    <2> QED BY <2>1, <2>2, <2>3
<1> QED BY <1>2, <1>4, <1>5, <1>7, <1>8 DEF Sound, w

-----------------------------------------------------------------------------
(* The strategy's own tokens buy a position with an interval.              *)
Bought(interval) ==
    [owner |-> "vault", liquidity |-> opening, fees |-> Zero,
     tickLower |-> interval.tickLower, tickUpper |-> interval.tickUpper]

LEMMA BoughtIsPosition ==
    ASSUME opening \in Nat, NEW i, Interval(i)
    PROVE  /\ Bought(i) \in Position /\ Bought(i).owner = "vault"
           /\ Bought(i).liquidity = opening /\ Bought(i).fees = Zero
           /\ Bought(i).tickLower = i.tickLower /\ Bought(i).tickUpper = i.tickUpper
           /\ Minted(i) \in Position /\ Bought(i) = [Minted(i) EXCEPT !.owner = "vault"]
PROOF BY DEF Bought, Minted, Interval, Position, Owner, Pairs, Zero

(* What has been minted but not sent.                                      *)
LEMMA MintedIs ==
    ASSUME NEW v, NEW x \in Mint(v)
    PROVE  opening > 0 /\ x = [v EXCEPT !.positions[UnusedNft(v)] = Minted(NewInterval(v))]
PROOF BY DEF Mint, With, Then, Require

LEMMA FirstArrival ==
    ASSUME opening \in Nat, NEW v, Sound(v), ~HasPosition(v), NEW n \in NFT, NEW i, Interval(i),
           NEW x, x = [v EXCEPT !.positions[n] = Minted(i)]
    PROVE  [Moved(x, n, "vault") EXCEPT !.nft = n] = Replaced(v, n, Bought(i))
PROOF
<1>1. v.positions \in [NFT -> Position \cup {NoPosition}] /\ v \in Holdings
    BY DEF Sound, Held, Holdings
<1>2. \A m \in NFT : v.positions[m] = NoPosition
    BY DEF Sound, Held, HasPosition, NFT
<1>3. Minted(i) \in Position /\ Bought(i) = [Minted(i) EXCEPT !.owner = "vault"]
    BY BoughtIsPosition
<1> DEFINE f == [m \in NFT |-> IF m = n THEN Bought(i) ELSE NoPosition]
           g == [[v.positions EXCEPT ![n] = Minted(i)] EXCEPT ![n] = Bought(i)]
<1>4. g = f
    <2>1. \A m \in NFT : g[m] = f[m]
        BY <1>1, <1>2
    <2> QED BY <1>1, <2>1
<1>5. x.positions = [v.positions EXCEPT ![n] = Minted(i)] /\ x = [v EXCEPT !.positions = x.positions]
    BY <1>1 DEF Holdings
<1>6. x.positions[n] = Minted(i)
    BY <1>1, <1>5
<1>7. [x.positions EXCEPT ![n].owner = "vault"] = g
    BY <1>1, <1>3, <1>5, <1>6
<1>8. [Moved(x, n, "vault") EXCEPT !.nft = n] = [v EXCEPT !.positions = g, !.nft = n]
    BY <1>1, <1>5, <1>7 DEF Moved, Holdings
<1> QED BY <1>4, <1>8 DEF Replaced

(* The old position goes to the strategy, which burns it.                  *)
WithMinted(v, n, i) == [v EXCEPT !.positions[n] = Minted(i)]
HandedOver(v, n, old) == [Moved(Moved(v, n, "vault"), old, "strategy") EXCEPT !.nft = n]
Burnt(v, n) == [v EXCEPT !.positions[n] = NoPosition]

LEMMA LaterArrival ==
    ASSUME opening \in Nat, NEW v, Sound(v), HasPosition(v), NEW n \in NFT, n # v.nft,
           NEW i, Interval(i)
    PROVE  /\ Burnt(HandedOver(WithMinted(v, n, i), n, v.nft), v.nft) = Replaced(v, n, Bought(i))
           /\ HandedOver(WithMinted(v, n, i), n, v.nft).positions[v.nft]
                = [Current(v) EXCEPT !.owner = "strategy"]
PROOF
<1> DEFINE old == v.nft
           x == [v EXCEPT !.positions[n] = Minted(i)]
           y == [Moved(Moved(x, n, "vault"), v.nft, "strategy") EXCEPT !.nft = n]
<1>1. /\ v.positions \in [NFT -> Position \cup {NoPosition}] /\ v \in Holdings
      /\ old \in NFT /\ Current(v) \in Position /\ v.positions[old] = Current(v)
    BY CurrentPosition DEF Sound, Held, Holdings, Current
<1>2. \A m \in NFT : m # old => v.positions[m] = NoPosition
    BY DEF Sound, Held
<1>3. Minted(i) \in Position /\ Bought(i) = [Minted(i) EXCEPT !.owner = "vault"]
    BY BoughtIsPosition
<1> DEFINE f == [m \in NFT |-> IF m = n THEN Bought(i) ELSE NoPosition]
           given == [Current(v) EXCEPT !.owner = "strategy"]
           g1 == [v.positions EXCEPT ![n] = Minted(i)]
           g2 == [g1 EXCEPT ![n] = Bought(i)]
           g3 == [g2 EXCEPT ![old] = given]
           g4 == [g3 EXCEPT ![old] = NoPosition]
<1>4. g4 = f
    <2>1. \A m \in NFT : g4[m] = f[m]
        BY <1>1, <1>2
    <2> QED BY <1>1, <2>1
<1>5. x = [v EXCEPT !.positions = g1]
    OBVIOUS
<1>6. Moved(x, n, "vault") = [v EXCEPT !.positions = g2]
    BY <1>1, <1>3, <1>5 DEF Moved, Holdings
<1>7. g2[old] = Current(v)
    BY <1>1
<1>8. Moved(Moved(x, n, "vault"), old, "strategy") = [v EXCEPT !.positions = g3]
    <2> HIDE DEF g2
    <2> QED BY <1>1, <1>6, <1>7 DEF Moved, Holdings
<1>9. y = [v EXCEPT !.positions = g3, !.nft = n]
    <2> HIDE DEF g3
    <2> QED BY <1>1, <1>8 DEF Holdings
<1>10. y.positions = g3
    <2> HIDE DEF g3
    <2> QED BY <1>1, <1>9 DEF Holdings
<1>11. [y EXCEPT !.positions[old] = NoPosition] = [v EXCEPT !.positions = g4, !.nft = n]
    <2> HIDE DEF g3
    <2> QED BY <1>1, <1>9 DEF Holdings
<1>12. g3[old] = given
    BY <1>1
<1> QED BY <1>4, <1>10, <1>11, <1>12 DEF Replaced, Burnt, HandedOver, WithMinted

(* Staking the new NFT first makes no difference.                          *)
StakedBy(v, n, f) == [Moved(v, n, "farm") EXCEPT !.stakedIn = f]

LEMMA StakedOnArrival ==
    ASSUME NEW v \in Holdings, NEW n \in NFT, NEW f, NEW y, y \in EnterFarm(v, n, f)
    PROVE  /\ f \in Farms /\ v.positions[n].owner = "vault"
           /\ [y EXCEPT !.nft = n] = StakedBy([v EXCEPT !.nft = n], n, f)
PROOF BY DEF StakedBy, EnterFarm, Require, Moved, Holdings

LEMMA BurnAfterStaking ==
    ASSUME NEW v \in Holdings, NEW n \in NFT, NEW old \in NFT, n # old, NEW f
    PROVE  /\ Burnt(StakedBy(v, n, f), old) = StakedBy(Burnt(v, old), n, f)
           /\ StakedBy(v, n, f).positions[old] = v.positions[old]
PROOF
<1> DEFINE y == [Moved(v, n, "farm") EXCEPT !.stakedIn = f]
<1>1. v.positions \in [NFT -> Position \cup {NoPosition}]
    BY DEF Holdings
<1> DEFINE q == [v.positions[n] EXCEPT !.owner = "farm"]
           g1 == [[v.positions EXCEPT ![n] = q] EXCEPT ![old] = NoPosition]
           g2 == [[v.positions EXCEPT ![old] = NoPosition] EXCEPT ![n] = q]
<1>2. g1 = g2
    <2> HIDE DEF q
    <2>1. \A m \in NFT : g1[m] = g2[m]
        BY <1>1
    <2> QED BY <1>1, <2>1
<1>3. [y EXCEPT !.positions[old] = NoPosition] = [v EXCEPT !.positions = g1, !.stakedIn = f]
    BY DEF Moved, Holdings
<1>4. [v EXCEPT !.positions[old] = NoPosition].positions[n] = v.positions[n]
    BY <1>1 DEF Holdings
<1>5. [Moved([v EXCEPT !.positions[old] = NoPosition], n, "farm") EXCEPT !.stakedIn = f]
        = [v EXCEPT !.positions = g2, !.stakedIn = f]
    BY <1>4 DEF Moved, Holdings
<1>6. y.positions[old] = v.positions[old]
    BY <1>1 DEF Moved, Holdings
<1> QED BY <1>2, <1>3, <1>5, <1>6 DEF Burnt, StakedBy

-----------------------------------------------------------------------------
(* What the vaults hold when a new position has arrived.                   *)

Arrives(v, w, i) ==
    /\ Sound(w)
    /\ HasPosition(w) /\ w.nft # v.nft
    /\ Current(w).tickLower = i.tickLower /\ Current(w).tickUpper = i.tickUpper
    /\ w.leaving = v.leaving
    /\ Worth(w) = Worth(v) + 2 * opening

LEMMA ReplacedArrives ==
    ASSUME opening \in Nat, NEW v, Sound(v), v.stakedIn = NoFarm,
           HasPosition(v) => Cleared(Current(v)),
           NEW n \in NFT, n # v.nft, NEW i, Interval(i)
    PROVE  /\ Arrives(v, Replaced(v, n, Bought(i)), i)
           /\ Replaced(v, n, Bought(i)).nft = n
           /\ Current(Replaced(v, n, Bought(i))) = Bought(i)
PROOF
<1> DEFINE p == Bought(i)
           w == Replaced(v, n, p)
<1>1. /\ p \in Position /\ p.owner = "vault" /\ p.liquidity = opening /\ p.fees = Zero
      /\ p.tickLower = i.tickLower /\ p.tickUpper = i.tickUpper
    BY BoughtIsPosition
<1> HIDE DEF p
<1>2. /\ Sound(w) /\ w.nft = n /\ HasPosition(w) /\ Current(w) = p /\ w.leaving = v.leaving
      /\ Worth(w) = Worth(v) + 2 * p.liquidity + Amount(p.fees)
    BY <1>1, ReplacedIsSound
<1> HIDE DEF w
<1>3. Amount(p.fees) = 0
    BY <1>1 DEF Amount, Zero
<1>4. Worth(w) = Worth(v) + 2 * opening
    BY <1>1, <1>2, <1>3, WorthIsNumber DEF Sound
<1> QED BY <1>1, <1>2, <1>4 DEF Arrives, w, p

LEMMA ArrivesThen ==
    ASSUME NEW v, NEW w, NEW i, Arrives(v, w, i), NEW u, Conserves(w, u, "erc20Vault")
    PROVE  Arrives(v, u, i)
PROOF BY DEF Arrives, Conserves, Passes, SameInterval, Brings, HasPosition

LEMMA NotStaked ==
    ASSUME NEW v, Held(v), HasPosition(v) => Current(v).owner = "vault"
    PROVE  v.stakedIn = NoFarm
PROOF BY DEF Held, Staked

(* The first position, minted for a vault that has none.                   *)
LEMMA FirstMintArrives ==
    ASSUME Market, opening \in Nat, NEW v, Sound(v), ~HasPosition(v),
           Interval(NewInterval(v)), NEW w \in MintAndBurn(v)
    PROVE  Arrives(v, w, NewInterval(v))
PROOF
<1> DEFINE i == NewInterval(v)
           n == UnusedNft(v)
           x == [v EXCEPT !.positions[n] = Minted(i)]
           r == Replaced(v, n, Bought(i))
<1>1. n \in NFT /\ n # v.nft /\ Held(v)
    BY UnusedIsFree DEF Sound
<1>2. w \in OnERC721Received(x, n)
    <2>1. PICK z \in Mint(v) : \E y \in OnERC721Received(z, n) : w \in Burn(y, v.nft)
        BY DEF MintAndBurn, Then
    <2>2. z = x
        BY <2>1, MintedIs
    <2>3. v.nft = 0
        BY DEF HasPosition
    <2> QED BY <2>1, <2>2, <2>3 DEF Burn
<1>3. ~HasPosition(x) /\ v \in Holdings
    BY <1>1 DEF HasPosition, Held, Holdings
<1>4. v.stakedIn = NoFarm
    BY <1>1, NotStaked
<1> HIDE DEF i, n
<1>5. [Moved(x, n, "vault") EXCEPT !.nft = n] = r
    BY <1>1, FirstArrival DEF i
<1>6. Arrives(v, r, i) /\ r.nft = n /\ Current(r) = Bought(i)
    BY <1>1, <1>4, ReplacedArrives DEF i
<1>7. Sound(r) /\ Held(r) /\ HasPosition(r)
    BY <1>6 DEF Arrives, Sound
<1>8. CASE w = r
    BY <1>6, <1>8 DEF i
<1>9. CASE kind \in {"UniV3", "Camelot", "PancakeSwap"}
    <2>1. w = [Moved(x, n, "vault") EXCEPT !.nft = n]
        BY <1>2, <1>3, <1>9 DEF OnERC721Received, UniV3Received, CamelotReceived, PancakeSwapReceived
    <2> QED BY <1>5, <1>8, <2>1
<1>10. CASE kind = "QuickSwap"
    <2> DEFINE arrived == Moved(x, n, "vault")
    <2>1. PICK y \in EnterFarm(arrived, n, farm) : w = [y EXCEPT !.nft = n]
        BY <1>2, <1>3, <1>10 DEF OnERC721Received, QuickSwapReceived, Then, OpenFarmingPosition
    <2>2. arrived \in Holdings
        <3>1. Minted(i) \in Position
            BY BoughtIsPosition DEF i
        <3>2. x \in Holdings /\ x.positions[n] = Minted(i)
            BY <1>1, <1>3, <3>1 DEF Holdings
        <3>3. [Minted(i) EXCEPT !.owner = "vault"] \in Position
            BY <3>1 DEF Position, Owner
        <3> HIDE DEF x
        <3> QED BY <1>1, <3>2, <3>3 DEF Moved, Holdings
    <2> HIDE DEF x
    <2>3. farm \in Farms /\ w = StakedBy([arrived EXCEPT !.nft = n], n, farm)
        BY <1>1, <2>1, <2>2, StakedOnArrival
    <2> HIDE DEF r
    <2>4. farm \in Farms /\ w = StakedBy(r, n, farm)
        BY <1>5, <2>3
    <2>5. r.positions[r.nft].owner = "vault"
        BY <1>6 DEF Current, Bought
    <2>6. w \in EnterFarm(r, r.nft, farm)
        BY <1>6, <2>4, <2>5 DEF EnterFarm, Require, StakedBy
    <2>7. Passes(r, w, "erc20Vault")
        BY <1>7, <2>6, EnterPasses
    <2>8. Conserves(r, w, "erc20Vault")
        BY <1>10, <2>7 DEF Conserves, Sound, Passes, FlagRight
    <2> QED BY <1>6, <2>8, ArrivesThen DEF i
<1>11. CASE kind = "Kyber"
    <2>1. w \in DepositIntoFarm(r)
        <3> HIDE DEF x, r
        <3> QED BY <1>2, <1>3, <1>5, <1>11 DEF OnERC721Received, KyberReceived, Then
    <2> HIDE DEF r
    <2>2. Conserves(r, w, "erc20Vault")
        BY <1>7, <1>11, <2>1, DepositIntoFarmConserves
    <2> QED BY <1>6, <2>2, ArrivesThen DEF i
<1> QED BY <1>9, <1>10, <1>11, FiveKinds

(* A position that replaces an empty one.                                  *)
LEMMA LaterMintArrives ==
    ASSUME Market, opening \in Nat, NEW v, Sound(v), HasPosition(v),
           Interval(NewInterval(v)), NEW w \in MintAndBurn(v)
    PROVE  Arrives(v, w, NewInterval(v))
PROOF
<1> DEFINE i == NewInterval(v)
           n == UnusedNft(v)
           old == v.nft
           x == WithMinted(v, n, i)
           arrived == Moved(x, n, "vault")
           given == Moved(arrived, old, "strategy")
           s == HandedOver(x, n, old)
           r == Replaced(v, n, Bought(i))
<1>1. /\ n \in NFT /\ n # old /\ Held(v) /\ v \in Holdings /\ old \in NFT
      /\ Current(v) \in Position
    BY UnusedIsFree, CurrentPosition DEF Sound, Held
<1>2. PICK y \in OnERC721Received(x, n) : w \in Burn(y, old)
    <2>1. PICK z \in Mint(v) : \E y \in OnERC721Received(z, n) : w \in Burn(y, v.nft)
        BY DEF MintAndBurn, Then
    <2>2. z = x
        BY <2>1, MintedIs DEF WithMinted
    <2> QED BY <2>1, <2>2
<1>3. opening > 0
    BY MintedIs DEF MintAndBurn, Then
<1>4. old # 0
    BY DEF HasPosition
<1>5. /\ y.positions[old].owner = "strategy" /\ Cleared(y.positions[old])
      /\ w = Burnt(y, old)
    BY <1>2, <1>4 DEF Burn, Burnt, Require
<1> HIDE DEF i, n
<1>6. /\ HasPosition(x) /\ x.nft = old /\ Current(x) = Current(v)
      /\ x.positions[n] = Minted(i)
    BY <1>1, <1>4 DEF HasPosition, Current, Held, Holdings, WithMinted
<1>7. /\ Burnt(s, old) = r
      /\ s.positions[old] = [Current(v) EXCEPT !.owner = "strategy"]
    BY <1>1, LaterArrival DEF i
<1>8. Cleared(s.positions[old]) => Cleared(Current(v))
    BY <1>1, <1>7 DEF Cleared, Position
<1>9. ASSUME Current(v).owner = "vault", Cleared(Current(v))
      PROVE  /\ Arrives(v, r, i) /\ r.nft = n /\ Current(r) = Bought(i)
             /\ Sound(r) /\ Held(r) /\ HasPosition(r)
    <2>1. v.stakedIn = NoFarm
        BY <1>1, <1>9, NotStaked
    <2>2. Arrives(v, r, i) /\ r.nft = n /\ Current(r) = Bought(i)
        BY <1>1, <1>9, <2>1, ReplacedArrives DEF i
    <2> QED BY <2>2 DEF Arrives, Sound
<1>10. CASE kind \in {"UniV3", "Camelot", "PancakeSwap"}
    <2>1. Current(x).owner = "vault" /\ y = s
        <3> HIDE DEF x
        <3> QED BY <1>2, <1>6, <1>10 DEF OnERC721Received, UniV3Received, CamelotReceived,
                                        PancakeSwapReceived, Require, HandedOver
    <2> HIDE DEF x, s, r
    <2>2. w = r /\ Cleared(Current(v)) /\ Current(v).owner = "vault"
        BY <1>5, <1>6, <1>7, <1>8, <2>1
    <2> QED BY <1>9, <2>2 DEF i
<1>11. CASE kind = "QuickSwap"
    <2>1. PICK z \in EnterFarm(given, n, farm) : y = [z EXCEPT !.nft = n] /\ Current(x).owner = "vault"
        <3> HIDE DEF x
        <3> QED BY <1>2, <1>6, <1>11 DEF OnERC721Received, QuickSwapReceived, Then, Require,
                                        OpenFarmingPosition
    <2>2. given \in Holdings /\ s \in Holdings
        <3>1. Minted(i) \in Position
            BY BoughtIsPosition DEF i
        <3>2. x \in Holdings
            BY <1>1, <3>1 DEF Holdings, WithMinted
        <3>3. [Minted(i) EXCEPT !.owner = "vault"] \in Position
              /\ [Current(v) EXCEPT !.owner = "strategy"] \in Position
            BY <1>1, <3>1 DEF Position, Owner
        <3>4. x.positions[old] = Current(v)
            BY <1>6 DEF Current
        <3> HIDE DEF x
        <3>5. arrived \in Holdings /\ arrived.positions[old] = Current(v)
            BY <1>1, <1>6, <3>2, <3>3, <3>4 DEF Moved, Holdings
        <3> HIDE DEF arrived
        <3>6. given \in Holdings
            BY <1>1, <3>3, <3>5 DEF Moved, Holdings
        <3> HIDE DEF given
        <3>7. n \in 0..3
            BY <1>1 DEF NFT
        <3>8. s = [given EXCEPT !.nft = n]
            BY DEF HandedOver, given, arrived
        <3> HIDE DEF s
        <3> QED BY <3>6, <3>7, <3>8 DEF Holdings
    <2> HIDE DEF given
    <2>3. farm \in Farms /\ y = StakedBy(s, n, farm)
        BY <1>1, <2>1, <2>2, StakedOnArrival DEF HandedOver, given
    <2> HIDE DEF s
    <2>4. /\ w = StakedBy(Burnt(s, old), n, farm)
          /\ y.positions[old] = s.positions[old]
        <3>1. Burnt(StakedBy(s, n, farm), old) = StakedBy(Burnt(s, old), n, farm)
            BY <1>1, <2>2, <2>3, BurnAfterStaking
        <3>2. StakedBy(s, n, farm).positions[old] = s.positions[old]
            BY <1>1, <2>2, <2>3, BurnAfterStaking
        <3> QED BY <1>5, <2>3, <3>1, <3>2
    <2> HIDE DEF r
    <2>5. Cleared(Current(v)) /\ Current(v).owner = "vault"
        BY <1>5, <1>6, <1>8, <2>1, <2>4
    <2>6. Arrives(v, r, i) /\ r.nft = n /\ Current(r) = Bought(i) /\ Sound(r) /\ Held(r) /\ HasPosition(r)
        BY <1>9, <2>5
    <2>7. w = StakedBy(r, n, farm)
        BY <1>7, <2>4
    <2>8. r.positions[r.nft].owner = "vault"
        BY <2>6 DEF Current, Bought
    <2>9. w \in EnterFarm(r, r.nft, farm)
        BY <2>3, <2>6, <2>7, <2>8 DEF EnterFarm, Require, StakedBy
    <2>10. Passes(r, w, "erc20Vault")
        BY <2>6, <2>9, EnterPasses
    <2>11. Conserves(r, w, "erc20Vault")
        BY <1>11, <2>10 DEF Conserves, Sound, Passes, FlagRight
    <2> QED BY <2>6, <2>11, ArrivesThen DEF i
<1>12. CASE kind = "Kyber"
    <2>1. PICK z \in WithdrawFromFarm(arrived, "erc20Vault") : Cleared(z.positions[n])
        <3> HIDE DEF x
        <3> QED BY <1>2, <1>6, <1>12 DEF OnERC721Received, KyberReceived, Then, Require
    <2>2. x \in Holdings /\ Minted(i) \in Position
        <3>1. Minted(i) \in Position
            BY BoughtIsPosition DEF i
        <3> QED BY <1>1, <3>1 DEF Holdings, WithMinted
    <2>3. arrived \in Holdings /\ arrived.positions[n].liquidity = opening /\ arrived.nft = old
        <3>1. [Minted(i) EXCEPT !.owner = "vault"] \in Position
              /\ [Minted(i) EXCEPT !.owner = "vault"].liquidity = opening
            BY <2>2, BoughtIsPosition DEF Position, Owner, i
        <3> HIDE DEF x
        <3> QED BY <1>1, <1>6, <2>2, <3>1 DEF Moved, Holdings
    <2> HIDE DEF arrived
    <2>4. z.positions[n].liquidity = opening
        <3>1. CASE z = arrived
            BY <2>3, <3>1
        <3>2. CASE z # arrived
            <4> DEFINE h == Harvested([arrived EXCEPT !.inFarm = FALSE], "erc20Vault")
            <4>1. z \in LeaveFarm(h, farm)
                BY <2>1, <3>2 DEF WithdrawFromFarm
            <4>2. h.positions = arrived.positions /\ h.nft = old /\ DOMAIN h = DOMAIN arrived
                BY <2>3 DEF Harvested, Pay, Holdings
            <4>3. z = [Moved(h, h.nft, "vault") EXCEPT !.stakedIn = NoFarm]
                BY <4>1 DEF LeaveFarm, Require
            <4>4. h \in Holdings
                <5> DEFINE k == [arrived EXCEPT !.inFarm = FALSE]
                <5>1. k \in Holdings
                    BY <2>3 DEF Holdings
                <5> HIDE DEF k
                <5> DEFINE harvest == <<k.reward, 0>>
                           l == [k EXCEPT !.reward = 0]
                <5>2. l \in Holdings /\ harvest \in Pairs
                    BY <5>1 DEF Holdings, Pairs
                <5>3. h = Pay(l, "erc20Vault", harvest)
                    BY DEF Harvested, k
                <5> HIDE DEF l, harvest, h
                <5>4. Plus(l.idle, harvest) \in Pairs
                    BY <5>2 DEF Holdings, Plus, Pairs
                <5> DEFINE paid == Plus(l.idle, harvest)
                <5>5. h = [l EXCEPT !.idle = paid]
                    BY <5>3 DEF Pay
                <5> HIDE DEF paid
                <5>6. paid \in Pairs
                    BY <5>4 DEF paid
                <5> QED BY <5>2, <5>5, <5>6 DEF Holdings
            <4> HIDE DEF h
            <4>5. z.positions[n] = arrived.positions[n]
                BY <1>1, <4>2, <4>3, <4>4 DEF Moved, Holdings
            <4> QED BY <2>3, <4>5
        <3> QED BY <3>1, <3>2
    <2> QED BY <1>3, <2>1, <2>4 DEF Cleared
<1> QED BY <1>10, <1>11, <1>12, FiveKinds

(* Whichever way a rebalance chooses the interval, it holds the tick.      *)
LEMMA NewIntervalIsChosen ==
    ASSUME Market, GoodParams(mutableParams), NEW v, HasPosition(v) => Interval(Current(v)),
           NeedsNewInterval(v)
    PROVE  Chosen(mutableParams, NewInterval(v), tick)
PROOF
<1>1. tick \in Int
    BY DEF Market
<1>2. CASE ~HasPosition(v) \/ force
    BY <1>1, <1>2, CenteredIsChosen DEF NewInterval
<1>3. CASE ~(~HasPosition(v) \/ force)
    BY <1>1, <1>3, ExtendedIsChosen DEF NewInterval, NeedsNewInterval
<1> QED BY <1>2, <1>3

-----------------------------------------------------------------------------
(* What a rebalance makes of the position.                                 *)
Repositions(v, w) ==
    /\ Sound(w)
    /\ w.leaving = v.leaving
    /\ w.nft = v.nft => SameInterval(v, w) /\ Worth(w) = Worth(v)
    /\ w.nft # v.nft => /\ HasPosition(w) /\ Chosen(mutableParams, Current(w), tick)
                        /\ Worth(w) = Worth(v) + 2 * opening

LEMMA ConservesRepositions ==
    ASSUME NEW v, NEW w, Conserves(v, w, "erc20Vault")
    PROVE  Repositions(v, w)
PROOF BY DEF Conserves, Passes, Brings, Repositions

LEMMA ReplacingRepositions ==
    ASSUME Market, GoodParams(mutableParams), opening \in Nat,
           NEW v, Sound(v), HasPosition(v) => Interval(Current(v)), NeedsNewInterval(v),
           NEW u, Conserves(v, u, "erc20Vault"), NEW w \in MintAndBurn(u)
    PROVE  Repositions(v, w)
PROOF
<1>1. /\ Sound(u) /\ u.nft = v.nft /\ u.leaving = v.leaving /\ Worth(u) = Worth(v)
      /\ HasPosition(v) <=> HasPosition(u)
      /\ HasPosition(v) => /\ Current(u).tickLower = Current(v).tickLower
                           /\ Current(u).tickUpper = Current(v).tickUpper
    BY DEF Conserves, Passes, Brings, SameInterval, HasPosition
<1>2. HasPosition(u) => Interval(Current(u))
    BY <1>1 DEF Interval
<1>3. NeedsNewInterval(u)
    BY <1>1 DEF NeedsNewInterval, Acceptable, MinAcceptableTick, MaxAcceptableTick,
                Neighborhood, Length
<1> DEFINE i == NewInterval(u)
<1>4. Chosen(mutableParams, i, tick)
    BY <1>2, <1>3, NewIntervalIsChosen
<1>5. Interval(i)
    BY <1>4 DEF Chosen
<1>6. Arrives(u, w, i)
    BY <1>1, <1>5, FirstMintArrives, LaterMintArrives
<1> HIDE DEF i
<1>7. Chosen(mutableParams, Current(w), tick)
    BY <1>4, <1>6 DEF Arrives, Chosen, Interval, Length
<1> QED BY <1>1, <1>6, <1>7 DEF Arrives, Repositions

LEMMA PullWholeConserves ==
    ASSUME Market, NEW v, Sound(v), HasPosition(v), NEW w \in PullWhole(v)
    PROVE  Conserves(v, w, "erc20Vault")
PROOF
<1>1. w \in VaultPull(v, "erc20Vault", WholePosition(v))
    BY DEF PullWhole, With, Then
<1>2. WholePosition(v) \in Pairs
    BY CurrentPosition DEF Sound, WholePosition, Position, Pairs
<1>3. "erc20Vault" \in Place
    BY DEF Place
<1> QED BY <1>1, <1>2, <1>3, VaultPullConserves

LEMMA GivingUpConserves ==
    ASSUME Market, NEW v, Sound(v), HasPosition(v), NEW w,
           \/ w \in PullWhole(v)
           \/ kind = "QuickSwap" /\ \E u \in BurnFarmingPosition(v) : w \in PullWhole(u)
           \/ kind = "PancakeSwap" /\ \E u \in PullWhole(v) : w \in UnstakeUniV3Nft(u)
    PROVE  Conserves(v, w, "erc20Vault")
PROOF
<1>0. Held(v)
    BY DEF Sound
<1>1. CASE w \in PullWhole(v)
    BY <1>1, PullWholeConserves
<1>2. CASE kind = "QuickSwap" /\ \E u \in BurnFarmingPosition(v) : w \in PullWhole(u)
    <2>1. PICK u \in BurnFarmingPosition(v) : w \in PullWhole(u)
        BY <1>2
    <2>2. Passes(v, u, "erc20Vault") /\ HasPosition(u)
        BY <1>0, <2>1, BurnFarmingPasses
    <2>3. Sound(u)
        BY <1>2, <2>2 DEF Passes, Sound, FlagRight
    <2> QED BY <1>0, <2>1, <2>2, <2>3, PullWholeConserves, ConservesOn
<1>3. CASE kind = "PancakeSwap" /\ \E u \in PullWhole(v) : w \in UnstakeUniV3Nft(u)
    <2>1. PICK u \in PullWhole(v) : w \in UnstakeUniV3Nft(u)
        BY <1>3
    <2>2. Conserves(v, u, "erc20Vault")
        BY <2>1, PullWholeConserves
    <2>3. Conserves(u, w, "erc20Vault")
        BY <1>3, <2>1, <2>2, UnstakeConserves DEF Conserves
    <2> QED BY <1>0, <2>2, <2>3, ConservesOn DEF Conserves
<1> QED BY <1>1, <1>2, <1>3

(* The first half of a rebalance, for each of the five strategies.         *)
LEMMA PositionsRebalanceRepositions ==
    ASSUME Market, GoodParams(mutableParams), opening \in Nat,
           NEW v, Sound(v), HasPosition(v) => Interval(Current(v)),
           NEW w \in PositionsRebalance(v)
    PROVE  Repositions(v, w)
PROOF
<1>0. Conserves(v, v, "erc20Vault") /\ Held(v)
    BY NothingDone DEF Sound
<1>1. ASSUME NeedsNewInterval(v)
      PROVE  \E u : Conserves(v, u, "erc20Vault") /\ w \in MintAndBurn(u)
    <2>1. CASE ~HasPosition(v)
        <3>1. w \in MintAndBurn(v)
            BY <1>1, <2>1, FiveKinds DEF PositionsRebalance, UniV3PositionsRebalance,
                CamelotPositionsRebalance, QuickSwapPositionsRebalance, KyberPositionsRebalance,
                PancakeSwapPositionsRebalance, Replace, Then
        <3> QED BY <1>0, <3>1
    <2>2. CASE HasPosition(v)
        <3>1. CASE kind \in {"UniV3", "Camelot", "Kyber"}
            <4>1. PICK u \in PullWhole(v) : w \in MintAndBurn(u)
                BY <1>1, <2>2, <3>1 DEF PositionsRebalance, UniV3PositionsRebalance,
                    CamelotPositionsRebalance, KyberPositionsRebalance, Replace, Then
            <4> QED BY <2>2, <4>1, GivingUpConserves
        <3>2. CASE kind = "QuickSwap"
            <4>1. PICK u : /\ \E x \in BurnFarmingPosition(v) : u \in PullWhole(x)
                           /\ w \in MintAndBurn(u)
                BY <1>1, <2>2, <3>2 DEF PositionsRebalance, QuickSwapPositionsRebalance, Replace, Then
            <4> QED BY <2>2, <3>2, <4>1, GivingUpConserves
        <3>3. CASE kind = "PancakeSwap"
            <4>1. PICK u : /\ \E x \in PullWhole(v) : u \in UnstakeUniV3Nft(x)
                           /\ w \in MintAndBurn(u)
                BY <1>1, <2>2, <3>3 DEF PositionsRebalance, PancakeSwapPositionsRebalance, Replace, Then
            <4> QED BY <2>2, <3>3, <4>1, GivingUpConserves
        <3> QED BY <3>1, <3>2, <3>3, FiveKinds
    <2> QED BY <2>1, <2>2
<1>2. ASSUME ~NeedsNewInterval(v)
      PROVE  Conserves(v, w, "erc20Vault")
    <2>1. CASE kind = "UniV3"
        BY <1>2, <2>1, UniV3CollectConserves DEF PositionsRebalance, UniV3PositionsRebalance
    <2>2. CASE kind = "Camelot"
        <3>1. w \in CamelotCollectEarnings(v)
            BY <1>2, <2>2 DEF PositionsRebalance, CamelotPositionsRebalance
        <3> QED BY <3>1, CamelotCollectConserves
    <2>3. CASE kind = "QuickSwap"
        <3>1. PICK x \in CollectRewards(v) : w \in QuickSwapCollectEarnings(x)
            BY <1>2, <2>3 DEF PositionsRebalance, QuickSwapPositionsRebalance, Then
        <3>2. Conserves(v, x, "erc20Vault")
            BY <3>1, CollectRewardsConserves
        <3>3. Conserves(x, w, "erc20Vault")
            BY <3>1, <3>2, QuickSwapCollectConserves DEF Conserves
        <3> QED BY <1>0, <3>2, <3>3, ConservesOn DEF Conserves
    <2>4. CASE kind = "Kyber"
        <3>1. w = v
            BY <1>2, <2>4 DEF PositionsRebalance, KyberPositionsRebalance
        <3> QED BY <1>0, <3>1
    <2>5. CASE kind = "PancakeSwap"
        <3>1. w \in PancakeSwapCollectEarnings(v)
            BY <1>2, <2>5 DEF PositionsRebalance, PancakeSwapPositionsRebalance
        <3> QED BY <3>1, PancakeSwapCollectConserves
    <2> QED BY <2>1, <2>2, <2>3, <2>4, <2>5, FiveKinds
<1>3. CASE NeedsNewInterval(v)
    BY <1>1, <1>3, ReplacingRepositions
<1>4. CASE ~NeedsNewInterval(v)
    BY <1>2, <1>4, ConservesRepositions
<1> QED BY <1>3, <1>4

-----------------------------------------------------------------------------
(* The swap.                                                               *)

(* The part of what there was that a swap may lose.                        *)
LosesLittle(before, after) == D * (before - after) <= mutableParams.swapSlippageD * before

(* Nothing lost is little, and a swap that the strategy accepts loses      *)
(* little of all there is.                                                 *)
LEMMA NothingLost ==
    ASSUME GoodParams(mutableParams), NEW before \in Nat, NEW after \in Nat, before <= after
    PROVE  LosesLittle(before, after)
PROOF
<1>1. D \in Nat /\ D > 0 /\ mutableParams.swapSlippageD \in Nat
    BY DenominatorAssumption DEF GoodParams, MutableParamsType
<1>2. D * (before - after) <= D * 0
    BY <1>1, TimesKeepsOrder
<1>3. mutableParams.swapSlippageD * 0 <= mutableParams.swapSlippageD * before
    BY <1>1, TimesKeepsOrder
<1>4. D * 0 = 0 /\ mutableParams.swapSlippageD * 0 = 0
    BY <1>1
<1>5. mutableParams.swapSlippageD * before \in Nat /\ D * (before - after) \in Int
    BY <1>1
<1> QED BY <1>2, <1>3, <1>4, <1>5 DEF LosesLittle

LEMMA SlippageBoundsLoss ==
    ASSUME GoodParams(mutableParams), NEW wanted, NEW in \in Nat, NEW out \in Nat,
           Accepted(mutableParams, wanted, in, out), NEW before \in Nat, in <= before
    PROVE  LosesLittle(before, before - in + out)
PROOF
<1> DEFINE slip == mutableParams.swapSlippageD
<1>1. D \in Nat /\ slip \in Nat
    BY DenominatorAssumption DEF GoodParams, MutableParamsType
<1>2. in * (D - slip) <= out * D
    BY DEF Accepted
<1> HIDE DEF slip
<1>3. slip * in <= slip * before
    BY <1>1, TimesKeepsOrder
<1>4. D * in - slip * in <= D * out
    BY <1>1, <1>2
<1>5. before - (before - in + out) = in - out
    OBVIOUS
<1>6. D * (in - out) = D * in - D * out
    BY <1>1
<1>7. D * (in - out) <= slip * before
    <2>1. D * in \in Int /\ D * out \in Int /\ slip * in \in Int /\ slip * before \in Int
        BY <1>1
    <2> QED BY <1>3, <1>4, <1>6, <2>1
<1> QED BY <1>5, <1>7 DEF LosesLittle, slip

(* The vaults after tokens came or went.                                   *)
WithBalances(v, idle, leaving) == [v EXCEPT !.idle = idle, !.leaving = leaving]

(* Only balances differ.                                                   *)
Balanced(v, w, idle, leaving) ==
    /\ Sound(w) /\ w.nft = v.nft /\ w.positions = v.positions
    /\ w.idle = idle /\ w.leaving = leaving /\ w.stakedIn = v.stakedIn
    /\ SameInterval(v, w)
    /\ Worth(w) = Worth(v) - Amount(v.idle) - Amount(v.leaving) + Amount(idle) + Amount(leaving)

LEMMA BalancesChange ==
    ASSUME NEW v, Sound(v), NEW idle \in Pairs, NEW leaving \in Pairs,
           NEW w, w = WithBalances(v, idle, leaving)
    PROVE  Balanced(v, w, idle, leaving)
PROOF
<1>1. /\ w \in Holdings /\ w.nft = v.nft /\ w.inFarm = v.inFarm /\ w.positions = v.positions
      /\ w.stakedIn = v.stakedIn /\ w.reward = v.reward
      /\ w.idle = idle /\ w.leaving = leaving
    BY DEF WithBalances, Sound, Held, Holdings
<1>2. Current(w) = Current(v) /\ (HasPosition(w) <=> HasPosition(v))
    BY <1>1 DEF Current, HasPosition
<1>3. Sound(w)
    BY <1>1, <1>2 DEF Sound, Held, FlagRight, Staked
<1>4. Worth(w) = Worth(v) - Amount(v.idle) - Amount(v.leaving) + Amount(idle) + Amount(leaving)
    <2> DEFINE r == IF HasPosition(v) THEN 2 * Current(v).liquidity + Amount(Current(v).fees) ELSE 0
    <2>1. r \in Nat
        BY CurrentPosition DEF Sound, Position, Amount, Pairs
    <2>2. r = IF HasPosition(w) THEN 2 * Current(w).liquidity + Amount(Current(w).fees) ELSE 0
        BY <1>2
    <2> HIDE DEF r
    <2>3. /\ Amount(idle) \in Nat /\ Amount(v.idle) \in Nat /\ Amount(v.leaving) \in Nat
          /\ Amount(leaving) \in Nat /\ v.reward \in Nat
        BY DEF Sound, Held, Holdings, Amount, Pairs
    <2>4. Worth(w) = Amount(idle) + v.reward + r + Amount(leaving)
        BY <1>1, <2>2 DEF Worth, Value
    <2>5. Worth(v) = Amount(v.idle) + v.reward + r + Amount(v.leaving)
        BY DEF Worth, Value, r
    <2> QED BY <2>1, <2>3, <2>4, <2>5
<1> QED BY <1>1, <1>2, <1>3, <1>4 DEF SameInterval, Balanced

LEMMA IdleChanges ==
    ASSUME NEW v, Sound(v), NEW idle \in Pairs, NEW w, w = [v EXCEPT !.idle = idle]
    PROVE  /\ Sound(w) /\ w.nft = v.nft /\ w.positions = v.positions /\ w.leaving = v.leaving
           /\ SameInterval(v, w)
           /\ Worth(w) = Worth(v) - Amount(v.idle) + Amount(idle)
PROOF
<1>1. v \in Holdings /\ v.leaving \in Pairs /\ v.idle \in Pairs /\ Worth(v) \in Nat
    BY WorthIsNumber DEF Sound, Held, Holdings
<1>2. w = WithBalances(v, idle, v.leaving)
    BY <1>1 DEF Holdings, WithBalances
<1>3. /\ Sound(w) /\ w.nft = v.nft /\ w.positions = v.positions /\ w.leaving = v.leaving
      /\ SameInterval(v, w)
      /\ Worth(w) = Worth(v) - Amount(v.idle) - Amount(v.leaving) + Amount(idle) + Amount(v.leaving)
    <2>1. Balanced(v, w, idle, v.leaving)
        BY <1>1, <1>2, BalancesChange
    <2> QED BY <2>1 DEF Balanced
<1>4. Amount(v.idle) \in Nat /\ Amount(v.leaving) \in Nat /\ Amount(idle) \in Nat
    BY <1>1 DEF Amount, Pairs
<1> QED BY <1>1, <1>3, <1>4

(* The pair of balances after the router took c of one token and paid d of *)
(* the other.                                                              *)
Exchanged(a, t, c, d) == [a EXCEPT ![t] = @ - c, ![Other(t)] = @ + d]

LEMMA ExchangedIs ==
    ASSUME NEW a \in Pairs, NEW c \in Nat, NEW d \in Nat
    PROVE  /\ Exchanged(a, 1, c, d) = <<a[1] - c, a[2] + d>>
           /\ Exchanged(a, 2, c, d) = <<a[1] + d, a[2] - c>>
PROOF
<1>1. Other(1) = 2 /\ Other(2) = 1
    BY DEF Other
<1>2. Exchanged(a, 1, c, d) = [a EXCEPT ![1] = @ - c, ![2] = @ + d]
    BY <1>1 DEF Exchanged
<1>3. Exchanged(a, 2, c, d) = [a EXCEPT ![2] = @ - c, ![1] = @ + d]
    BY <1>1 DEF Exchanged
<1>4. a \in Nat \X Nat
    BY DEF Pairs
<1>5. [a EXCEPT ![1] = @ - c, ![2] = @ + d] = <<a[1] - c, a[2] + d>>
    BY <1>4
<1>6. [a EXCEPT ![2] = @ - c, ![1] = @ + d] = <<a[1] + d, a[2] - c>>
    BY <1>4
<1> QED BY <1>2, <1>3, <1>5, <1>6

LEMMA SwappedIs ==
    ASSUME NEW v \in Holdings, NEW t, NEW c, NEW d
    PROVE  Swapped(v, t, c, d) = [v EXCEPT !.idle = Exchanged(v.idle, t, c, d)]
PROOF BY DEF Swapped, Exchanged, Holdings

(* What comes of a swap.                                                   *)
Swaps(v, w) ==
    /\ Sound(w) /\ w.nft = v.nft /\ w.positions = v.positions /\ w.leaving = v.leaving
    /\ LosesLittle(Worth(v), Worth(w))

(* The swap of a rebalance costs no more than the slippage allowed.        *)
LEMMA SwapLosesLittle ==
    ASSUME GoodParams(mutableParams), NEW v, Sound(v), NEW w \in SwapToTarget(v)
    PROVE  Swaps(v, w)
PROOF
<1>0. Held(v) /\ v.idle \in Pairs /\ Worth(v) \in Nat
    BY WorthIsNumber DEF Sound, Held, Holdings
<1> DEFINE swap == CalculateAmountsForSwap(v.idle, TargetRatioOfToken1(Current(v), tick))
<1>1. w = v \/ w \in AcceptedSwaps(v, swap.tokenIn, swap.amountIn)
    BY DEF SwapToTarget, With, Then
<1>2. swap.tokenIn \in {1, 2}
    BY DEF CalculateAmountsForSwap
<1>3. CASE w = v
    BY <1>0, <1>3, NothingLost DEF Swaps
<1>4. CASE w \in AcceptedSwaps(v, swap.tokenIn, swap.amountIn)
    <2> DEFINE t == swap.tokenIn
               wanted == swap.amountIn
    <2>1. t \in {1, 2} /\ w \in AcceptedSwaps(v, t, wanted)
        BY <1>2, <1>4
    <2> HIDE DEF t, wanted
    <2>2. PICK x \in (1..v.idle[t]) \X (0..v.idle[t]) :
            /\ x[2] <= x[1] /\ Accepted(mutableParams, wanted, x[1], x[2])
            /\ w = Swapped(v, t, x[1], x[2])
        BY <2>1 DEF AcceptedSwaps
    <2> DEFINE in == x[1]
               out == x[2]
    <2>3. v.idle[t] \in Nat
        BY <1>0, <2>1 DEF Pairs
    <2>4. in \in Nat /\ out \in Nat /\ in <= v.idle[t]
        BY <2>2, <2>3
    <2>5. Accepted(mutableParams, wanted, in, out)
        BY <2>2
    <2> HIDE DEF in, out
    <2> DEFINE idle == IF t = 1 THEN <<v.idle[1] - in, v.idle[2] + out>>
                       ELSE <<v.idle[1] + out, v.idle[2] - in>>
    <2>6. /\ idle \in Pairs
          /\ Amount(idle) = Amount(v.idle) - in + out
          /\ in <= Amount(v.idle) /\ Amount(v.idle) \in Nat
        BY <1>0, <2>1, <2>4 DEF Pairs, Amount
    <2>7. w = [v EXCEPT !.idle = idle]
        <3>1. w = [v EXCEPT !.idle = Exchanged(v.idle, t, in, out)]
            BY <1>0, <2>2, SwappedIs DEF Held, in, out
        <3> QED BY <1>0, <2>1, <2>4, <3>1, ExchangedIs
    <2> HIDE DEF idle
    <2>8. /\ Sound(w) /\ w.nft = v.nft /\ w.positions = v.positions /\ w.leaving = v.leaving
          /\ Worth(w) = Worth(v) - Amount(v.idle) + Amount(idle)
        BY <2>6, <2>7, IdleChanges
    <2>9. Worth(w) = Worth(v) - in + out
        BY <1>0, <2>4, <2>6, <2>8
    <2>10. in <= Worth(v)
        <3>1. /\ Amount(v.leaving) \in Nat /\ v.reward \in Nat
              /\ HasPosition(v) => Current(v).liquidity \in Nat /\ Amount(Current(v).fees) \in Nat
            BY <1>0, CurrentPosition DEF Held, Holdings, Position, Pairs, Amount
        <3>2. Amount(v.idle) <= Worth(v)
            BY <2>6, <3>1 DEF Worth, Value
        <3> QED BY <1>0, <2>4, <2>6, <3>2
    <2>11. LosesLittle(Worth(v), Worth(w))
        BY <1>0, <2>4, <2>5, <2>9, <2>10, SlippageBoundsLoss
    <2> QED BY <2>8, <2>11 DEF Swaps
<1> QED BY <1>1, <1>3, <1>4

-----------------------------------------------------------------------------
(* A rebalance as a whole.                                                 *)

(* What the strategy adds of its own, and all that a rebalance does.       *)
Own(v, w) == IF w.nft # v.nft THEN 2 * opening ELSE 0
Rebalances(v, w) ==
    /\ Sound(w)
    /\ w.leaving = v.leaving
    /\ w.nft = v.nft => SameInterval(v, w)
    /\ w.nft # v.nft => HasPosition(w) /\ Chosen(mutableParams, Current(w), tick)
    /\ LosesLittle(Worth(v) + Own(v, w), Worth(w))

LEMMA RebalanceIsSafe ==
    ASSUME Market, GoodParams(mutableParams), opening \in Nat,
           Sound(vaults), HasPosition(vaults) => Interval(Current(vaults)),
           NEW w \in RebalanceResults
    PROVE  Rebalances(vaults, w)
PROOF
<1>1. PICK x \in PositionsRebalance(vaults) : \E y \in SwapToTarget(x) : w \in PushIntoVault(y)
    BY DEF RebalanceResults, Then
<1>2. PICK y \in SwapToTarget(x) : w \in PushIntoVault(y)
    BY <1>1
<1> DEFINE v == vaults
<1>3. Repositions(v, x)
    BY <1>1, PositionsRebalanceRepositions
<1>4. Sound(x)
    BY <1>3 DEF Repositions
<1>5. Swaps(x, y) /\ Sound(y)
    BY <1>2, <1>4, SwapLosesLittle DEF Swaps
<1>6. Conserves(y, w, "erc20Vault")
    BY <1>2, <1>5, PushIntoVaultConserves
<1>7. /\ Sound(w) /\ w.nft = x.nft /\ w.leaving = x.leaving /\ Worth(w) = Worth(y)
      /\ HasPosition(x) <=> HasPosition(w)
      /\ HasPosition(x) => /\ Current(w).tickLower = Current(x).tickLower
                           /\ Current(w).tickUpper = Current(x).tickUpper
    BY <1>5, <1>6 DEF Swaps, Conserves, Passes, Brings, SameInterval, HasPosition, Current
<1>8. LosesLittle(Worth(x), Worth(w))
    BY <1>5, <1>7 DEF Swaps
<1> HIDE DEF v
<1>9. CASE w.nft = v.nft
    <2>1. SameInterval(v, x) /\ Worth(x) = Worth(v) /\ x.nft = v.nft
        BY <1>3, <1>7, <1>9 DEF Repositions
    <2>2. SameInterval(v, w)
        BY <1>7, <2>1 DEF SameInterval, HasPosition
    <2>3. Worth(x) + Own(v, w) = Worth(x)
        BY <1>4, <1>9, WorthIsNumber DEF Own, Sound
    <2>4. LosesLittle(Worth(v) + Own(v, w), Worth(w))
        BY <1>8, <2>1, <2>3
    <2>5. w.leaving = v.leaving
        BY <1>3, <1>7 DEF Repositions
    <2> QED BY <1>7, <1>9, <2>2, <2>4, <2>5 DEF Rebalances, v
<1>10. CASE w.nft # v.nft
    <2>1. /\ HasPosition(x) /\ Chosen(mutableParams, Current(x), tick)
          /\ Worth(x) = Worth(v) + 2 * opening
        BY <1>3, <1>7, <1>10 DEF Repositions
    <2>2. Chosen(mutableParams, Current(w), tick)
        BY <1>7, <2>1 DEF Chosen, Interval, Length
    <2>3. LosesLittle(Worth(v) + Own(v, w), Worth(w))
        BY <1>8, <1>10, <2>1 DEF Own
    <2>4. w.leaving = v.leaving
        BY <1>3, <1>7 DEF Repositions
    <2> QED BY <1>7, <1>10, <2>1, <2>2, <2>3, <2>4 DEF Rebalances, v
<1> QED BY <1>9, <1>10

-----------------------------------------------------------------------------
(* Between transactions nothing is on its way to a holder.                 *)
Rested(v) ==
    /\ Sound(v)
    /\ v.leaving = Zero
    /\ HasPosition(v) => Interval(Current(v))

(* The inductive invariant.                                                *)
PulseInv ==
    /\ Market
    /\ GoodParams(mutableParams)
    /\ opening \in Nat
    /\ Rested(vaults)

(* It holds at the start.                                                  *)
LEMMA InitRested == Init => PulseInv
PROOF
<1> SUFFICES ASSUME Init PROVE PulseInv
    OBVIOUS
<1>1. Market
    <2>1. tick \in Int
        BY TickAssumption DEF Init
    <2>2. kind \in Kinds
        BY DEF Init
    <2>3. farm \in Farms \cup {NoFarm}
        BY FirstFarmAssumption DEF Init
    <2> QED BY <2>1, <2>2, <2>3 DEF Market
<1>2. GoodParams(mutableParams)
    BY MutableParamsAssumption DEF Init, GoodParams
<1>3. opening \in Nat
    BY OpeningsAssumption DEF Init
<1>4. PICK idle \in Deposits \cup {Zero} : vaults =
            [positions |-> [nft \in NFT |-> NoPosition], nft |-> 0, inFarm |-> FALSE,
             stakedIn |-> NoFarm, reward |-> 0, idle |-> idle, leaving |-> Zero]
    BY DEF Init
<1>5. idle \in Pairs /\ Zero \in Pairs
    BY AmountsAssumption DEF Zero, Pairs
<1>6. vaults \in Holdings
    BY <1>4, <1>5 DEF Holdings
<1>7. ~HasPosition(vaults) /\ ~Staked(vaults)
    BY <1>4 DEF HasPosition, Staked
<1>8. \A nft \in NFT : nft = vaults.nft <=> vaults.positions[nft] # NoPosition
    BY <1>4 DEF NFT
<1>9. Held(vaults) /\ FlagRight(vaults) /\ vaults.leaving = Zero
    BY <1>4, <1>6, <1>7, <1>8 DEF Held, FlagRight
<1> QED BY <1>1, <1>2, <1>3, <1>7, <1>9 DEF PulseInv, Rested, Sound

-----------------------------------------------------------------------------
(* What a step does to the vaults.                                         *)

(* What every step keeps to: an interval that changes is chosen, and what  *)
(* the vaults are worth is kept up to the slippage.                        *)
Repositioned(v, w) ==
    /\ w.nft = v.nft => SameInterval(v, w)
    /\ w.nft # v.nft => HasPosition(w) /\ Chosen(mutableParams, Current(w), tick)
Kept(v, w) == LosesLittle(Value(v) + Own(v, w), Value(w))
Safe(v, w) == Rested(w) /\ Repositioned(v, w)

LEMMA ValueAtRest ==
    ASSUME NEW v, Sound(v), v.leaving = Zero
    PROVE  Value(v) = Worth(v) /\ Worth(v) \in Nat
PROOF
<1>1. Worth(v) \in Nat
    BY WorthIsNumber DEF Sound
<1>2. Amount(v.leaving) = 0
    BY DEF Amount, Zero
<1>3. Value(v) \in Int
    <2>1. /\ Amount(v.idle) \in Nat /\ v.reward \in Nat
          /\ HasPosition(v) => Current(v).liquidity \in Nat /\ Amount(Current(v).fees) \in Nat
        BY CurrentPosition DEF Sound, Held, Holdings, Position, Pairs, Amount
    <2> QED BY <2>1 DEF Value
<1> QED BY <1>1, <1>2, <1>3 DEF Worth

LEMMA SameNftIsSafe ==
    ASSUME GoodParams(mutableParams), NEW v, Rested(v), NEW w, Sound(w), w.leaving = Zero,
           w.nft = v.nft, SameInterval(v, w)
    PROVE  /\ Safe(v, w)
           /\ Value(v) <= Value(w) => Kept(v, w)
PROOF
<1>1. HasPosition(w) => Interval(Current(w))
    BY DEF Rested, SameInterval, HasPosition, Interval
<1>2. Value(v) \in Nat /\ Value(w) \in Nat
    BY ValueAtRest DEF Rested
<1>3. Value(v) + Own(v, w) = Value(v)
    BY <1>2 DEF Own
<1>4. Value(v) <= Value(w) => Kept(v, w)
    BY <1>2, <1>3, NothingLost DEF Kept
<1> QED BY <1>1, <1>4 DEF Safe, Rested, Repositioned

(* A call that conserves is safe and costs nothing.                        *)
LEMMA ConservesIsSafe ==
    ASSUME GoodParams(mutableParams), NEW v, Rested(v), NEW w, Conserves(v, w, "erc20Vault")
    PROVE  Safe(v, w) /\ Kept(v, w)
PROOF
<1>1. Sound(w) /\ w.leaving = Zero /\ w.nft = v.nft /\ SameInterval(v, w) /\ Worth(w) = Worth(v)
    BY DEF Conserves, Passes, Brings, Rested
<1>2. Value(v) <= Value(w)
    BY <1>1, ValueAtRest DEF Rested
<1> QED BY <1>1, <1>2, SameNftIsSafe

LEMMA RebalanceKeeps ==
    ASSUME PulseInv, NEW w \in RebalanceResults
    PROVE  Safe(vaults, w) /\ Kept(vaults, w)
PROOF
<1>1. Rebalances(vaults, w)
    BY RebalanceIsSafe DEF PulseInv, Rested
<1>2. Sound(w) /\ w.leaving = Zero
    BY <1>1 DEF Rebalances, PulseInv, Rested
<1>3. HasPosition(w) => Interval(Current(w))
    BY <1>1 DEF Rebalances, PulseInv, Rested, SameInterval, HasPosition, Interval, Chosen
<1>4. Kept(vaults, w)
    BY <1>1, <1>2, ValueAtRest DEF Kept, Rebalances, PulseInv, Rested
<1> QED BY <1>1, <1>2, <1>3, <1>4 DEF Safe, Rested, Repositioned, Rebalances

LEMMA DepositKeeps ==
    ASSUME PulseInv, NEW a \in Deposits, NEW w,
           LET deposited == [vaults EXCEPT !.idle = Plus(@, a)]
           IN  w \in {deposited} \cup DepositCallback(deposited)
    PROVE  Safe(vaults, w) /\ Kept(vaults, w)
PROOF
<1> DEFINE x == [vaults EXCEPT !.idle = Plus(@, a)]
           idle == Plus(vaults.idle, a)
<1>1. Sound(vaults) /\ Rested(vaults) /\ vaults.leaving = Zero /\ vaults.idle \in Pairs /\ a \in Pairs
    BY AmountsAssumption DEF PulseInv, Rested, Sound, Held, Holdings, Pairs
<1>2. idle \in Pairs /\ Amount(idle) = Amount(vaults.idle) + Amount(a) /\ Amount(a) \in Nat
      /\ Amount(vaults.idle) \in Nat
    BY <1>1 DEF Plus, Pairs, Amount
<1>3. x = [vaults EXCEPT !.idle = idle]
    OBVIOUS
<1>4. w = x \/ w \in DepositCallback(x)
    OBVIOUS
<1> HIDE DEF x, idle
<1>5. /\ Sound(x) /\ x.nft = vaults.nft /\ x.leaving = vaults.leaving /\ SameInterval(vaults, x)
      /\ Worth(x) = Worth(vaults) - Amount(vaults.idle) + Amount(idle)
    BY <1>1, <1>2, <1>3, IdleChanges
<1>6. Value(vaults) <= Value(x)
    BY <1>1, <1>2, <1>5, ValueAtRest
<1>7. Conserves(x, w, "erc20Vault")
    BY <1>4, <1>5, NothingDone, DepositCallbackConserves DEF PulseInv
<1>8. /\ Sound(w) /\ w.nft = vaults.nft /\ w.leaving = Zero /\ Worth(w) = Worth(x)
      /\ SameInterval(vaults, w)
    BY <1>1, <1>5, <1>7 DEF Conserves, Passes, Brings, SameInterval, HasPosition
<1>9. Value(vaults) <= Value(w)
    BY <1>1, <1>5, <1>6, <1>8, ValueAtRest
<1> QED BY <1>1, <1>8, <1>9, SameNftIsSafe DEF PulseInv

LEMMA FeeAccrues ==
    ASSUME PulseInv, NEW t \in 1..2, HasPosition(vaults), NEW w,
           w = [vaults EXCEPT !.positions[vaults.nft].fees[t] = @ + 1]
    PROVE  Safe(vaults, w) /\ Kept(vaults, w)
PROOF
<1> DEFINE v == vaults
           fees == [Current(v).fees EXCEPT ![t] = @ + 1]
           q == [Current(v) EXCEPT !.fees = fees]
<1>1. /\ Sound(v) /\ Rested(v) /\ v.leaving = Zero /\ Held(v) /\ v \in Holdings
      /\ v.nft \in NFT /\ Current(v) \in Position
    BY CurrentPosition DEF PulseInv, Rested, Sound, Held
<1>2. fees \in Pairs /\ Amount(fees) = Amount(Current(v).fees) + 1
    <2>1. Current(v).fees \in Nat \X Nat
        BY <1>1 DEF Position, Pairs
    <2>2. t = 1 \/ t = 2
        OBVIOUS
    <2>3. [Current(v).fees EXCEPT ![1] = @ + 1] = <<Current(v).fees[1] + 1, Current(v).fees[2]>>
        BY <2>1
    <2>4. [Current(v).fees EXCEPT ![2] = @ + 1] = <<Current(v).fees[1], Current(v).fees[2] + 1>>
        BY <2>1
    <2> QED BY <2>1, <2>2, <2>3, <2>4 DEF Pairs, Amount
<1>3. w = [v EXCEPT !.positions = [v.positions EXCEPT ![v.nft] = q]]
    BY <1>1 DEF Current, Holdings
<1> HIDE DEF fees
<1>4. /\ q \in Position /\ q.owner = Current(v).owner /\ q.liquidity = Current(v).liquidity
      /\ q.fees = fees /\ q.tickLower = Current(v).tickLower /\ q.tickUpper = Current(v).tickUpper
    BY <1>1, <1>2 DEF Position
<1> HIDE DEF q
<1>5. /\ w \in Holdings /\ w.nft = v.nft /\ w.inFarm = v.inFarm /\ w.stakedIn = v.stakedIn
      /\ w.reward = v.reward /\ w.idle = v.idle /\ w.leaving = v.leaving
      /\ w.positions = [v.positions EXCEPT ![v.nft] = q]
    BY <1>1, <1>3, <1>4 DEF Holdings
<1>6. Held(w) /\ HasPosition(w) /\ Current(w) = q
    BY <1>1, <1>4, <1>5, PositionChanged
<1>7. Sound(w) /\ SameInterval(v, w)
    BY <1>1, <1>4, <1>5, <1>6 DEF Sound, FlagRight, Staked, HasPosition, SameInterval
<1>8. Value(v) <= Value(w)
    <2>1. /\ Amount(v.idle) \in Nat /\ v.reward \in Nat /\ Current(v).liquidity \in Nat
          /\ Amount(Current(v).fees) \in Nat
        BY <1>1 DEF Holdings, Position, Pairs, Amount
    <2>2. Value(w) = Amount(v.idle) + v.reward + (2 * Current(v).liquidity + Amount(fees))
        BY <1>4, <1>5, <1>6 DEF Value
    <2>3. Value(v) = Amount(v.idle) + v.reward + (2 * Current(v).liquidity + Amount(Current(v).fees))
        BY DEF Value
    <2> QED BY <1>2, <2>1, <2>2, <2>3
<1> QED BY <1>1, <1>5, <1>7, <1>8, SameNftIsSafe DEF PulseInv

LEMMA RewardAccrues ==
    ASSUME PulseInv, NEW w, w = [vaults EXCEPT !.reward = @ + 1]
    PROVE  Safe(vaults, w) /\ Kept(vaults, w)
PROOF
<1> DEFINE v == vaults
<1>1. Sound(v) /\ Rested(v) /\ v.leaving = Zero /\ Held(v) /\ v \in Holdings /\ v.reward \in Nat
    BY DEF PulseInv, Rested, Sound, Held, Holdings
<1>2. /\ w \in Holdings /\ w.nft = v.nft /\ w.inFarm = v.inFarm /\ w.stakedIn = v.stakedIn
      /\ w.reward = v.reward + 1 /\ w.idle = v.idle /\ w.leaving = v.leaving
      /\ w.positions = v.positions
    BY <1>1 DEF Holdings
<1>3. Current(w) = Current(v) /\ (HasPosition(w) <=> HasPosition(v))
    BY <1>2 DEF Current, HasPosition
<1>4. Sound(w) /\ SameInterval(v, w)
    BY <1>1, <1>2, <1>3 DEF Sound, Held, FlagRight, Staked, SameInterval
<1>5. Value(v) <= Value(w)
    <2>1. /\ Amount(v.idle) \in Nat
          /\ HasPosition(v) => Current(v).liquidity \in Nat /\ Amount(Current(v).fees) \in Nat
        BY <1>1, CurrentPosition DEF Holdings, Position, Pairs, Amount
    <2> QED BY <1>1, <1>2, <1>3, <2>1 DEF Value
<1> QED BY <1>1, <1>2, <1>4, <1>5, SameNftIsSafe DEF PulseInv

(* What a holder who asks for some tokens is paid from and what is left.   *)
LEMMA LesserIs ==
    ASSUME NEW a \in Pairs, NEW b \in Pairs
    PROVE  /\ Lesser(a, b) \in Pairs
           /\ Minus(a, Lesser(a, b)) \in Pairs /\ Minus(b, Lesser(a, b)) \in Pairs
           /\ b[1] <= a[1] /\ b[2] <= a[2] => Lesser(a, b) = b
PROOF
<1>1. a[1] \in Nat /\ a[2] \in Nat /\ b[1] \in Nat /\ b[2] \in Nat /\ b = <<b[1], b[2]>>
    BY DEF Pairs
<1>2. /\ Min({a[1], b[1]}) = IF a[1] <= b[1] THEN a[1] ELSE b[1]
      /\ Min({a[2], b[2]}) = IF a[2] <= b[2] THEN a[2] ELSE b[2]
    BY <1>1, LeastOfTwo
<1>3. Lesser(a, b) = <<IF a[1] <= b[1] THEN a[1] ELSE b[1], IF a[2] <= b[2] THEN a[2] ELSE b[2]>>
    BY <1>2 DEF Lesser
<1> QED BY <1>1, <1>3 DEF Minus, Pairs

LEMMA PairsAdd ==
    ASSUME NEW a \in Pairs, NEW b \in Pairs
    PROVE  /\ Plus(a, b) \in Pairs /\ Amount(Plus(a, b)) = Amount(a) + Amount(b)
           /\ Minus(Plus(a, b), a) = b /\ Minus(a, a) = Zero /\ Plus(a, Zero) = a
           /\ Amount(a) \in Nat
PROOF BY DEF Pairs, Plus, Minus, Amount, Zero

-----------------------------------------------------------------------------
(* The parts of a withdrawal: what the ERC20Vault pays, the vaults then,   *)
(* the second pull, and the payment.                                       *)
AtHand(v, asked) == Lesser(v.idle, asked)
FromAtHand(v, asked) == WithBalances(v, Minus(v.idle, AtHand(v, asked)), AtHand(v, asked))

Settle(x, asked) ==
    [x EXCEPT !.idle = Plus(@, Minus(x.leaving, Lesser(x.leaving, asked))), !.leaving = Zero]
Pulled(v, asked, x) ==
    IF Minus(asked, AtHand(v, asked)) = Zero THEN x = FromAtHand(v, asked)
    ELSE x \in VaultPull(FromAtHand(v, asked), "rootVault", Minus(asked, AtHand(v, asked)))

(* A withdrawal is two pulls and a payment.                                *)
LEMMA WithdrawalIs ==
    ASSUME NEW v, Sound(v), NEW asked \in Pairs, NEW w \in PulledByRootVault(v, asked)
    PROVE  \E x : Pulled(v, asked, x) /\ w = Settle(x, asked)
PROOF
<1> DEFINE first == [v EXCEPT !.idle = Minus(@, AtHand(v, asked)), !.leaving = AtHand(v, asked)]
           rest == Minus(asked, AtHand(v, asked))
<1>1. first = FromAtHand(v, asked)
    <2>1. v \in Holdings
        BY DEF Sound, Held
    <2> QED BY <2>1 DEF FromAtHand, WithBalances, Holdings
<1>2. \E x \in IF rest = Zero THEN {first} ELSE VaultPull(first, "rootVault", rest) :
        w = [x EXCEPT !.idle = Plus(@, Minus(x.leaving, Lesser(x.leaving, asked))), !.leaving = Zero]
    BY DEF PulledByRootVault, Then, AtHand
<1> QED BY <1>1, <1>2 DEF Pulled, Settle

LEMMA FirstIsSound ==
    ASSUME NEW v, Rested(v), NEW asked \in Pairs
    PROVE  /\ Sound(FromAtHand(v, asked))
           /\ FromAtHand(v, asked).nft = v.nft
           /\ FromAtHand(v, asked).positions = v.positions
           /\ FromAtHand(v, asked).stakedIn = v.stakedIn
           /\ FromAtHand(v, asked).leaving = AtHand(v, asked)
           /\ FromAtHand(v, asked).idle = Minus(v.idle, AtHand(v, asked))
           /\ SameInterval(v, FromAtHand(v, asked))
           /\ Worth(FromAtHand(v, asked)) = Worth(v)
           /\ Minus(asked, AtHand(v, asked)) \in Pairs
PROOF
<1> DEFINE hand == AtHand(v, asked)
           left == Minus(v.idle, hand)
           x == FromAtHand(v, asked)
<1>1. Sound(v) /\ v.leaving = Zero /\ v.idle \in Pairs /\ Worth(v) \in Nat
    BY WorthIsNumber DEF Rested, Sound, Held, Holdings
<1>2. hand \in Pairs /\ left \in Pairs /\ Minus(asked, hand) \in Pairs
    BY <1>1, LesserIs DEF AtHand
<1>3. x = WithBalances(v, left, hand)
    BY DEF FromAtHand
<1>4. Amount(left) + Amount(hand) = Amount(v.idle) /\ Amount(Zero) = 0
      /\ Amount(left) \in Nat /\ Amount(hand) \in Nat
    <2> HIDE DEF hand
    <2> QED BY <1>1, <1>2 DEF Amount, Minus, Pairs, Zero
<1> HIDE DEF hand, x
<1>5. Balanced(v, x, left, hand)
    BY <1>1, <1>2, <1>3, BalancesChange
<1>6. Worth(x) = Worth(v)
    BY <1>1, <1>4, <1>5 DEF Balanced
<1> QED BY <1>2, <1>5, <1>6 DEF Balanced, x, hand

LEMMA SettledIs ==
    ASSUME NEW x, Sound(x), NEW asked \in Pairs, NEW w, w = Settle(x, asked)
    PROVE  /\ Sound(w) /\ w.nft = x.nft /\ w.positions = x.positions /\ w.leaving = Zero
           /\ SameInterval(x, w)
           /\ Worth(w) = Worth(x) - Amount(Lesser(x.leaving, asked))
PROOF
<1> DEFINE paid == Lesser(x.leaving, asked)
           back == Minus(x.leaving, paid)
           idle == Plus(x.idle, back)
<1>1. x \in Holdings /\ x.leaving \in Pairs /\ x.idle \in Pairs /\ Worth(x) \in Nat
    BY WorthIsNumber DEF Sound, Held, Holdings
<1>2. paid \in Pairs /\ back \in Pairs
    BY <1>1, LesserIs
<1> HIDE DEF paid
<1>3. Amount(back) = Amount(x.leaving) - Amount(paid) /\ Amount(paid) \in Nat /\ Amount(x.leaving) \in Nat
    BY <1>1, <1>2 DEF Amount, Minus, Pairs
<1> HIDE DEF back
<1>4. idle \in Pairs /\ Amount(idle) = Amount(x.idle) + Amount(back) /\ Amount(x.idle) \in Nat
    BY <1>1, <1>2, PairsAdd
<1>5. Zero \in Pairs /\ Amount(Zero) = 0
    BY DEF Zero, Pairs, Amount
<1>6. w = WithBalances(x, idle, Zero)
    BY <1>1 DEF Holdings, WithBalances, Settle, paid, back
<1> HIDE DEF idle
<1>7. Balanced(x, w, idle, Zero)
    BY <1>4, <1>5, <1>6, BalancesChange
<1>8. Worth(w) = Worth(x) - Amount(paid)
    BY <1>1, <1>3, <1>4, <1>5, <1>7 DEF Balanced
<1> QED BY <1>7, <1>8 DEF Balanced, paid

(* A withdrawal leaves the vaults sound.                                   *)
LEMMA WithdrawalIsSafe ==
    ASSUME PulseInv, NEW asked \in Pairs, NEW w \in PulledByRootVault(vaults, asked)
    PROVE  Safe(vaults, w)
PROOF
<1> DEFINE first == FromAtHand(vaults, asked)
           rest == Minus(asked, AtHand(vaults, asked))
<1>1. Market /\ GoodParams(mutableParams) /\ Rested(vaults) /\ Sound(vaults)
    BY DEF PulseInv, Rested
<1>2. PICK x : Pulled(vaults, asked, x) /\ w = Settle(x, asked)
    BY <1>1, WithdrawalIs
<1>3. /\ Sound(first) /\ first.nft = vaults.nft /\ SameInterval(vaults, first) /\ rest \in Pairs
    BY <1>1, FirstIsSound
<1>7. x = first \/ x \in VaultPull(first, "rootVault", rest)
    BY <1>2 DEF Pulled
<1> HIDE DEF first, rest
<1>4. Sound(x) /\ x.nft = first.nft /\ SameInterval(first, x)
    <2>1. CASE x = first
        BY <1>3, <2>1 DEF SameInterval
    <2>2. CASE x \in VaultPull(first, "rootVault", rest)
        <3>1. "rootVault" \in Place
            BY DEF Place
        <3>2. Conserves(first, x, "rootVault")
            BY <1>1, <1>3, <2>2, <3>1, VaultPullConserves
        <3> QED BY <3>2 DEF Conserves, Passes
    <2> QED BY <1>7, <2>1, <2>2
<1>5. Sound(w) /\ w.nft = x.nft /\ w.leaving = Zero /\ SameInterval(x, w)
    BY <1>2, <1>4, SettledIs
<1>6. w.nft = vaults.nft /\ SameInterval(vaults, w)
    BY <1>3, <1>4, <1>5 DEF SameInterval, HasPosition
<1> QED BY <1>1, <1>5, <1>6, SameNftIsSafe

LEMMA NothingIsSafe ==
    ASSUME PulseInv
    PROVE  Safe(vaults, vaults) /\ Kept(vaults, vaults)
PROOF BY ConservesIsSafe, NothingDone DEF PulseInv, Rested

LEMMA CollectionKeeps ==
    ASSUME PulseInv, CollectEarnings \/ CollectFarmRewards, NEW w, w = vaults'
    PROVE  Safe(vaults, w) /\ Kept(vaults, w)
PROOF
<1>1. Sound(vaults) /\ GoodParams(mutableParams) /\ Rested(vaults) /\ Market
    BY DEF PulseInv, Rested
<1>2. CASE CollectEarnings
    <2>1. CASE kind = "UniV3"
        <3>1. w \in UniV3CollectEarnings(vaults)
            BY <1>2, <2>1 DEF CollectEarnings
        <3> QED BY <1>1, <3>1, UniV3CollectConserves, ConservesIsSafe
    <2>2. CASE kind = "Camelot"
        <3>1. w \in CamelotCollectEarnings(vaults)
            BY <1>2, <2>2 DEF CollectEarnings
        <3> QED BY <1>1, <3>1, CamelotCollectConserves, ConservesIsSafe
    <2>3. CASE kind = "QuickSwap"
        <3>1. w \in QuickSwapCollectEarnings(vaults)
            BY <1>2, <2>3 DEF CollectEarnings
        <3> QED BY <1>1, <3>1, QuickSwapCollectConserves, ConservesIsSafe
    <2>4. CASE kind = "Kyber"
        BY <1>2, <2>4 DEF CollectEarnings
    <2>5. CASE kind = "PancakeSwap"
        <3>1. w \in PancakeSwapCollectEarnings(vaults)
            BY <1>2, <2>5 DEF CollectEarnings
        <3>2. Conserves(vaults, w, "erc20Vault")
            BY <1>1, <2>5, <3>1, PancakeSwapCollectConserves
        <3> QED BY <1>1, <3>2, ConservesIsSafe
    <2> QED BY <1>1, <2>1, <2>2, <2>3, <2>4, <2>5, FiveKinds
<1>3. CASE CollectFarmRewards
    <2>1. w \in CollectRewards(vaults) \/ w \in Compound(vaults)
        BY <1>1, <1>3, FiveKinds DEF CollectFarmRewards
    <2>2. Conserves(vaults, w, "erc20Vault")
        BY <1>1, <2>1, CollectRewardsConserves, CompoundConserves
    <2> QED BY <1>1, <2>2, ConservesIsSafe
<1> QED BY <1>2, <1>3

(* What a step does to the vaults, whichever it is.                        *)
LEMMA StepIsSafe ==
    ASSUME PulseInv, [Next]_vars, NEW w, w = vaults'
    PROVE  Safe(vaults, w) /\ (Kept(vaults, w) \/ Withdrawal)
PROOF
<1>1. Sound(vaults) /\ GoodParams(mutableParams) /\ Rested(vaults) /\ Market
    BY DEF PulseInv, Rested
<1>2. CASE Rebalance \/ KyberRebalance
    <2>1. w \in RebalanceResults
        BY <1>2 DEF Rebalance, KyberRebalance
    <2> QED BY <2>1, RebalanceKeeps
<1>3. CASE CollectFarmRewards \/ CollectEarnings
    BY <1>3, CollectionKeeps
<1>4. CASE \/ \E newValue \in BOOLEAN : SetForceRebalanceFlag(newValue)
           \/ \E new \in Openings : UpdateDesiredAmounts(new)
           \/ \E mp \in MutableParams : UpdateMutableParams(mp)
           \/ \E f \in Farms : SetStrategyParams(f)
           \/ \E newTick \in Ticks : MoveTick(newTick)
           \/ UNCHANGED vars
    <2>1. w = vaults
        BY <1>4 DEF SetForceRebalanceFlag, UpdateDesiredAmounts, UpdateMutableParams,
                    SetStrategyParams, MoveTick, vars
    <2> QED BY <2>1, NothingIsSafe
<1>5. ASSUME NEW amounts \in Asks, ManualPull(amounts)
      PROVE  Safe(vaults, w) /\ Kept(vaults, w)
    <2>1. "erc20Vault" \in Place /\ amounts \in Pairs
        BY AmountsAssumption DEF Place, Pairs
    <2>2. w \in VaultPull(vaults, "erc20Vault", amounts)
        BY <1>5 DEF ManualPull
    <2>3. Conserves(vaults, w, "erc20Vault")
        BY <1>1, <2>1, <2>2, VaultPullConserves
    <2> QED BY <1>1, <2>3, ConservesIsSafe
<1>6. ASSUME NEW amounts \in Deposits, Deposit(amounts)
      PROVE  Safe(vaults, w) /\ Kept(vaults, w)
    BY <1>6, DepositKeeps DEF Deposit
<1>7. CASE CallDepositCallback
    <2>1. Conserves(vaults, w, "erc20Vault")
        BY <1>1, <1>7, DepositCallbackConserves DEF CallDepositCallback
    <2> QED BY <1>1, <2>1, ConservesIsSafe
<1>8. ASSUME NEW asked \in Asks, Withdraw(asked)
      PROVE  Safe(vaults, w) /\ Withdrawal
    <2>1. asked \in Pairs
        BY AmountsAssumption DEF Pairs
    <2>2. w \in PulledByRootVault(vaults, asked)
        BY <1>8 DEF Withdraw
    <2> QED BY <1>8, <2>1, <2>2, WithdrawalIsSafe DEF Withdrawal
<1>9. ASSUME NEW t \in 1..2, AccrueFee(t)
      PROVE  Safe(vaults, w) /\ Kept(vaults, w)
    BY <1>9, FeeAccrues DEF AccrueFee
<1>10. CASE AccrueReward
    BY <1>10, RewardAccrues DEF AccrueReward
<1> QED BY <1>2, <1>3, <1>4, <1>5, <1>6, <1>7, <1>8, <1>9, <1>10 DEF Next

(* What is not in the vaults stays as it should be.                        *)
LEMMA SettingsStayGood ==
    ASSUME PulseInv, [Next]_vars
    PROVE  /\ tick' \in Int /\ kind' = kind /\ farm' \in Farms \cup {NoFarm}
           /\ GoodParams(mutableParams') /\ opening' \in Nat
PROOF
<1>1. tick \in Int /\ farm \in Farms \cup {NoFarm} /\ GoodParams(mutableParams) /\ opening \in Nat
    BY DEF PulseInv, Market
<1>2. ASSUME NEW new \in Openings, UpdateDesiredAmounts(new)
      PROVE  UNCHANGED <<kind, tick, farm, mutableParams>> /\ opening' \in Nat
    BY <1>2, OpeningsAssumption DEF UpdateDesiredAmounts
<1>3. ASSUME NEW mp \in MutableParams, UpdateMutableParams(mp)
      PROVE  UNCHANGED <<kind, tick, farm, opening>> /\ GoodParams(mutableParams')
    BY <1>3, MutableParamsAssumption DEF UpdateMutableParams, GoodParams
<1>4. ASSUME NEW f \in Farms, SetStrategyParams(f)
      PROVE  UNCHANGED <<kind, tick, mutableParams, opening>> /\ farm' \in Farms
    BY <1>4 DEF SetStrategyParams, UpdateFarmInfo
<1>5. ASSUME NEW newTick \in Ticks, MoveTick(newTick)
      PROVE  UNCHANGED <<kind, farm, mutableParams, opening>> /\ tick' \in Int
    BY <1>5, TickAssumption DEF MoveTick, settings
<1>6. CASE UNCHANGED <<kind, tick, farm, mutableParams, opening>>
    BY <1>1, <1>6
<1>7. \/ UNCHANGED <<kind, tick, farm, mutableParams, opening>>
      \/ \E new \in Openings : UpdateDesiredAmounts(new)
      \/ \E mp \in MutableParams : UpdateMutableParams(mp)
      \/ \E f \in Farms : SetStrategyParams(f)
      \/ \E newTick \in Ticks : MoveTick(newTick)
    BY DEF Next, vars, settings, Rebalance, KyberRebalance, CollectFarmRewards,
           SetForceRebalanceFlag, ManualPull, Deposit, CallDepositCallback, Withdraw,
           CollectEarnings, AccrueFee, AccrueReward
<1> QED BY <1>1, <1>2, <1>3, <1>4, <1>5, <1>6, <1>7

(* Every step keeps the invariant.                                         *)
LEMMA PulseInvKept == PulseInv /\ [Next]_vars => PulseInv'
PROOF
<1> SUFFICES ASSUME PulseInv, [Next]_vars PROVE PulseInv'
    OBVIOUS
<1>1. PICK w : w = vaults'
    OBVIOUS
<1>2. Rested(w)
    BY <1>1, StepIsSafe DEF Safe
<1>3. /\ tick' \in Int /\ kind' = kind /\ farm' \in Farms \cup {NoFarm}
      /\ GoodParams(mutableParams') /\ opening' \in Nat
    BY SettingsStayGood
<1>4. Market'
    BY <1>3 DEF PulseInv, Market
<1>5. GoodParams(mutableParams)' /\ (opening \in Nat)'
    BY <1>3 DEF GoodParams
<1>6. Rested(vaults)'
    BY <1>1, <1>2, <1>3 DEF Rested, Sound, Held, FlagRight, Staked, HasPosition, Current, Interval
<1> QED BY <1>4, <1>5, <1>6 DEF PulseInv

-----------------------------------------------------------------------------
(* The theorems.                                                           *)

(* For every AMM, set of parameters and number of steps, the vaults are    *)
(* sound between transactions: the NFT is where the vault, the farm and    *)
(* the position manager say, every amount is a number, nothing is left on  *)
(* its way to a holder, and the parameters in force are ones that were     *)
(* checked.                                                                *)
THEOREM PulseIsSound == Spec => []PulseInv
PROOF
<1>1. Init => PulseInv
    BY InitRested
<1>2. PulseInv /\ [Next]_vars => PulseInv'
    BY PulseInvKept
<1> QED BY <1>1, <1>2, PTL DEF Spec

(* No sequence of rebalances, pulls, callbacks and changes of the farm     *)
(* leaves a second position, one stuck with the strategy, or a flag that   *)
(* contradicts the farm, and no token is spent that is not there.          *)
THEOREM PulseHasOnePosition == Spec => []OnePosition
PROOF
<1>1. PulseInv => OnePosition
    BY DEF PulseInv, Rested, Sound, Held, FlagRight, Holdings, Pairs, OnePosition
<1> QED BY <1>1, PulseIsSound, PTL

(* Whatever the grid, the parameters and the distance the tick has moved,  *)
(* an interval that a rebalance chooses is on the grid, holds the tick and *)
(* is no longer than the parameters allow.                                 *)
THEOREM PulseIntervalsHoldTheTick == Spec => IntervalHoldsTheTick
PROOF
<1> DEFINE A == Bounds(vaults') # Bounds(vaults) =>
                LET p == vaults'.positions[vaults'.nft]
                IN  /\ p.tickLower % TickSpacing = 0 /\ p.tickUpper % TickSpacing = 0
                    /\ p.tickLower <= tick /\ tick <= p.tickUpper
                    /\ Length(p) <= Max({mutableParams.defaultIntervalWidth,
                                         mutableParams.maxPositionLengthInTicks})
<1>1. PulseInv /\ [Next]_vars => [A]_vars
    <2> SUFFICES ASSUME PulseInv, [Next]_vars, Bounds(vaults') # Bounds(vaults) PROVE A
        OBVIOUS
    <2>1. PICK w : w = vaults'
        OBVIOUS
    <2>2. Repositioned(vaults, w)
        BY <2>1, StepIsSafe DEF Safe
    <2>3. w.nft # vaults.nft
        BY <2>1, <2>2 DEF Repositioned, SameInterval, Bounds, HasPosition, Current
    <2>4. Chosen(mutableParams, w.positions[w.nft], tick)
        BY <2>2, <2>3 DEF Repositioned, Current
    <2> QED BY <2>1, <2>4 DEF Chosen, Interval, LongestOf
<1> QED BY <1>1, PulseIsSound, PTL DEF Spec, IntervalHoldsTheTick

(* No step except a withdrawal costs the holders more than the swap        *)
(* slippage of what they had: the position is replaced, farmed and its     *)
(* rewards compounded without loss, whatever the AMM.                      *)
THEOREM PulseKeepsItsValue == Spec => ValueKept
PROOF
<1> DEFINE A == \/ D * (Value(vaults) + OwnTokens - Value(vaults'))
                        <= mutableParams.swapSlippageD * (Value(vaults) + OwnTokens)
                \/ Withdrawal
<1>1. PulseInv /\ [Next]_vars => [A]_vars
    <2> SUFFICES ASSUME PulseInv, [Next]_vars PROVE A
        OBVIOUS
    <2>1. PICK w : w = vaults'
        OBVIOUS
    <2>2. Kept(vaults, w) \/ Withdrawal
        BY <2>1, StepIsSafe
    <2>3. PICK now, own, after : now = Value(vaults) /\ own = OwnTokens /\ after = Value(vaults')
        OBVIOUS
    <2>4. own = Own(vaults, w) /\ after = Value(w)
        BY <2>1, <2>3 DEF OwnTokens, Own
    <2>5. now \in Int /\ own \in Int /\ after \in Int
        <3>1. Rested(vaults) /\ Rested(w) /\ opening \in Nat
            BY <2>1, StepIsSafe DEF PulseInv, Safe
        <3> QED BY <2>3, <2>4, <3>1, ValueAtRest DEF Rested, Own
    <2>6. CASE Kept(vaults, w)
        <3>1. D * ((now + own) - after) <= mutableParams.swapSlippageD * (now + own)
            BY <2>3, <2>4, <2>6 DEF Kept, LosesLittle
        <3>2. (now + own) - after = now + own - after
            BY <2>5
        <3>3. D * (now + own - after) <= mutableParams.swapSlippageD * (now + own)
            BY <3>1, <3>2
        <3> QED BY <2>3, <3>3
    <2> QED BY <2>2, <2>6
<1> QED BY <1>1, PulseIsSound, PTL DEF Spec, ValueKept

-----------------------------------------------------------------------------
(* Without a farm the NFT stays in the vault.                              *)

(* No farm has the NFT; no call of UniV3Vault or CamelotVault changes      *)
(* that.                                                                   *)
Plain(v) == "stakedIn" \in DOMAIN v /\ v.stakedIn = NoFarm

LEMMA PlainPay ==
    ASSUME NEW v, Plain(v), NEW to, NEW a
    PROVE  Plain(Pay(v, to, a))
PROOF BY DEF Plain, Pay

LEMMA PlainMoved ==
    ASSUME NEW v, Plain(v), NEW n, NEW to
    PROVE  Plain(Moved(v, n, to))
PROOF BY DEF Plain, Moved

LEMMA PlainNft ==
    ASSUME NEW v, Plain(v), NEW n
    PROVE  Plain([v EXCEPT !.nft = n])
PROOF BY DEF Plain

LEMMA PlainCollect ==
    ASSUME NEW v, Plain(v), NEW to
    PROVE  Plain(Collect(v, to))
PROOF
<1>1. Plain([v EXCEPT !.positions[v.nft].fees = Zero])
    BY DEF Plain
<1> QED BY <1>1, PlainPay DEF Collect

LEMMA PlainDecrease ==
    ASSUME NEW v, Plain(v), NEW n, NEW to
    PROVE  Plain(DecreaseLiquidity(v, n, to))
PROOF
<1>1. Plain([v EXCEPT !.positions[v.nft].liquidity = @ - n])
    BY DEF Plain
<1> QED BY <1>1, PlainPay DEF DecreaseLiquidity

LEMMA PlainIncrease ==
    ASSUME NEW v, Plain(v), NEW a
    PROVE  Plain(IncreaseLiquidity(v, a))
PROOF BY DEF Plain, IncreaseLiquidity

(* Each call of these two vaults leaves the farm's record alone.           *)
LEMMA PlainPull ==
    ASSUME kind \in {"UniV3", "Camelot"}, NEW v, Plain(v), NEW to, NEW a, NEW w \in VaultPull(v, to, a)
    PROVE  Plain(w)
PROOF
<1>1. w = v \/ w \in PullUpTo(v, to, a)
    BY DEF VaultPull, UniV3Pull, CamelotPull
<1>2. CASE w \in PullUpTo(v, to, a)
    <2>1. w = Collect(DecreaseLiquidity(v, LiquidityToPull(Current(v), a), to), to)
        BY <1>2 DEF PullUpTo, With, Then, TakeOut, Require
    <2> QED BY <2>1, PlainDecrease, PlainCollect
<1> QED BY <1>1, <1>2

LEMMA PlainPush ==
    ASSUME kind \in {"UniV3", "Camelot"}, NEW v, Plain(v), NEW w \in PushIntoVault(v)
    PROVE  Plain(w)
PROOF
<1>1. w = v \/ w \in VaultPush(v, v.idle)
    BY DEF PushIntoVault, PullIdle
<1>2. w = v \/ w = IncreaseLiquidity(v, v.idle)
    BY <1>1 DEF VaultPush, UniV3Push, CamelotPush
<1> QED BY <1>2, PlainIncrease

LEMMA PlainEarnings ==
    ASSUME NEW v, Plain(v), NEW w, w \in UniV3CollectEarnings(v) \/ w \in CamelotCollectEarnings(v)
    PROVE  Plain(w)
PROOF
<1>1. w = v \/ w = Collect(v, "erc20Vault")
    BY DEF UniV3CollectEarnings, CamelotCollectEarnings, Require
<1> QED BY <1>1, PlainCollect

LEMMA PlainReceived ==
    ASSUME kind \in {"UniV3", "Camelot"}, NEW v, Plain(v), NEW n, NEW w \in OnERC721Received(v, n)
    PROVE  Plain(w)
PROOF
<1>1. \/ w = [Moved(v, n, "vault") EXCEPT !.nft = n]
      \/ w = [Moved(Moved(v, n, "vault"), v.nft, "strategy") EXCEPT !.nft = n]
    BY DEF OnERC721Received, UniV3Received, CamelotReceived, Require
<1>2. Plain(Moved(v, n, "vault")) /\ Plain(Moved(Moved(v, n, "vault"), v.nft, "strategy"))
    BY PlainMoved
<1> QED BY <1>1, <1>2, PlainNft

LEMMA PlainMintAndBurn ==
    ASSUME kind \in {"UniV3", "Camelot"}, NEW v, Plain(v), NEW w \in MintAndBurn(v)
    PROVE  Plain(w)
PROOF
<1>1. PICK x \in Mint(v) : \E y \in OnERC721Received(x, UnusedNft(v)) : w \in Burn(y, v.nft)
    BY DEF MintAndBurn, Then
<1>2. PICK y \in OnERC721Received(x, UnusedNft(v)) : w \in Burn(y, v.nft)
    BY <1>1
<1>3. x = [v EXCEPT !.positions[UnusedNft(v)] = Minted(NewInterval(v))]
    BY <1>1 DEF Mint, With, Then, Require
<1>4. Plain(x)
    BY <1>3 DEF Plain
<1>5. Plain(y)
    BY <1>2, <1>4, PlainReceived
<1>6. w = y \/ w = [y EXCEPT !.positions[v.nft] = NoPosition]
    BY <1>2 DEF Burn, Require
<1> QED BY <1>5, <1>6 DEF Plain

LEMMA PlainRebalance ==
    ASSUME kind \in {"UniV3", "Camelot"}, NEW v, Plain(v), NEW w \in PositionsRebalance(v)
    PROVE  Plain(w)
PROOF
<1>1. \/ w \in Replace(v, PullWhole)
      \/ w \in UniV3CollectEarnings(v) \/ w \in CamelotCollectEarnings(v)
    BY DEF PositionsRebalance, UniV3PositionsRebalance, CamelotPositionsRebalance
<1>2. CASE w \in Replace(v, PullWhole)
    <2>1. PICK x \in IF HasPosition(v) THEN PullWhole(v) ELSE {v} : w \in MintAndBurn(x)
        BY <1>2 DEF Replace, Then
    <2>2. x = v \/ x \in VaultPull(v, "erc20Vault", WholePosition(v))
        BY <2>1 DEF PullWhole, With, Then
    <2>3. Plain(x)
        BY <2>2, PlainPull
    <2> QED BY <2>1, <2>3, PlainMintAndBurn
<1> QED BY <1>1, <1>2, PlainEarnings

LEMMA PlainSwap ==
    ASSUME NEW v, Plain(v), NEW w \in SwapToTarget(v)
    PROVE  Plain(w)
PROOF
<1> DEFINE swap == CalculateAmountsForSwap(v.idle, TargetRatioOfToken1(Current(v), tick))
<1>1. w = v \/ w \in AcceptedSwaps(v, swap.tokenIn, swap.amountIn)
    BY DEF SwapToTarget, With, Then
<1>2. CASE w \in AcceptedSwaps(v, swap.tokenIn, swap.amountIn)
    <2> DEFINE t == swap.tokenIn
               wanted == swap.amountIn
    <2>1. w \in AcceptedSwaps(v, t, wanted)
        BY <1>2
    <2> HIDE DEF t, wanted
    <2>2. \E in, out : w = Swapped(v, t, in, out)
        BY <2>1 DEF AcceptedSwaps
    <2> QED BY <2>2 DEF Plain, Swapped
<1> QED BY <1>1, <1>2

LEMMA PlainResults ==
    ASSUME kind \in {"UniV3", "Camelot"}, Plain(vaults), NEW w \in RebalanceResults
    PROVE  Plain(w)
PROOF
<1>1. PICK x \in PositionsRebalance(vaults) : \E y \in SwapToTarget(x) : w \in PushIntoVault(y)
    BY DEF RebalanceResults, Then
<1>2. PICK y \in SwapToTarget(x) : w \in PushIntoVault(y)
    BY <1>1
<1> QED BY <1>1, <1>2, PlainRebalance, PlainSwap, PlainPush

LEMMA PlainWithdrawal ==
    ASSUME kind \in {"UniV3", "Camelot"}, NEW v, Plain(v), NEW asked, NEW w \in PulledByRootVault(v, asked)
    PROVE  Plain(w)
PROOF
<1> DEFINE first == [v EXCEPT !.idle = Minus(@, AtHand(v, asked)), !.leaving = AtHand(v, asked)]
           rest == Minus(asked, AtHand(v, asked))
<1>1. PICK x \in IF rest = Zero THEN {first} ELSE VaultPull(first, "rootVault", rest) :
        w = Settle(x, asked)
    BY DEF PulledByRootVault, Then, AtHand, Settle
<1>2. Plain(first)
    BY DEF Plain
<1> HIDE DEF first, rest
<1>3. Plain(x)
    BY <1>1, <1>2, PlainPull
<1> QED BY <1>1, <1>3 DEF Plain, Settle

(* Only a vault with a farm has the NFT in one, and QuickSwap's always has *)
(* a farm to reopen.                                                       *)
FarmsInUse ==
    /\ kind \in {"UniV3", "Camelot"} => Plain(vaults)
    /\ kind = "QuickSwap" => farm \in Farms

LEMMA InitFarms == Init => FarmsInUse
PROOF BY FirstFarmAssumption DEF Init, FarmsInUse, Plain

(* Every step keeps it.                                                    *)
LEMMA FarmsStayInUse == FarmsInUse /\ [Next]_vars => FarmsInUse'
PROOF
<1> SUFFICES ASSUME FarmsInUse, [Next]_vars PROVE FarmsInUse'
    OBVIOUS
<1>1. kind' = kind
    BY DEF Next, vars, settings, Rebalance, KyberRebalance, CollectFarmRewards, SetForceRebalanceFlag,
           UpdateDesiredAmounts, UpdateMutableParams, SetStrategyParams, ManualPull, Deposit,
           CallDepositCallback, Withdraw, CollectEarnings, MoveTick, AccrueFee, AccrueReward
<1>2. farm' = farm \/ farm' \in Farms
    BY DEF Next, vars, settings, Rebalance, KyberRebalance, CollectFarmRewards, SetForceRebalanceFlag,
           UpdateDesiredAmounts, UpdateMutableParams, SetStrategyParams, ManualPull, Deposit, UpdateFarmInfo,
           CallDepositCallback, Withdraw, CollectEarnings, MoveTick, AccrueFee, AccrueReward
<1>3. ASSUME kind \in {"UniV3", "Camelot"}, NEW w, w = vaults'
      PROVE  Plain(w)
    <2>1. Plain(vaults)
        BY <1>3 DEF FarmsInUse
    <2>2. CASE Rebalance \/ KyberRebalance
        <3>1. w \in RebalanceResults
            BY <1>3, <2>2 DEF Rebalance, KyberRebalance
        <3> QED BY <1>3, <2>1, <3>1, PlainResults
    <2>3. CASE \/ CollectFarmRewards
               \/ \E newValue \in BOOLEAN : SetForceRebalanceFlag(newValue)
               \/ \E new \in Openings : UpdateDesiredAmounts(new)
               \/ \E mp \in MutableParams : UpdateMutableParams(mp)
               \/ \E f \in Farms : SetStrategyParams(f)
               \/ \E amounts \in Asks : ManualPull(amounts)
               \/ \E newTick \in Ticks : MoveTick(newTick)
               \/ UNCHANGED vars
        <3>1. w = vaults
            BY <1>3, <2>3 DEF CollectFarmRewards, SetForceRebalanceFlag, UpdateDesiredAmounts,
                   UpdateMutableParams, SetStrategyParams, ManualPull, MoveTick, vars
        <3> QED BY <2>1, <3>1
    <2>4. ASSUME NEW amounts \in Deposits, Deposit(amounts)
          PROVE  Plain(w)
        <3> DEFINE x == [vaults EXCEPT !.idle = Plus(@, amounts)]
        <3>1. w = x \/ w \in DepositCallback(x)
            BY <1>3, <2>4 DEF Deposit
        <3>2. Plain(x)
            BY <2>1 DEF Plain
        <3> HIDE DEF x
        <3>3. w = x \/ w \in PushIntoVault(x)
            BY <1>3, <3>1 DEF DepositCallback
        <3> QED BY <1>3, <3>2, <3>3, PlainPush
    <2>5. CASE CallDepositCallback
        <3>1. w \in PushIntoVault(vaults)
            BY <1>3, <2>5 DEF CallDepositCallback, DepositCallback
        <3> QED BY <1>3, <2>1, <3>1, PlainPush
    <2>6. ASSUME NEW asked \in Asks, Withdraw(asked)
          PROVE  Plain(w)
        <3>1. w \in PulledByRootVault(vaults, asked)
            BY <1>3, <2>6 DEF Withdraw
        <3> QED BY <1>3, <2>1, <3>1, PlainWithdrawal
    <2>7. CASE CollectEarnings
        <3>1. w \in UniV3CollectEarnings(vaults) \/ w \in CamelotCollectEarnings(vaults)
            BY <1>3, <2>7 DEF CollectEarnings
        <3> QED BY <2>1, <3>1, PlainEarnings
    <2>8. CASE (\E t \in 1..2 : AccrueFee(t)) \/ AccrueReward
        BY <1>3, <2>1, <2>8 DEF AccrueFee, AccrueReward, Plain
    <2> QED BY <2>2, <2>3, <2>4, <2>5, <2>6, <2>7, <2>8 DEF Next
<1>4. PICK w : w = vaults'
    OBVIOUS
<1> QED BY <1>1, <1>2, <1>3, <1>4 DEF FarmsInUse, Plain

-----------------------------------------------------------------------------
(* A withdrawal goes through.                                              *)

(* The farm to leave is the one that has the NFT.                          *)
KeyMatches(v) == kind \in {"QuickSwap", "Kyber"} => v.stakedIn \in {NoFarm, farm}

LEMMA UnstakedIsInVault ==
    ASSUME NEW v, Held(v), HasPosition(v), v.stakedIn = NoFarm
    PROVE  Current(v).owner = "vault"
PROOF BY DEF Held, Staked

LEMMA LeavingGoes ==
    ASSUME NEW v, NEW f \in Farms, v.stakedIn = f
    PROVE  LeaveFarm(v, f) # {}
PROOF BY DEF LeaveFarm, Require

LEMMA EnteringGoes ==
    ASSUME NEW v, NEW f \in Farms, Current(v).owner = "vault"
    PROVE  EnterFarm(v, v.nft, f) # {}
PROOF BY DEF EnterFarm, Require, Current

LEMMA TakenOutStays ==
    ASSUME Market, NEW v, Held(v), HasPosition(v), NEW to \in Place, NEW a \in Pairs,
           NEW w \in PullUpTo(v, to, a)
    PROVE  Held(w) /\ HasPosition(w) /\ Current(w).owner = "vault" /\ w.nft = v.nft
PROOF
<1>1. Keeps(v, w, to) /\ Current(v).owner = "vault"
    BY PullUpToKeeps
<1> QED BY <1>1 DEF Keeps, SamePlace, HasPosition

(* The NFT leaves the farm, gives what it is asked for and goes back.      *)
LEMMA QuickSwapPullGoes ==
    ASSUME Market, kind = "QuickSwap", farm \in Farms, NEW v, Sound(v), HasPosition(v), KeyMatches(v),
           NEW to \in Place, NEW a \in Pairs
    PROVE  QuickSwapPull(v, to, a) # {}
PROOF
<1>0. Held(v)
    BY DEF Sound
<1>1. CASE ~Staked(v)
    <2>1. Current(v).owner = "vault"
        BY <1>0, <1>1 DEF Held, Staked
    <2> QED BY <1>1, <2>1, PullUpToGoes DEF QuickSwapPull
<1>2. CASE Staked(v)
    <2>1. v.stakedIn = farm
        BY <1>0, <1>2 DEF KeyMatches, Held
    <2>2. CollectRewards(v) = {Harvested(v, "erc20Vault")}
        BY <1>2, <2>1 DEF CollectRewards
    <2> DEFINE u == Harvested(v, "erc20Vault")
    <2>3. "erc20Vault" \in Place
        BY DEF Place
    <2>4. Keeps(v, u, "erc20Vault")
        BY <1>0, <2>3, HarvestKeeps
    <2>5. u.stakedIn = farm
        BY <2>1, <2>4 DEF Keeps, SamePlace
    <2>6. PICK x : x \in BurnFarmingPosition(v)
        <3> HIDE DEF u
        <3>1. PICK x : x \in LeaveFarm(u, farm)
            BY <2>5, LeavingGoes
        <3> QED BY <2>2, <3>1 DEF BurnFarmingPosition, Then, u
    <2>7. Held(x) /\ HasPosition(x) /\ Current(x).owner = "vault"
        BY <1>0, <2>3, <2>6, BurnFarmingPasses DEF Passes
    <2>8. PICK y : y \in PullUpTo(x, to, a)
        BY <2>7, PullUpToGoes
    <2>9. Current(y).owner = "vault"
        BY <2>7, <2>8, TakenOutStays
    <2>10. PICK w : w \in OpenFarmingPosition(y, y.nft)
        BY <2>9, EnteringGoes DEF OpenFarmingPosition
    <2>11. w \in QuickSwapPull(v, to, a)
        BY <1>2, <2>6, <2>8, <2>10 DEF QuickSwapPull, Then
    <2> QED BY <2>11
<1> QED BY <1>1, <1>2

LEMMA DepositIntoFarmGoes ==
    ASSUME farm \in Farms \cup {NoFarm}, NEW v, Current(v).owner = "vault"
    PROVE  DepositIntoFarm(v) # {}
PROOF
<1> DEFINE x == [v EXCEPT !.inFarm = TRUE]
<1>1. x.nft = v.nft /\ x.positions = v.positions
    OBVIOUS
<1>2. Current(x).owner = "vault"
    BY <1>1 DEF Current
<1> HIDE DEF x
<1>3. farm \in Farms => EnterFarm(x, v.nft, farm) # {}
    BY <1>1, <1>2, EnteringGoes
<1> QED BY <1>3 DEF DepositIntoFarm, x

LEMMA KyberPullGoes ==
    ASSUME Market, kind = "Kyber", NEW v, Sound(v), HasPosition(v), KeyMatches(v),
           NEW to \in Place, NEW a \in Pairs
    PROVE  KyberPull(v, to, a) # {}
PROOF
<1>0. Held(v) /\ (v.inFarm <=> Staked(v))
    BY DEF Sound, FlagRight
<1>1. PICK x \in WithdrawFromFarm(v, to) : Held(x) /\ HasPosition(x) /\ Current(x).owner = "vault"
    <2>1. CASE ~Staked(v)
        <3>1. v \in WithdrawFromFarm(v, to)
            BY <1>0, <2>1 DEF WithdrawFromFarm
        <3>2. Current(v).owner = "vault"
            BY <1>0, <2>1 DEF Held, Staked
        <3> QED BY <1>0, <3>1, <3>2
    <2>2. CASE Staked(v)
        <3>1. v.stakedIn = farm /\ farm # NoFarm /\ farm \in Farms /\ v.inFarm
            BY <1>0, <2>2 DEF KeyMatches, Held, Holdings
        <3> DEFINE u == [v EXCEPT !.inFarm = FALSE]
                   y == Harvested(u, to)
        <3>2. Passes(v, u, to) /\ u.stakedIn = v.stakedIn
            BY <1>0, Flagged
        <3>3. Held(u)
            BY <3>2 DEF Passes
        <3> HIDE DEF u
        <3>4. Keeps(u, y, to)
            BY <3>3, HarvestKeeps
        <3>5. Held(y) /\ y.stakedIn = farm
            BY <3>1, <3>2, <3>4 DEF Keeps, SamePlace
        <3> HIDE DEF y
        <3>6. PICK x : x \in LeaveFarm(y, farm)
            BY <3>1, <3>5, LeavingGoes
        <3>7. Passes(y, x, to) /\ HasPosition(x) /\ Current(x).owner = "vault"
            BY <3>5, <3>6, LeavePasses
        <3>8. x \in WithdrawFromFarm(v, to)
            BY <3>1, <3>6 DEF WithdrawFromFarm, u, y
        <3> QED BY <3>7, <3>8 DEF Passes
    <2> QED BY <2>1, <2>2
<1> DEFINE n == KyberLiquidityToPull(Current(x), a)
           Taken == IF n = 0 THEN {x} ELSE TakeOut(x, n, to)
<1>2. PICK y \in Taken : Current(y).owner = "vault"
    <2>1. CASE n = 0
        BY <1>1, <2>1
    <2>2. CASE n # 0
        <3>1. PICK y : y \in TakeOut(x, n, to)
            BY <1>1 DEF TakeOut, Require
        <3>2. n \in Nat /\ n <= Current(x).liquidity
            BY <1>1, CurrentPosition, PullsNoMoreThanAll
        <3> HIDE DEF n
        <3>3. Keeps(x, y, to)
            BY <1>1, <3>1, <3>2, TakeOutKeeps
        <3> QED BY <1>1, <2>2, <3>1, <3>3 DEF Keeps, SamePlace
    <2> QED BY <2>1, <2>2
<1>3. PICK w : w \in DepositIntoFarm(y)
    BY <1>2, DepositIntoFarmGoes DEF Market
<1>4. w \in KyberPull(v, to, a)
    BY <1>1, <1>2, <1>3 DEF KyberPull, Then, With
<1> QED BY <1>4

LEMMA PancakeSwapPullGoes ==
    ASSUME Market, kind = "PancakeSwap", NEW v, Sound(v), HasPosition(v),
           NEW to \in Place, NEW a \in Pairs
    PROVE  PancakeSwapPull(v, to, a) # {}
PROOF
<1>0. Held(v) /\ (v.inFarm <=> Staked(v))
    BY DEF Sound, FlagRight
<1>1. PICK x \in UnstakeUniV3Nft(v) : Held(x) /\ HasPosition(x) /\ Current(x).owner = "vault"
    <2>1. CASE ~Staked(v)
        <3>1. v \in UnstakeUniV3Nft(v)
            BY <1>0, <2>1 DEF UnstakeUniV3Nft
        <3>2. Current(v).owner = "vault"
            BY <1>0, <2>1 DEF Held, Staked
        <3> QED BY <1>0, <3>1, <3>2
    <2>2. CASE Staked(v)
        <3> DEFINE y == Harvested(v, "erc20Vault")
                   u == [y EXCEPT !.inFarm = FALSE]
        <3>1. "erc20Vault" \in Place
            BY DEF Place
        <3>2. v.stakedIn \in Farms
            BY <1>0, <2>2 DEF Held, Holdings
        <3>3. Keeps(v, y, "erc20Vault")
            BY <1>0, <3>1, HarvestKeeps
        <3>4. Held(y) /\ y.stakedIn = v.stakedIn
            BY <3>3 DEF Keeps, SamePlace
        <3>5. Compound(v) = {y}
            BY <2>2 DEF Compound
        <3> HIDE DEF y
        <3>6. Passes(y, u, to) /\ u.stakedIn = y.stakedIn
            BY <3>4, Flagged
        <3>7. Held(u) /\ u.stakedIn \in Farms
            BY <3>2, <3>4, <3>6 DEF Passes
        <3> HIDE DEF u
        <3>8. PICK x : x \in LeaveFarm(u, y.stakedIn)
            BY <3>2, <3>4, <3>6, LeavingGoes
        <3>9. Passes(u, x, to) /\ HasPosition(x) /\ Current(x).owner = "vault"
            BY <3>7, <3>8, LeavePasses
        <3>10. x \in UnstakeUniV3Nft(v)
            BY <1>0, <2>2, <3>5, <3>8 DEF UnstakeUniV3Nft, Then, u
        <3> QED BY <3>9, <3>10 DEF Passes
    <2> QED BY <2>1, <2>2
<1>2. PICK y : y \in PullUpTo(x, to, a)
    BY <1>1, PullUpToGoes
<1>3. y \in StakeUniV3Nft(y)
    BY DEF StakeUniV3Nft
<1>4. y \in PancakeSwapPull(v, to, a)
    BY <1>1, <1>2, <1>3 DEF PancakeSwapPull, Then
<1> QED BY <1>4

(* A pull goes through for every AMM.                                      *)
LEMMA VaultPullGoes ==
    ASSUME Market, NEW v, Sound(v), HasPosition(v), KeyMatches(v),
           kind \in {"UniV3", "Camelot"} => v.stakedIn = NoFarm,
           kind = "QuickSwap" => farm \in Farms,
           NEW to \in Place, NEW a \in Pairs
    PROVE  VaultPull(v, to, a) # {}
PROOF
<1>1. CASE kind \in {"UniV3", "Camelot"}
    <2>1. Current(v).owner = "vault"
        BY <1>1, UnstakedIsInVault DEF Sound
    <2>2. PullUpTo(v, to, a) # {}
        BY <2>1, PullUpToGoes
    <2> QED BY <1>1, <2>2 DEF VaultPull, UniV3Pull, CamelotPull
<1>2. CASE kind = "QuickSwap"
    BY <1>2, QuickSwapPullGoes DEF VaultPull
<1>3. CASE kind = "Kyber"
    BY <1>3, KyberPullGoes DEF VaultPull
<1>4. CASE kind = "PancakeSwap"
    BY <1>4, PancakeSwapPullGoes DEF VaultPull
<1> QED BY <1>1, <1>2, <1>3, <1>4, FiveKinds

-----------------------------------------------------------------------------
(* All that a withdrawal can ask for.                                      *)
AllOf(v) == Plus(v.idle, InPosition(v))

LEMMA InPositionIsPair ==
    ASSUME Market, NEW v, Held(v)
    PROVE  InPosition(v) \in Pairs
PROOF
<1>1. CASE HasPosition(v)
    <2>1. Current(v) \in Position /\ Current(v).liquidity \in Nat
        BY <1>1, CurrentPosition DEF Position
    <2> QED BY <1>1, <2>1, TokenAmountsAdd DEF InPosition
<1>2. CASE ~HasPosition(v)
    BY <1>2 DEF InPosition, Zero, Pairs
<1> QED BY <1>1, <1>2

(* The root vault first takes all that is idle, then asks for the position.*)
LEMMA AllIsAtHand ==
    ASSUME Market, NEW v, Rested(v)
    PROVE  /\ AllOf(v) \in Pairs /\ AtHand(v, AllOf(v)) = v.idle
           /\ Minus(AllOf(v), AtHand(v, AllOf(v))) = InPosition(v)
PROOF
<1> DEFINE b == InPosition(v)
<1>1. v.idle \in Pairs /\ b \in Pairs
    BY InPositionIsPair DEF Rested, Sound, Held, Holdings
<1>2. AllOf(v) = Plus(v.idle, b)
    BY DEF AllOf
<1> HIDE DEF b
<1>3. AllOf(v) \in Pairs /\ Minus(AllOf(v), v.idle) = b
    BY <1>1, <1>2, PairsAdd
<1>4. Lesser(v.idle, AllOf(v)) = v.idle
    <2>1. Min({v.idle[1], AllOf(v)[1]}) = v.idle[1]
        <3>1. v.idle[1] \in Int /\ AllOf(v)[1] \in Int /\ v.idle[1] <= AllOf(v)[1]
            BY <1>1, <1>2 DEF Plus, Pairs
        <3> QED BY <3>1, LeastOfTwo
    <2>2. Min({v.idle[2], AllOf(v)[2]}) = v.idle[2]
        <3>1. v.idle[2] \in Int /\ AllOf(v)[2] \in Int /\ v.idle[2] <= AllOf(v)[2]
            BY <1>1, <1>2 DEF Plus, Pairs
        <3> QED BY <3>1, LeastOfTwo
    <2> QED BY <1>1, <2>1, <2>2 DEF Lesser, Pairs
<1> QED BY <1>3, <1>4 DEF AtHand, b

(* What the second pull leaves behind and what it brings.                  *)
AllPulled(v, x) ==
    /\ Sound(x) /\ Worth(x) = Worth(v)
    /\ InPosition(x) = Zero
    /\ AllOf(v)[1] <= x.leaving[1] /\ AllOf(v)[2] <= x.leaving[2]

(* After both pulls nothing is in the position, and what was asked for is  *)
(* there.                                                                  *)
LEMMA SecondPullTakesAll ==
    ASSUME PulseInv, ~(kind = "Kyber" /\ BelowInterval), NEW x, Pulled(vaults, AllOf(vaults), x)
    PROVE  AllPulled(vaults, x)
PROOF
<1> DEFINE v == vaults
           asked == AllOf(v)
           first == FromAtHand(v, asked)
           b == InPosition(v)
<1>1. Market /\ Rested(v) /\ Sound(v) /\ Held(v) /\ v.idle \in Pairs
    BY DEF PulseInv, Rested, Sound, Held, Holdings
<1>2. asked \in Pairs /\ AtHand(v, asked) = v.idle /\ Minus(asked, AtHand(v, asked)) = b
      /\ asked = Plus(v.idle, b) /\ b \in Pairs
    BY <1>1, AllIsAtHand, InPositionIsPair DEF AllOf
<1>3. (x = first /\ b = Zero) \/ (b # Zero /\ x \in VaultPull(first, "rootVault", b))
    BY <1>2 DEF Pulled
<1>4. /\ Sound(first) /\ first.nft = v.nft /\ first.positions = v.positions
      /\ first.leaving = v.idle /\ Worth(first) = Worth(v)
    BY <1>1, <1>2, FirstIsSound
<1> HIDE DEF first, b, asked, v
<1>5. Current(first) = Current(v) /\ (HasPosition(first) <=> HasPosition(v)) /\ InPosition(first) = b
    BY <1>4 DEF Current, HasPosition, InPosition, b
<1>6. CASE x = first /\ b = Zero
    <2>1. asked = v.idle
        BY <1>1, <1>2, <1>6, PairsAdd
    <2>2. asked[1] <= x.leaving[1] /\ asked[2] <= x.leaving[2]
        BY <1>1, <1>4, <1>6, <2>1 DEF Pairs
    <2> QED BY <1>4, <1>5, <1>6, <2>2 DEF AllPulled, asked, v
<1>7. CASE b # Zero /\ x \in VaultPull(first, "rootVault", b)
    <2>1. HasPosition(v) /\ HasPosition(first)
        BY <1>5, <1>7 DEF InPosition, b
    <2>2. Whole(first, b) /\ ~KyberBelow(first)
        BY <1>5, <2>1 DEF Whole, InPosition, b, KyberBelow, BelowInterval, v
    <2>3. "rootVault" \in Place
        BY DEF Place
    <2>4. Conserves(first, x, "rootVault") /\ Empties(first, x)
        BY <1>1, <1>2, <1>4, <1>7, <2>1, <2>2, <2>3, VaultPullConserves
    <2>5. /\ Sound(x) /\ Worth(x) = Worth(v) /\ Held(x) /\ HasPosition(x)
        BY <1>4, <2>1, <2>4 DEF Conserves, Passes, Sound, HasPosition
    <2>6. InPosition(x) = Zero
        <3>1. Current(x) \in Position /\ Current(x).liquidity = 0
            BY <2>4, <2>5, CurrentPosition DEF Empties
        <3>2. TokenAmounts(Current(x), 0) \in Pairs /\ Amount(TokenAmounts(Current(x), 0)) = 2 * 0
            BY <1>1, <3>1, TokenAmountsAdd
        <3>3. TokenAmounts(Current(x), 0) = Zero
            BY <3>2 DEF Pairs, Amount, Zero
        <3> QED BY <2>5, <3>1, <3>3 DEF InPosition
    <2>7. v.idle[1] + b[1] <= x.leaving[1] /\ v.idle[2] + b[2] <= x.leaving[2]
        BY <1>4, <1>5, <2>1, <2>4 DEF Empties, TakesAlong, InPosition
    <2>8. asked[1] <= x.leaving[1] /\ asked[2] <= x.leaving[2]
        BY <1>2, <2>7 DEF Plus
    <2> QED BY <2>5, <2>6, <2>8 DEF AllPulled, asked, v
<1> QED BY <1>3, <1>6, <1>7 DEF v

(* It is paid in full.                                                     *)
LEMMA AllIsPaid ==
    ASSUME PulseInv, ~(kind = "Kyber" /\ BelowInterval), NEW w \in PulledByRootVault(vaults, AllOf(vaults))
    PROVE  InPosition(w) = Zero /\ Value(w) = Value(vaults) - Amount(AllOf(vaults))
PROOF
<1> DEFINE asked == AllOf(vaults)
<1>1. Market /\ Rested(vaults) /\ Sound(vaults) /\ vaults.leaving = Zero
    BY DEF PulseInv, Rested
<1>2. asked \in Pairs
    BY <1>1, AllIsAtHand
<1>3. PICK x : Pulled(vaults, asked, x) /\ w = Settle(x, asked)
    BY <1>1, <1>2, WithdrawalIs
<1>4. AllPulled(vaults, x)
    BY <1>3, SecondPullTakesAll
<1> HIDE DEF asked
<1>5. Sound(x) /\ x.leaving \in Pairs
    BY <1>4 DEF AllPulled, Sound, Held, Holdings
<1>6. Lesser(x.leaving, asked) = asked
    BY <1>2, <1>4, <1>5, LesserIs DEF AllPulled, asked
<1>7. /\ Sound(w) /\ w.nft = x.nft /\ w.positions = x.positions /\ w.leaving = Zero
      /\ Worth(w) = Worth(x) - Amount(Lesser(x.leaving, asked))
    BY <1>2, <1>3, <1>5, SettledIs
<1>8. InPosition(w) = Zero
    BY <1>4, <1>7 DEF AllPulled, InPosition, HasPosition, Current
<1>9. Value(w) = Value(vaults) - Amount(asked)
    BY <1>1, <1>4, <1>6, <1>7, ValueAtRest DEF AllPulled
<1> QED BY <1>8, <1>9 DEF asked

(* And the withdrawal goes through.                                        *)
LEMMA AllCanBeAsked ==
    ASSUME PulseInv, FarmsInUse, FarmKeyMatches
    PROVE  PulledByRootVault(vaults, AllOf(vaults)) # {}
PROOF
<1> DEFINE v == vaults
           asked == AllOf(v)
           rest == Minus(asked, AtHand(v, asked))
           first == [v EXCEPT !.idle = Minus(@, AtHand(v, asked)), !.leaving = AtHand(v, asked)]
<1>1. Market /\ Rested(v) /\ Sound(v) /\ v \in Holdings
    BY DEF PulseInv, Rested, Sound, Held
<1>2. rest = InPosition(v) /\ rest \in Pairs /\ asked \in Pairs
    BY <1>1, AllIsAtHand, InPositionIsPair DEF Sound
<1>3. first = FromAtHand(v, asked)
    BY <1>1 DEF FromAtHand, WithBalances, Holdings
<1>4. /\ Sound(first) /\ first.nft = v.nft /\ first.stakedIn = v.stakedIn
    BY <1>1, <1>2, <1>3, FirstIsSound
<1>5. PICK x : x \in IF rest = Zero THEN {first} ELSE VaultPull(first, "rootVault", rest)
    <2>1. CASE rest = Zero
        BY <2>1
    <2>2. CASE rest # Zero
        <3> HIDE DEF first, rest
        <3>1. HasPosition(first)
            BY <1>2, <1>4, <2>2 DEF InPosition, HasPosition
        <3>2. KeyMatches(first)
            BY <1>4 DEF FarmKeyMatches, KeyMatches, v
        <3>3. kind \in {"UniV3", "Camelot"} => first.stakedIn = NoFarm
            BY <1>4 DEF FarmsInUse, Plain, v
        <3>4. kind = "QuickSwap" => farm \in Farms
            BY DEF FarmsInUse
        <3>5. "rootVault" \in Place
            BY DEF Place
        <3>6. VaultPull(first, "rootVault", rest) # {}
            BY <1>1, <1>2, <1>4, <3>1, <3>2, <3>3, <3>4, <3>5, VaultPullGoes
        <3> QED BY <2>2, <3>6
    <2> QED BY <2>1, <2>2
<1>6. Settle(x, asked) \in PulledByRootVault(v, asked)
    BY <1>5 DEF PulledByRootVault, Then, AtHand, Settle
<1> QED BY <1>6

(* FarmsInUse holds in every state too: the strategies of the AMMs without *)
(* a farm never stake, and QuickSwap's always has a key to open a farming  *)
(* position with.                                                          *)
THEOREM PulseFarmsAreInUse == Spec => []FarmsInUse
PROOF
<1>1. Init => FarmsInUse
    BY InitFarms
<1>2. FarmsInUse /\ [Next]_vars => FarmsInUse'
    BY FarmsStayInUse
<1> QED BY <1>1, <1>2, PTL DEF Spec

(* A holder who owns everything can take it in one withdrawal, which goes  *)
(* through and leaves fees and rewards only, at every tick, staked or not, *)
(* unless the farm key was changed under the position or Kyber's tick is   *)
(* below the interval.                                                     *)
THEOREM PulseWithdrawalsTakeAll == Spec => []WithdrawalTakesAll
PROOF
<1>1. PulseInv /\ FarmsInUse => WithdrawalTakesAll
    <2> SUFFICES ASSUME PulseInv, FarmsInUse, FarmKeyMatches, ~(kind = "Kyber" /\ BelowInterval)
                 PROVE  LET results == PulledByRootVault(vaults, AllOf(vaults))
                        IN  /\ results # {}
                            /\ \A v \in results : /\ InPosition(v) = Zero
                                                  /\ Value(v) = Value(vaults) - Amount(AllOf(vaults))
        BY DEF WithdrawalTakesAll, AllOf
    <2> QED BY AllCanBeAsked, AllIsPaid
<1> QED BY <1>1, PulseIsSound, PulseFarmsAreInUse, PTL
=============================================================================
