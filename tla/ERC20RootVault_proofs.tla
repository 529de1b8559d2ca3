------------------------ MODULE ERC20RootVault_proofs ------------------------
(***************************************************************************)
(* For every set of tokens and users and every fee, limit, price and       *)
(* amount: the books of a root vault balance, and deposits, withdrawals    *)
(* and fees keep to what holders of LP tokens may rely on.                 *)
(***************************************************************************)
EXTENDS ERC20RootVault, Sums, TLAPS

-----------------------------------------------------------------------------
(* Arithmetic.                                                             *)

(* FullMath.mulDiv of natural numbers is a natural number, the greatest    *)
(* whose multiple of c does not exceed the product.                        *)
LEMMA MulDivFloor ==
  ASSUME NEW a \in Nat, NEW b \in Nat, NEW c \in Nat \ {0}
  PROVE  /\ mulDiv(a, b, c) \in Nat
         /\ mulDiv(a, b, c) * c <= a * b
         /\ a * b < (mulDiv(a, b, c) + 1) * c
<1>1. a * b \in Nat
  BY SMT
<1>2. ASSUME NEW n \in Nat
      PROVE  n \div c \in Nat /\ (n \div c) * c <= n /\ n < (n \div c + 1) * c
  BY SMT
<1> QED BY <1>1, <1>2 DEF mulDiv

LEMMA MulDivZero == ASSUME NEW b \in Nat, NEW c \in Nat \ {0} PROVE mulDiv(0, b, c) = 0
<1>1. 0 * b = 0 /\ 0 \div c = 0
  BY SMT
<1> QED BY <1>1 DEF mulDiv

(* A share of at most the whole is at most the whole.                      *)
LEMMA MulDivPart ==
  ASSUME NEW a \in Nat, NEW b \in Nat, NEW c \in Nat \ {0}, a <= c
  PROVE  mulDiv(a, b, c) <= b
<1>1. a * b <= c * b
  BY SMT
<1>2. mulDiv(a, b, c) \in Nat /\ mulDiv(a, b, c) * c <= a * b
  BY MulDivFloor
<1>3. ASSUME NEW x \in Nat, x * c <= c * b PROVE x <= b
  BY <1>3, SMT
<1>4. mulDiv(a, b, c) * c \in Int /\ a * b \in Int /\ c * b \in Int
  BY <1>2
<1> QED BY <1>1, <1>2, <1>3, <1>4

LEMMA LeastNat ==
  ASSUME NEW a \in Nat, NEW b \in Nat
  PROVE  /\ Least(a, b) \in Nat /\ Least(a, b) <= a /\ Least(a, b) <= b
         /\ Least(a, b) \in {a, b}
BY DEF Least

(* Amounts of all tokens.                                                  *)
LEMMA PlusType ==
  ASSUME NEW f \in TokenAmounts, NEW g \in TokenAmounts
  PROVE  Plus(f, g) \in TokenAmounts /\ \A t \in Token : Plus(f, g)[t] = f[t] + g[t]
BY DEF TokenAmounts, Plus

LEMMA MinusType ==
  ASSUME NEW f \in TokenAmounts, NEW g \in TokenAmounts, \A t \in Token : g[t] <= f[t]
  PROVE  Minus(f, g) \in TokenAmounts /\ \A t \in Token : Minus(f, g)[t] = f[t] - g[t]
BY DEF TokenAmounts, Minus

LEMMA NoTokensType == NoTokens \in TokenAmounts /\ \A t \in Token : NoTokens[t] = 0
BY DEF TokenAmounts, NoTokens

LEMMA Scales ==
  /\ DENOMINATOR \in Nat \ {0} /\ YEAR \in Nat \ {0} /\ D18 \in Nat \ {0} /\ Q96 \in Nat \ {0}
  /\ AaveAPY \in Nat /\ Wealth \in Nat
  /\ \A t \in Token : PullExistential[t] \in Nat \ {0}
BY ScaleAssumption

LEMMA FiniteSets1 == IsFiniteSet(User) /\ IsFiniteSet(Account) /\ IsFiniteSet(Treasury)
<1>1. IsFiniteSet(Treasury)
  <2>1. IsFiniteSet({StrategyTreasury})
    BY FS_Singleton
  <2>2. IsFiniteSet({StrategyTreasury} \cup {ProtocolTreasury})
    BY <2>1, FS_AddElement
  <2>3. IsFiniteSet(({StrategyTreasury} \cup {ProtocolTreasury}) \cup {PerformanceTreasury})
    BY <2>2, FS_AddElement
  <2>4. ({StrategyTreasury} \cup {ProtocolTreasury}) \cup {PerformanceTreasury} = Treasury
    BY DEF Treasury
  <2> QED BY <2>3, <2>4
<1>2. IsFiniteSet(User \cup Treasury)
  BY <1>1, AccountAssumption, FS_Union
<1>3. IsFiniteSet((User \cup Treasury) \cup {Locked})
  BY <1>2, FS_AddElement
<1> QED BY <1>1, <1>3, AccountAssumption DEF Account

-----------------------------------------------------------------------------
(* The invariant.                                                          *)

(* One token over all wallets.                                             *)
WalletOf(t) == [u \in User |-> wallet[u][t]]

SupplyAdds == totalSupply = Total(balanceOf, Account)
TokensAdd ==
    \A t \in Token :
        Total(WalletOf(t), User) + Holdings[t] = Wealth * Cardinality(User) + yielded[t]
CacheIsBacked == \A t \in Token : tvls[t] <= aToken[t]

(* What the limit counts is what was paid out at this timestamp, although  *)
(* the counter of an earlier timestamp stays in storage.                   *)
CountedIsPaid == paidOut = WithdrawnSoFar

IInv == TypeOK /\ SupplyAdds /\ TokensAdd /\ CacheIsBacked /\ FirstDepositStaysLocked
            /\ CountedIsPaid

LEMMA BooksAreTotals ==
  /\ IInv => AccountsBalance
  /\ TypeOK => (SupplyIsSumOfBalances <=> SupplyAdds)
<1>1. SupplyIsSumOfBalances <=> SupplyAdds
  BY DEF SupplyIsSumOfBalances, SupplyAdds, Total
<1>2. TokensAdd => TokensConserved
  <2>1. ASSUME NEW t \in Token
        PROVE  MapThenSumSet(LAMBDA u : wallet[u][t], User) = Total(WalletOf(t), User)
    BY FiniteSets1, TotalOfField DEF WalletOf
  <2> QED BY <2>1 DEF TokensAdd, TokensConserved
<1>3. TypeOK /\ CacheIsBacked => MinTvlIsBacked
  BY DEF TypeOK, TokenAmounts, CacheIsBacked, MinTvlIsBacked, MinTvl, Plus
<1> QED BY <1>1, <1>2, <1>3 DEF IInv, AccountsBalance

(* The parts of TypeOK one by one.                                         *)
LEMMA Types ==
  TypeOK => /\ balanceOf \in [Account -> Nat] /\ totalSupply \in Nat
            /\ lastFeeCharge \in Nat /\ withdrawnAt \in Nat /\ tvlsAt \in Nat
            /\ lastFeeCharge <= now /\ withdrawnAt <= now /\ tvlsAt <= now
            /\ lpPriceHighWaterMark \in Nat /\ now \in Nat
            /\ rootIdle \in TokenAmounts /\ zero \in TokenAmounts /\ aaveIdle \in TokenAmounts
            /\ aToken \in TokenAmounts /\ tvls \in TokenAmounts /\ yielded \in TokenAmounts
            /\ totalWithdrawn \in TokenAmounts /\ paidOut \in TokenAmounts
            /\ wallet \in [User -> TokenAmounts] /\ gov \in GovType
BY DEF TypeOK

LEMMA GovTypes ==
  gov \in GovType => /\ gov.managementFee \in Nat /\ gov.protocolFee \in Nat
                     /\ gov.performanceFee \in Nat /\ gov.managementFeeChargeDelay \in Nat
                     /\ gov.tokenLimit \in Nat /\ gov.tokenLimitPerAddress \in Nat
                     /\ gov.withdrawLimit \in TokenAmounts
BY DEF GovType

-----------------------------------------------------------------------------
(* Tvl and LP amounts.                                                     *)

LEMMA AaveFactorNat == ASSUME TypeOK PROVE AaveFactor \in Nat
<1>1. now - tvlsAt \in Nat
  BY Types
<1>2. mulDiv(AaveAPY, now - tvlsAt, YEAR) \in Nat
  BY <1>1, Scales, MulDivFloor
<1> QED BY <1>2, Scales DEF AaveFactor

LEMMA TvlTypes ==
  ASSUME TypeOK
  PROVE  /\ MinTvl \in TokenAmounts /\ MaxTvl \in TokenAmounts
         /\ \A t \in Token : MinTvl[t] = zero[t] + tvls[t]
<1>1. MinTvl \in TokenAmounts /\ \A t \in Token : MinTvl[t] = zero[t] + tvls[t]
  BY Types, PlusType DEF MinTvl
<1>2. AaveFactor \in Nat
  BY AaveFactorNat
<1>3. ASSUME NEW t \in Token PROVE zero[t] + mulDiv(AaveFactor, tvls[t], DENOMINATOR) \in Nat
  <2>1. zero[t] \in Nat /\ tvls[t] \in Nat
    BY Types DEF TokenAmounts
  <2>2. mulDiv(AaveFactor, tvls[t], DENOMINATOR) \in Nat
    BY <1>2, <2>1, Scales, MulDivFloor
  <2> QED BY <2>1, <2>2
<1> QED BY <1>1, <1>3 DEF MaxTvl, TokenAmounts

(* The LP amount of a deposit is a natural number: the greatest amount     *)
(* when there is nothing to measure it by, and no more than the pro-rata   *)
(* share of any token that is not dust.                                    *)
LEMMA LpAmountFloor ==
  ASSUME NEW tvl \in TokenAmounts, NEW amounts \in TokenAmounts, NEW supply \in Nat
  PROVE  /\ LpAmount(tvl, amounts, supply) \in Nat
         /\ supply = 0 => \A t \in Token : amounts[t] <= LpAmount(tvl, amounts, supply)
         /\ supply # 0 => \A t \in Significant(tvl) :
                              LpAmount(tvl, amounts, supply) * tvl[t] <= amounts[t] * supply
<1>1. CASE supply = 0 \/ Significant(tvl) = {}
  <2>1. LpAmount(tvl, amounts, supply) = Max({amounts[t] : t \in Token})
    BY <1>1 DEF LpAmount
  <2>2. \A t \in Token : amounts[t] \in Int
    BY DEF TokenAmounts
  <2>3. IsFiniteSet(Token) /\ Token # {}
    BY TokenAssumption
  <2>4. /\ \E m \in Token : Max({amounts[t] : t \in Token}) = amounts[m]
        /\ \A t \in Token : amounts[t] <= Max({amounts[u] : u \in Token})
    BY <2>2, <2>3, MaxOfValues
  <2> QED BY <1>1, <2>1, <2>4 DEF TokenAmounts
<1>2. CASE supply # 0 /\ Significant(tvl) # {}
  <2> DEFINE share == [t \in Significant(tvl) |-> mulDiv(amounts[t], supply, tvl[t])]
  <2>1. LpAmount(tvl, amounts, supply) = Min({share[t] : t \in Significant(tvl)})
    <3>1. {share[t] : t \in Significant(tvl)} =
              {mulDiv(amounts[t], supply, tvl[t]) : t \in Significant(tvl)}
      OBVIOUS
    <3> HIDE DEF share
    <3> QED BY <1>2, <3>1 DEF LpAmount
  <2>2. ASSUME NEW t \in Significant(tvl)
        PROVE  share[t] \in Nat /\ tvl[t] \in Nat \ {0} /\ share[t] * tvl[t] <= amounts[t] * supply
               /\ amounts[t] \in Nat
    <3>1. t \in Token /\ tvl[t] \in Nat /\ tvl[t] >= PullExistential[t] /\ amounts[t] \in Nat
      BY DEF Significant, TokenAmounts
    <3>2. tvl[t] \in Nat \ {0}
      BY <3>1, Scales
    <3> QED BY <3>1, <3>2, MulDivFloor
  <2>3. IsFiniteSet(Significant(tvl))
    <3>1. Significant(tvl) \in SUBSET Token
      BY DEF Significant
    <3> QED BY <3>1, TokenAssumption, FS_Subset
  <2> HIDE DEF share
  <2> DEFINE lp == Min({share[t] : t \in Significant(tvl)})
  <2>4. /\ \E m \in Significant(tvl) : lp = share[m]
        /\ \A t \in Significant(tvl) : lp <= share[t]
    <3>1. \A t \in Significant(tvl) : share[t] \in Int
      BY <2>2
    <3> QED BY <1>2, <2>3, <3>1, MinOfValues
  <2> HIDE DEF lp
  <2>5. lp \in Nat
    BY <2>2, <2>4
  <2>6. ASSUME NEW t \in Significant(tvl) PROVE lp * tvl[t] <= amounts[t] * supply
    <3>1. ASSUME NEW a \in Nat, NEW b \in Nat, NEW c \in Nat, a <= b PROVE a * c <= b * c
      BY <3>1, SMT
    <3>2. lp * tvl[t] <= share[t] * tvl[t]
      BY <2>2, <2>4, <2>5, <3>1
    <3>3. /\ lp * tvl[t] \in Int /\ share[t] * tvl[t] \in Int /\ amounts[t] * supply \in Int
      BY <2>2, <2>5
    <3> QED BY <2>2, <3>2, <3>3
  <2> QED BY <1>2, <2>1, <2>5, <2>6 DEF lp
<1> QED BY <1>1, <1>2

(* What is really taken for a deposit.                                     *)
LEMMA NormalizedType ==
  ASSUME NEW tvl \in TokenAmounts, NEW amounts \in TokenAmounts, NEW supply \in Nat,
         NEW lpAmount \in Nat
  PROVE  /\ NormalizedAmounts(tvl, amounts, lpAmount, supply) \in TokenAmounts
         /\ supply = 0 => NormalizedAmounts(tvl, amounts, lpAmount, supply) = amounts
<1>1. CASE supply = 0 \/ Significant(tvl) = {}
  BY <1>1 DEF NormalizedAmounts
<1>2. CASE supply # 0 /\ Significant(tvl) # {}
  <2>1. ASSUME NEW t \in Token PROVE Least(mulDiv(tvl[t], lpAmount, supply), amounts[t]) \in Nat
    <3>1. tvl[t] \in Nat /\ amounts[t] \in Nat /\ supply \in Nat \ {0}
      BY <1>2 DEF TokenAmounts
    <3> QED BY <3>1, MulDivFloor, LeastNat
  <2> QED BY <1>2, <2>1 DEF NormalizedAmounts, TokenAmounts
<1> QED BY <1>1, <1>2

-----------------------------------------------------------------------------
(* Fees.                                                                   *)

(* The value of the vault in the base token is a natural number.           *)
LEMMA TvlToken0Nat ==
  ASSUME NEW tvl \in TokenAmounts, NEW px \in OraclePrices
  PROVE  TvlToken0(tvl, px) \in Nat
<1> DEFINE Others == Token \ {BaseToken}
           f == [t \in Others |-> mulDiv(tvl[t], Q96, px[t])]
           Solves(g) == g = [s \in SUBSET Others |-> IF s = {} THEN 0
                                 ELSE mulDiv(tvl[Pick(s)], Q96, px[Pick(s)]) + g[s \ {Pick(s)}]]
<1>1. IsFiniteSet(Others)
  BY TokenAssumption, FS_RemoveElement
<1>2. ASSUME NEW t \in Token PROVE tvl[t] \in Nat /\ px[t] \in Nat \ {0}
  BY InputAssumption DEF TokenAmounts
<1>3. \A t \in Others : f[t] \in Nat
  BY <1>2, Scales, MulDivFloor
<1>4. MapThenSumSet(LAMBDA t : mulDiv(tvl[t], Q96, px[t]), Others)
        = (CHOOSE g : Solves(g))[Others]
  BY DEF MapThenSumSet, MapThenFoldSet, Pick
<1>5. ASSUME NEW g PROVE Solves(g) <=> IsSum(g, f, Others)
  <2>1. \A s \in SUBSET Others : s # {} => f[Pick(s)] = mulDiv(tvl[Pick(s)], Q96, px[Pick(s)])
    <3>1. \A s \in SUBSET Others : s # {} => Pick(s) \in Others
      BY PickIn
    <3> QED BY <3>1
  <2> HIDE DEF f, Others
  <2> QED BY <2>1 DEF IsSum
<1> HIDE DEF f, Others, Solves
<1>6. Total(f, Others) = (CHOOSE g : Solves(g))[Others]
  <2>1. \E g : Solves(g)
    BY <1>1, <1>5, SumExists
  <2>2. Solves(CHOOSE g : Solves(g))
    BY <2>1, Zenon
  <2>3. IsSum(CHOOSE g : Solves(g), f, Others)
    BY <1>5, <2>2, Zenon
  <2> QED BY <1>1, <2>3, SumValue
<1>7. Total(f, Others) \in Nat
  BY <1>1, <1>3, TotalNat
<1>8. TvlToken0(tvl, px) = tvl[BaseToken] + Total(f, Others)
  BY <1>4, <1>6 DEF TvlToken0, Others
<1> QED BY <1>2, <1>7, <1>8, TokenAssumption

(* The amounts minted as fees, and the fee state they leave.               *)
FeesOf(px) == ChargeFees(MinTvl, totalSupply, px)

LEMMA FeesType ==
  ASSUME TypeOK, NEW px \in OraclePrices
  PROVE  /\ FeesOf(px).management \in Nat /\ FeesOf(px).protocol \in Nat
         /\ FeesOf(px).performance \in Nat
         /\ FeesOf(px).highWaterMark \in Nat
         /\ FeesOf(px).highWaterMark >= lpPriceHighWaterMark
         /\ FeesOf(px).chargedAt \in 0..now
         /\ FeesOf(px).performance > 0 =>
                FeesOf(px).highWaterMark > lpPriceHighWaterMark /\ lpPriceHighWaterMark > 0
         /\ (/\ FeesOf(px).chargedAt = lastFeeCharge
             /\ FeesOf(px).highWaterMark = lpPriceHighWaterMark) =>
                /\ FeesOf(px).management = 0 /\ FeesOf(px).protocol = 0
                /\ FeesOf(px).performance = 0
<1> DEFINE charged == FeesDue /\ totalSupply > 0 /\ Significant(MinTvl) # {}
           lpPrice == mulDiv(TvlToken0(MinTvl, px), D18, totalSupply)
           newHigh == charged /\ gov.performanceFee > 0 /\ NewHigh(lpPrice)
<1>1. FeesOf(px) =
        [management  |-> IF charged THEN PeriodFee(gov.managementFee, totalSupply) ELSE 0,
         protocol    |-> IF charged THEN PeriodFee(gov.protocolFee, totalSupply) ELSE 0,
         performance |-> IF newHigh /\ lpPriceHighWaterMark > 0
                         THEN PerformanceFee(lpPrice, totalSupply) ELSE 0,
         highWaterMark |-> IF newHigh THEN lpPrice ELSE lpPriceHighWaterMark,
         chargedAt     |-> IF FeesDue THEN now ELSE lastFeeCharge]
  BY DEF FeesOf, ChargeFees
<1>2. /\ totalSupply \in Nat /\ lpPriceHighWaterMark \in Nat /\ now \in Nat
      /\ lastFeeCharge \in Nat /\ lastFeeCharge <= now
      /\ gov.managementFee \in Nat /\ gov.protocolFee \in Nat /\ gov.performanceFee \in Nat
  BY Types, GovTypes
<1>3. Elapsed \in Nat
  BY <1>2 DEF Elapsed
<1>4. ASSUME NEW rate \in Nat
      PROVE  /\ PeriodFee(rate, totalSupply) \in Nat
             /\ Elapsed = 0 => PeriodFee(rate, totalSupply) = 0
  <2>1. YEAR * DENOMINATOR \in Nat \ {0}
    BY Scales
  <2> DEFINE owed == rate * Elapsed
             base == YEAR * DENOMINATOR
  <2>2. owed \in Nat /\ (Elapsed = 0 => owed = 0)
    BY <1>3
  <2>3. PeriodFee(rate, totalSupply) = mulDiv(owed, totalSupply, base)
    BY DEF PeriodFee
  <2>4. base \in Nat \ {0}
    BY <2>1
  <2> HIDE DEF owed, base
  <2>5. mulDiv(owed, totalSupply, base) \in Nat
    BY <1>2, <2>2, <2>4, MulDivFloor
  <2>6. Elapsed = 0 => mulDiv(owed, totalSupply, base) = 0
    BY <1>2, <2>2, <2>4, MulDivZero
  <2> QED BY <2>3, <2>5, <2>6
<1>5. charged => lpPrice \in Nat
  BY <1>2, TvlTypes, TvlToken0Nat, Scales, MulDivFloor
<1> HIDE DEF lpPrice
<1>6. newHigh => lpPrice \in Nat /\ lpPrice > lpPriceHighWaterMark
  BY <1>5 DEF NewHigh
<1>7. newHigh /\ lpPriceHighWaterMark > 0 => PerformanceFee(lpPrice, totalSupply) \in Nat
  <2> SUFFICES ASSUME newHigh, lpPriceHighWaterMark > 0
               PROVE  PerformanceFee(lpPrice, totalSupply) \in Nat
    OBVIOUS
  <2>1. lpPrice - lpPriceHighWaterMark \in Nat /\ lpPriceHighWaterMark \in Nat \ {0}
    BY <1>2, <1>6
  <2>2. mulDiv(totalSupply, lpPrice - lpPriceHighWaterMark, lpPriceHighWaterMark) \in Nat
    BY <1>2, <2>1, MulDivFloor
  <2> QED BY <1>2, <2>2, Scales, MulDivFloor DEF PerformanceFee
<1> HIDE DEF newHigh
<1>8. ASSUME FeesOf(px).chargedAt = lastFeeCharge,
             FeesOf(px).highWaterMark = lpPriceHighWaterMark
      PROVE  /\ FeesOf(px).management = 0 /\ FeesOf(px).protocol = 0
             /\ FeesOf(px).performance = 0
  <2>1. charged => Elapsed = 0
    BY <1>1, <1>2, <1>8 DEF Elapsed
  <2>2. ~newHigh
    BY <1>1, <1>2, <1>6, <1>8
  <2> HIDE DEF charged
  <2> QED BY <1>1, <1>2, <1>4, <2>1, <2>2
<1> HIDE DEF charged
<1>9. /\ FeesOf(px).management \in Nat /\ FeesOf(px).protocol \in Nat
      /\ FeesOf(px).performance \in Nat
  BY <1>1, <1>2, <1>4, <1>7
<1>10. /\ FeesOf(px).highWaterMark \in Nat
       /\ FeesOf(px).highWaterMark >= lpPriceHighWaterMark
       /\ FeesOf(px).chargedAt \in 0..now
  BY <1>1, <1>2, <1>6
<1>11. FeesOf(px).performance > 0 =>
            FeesOf(px).highWaterMark > lpPriceHighWaterMark /\ lpPriceHighWaterMark > 0
  BY <1>1, <1>6
<1> QED BY <1>8, <1>9, <1>10, <1>11

(* h is f with amounts credited to an account, or to three that need not  *)
(* be different, as the treasuries need not be.                            *)
Credit(h, f, S, a, n) == \A x \in S : h[x] = f[x] + (IF x = a THEN n ELSE 0)
Credits(h, f, S, a1, n1, a2, n2, a3, n3) ==
    \A x \in S : h[x] = f[x] + (IF x = a1 THEN n1 ELSE 0) + (IF x = a2 THEN n2 ELSE 0)
                            + (IF x = a3 THEN n3 ELSE 0)

(* The total rises by what is credited.                                    *)
LEMMA CreditOne ==
  ASSUME NEW S, IsFiniteSet(S), NEW f, \A x \in S : f[x] \in Int, NEW a \in S, NEW n \in Int,
         NEW h, Credit(h, f, S, a, n)
  PROVE  Total(h, S) = Total(f, S) + n
<1>1. /\ \A x \in S : f[x] \in Int /\ h[x] \in Int
      /\ \A x \in S \ {a} : h[x] = f[x]
  BY DEF Credit
<1>2. Total(h, S) = Total(f, S) + (h[a] - f[a])
  BY <1>1, TotalChange
<1>3. h[a] - f[a] = n
  BY DEF Credit
<1> QED BY <1>2, <1>3

LEMMA CreditThree ==
  ASSUME NEW S, IsFiniteSet(S), NEW f \in [S -> Nat],
         NEW a1 \in S, NEW a2 \in S, NEW a3 \in S, NEW n1 \in Nat, NEW n2 \in Nat, NEW n3 \in Nat,
         NEW h, Credits(h, f, S, a1, n1, a2, n2, a3, n3)
  PROVE  Total(h, S) = Total(f, S) + (n1 + n2 + n3) /\ \A x \in S : h[x] \in Nat
<1> DEFINE b1 == [x \in S |-> f[x] + (IF x = a1 THEN n1 ELSE 0)]
           b2 == [x \in S |-> b1[x] + (IF x = a2 THEN n2 ELSE 0)]
<1>1. /\ Credit(b1, f, S, a1, n1) /\ Credit(b2, b1, S, a2, n2) /\ Credit(h, b2, S, a3, n3)
      /\ \A x \in S : f[x] \in Int /\ b1[x] \in Int /\ b2[x] \in Int /\ h[x] \in Nat
  BY DEF Credit, Credits
<1> HIDE DEF b1, b2
<1>2. Total(b1, S) = Total(f, S) + n1
  BY <1>1, CreditOne
<1>3. Total(b2, S) = Total(b1, S) + n2
  BY <1>1, CreditOne
<1>4. Total(h, S) = Total(b2, S) + n3
  BY <1>1, CreditOne
<1>5. Total(f, S) \in Int
  BY TotalInt
<1> QED BY <1>1, <1>2, <1>3, <1>4, <1>5

(* Minting the fees keeps the balances typed and raises their total by     *)
(* what is minted, to Locked and to users nothing.                         *)
LEMMA FeeBalances ==
  ASSUME TypeOK, NEW px \in OraclePrices
  PROVE  /\ FeesMinted(FeesOf(px)) \in Nat
         /\ BalancesWithFees(FeesOf(px)) \in [Account -> Nat]
         /\ Total(BalancesWithFees(FeesOf(px)), Account)
                = Total(balanceOf, Account) + FeesMinted(FeesOf(px))
         /\ \A a \in User \cup {Locked} : BalancesWithFees(FeesOf(px))[a] = balanceOf[a]
<1> DEFINE fees == FeesOf(px)
<1>1. /\ fees.management \in Nat /\ fees.protocol \in Nat /\ fees.performance \in Nat
      /\ balanceOf \in [Account -> Nat]
      /\ StrategyTreasury \in Account /\ ProtocolTreasury \in Account
      /\ PerformanceTreasury \in Account
  BY FeesType, Types DEF Account, Treasury
<1> HIDE DEF fees
<1>2. BalancesWithFees(fees) = [a \in Account |-> balanceOf[a]
            + (IF a = StrategyTreasury THEN fees.management ELSE 0)
            + (IF a = ProtocolTreasury THEN fees.protocol ELSE 0)
            + (IF a = PerformanceTreasury THEN fees.performance ELSE 0)]
  BY DEF BalancesWithFees
<1> DEFINE b == BalancesWithFees(fees)
<1>3. /\ b \in [Account -> Nat]
      /\ Total(b, Account) = Total(balanceOf, Account)
            + (fees.management + fees.protocol + fees.performance)
  <2>1. PICK m \in Nat, p \in Nat, q \in Nat :
            m = fees.management /\ p = fees.protocol /\ q = fees.performance
    BY <1>1
  <2>2. /\ b = [a \in Account |-> b[a]]
        /\ Credits(b, balanceOf, Account, StrategyTreasury, m, ProtocolTreasury, p,
                   PerformanceTreasury, q)
    BY <1>2, <2>1 DEF Credits
  <2> HIDE DEF b
  <2>3. Total(b, Account) = Total(balanceOf, Account) + (m + p + q)
        /\ \A a \in Account : b[a] \in Nat
    BY <1>1, <2>2, FiniteSets1, CreditThree
  <2> QED BY <2>1, <2>2, <2>3
<1>4. ASSUME NEW a \in User \cup {Locked} PROVE BalancesWithFees(fees)[a] = balanceOf[a]
  <2>1. a \in Account /\ a \notin Treasury
    BY AccountAssumption DEF Account
  <2>2. a # StrategyTreasury /\ a # ProtocolTreasury /\ a # PerformanceTreasury
    BY <2>1 DEF Treasury
  <2> QED BY <1>1, <1>2, <2>1, <2>2
<1>5. FeesMinted(fees) \in Nat
  BY <1>1 DEF FeesMinted
<1> QED BY <1>3, <1>4, <1>5 DEF FeesMinted, fees

(* Without LP tokens there is nothing to charge.                           *)
LEMMA NoFeesAtFirst ==
  ASSUME TypeOK, totalSupply = 0, NEW px \in OraclePrices
  PROVE  FeesMinted(FeesOf(px)) = 0
<1>1. /\ FeesOf(px).management = 0 /\ FeesOf(px).protocol = 0 /\ FeesOf(px).performance = 0
  BY DEF FeesOf, ChargeFees
<1> QED BY <1>1 DEF FeesMinted

(* In a step that settles fees, the treasuries receive exactly those.      *)
LEMMA FeesOfStep ==
  ASSUME TypeOK, NEW px \in OraclePrices,
         lastFeeCharge' = FeesOf(px).chargedAt,
         lpPriceHighWaterMark' = FeesOf(px).highWaterMark,
         \A a \in Treasury : balanceOf'[a] = BalancesWithFees(FeesOf(px))[a]
  PROVE  /\ FeesInStep = FeesMinted(FeesOf(px))
         /\ SupplyWithFees = totalSupply + FeesMinted(FeesOf(px))
<1> DEFINE fees == FeesOf(px)
           none == [a \in Treasury |-> 0]
           gain == [a \in Treasury |-> balanceOf'[a] - balanceOf[a]]
<1>1. /\ fees.management \in Nat /\ fees.protocol \in Nat /\ fees.performance \in Nat
      /\ balanceOf \in [Account -> Nat]
      /\ StrategyTreasury \in Treasury /\ ProtocolTreasury \in Treasury
      /\ PerformanceTreasury \in Treasury /\ Treasury \subseteq Account
  BY FeesType, Types DEF Account, Treasury
<1>2. (lastFeeCharge' = lastFeeCharge /\ lpPriceHighWaterMark' = lpPriceHighWaterMark)
            => FeesMinted(fees) = 0
  <2>1. (fees.chargedAt = lastFeeCharge /\ fees.highWaterMark = lpPriceHighWaterMark)
            => fees.management = 0 /\ fees.protocol = 0 /\ fees.performance = 0
    BY FeesType
  <2> HIDE DEF fees
  <2>2. lastFeeCharge' = fees.chargedAt /\ lpPriceHighWaterMark' = fees.highWaterMark
    BY DEF fees
  <2> QED BY <2>1, <2>2 DEF FeesMinted
<1>3. \A a \in Treasury : balanceOf'[a] = BalancesWithFees(fees)[a]
  OBVIOUS
<1> HIDE DEF fees
<1>4. PICK m \in Nat, p \in Nat, q \in Nat :
          m = fees.management /\ p = fees.protocol /\ q = fees.performance
  BY <1>1
<1>5. Credits(gain, none, Treasury, StrategyTreasury, m, ProtocolTreasury, p,
              PerformanceTreasury, q)
  <2>1. ASSUME NEW a \in Treasury
        PROVE  balanceOf'[a] - balanceOf[a] = none[a]
            + (IF a = StrategyTreasury THEN fees.management ELSE 0)
            + (IF a = ProtocolTreasury THEN fees.protocol ELSE 0)
            + (IF a = PerformanceTreasury THEN fees.performance ELSE 0)
    <3>1. a \in Account /\ balanceOf[a] \in Nat
      BY <1>1
    <3>2. balanceOf'[a] = balanceOf[a]
            + (IF a = StrategyTreasury THEN fees.management ELSE 0)
            + (IF a = ProtocolTreasury THEN fees.protocol ELSE 0)
            + (IF a = PerformanceTreasury THEN fees.performance ELSE 0)
      BY <1>3, <3>1 DEF BalancesWithFees
    <3> QED BY <1>1, <3>1, <3>2
  <2> QED BY <1>4, <2>1 DEF Credits
<1>6. none \in [Treasury -> Nat] /\ \A a \in Treasury : none[a] = 0
  OBVIOUS
<1> HIDE DEF none
<1>7. Total(gain, Treasury) = Total(none, Treasury) + FeesMinted(fees)
  <2> HIDE DEF gain
  <2>1. Total(gain, Treasury) = Total(none, Treasury) + (m + p + q)
    BY <1>1, <1>5, <1>6, FiniteSets1, CreditThree
  <2> QED BY <1>4, <2>1 DEF FeesMinted
<1>8. Total(none, Treasury) = 0 /\ FeesMinted(fees) \in Nat
  BY <1>1, <1>6, FiniteSets1, TotalZero DEF FeesMinted
<1>9. MapThenSumSet(LAMBDA a : balanceOf'[a] - balanceOf[a], Treasury) = FeesMinted(fees)
  <2>1. MapThenSumSet(LAMBDA a : balanceOf'[a] - balanceOf[a], Treasury) = Total(gain, Treasury)
    BY FiniteSets1, TotalOfDifference
  <2>2. Total(gain, Treasury) = FeesMinted(fees)
    <3> HIDE DEF gain
    <3> QED BY <1>7, <1>8
  <2> HIDE DEF gain
  <2> QED BY <2>1, <2>2, Zenon
<1>10. FeesInStep = FeesMinted(fees)
  BY <1>2, <1>9 DEF FeesInStep, ChargesFees
<1> QED BY <1>10 DEF SupplyWithFees, fees

-----------------------------------------------------------------------------
(* What a withdrawal pulls out of the subvaults.                           *)

LEMMA PullFacts ==
  ASSUME TypeOK, NEW want \in TokenAmounts, NEW pull, pull = PullAll(want)
  PROVE  /\ pull.actual \in TokenAmounts /\ pull.zero \in TokenAmounts
         /\ pull.aToken \in TokenAmounts /\ pull.tvls \in TokenAmounts
         /\ pull.tvlsAt \in 0..now
         /\ \A t \in Token :
                /\ pull.actual[t] <= want[t]
                /\ pull.zero[t] + pull.aToken[t] + pull.actual[t]
                        = rootIdle[t] + zero[t] + aToken[t]
                /\ CacheIsBacked => pull.tvls[t] <= pull.aToken[t]
                /\ CacheIsBacked /\ want[t] <= MinTvl[t] =>
                        want[t] <= pull.actual[t] + PullExistential[t]
<1> DEFINE fromZero == [t \in Token |-> Least(want[t], zero[t])]
           left == [t \in Token |-> IF want[t] > fromZero[t] + PullExistential[t]
                                    THEN want[t] - fromZero[t] ELSE 0]
           reachesAave == \E t \in Token : left[t] > 0
           fromAave == [t \in Token |-> IF reachesAave /\ tvls[t] # 0
                                        THEN Least(left[t], aToken[t]) ELSE 0]
           balance == Plus(rootIdle, Plus(fromZero, fromAave))
<1>1. pull = [actual |-> Actual(want, balance),
              zero   |-> Plus(Minus(zero, fromZero), RestToZero(want, balance)),
              aToken |-> Minus(aToken, fromAave),
              tvls   |-> IF reachesAave THEN Minus(aToken, fromAave) ELSE tvls,
              tvlsAt |-> IF reachesAave THEN now ELSE tvlsAt]
  BY DEF PullAll
<1>2. /\ rootIdle \in TokenAmounts /\ zero \in TokenAmounts /\ aToken \in TokenAmounts
      /\ tvls \in TokenAmounts /\ now \in Nat /\ tvlsAt \in 0..now
  BY DEF TypeOK
<1>3. ASSUME NEW t \in Token
      PROVE  /\ want[t] \in Nat /\ rootIdle[t] \in Nat /\ zero[t] \in Nat /\ aToken[t] \in Nat
             /\ tvls[t] \in Nat /\ PullExistential[t] \in Nat /\ MinTvl[t] = zero[t] + tvls[t]
  BY <1>2, Scales, TvlTypes DEF TokenAmounts
<1>4. ASSUME NEW t \in Token
      PROVE  /\ fromZero[t] \in Nat /\ fromZero[t] <= zero[t] /\ fromZero[t] <= want[t]
             /\ fromZero[t] \in {want[t], zero[t]}
  BY <1>3, LeastNat
<1> HIDE DEF fromZero
<1>5. ASSUME NEW t \in Token
      PROVE  /\ left[t] \in Nat /\ left[t] \in {0, want[t] - fromZero[t]}
             /\ left[t] = 0 => want[t] <= fromZero[t] + PullExistential[t]
  BY <1>3, <1>4
<1> HIDE DEF left
<1>6. ASSUME NEW t \in Token
      PROVE  /\ fromAave[t] \in Nat /\ fromAave[t] <= aToken[t]
             /\ left[t] > 0 /\ tvls[t] # 0 => fromAave[t] \in {left[t], aToken[t]}
  BY <1>3, <1>5, LeastNat
<1>7. fromZero \in TokenAmounts /\ fromAave \in TokenAmounts
  <2>1. fromZero = [t \in Token |-> Least(want[t], zero[t])]
    BY DEF fromZero
  <2>2. fromZero \in TokenAmounts
    BY <1>4, <2>1 DEF TokenAmounts
  <2> QED BY <1>6, <2>2 DEF TokenAmounts
<1> HIDE DEF fromAave, reachesAave
<1>8. /\ balance \in TokenAmounts
      /\ \A t \in Token : balance[t] = rootIdle[t] + (fromZero[t] + fromAave[t])
  BY <1>2, <1>7, PlusType
<1> HIDE DEF balance
<1>9. /\ pull.actual \in TokenAmounts
      /\ \A t \in Token : /\ pull.actual[t] <= want[t] /\ pull.actual[t] <= balance[t]
                          /\ pull.actual[t] \in {want[t], balance[t]}
  <2>1. ASSUME NEW t \in Token
        PROVE  /\ Least(want[t], balance[t]) \in Nat /\ Least(want[t], balance[t]) <= want[t]
               /\ Least(want[t], balance[t]) <= balance[t]
               /\ Least(want[t], balance[t]) \in {want[t], balance[t]}
    <3>1. want[t] \in Nat /\ balance[t] \in Nat
      BY <1>8 DEF TokenAmounts
    <3> QED BY <3>1, LeastNat
  <2>2. pull.actual = [t \in Token |-> Least(want[t], balance[t])]
    BY <1>1 DEF Actual
  <2> QED BY <2>1, <2>2 DEF TokenAmounts
<1>10. /\ Minus(zero, fromZero) \in TokenAmounts
       /\ \A t \in Token : Minus(zero, fromZero)[t] = zero[t] - fromZero[t]
  BY <1>2, <1>4, <1>7, MinusType
<1>11. /\ RestToZero(want, balance) \in TokenAmounts
       /\ \A t \in Token : RestToZero(want, balance)[t] = balance[t] - pull.actual[t]
  <2>1. RestToZero(want, balance) = Minus(balance, pull.actual)
    BY <1>1 DEF RestToZero
  <2> QED BY <1>8, <1>9, <2>1, MinusType
<1>12. /\ pull.zero \in TokenAmounts
       /\ \A t \in Token : pull.zero[t] = (zero[t] - fromZero[t]) + (balance[t] - pull.actual[t])
  <2>1. pull.zero = Plus(Minus(zero, fromZero), RestToZero(want, balance))
    BY <1>1
  <2> QED BY <1>10, <1>11, <2>1, PlusType
<1>13. /\ pull.aToken \in TokenAmounts
       /\ \A t \in Token : pull.aToken[t] = aToken[t] - fromAave[t]
  <2>1. pull.aToken = Minus(aToken, fromAave)
    BY <1>1
  <2> QED BY <1>2, <1>6, <1>7, <2>1, MinusType
<1>14. pull.tvls = IF reachesAave THEN pull.aToken ELSE tvls
  BY <1>1
<1>15. pull.tvls \in TokenAmounts /\ pull.tvlsAt \in 0..now
  BY <1>1, <1>2, <1>13, <1>14
<1>16. ASSUME NEW t \in Token
       PROVE  pull.zero[t] + pull.aToken[t] + pull.actual[t] = rootIdle[t] + zero[t] + aToken[t]
  <2>1. /\ pull.actual[t] \in Nat /\ fromZero[t] \in Nat /\ fromAave[t] \in Nat
        /\ balance[t] = rootIdle[t] + (fromZero[t] + fromAave[t])
        /\ pull.zero[t] = (zero[t] - fromZero[t]) + (balance[t] - pull.actual[t])
        /\ pull.aToken[t] = aToken[t] - fromAave[t]
    BY <1>4, <1>6, <1>8, <1>9, <1>12, <1>13 DEF TokenAmounts
  <2> QED BY <1>3, <2>1
<1>17. ASSUME NEW t \in Token, CacheIsBacked PROVE pull.tvls[t] <= pull.aToken[t]
  <2>1. ~reachesAave => fromAave[t] = 0
    BY DEF fromAave
  <2>2. tvls[t] <= aToken[t]
    BY <1>17 DEF CacheIsBacked
  <2>3. pull.aToken[t] \in Nat /\ pull.aToken[t] = aToken[t] - fromAave[t]
    BY <1>13 DEF TokenAmounts
  <2>4. pull.tvls[t] = IF reachesAave THEN pull.aToken[t] ELSE tvls[t]
    BY <1>14
  <2> QED BY <1>3, <2>1, <2>2, <2>3, <2>4
<1>18. ASSUME NEW t \in Token, CacheIsBacked, want[t] <= MinTvl[t]
       PROVE  want[t] <= pull.actual[t] + PullExistential[t]
  <2>1. /\ fromZero[t] \in Nat /\ fromAave[t] \in Nat
        /\ balance[t] = rootIdle[t] + (fromZero[t] + fromAave[t])
        /\ pull.actual[t] \in {want[t], balance[t]}
    BY <1>4, <1>6, <1>8, <1>9
  <2>2. CASE left[t] = 0
    BY <1>3, <1>5, <2>1, <2>2
  <2>3. CASE left[t] > 0
    <3>1. left[t] = want[t] - fromZero[t] /\ fromZero[t] = zero[t]
      BY <1>3, <1>4, <1>5, <2>3
    <3>2. tvls[t] <= aToken[t] /\ tvls[t] # 0 /\ left[t] <= tvls[t]
      BY <1>3, <1>18, <2>3, <3>1 DEF CacheIsBacked
    <3>3. fromAave[t] \in {left[t], aToken[t]}
      BY <1>6, <2>3, <3>2
    <3> QED BY <1>3, <2>1, <3>1, <3>2, <3>3
  <2> QED BY <1>5, <2>2, <2>3
<1> QED BY <1>9, <1>12, <1>13, <1>15, <1>16, <1>17, <1>18

-----------------------------------------------------------------------------
(* What the steps have in common.                                          *)

LEMMA HoldingsType ==
  ASSUME TypeOK, NEW t \in Token
  PROVE  /\ rootIdle[t] \in Nat /\ zero[t] \in Nat /\ aaveIdle[t] \in Nat /\ aToken[t] \in Nat
         /\ Holdings[t] = rootIdle[t] + zero[t] + aaveIdle[t] + aToken[t]
         /\ Holdings[t] \in Nat /\ yielded[t] \in Nat /\ Total(WalletOf(t), User) \in Int
<1>1. /\ rootIdle[t] \in Nat /\ zero[t] \in Nat /\ aaveIdle[t] \in Nat /\ aToken[t] \in Nat
      /\ yielded[t] \in Nat
  BY Types DEF TokenAmounts
<1>2. Holdings[t] = rootIdle[t] + zero[t] + aaveIdle[t] + aToken[t]
  BY DEF Holdings
<1>3. \A u \in User : WalletOf(t)[u] \in Int
  BY Types DEF WalletOf, TokenAmounts
<1>4. Total(WalletOf(t), User) \in Int
  BY <1>3, FiniteSets1, TotalInt
<1> QED BY <1>1, <1>2, <1>4

(* LP tokens that do not move stay counted and locked.                     *)
LEMMA LedgerKept ==
  ASSUME IInv, balanceOf' = balanceOf, totalSupply' = totalSupply
  PROVE  SupplyAdds' /\ FirstDepositStaysLocked'
BY DEF IInv, SupplyAdds, FirstDepositStaysLocked

LEMMA CountKept ==
  ASSUME IInv, paidOut' = paidOut, withdrawnAt' = withdrawnAt,
         totalWithdrawn' = totalWithdrawn, now' = now
  PROVE  CountedIsPaid'
BY DEF IInv, CountedIsPaid, WithdrawnSoFar

(* The wallets pay or receive what the vaults gain or lose.                *)
LEMMA TokensKept ==
  ASSUME TypeOK, TypeOK', TokensAdd,
         \A t \in Token : Total(WalletOf(t)', User) + Holdings'[t] - yielded'[t]
                              = Total(WalletOf(t), User) + Holdings[t] - yielded[t],
         \A t \in Token : Total(WalletOf(t)', User) \in Int
  PROVE  TokensAdd'
<1> SUFFICES ASSUME NEW t \in Token
             PROVE  Total(WalletOf(t)', User) + Holdings'[t]
                        = Wealth * Cardinality(User) + yielded'[t]
  BY DEF TokensAdd
<1>1. Total(WalletOf(t), User) + Holdings[t] = Wealth * Cardinality(User) + yielded[t]
  BY DEF TokensAdd
<1>2. /\ Holdings[t] \in Nat /\ yielded[t] \in Nat /\ Total(WalletOf(t), User) \in Int
  BY HoldingsType
<1>3. Holdings'[t] \in Nat /\ yielded'[t] \in Nat
  <2>1. /\ rootIdle'[t] \in Nat /\ zero'[t] \in Nat /\ aaveIdle'[t] \in Nat /\ aToken'[t] \in Nat
        /\ yielded'[t] \in Nat
    BY DEF TypeOK, TokenAmounts
  <2>2. PICK a \in Nat, b \in Nat, c \in Nat, d \in Nat :
            a = rootIdle'[t] /\ b = zero'[t] /\ c = aaveIdle'[t] /\ d = aToken'[t]
    BY <2>1
  <2>3. Holdings'[t] = a + b + c + d
    BY <2>2 DEF Holdings
  <2> QED BY <2>1, <2>3
<1>4. Wealth * Cardinality(User) \in Int
  BY Scales, FiniteSets1, FS_CardinalityType
<1>5. PICK n \in Int, h \in Int, y \in Int :
          n = Total(WalletOf(t)', User) /\ h = Holdings'[t] /\ y = yielded'[t]
  BY <1>3
<1>6. n + h - y = Total(WalletOf(t), User) + Holdings[t] - yielded[t]
  BY <1>5
<1>7. n + h = Wealth * Cardinality(User) + y
  BY <1>1, <1>2, <1>4, <1>6
<1> QED BY <1>5, <1>7

(* One wallet changes by n units of a token.                               *)
LEMMA WalletChange ==
  ASSUME TypeOK, NEW t \in Token, NEW u \in User, NEW n \in Int,
         wallet'[u][t] = wallet[u][t] + n,
         \A v \in User \ {u} : wallet'[v] = wallet[v]
  PROVE  Total(WalletOf(t)', User) = Total(WalletOf(t), User) + n
<1>1. PICK f, h : f = WalletOf(t) /\ h = WalletOf(t)'
  OBVIOUS
<1>2. \A v \in User : f[v] = wallet[v][t] /\ h[v] = wallet'[v][t] /\ f[v] \in Int
  BY <1>1, Types DEF WalletOf, TokenAmounts
<1>3. Credit(h, f, User, u, n)
  BY <1>2 DEF Credit
<1>4. Total(h, User) = Total(f, User) + n
  BY <1>2, <1>3, FiniteSets1, CreditOne
<1> QED BY <1>1, <1>4

(* A user pays amounts, or receives them.                                  *)
LEMMA WalletPays ==
  ASSUME TypeOK, NEW u \in User, NEW amounts \in TokenAmounts,
         \A t \in Token : amounts[t] <= wallet[u][t],
         wallet' = [wallet EXCEPT ![u] = Minus(@, amounts)]
  PROVE  /\ wallet' \in [User -> TokenAmounts]
         /\ \A t \in Token : Total(WalletOf(t)', User) = Total(WalletOf(t), User) - amounts[t]
<1>1. wallet \in [User -> TokenAmounts] /\ wallet[u] \in TokenAmounts
  BY Types
<1>2. /\ Minus(wallet[u], amounts) \in TokenAmounts
      /\ \A t \in Token : Minus(wallet[u], amounts)[t] = wallet[u][t] - amounts[t]
  BY <1>1, MinusType
<1>3. wallet' \in [User -> TokenAmounts]
  BY <1>1, <1>2
<1>4. ASSUME NEW t \in Token
      PROVE  Total(WalletOf(t)', User) = Total(WalletOf(t), User) - amounts[t]
  <2> DEFINE n == 0 - amounts[t]
  <2>1. amounts[t] \in Nat /\ wallet[u][t] \in Nat /\ n \in Int
    BY <1>1 DEF TokenAmounts
  <2>2. wallet'[u][t] = wallet[u][t] + n
    BY <1>1, <1>2, <2>1
  <2>3. \A v \in User \ {u} : wallet'[v] = wallet[v]
    BY <1>1
  <2> HIDE DEF n
  <2>4. Total(WalletOf(t)', User) = Total(WalletOf(t), User) + n
    BY <2>1, <2>2, <2>3, WalletChange
  <2>5. Total(WalletOf(t), User) \in Int
    BY HoldingsType
  <2>6. Total(WalletOf(t), User) + n = Total(WalletOf(t), User) - amounts[t]
    BY <2>1, <2>5 DEF n
  <2> QED BY <2>4, <2>6, Zenon
<1> QED BY <1>3, <1>4

LEMMA WalletGets ==
  ASSUME TypeOK, NEW u \in User, NEW amounts \in TokenAmounts,
         wallet' = [wallet EXCEPT ![u] = Plus(@, amounts)]
  PROVE  /\ wallet' \in [User -> TokenAmounts]
         /\ \A t \in Token : Total(WalletOf(t)', User) = Total(WalletOf(t), User) + amounts[t]
<1>1. wallet \in [User -> TokenAmounts] /\ wallet[u] \in TokenAmounts
  BY Types
<1>2. /\ Plus(wallet[u], amounts) \in TokenAmounts
      /\ \A t \in Token : Plus(wallet[u], amounts)[t] = wallet[u][t] + amounts[t]
  BY <1>1, PlusType
<1>3. wallet' \in [User -> TokenAmounts]
  BY <1>1, <1>2
<1>4. ASSUME NEW t \in Token
      PROVE  Total(WalletOf(t)', User) = Total(WalletOf(t), User) + amounts[t]
  <2>1. PICK n \in Int : n = amounts[t]
    BY DEF TokenAmounts
  <2>2. wallet'[u][t] = wallet[u][t] + n
    BY <1>1, <1>2, <2>1
  <2>3. \A v \in User \ {u} : wallet'[v] = wallet[v]
    BY <1>1
  <2>4. Total(WalletOf(t)', User) = Total(WalletOf(t), User) + n
    BY <2>1, <2>2, <2>3, WalletChange
  <2> QED BY <2>1, <2>4
<1> QED BY <1>3, <1>4

-----------------------------------------------------------------------------
(* What a step may do: the action properties without their boxes.          *)

NoDilution ==
    (totalSupply > 0 /\ totalSupply' > SupplyWithFees) =>
        \A t \in Significant(MaxTvl) :
            MaxTvl'[t] * SupplyWithFees >= MaxTvl[t] * totalSupply'
PaysWithinShare ==
    \A t \in Token : PaidOut(t) > 0 =>
        PaidOut(t) * SupplyWithFees <= Burnt * MinTvl[t]
LosesOnlyDust ==
    Burnt > 0 =>
        \A t \in Token :
            mulDiv(Burnt, MinTvl[t], SupplyWithFees) <= PaidOut(t) + PullExistential[t]
FeeOnlyOnNewHigh ==
    /\ lpPriceHighWaterMark' >= lpPriceHighWaterMark
    /\ (totalSupply' # totalSupply
          /\ PerformanceTreasury \notin {StrategyTreasury, ProtocolTreasury}
          /\ balanceOf'[PerformanceTreasury] > balanceOf[PerformanceTreasury])
          => lpPriceHighWaterMark' > lpPriceHighWaterMark /\ lpPriceHighWaterMark > 0
WithinLimit ==
    \A t \in Token : paidOut'[t] > paidOut[t] => paidOut'[t] <= gov.withdrawLimit[t]

StepBounds == NoDilution /\ PaysWithinShare /\ LosesOnlyDust /\ FeeOnlyOnNewHigh /\ WithinLimit

(* A step that neither mints nor burns and takes nothing out of the vaults *)
(* is within all bounds.                                                   *)
LEMMA QuietStep ==
  ASSUME TypeOK, totalSupply' = totalSupply, lastFeeCharge' = lastFeeCharge,
         lpPriceHighWaterMark' = lpPriceHighWaterMark,
         \A t \in Token : Holdings'[t] \in Nat /\ Holdings[t] <= Holdings'[t],
         \A t \in Token : paidOut'[t] \in Nat /\ paidOut'[t] <= paidOut[t]
  PROVE  StepBounds
<1>1. totalSupply \in Nat /\ lpPriceHighWaterMark \in Nat
  BY Types
<1>2. FeesInStep = 0
  BY DEF FeesInStep, ChargesFees
<1>3. SupplyWithFees = totalSupply
  BY <1>1, <1>2 DEF SupplyWithFees
<1>4. Burnt = 0
  BY <1>1, <1>3 DEF Burnt
<1>5. NoDilution
  BY <1>1, <1>3 DEF NoDilution
<1>6. PaysWithinShare
  <2>1. ASSUME NEW t \in Token PROVE ~(PaidOut(t) > 0)
    <3>1. Holdings[t] \in Nat
      BY HoldingsType
    <3>2. PICK n \in Nat : n = Holdings'[t]
      OBVIOUS
    <3>3. Holdings[t] <= n /\ PaidOut(t) = Holdings[t] - n
      BY <3>2 DEF PaidOut
    <3> QED BY <3>1, <3>2, <3>3
  <2> QED BY <2>1 DEF PaysWithinShare
<1>7. LosesOnlyDust
  BY <1>4 DEF LosesOnlyDust
<1>8. FeeOnlyOnNewHigh
  BY <1>1 DEF FeeOnlyOnNewHigh
<1>9. WithinLimit
  <2>1. ASSUME NEW t \in Token PROVE ~(paidOut'[t] > paidOut[t])
    <3>1. paidOut[t] \in Nat
      BY Types DEF TokenAmounts
    <3>2. PICK n \in Nat : n = paidOut'[t]
      OBVIOUS
    <3>3. n <= paidOut[t]
      BY <3>2
    <3> QED BY <3>1, <3>2, <3>3
  <2> QED BY <2>1 DEF WithinLimit
<1> QED BY <1>5, <1>6, <1>7, <1>8, <1>9 DEF StepBounds

(* Moving tokens between the vaults, whatever it does to the cache, keeps  *)
(* the invariant as long as none is lost and the cache stays backed.       *)
LEMMA MoveStep ==
  ASSUME IInv, UNCHANGED <<rootVars, allowlist, wallet, gov, now, paidOut, yielded>>, calls' \in Nat,
         rootIdle' \in TokenAmounts, zero' \in TokenAmounts, aaveIdle' \in TokenAmounts,
         aToken' \in TokenAmounts, tvls' \in TokenAmounts, tvlsAt' \in 0..now,
         \A t \in Token : tvls'[t] <= aToken'[t],
         \A t \in Token : Holdings'[t] = Holdings[t]
  PROVE  IInv' /\ StepBounds
<1> USE DEF rootVars
<1>1. TypeOK
  BY DEF IInv
<1>2. TypeOK'
  BY <1>1 DEF TypeOK
<1>3. SupplyAdds' /\ FirstDepositStaysLocked' /\ CountedIsPaid'
  BY LedgerKept, CountKept
<1>4. ASSUME NEW t \in Token
      PROVE  Total(WalletOf(t)', User) = Total(WalletOf(t), User)
  BY DEF WalletOf
<1>5. TokensAdd'
  <2>1. \A t \in Token : Total(WalletOf(t), User) \in Int /\ Holdings[t] \in Nat
    BY <1>1, HoldingsType
  <2>2. TokensAdd
    BY DEF IInv
  <2>3. \A t \in Token : Total(WalletOf(t)', User) \in Int
    BY <1>4, <2>1
  <2>4. \A t \in Token : Total(WalletOf(t)', User) + Holdings'[t] - yielded'[t]
                              = Total(WalletOf(t), User) + Holdings[t] - yielded[t]
    BY <1>4
  <2> QED BY <1>1, <1>2, <2>2, <2>3, <2>4, TokensKept
<1>6. CacheIsBacked'
  BY DEF CacheIsBacked
<1>7. StepBounds
  <2>1. \A t \in Token : Holdings'[t] \in Nat /\ Holdings[t] <= Holdings'[t]
    BY <1>1, HoldingsType
  <2>2. \A t \in Token : paidOut'[t] \in Nat /\ paidOut'[t] <= paidOut[t]
    BY <1>1, Types DEF TokenAmounts
  <2> QED BY <1>1, <2>1, <2>2, QuietStep
<1> QED BY <1>2, <1>3, <1>5, <1>6, <1>7 DEF IInv

-----------------------------------------------------------------------------
(* The strategy's moves and the calls open to anyone.                      *)

LEMMA CallCounts == ASSUME TypeOK, Call PROVE calls' \in Nat
BY DEF TypeOK, Call

LEMMA PullFromZeroStep ==
  ASSUME IInv, NEW amounts \in StrategyAmounts, PullFromZero(amounts)
  PROVE  IInv' /\ StepBounds
<1> DEFINE moved == [t \in Token |-> Least(amounts[t], zero[t])]
<1>1. TypeOK /\ amounts \in TokenAmounts
  BY InputAssumption DEF IInv
<1>2. /\ UNCHANGED <<rootVars, allowlist, rootIdle, wallet, gov, now, yielded, paidOut>>
      /\ Call /\ zero' = Minus(zero, moved) /\ aaveIdle' = NoTokens
      /\ aToken' = Plus(aToken, Plus(moved, aaveIdle))
      /\ tvls' = aToken' /\ tvlsAt' = now
  BY DEF PullFromZero, RefreshTvls
<1>3. /\ rootIdle \in TokenAmounts /\ zero \in TokenAmounts /\ aaveIdle \in TokenAmounts
      /\ aToken \in TokenAmounts /\ now \in Nat
  BY <1>1, Types
<1>4. ASSUME NEW t \in Token
      PROVE  moved[t] \in Nat /\ moved[t] <= zero[t]
  <2>1. amounts[t] \in Nat /\ zero[t] \in Nat
    BY <1>1, <1>3 DEF TokenAmounts
  <2> QED BY <2>1, LeastNat
<1>5. moved \in TokenAmounts
  BY <1>4 DEF TokenAmounts
<1> HIDE DEF moved
<1>6. zero' \in TokenAmounts /\ \A t \in Token : zero'[t] = zero[t] - moved[t]
  BY <1>2, <1>3, <1>4, <1>5, MinusType
<1>7. /\ Plus(moved, aaveIdle) \in TokenAmounts
      /\ \A t \in Token : Plus(moved, aaveIdle)[t] = moved[t] + aaveIdle[t]
  BY <1>3, <1>5, PlusType
<1>8. /\ aToken' \in TokenAmounts
      /\ \A t \in Token : aToken'[t] = aToken[t] + (moved[t] + aaveIdle[t])
  BY <1>2, <1>3, <1>7, PlusType
<1>9. aaveIdle' \in TokenAmounts /\ \A t \in Token : aaveIdle'[t] = 0
  BY <1>2, NoTokensType
<1>10. ASSUME NEW t \in Token PROVE Holdings'[t] = Holdings[t] /\ tvls'[t] <= aToken'[t]
  <2>1. /\ rootIdle[t] \in Nat /\ zero[t] \in Nat /\ aaveIdle[t] \in Nat /\ aToken[t] \in Nat
        /\ Holdings[t] = rootIdle[t] + zero[t] + aaveIdle[t] + aToken[t] /\ moved[t] \in Nat
    BY <1>1, <1>4, HoldingsType
  <2>2. Holdings'[t] = rootIdle[t] + zero'[t] + aaveIdle'[t] + aToken'[t]
    BY <1>2 DEF Holdings
  <2>3. Holdings'[t] = rootIdle[t] + (zero[t] - moved[t]) + 0 + (aToken[t] + (moved[t] + aaveIdle[t]))
    BY <1>6, <1>8, <1>9, <2>2
  <2>4. aToken[t] + (moved[t] + aaveIdle[t]) <= aToken[t] + (moved[t] + aaveIdle[t])
    BY <2>1
  <2> QED BY <1>2, <1>8, <2>1, <2>3, <2>4
<1>11. tvlsAt' \in 0..now /\ calls' \in Nat /\ tvls' \in TokenAmounts /\ rootIdle' \in TokenAmounts
  BY <1>1, <1>2, <1>3, <1>8, CallCounts
<1> QED BY <1>2, <1>6, <1>8, <1>9, <1>10, <1>11, MoveStep

LEMMA PullFromAaveStep ==
  ASSUME IInv, NEW amounts \in StrategyAmounts, PullFromAave(amounts)
  PROVE  IInv' /\ StepBounds
<1> DEFINE moved == [t \in Token |-> IF tvls[t] = 0 THEN 0 ELSE Least(amounts[t], aToken[t])]
<1>1. TypeOK /\ amounts \in TokenAmounts
  BY InputAssumption DEF IInv
<1>2. /\ UNCHANGED <<rootVars, allowlist, rootIdle, aaveIdle, wallet, gov, now, yielded, paidOut>>
      /\ Call /\ zero' = Plus(zero, moved) /\ aToken' = Minus(aToken, moved)
      /\ tvls' = aToken' /\ tvlsAt' = now
  BY DEF PullFromAave, RefreshTvls
<1>3. /\ rootIdle \in TokenAmounts /\ zero \in TokenAmounts /\ aaveIdle \in TokenAmounts
      /\ aToken \in TokenAmounts /\ now \in Nat
  BY <1>1, Types
<1>4. ASSUME NEW t \in Token
      PROVE  moved[t] \in Nat /\ moved[t] <= aToken[t]
  <2>1. amounts[t] \in Nat /\ aToken[t] \in Nat
    BY <1>1, <1>3 DEF TokenAmounts
  <2> QED BY <2>1, LeastNat
<1>5. moved \in TokenAmounts
  BY <1>4 DEF TokenAmounts
<1> HIDE DEF moved
<1>6. zero' \in TokenAmounts /\ \A t \in Token : zero'[t] = zero[t] + moved[t]
  BY <1>2, <1>3, <1>5, PlusType
<1>7. aToken' \in TokenAmounts /\ \A t \in Token : aToken'[t] = aToken[t] - moved[t]
  BY <1>2, <1>3, <1>4, <1>5, MinusType
<1>8. ASSUME NEW t \in Token PROVE Holdings'[t] = Holdings[t] /\ tvls'[t] <= aToken'[t]
  <2>1. /\ rootIdle[t] \in Nat /\ zero[t] \in Nat /\ aaveIdle[t] \in Nat /\ aToken[t] \in Nat
        /\ Holdings[t] = rootIdle[t] + zero[t] + aaveIdle[t] + aToken[t] /\ moved[t] \in Nat
    BY <1>1, <1>4, HoldingsType
  <2>2. Holdings'[t] = rootIdle[t] + zero'[t] + aaveIdle[t] + aToken'[t]
    BY <1>2 DEF Holdings
  <2>3. Holdings'[t] = rootIdle[t] + (zero[t] + moved[t]) + aaveIdle[t] + (aToken[t] - moved[t])
    BY <1>6, <1>7, <2>2
  <2>4. aToken[t] - moved[t] <= aToken[t] - moved[t]
    BY <2>1
  <2> QED BY <1>2, <1>7, <2>1, <2>3, <2>4
<1>9. /\ tvlsAt' \in 0..now /\ calls' \in Nat /\ tvls' \in TokenAmounts
      /\ rootIdle' \in TokenAmounts /\ aaveIdle' \in TokenAmounts
  BY <1>1, <1>2, <1>3, <1>7, CallCounts
<1> QED BY <1>2, <1>6, <1>7, <1>8, <1>9, MoveStep

LEMMA PushAaveStep ==
  ASSUME IInv, NEW amounts \in Donations, PushAave(amounts)
  PROVE  IInv' /\ StepBounds
<1>1. TypeOK /\ amounts \in TokenAmounts
  BY InputAssumption DEF IInv
<1>2. /\ UNCHANGED <<rootVars, allowlist, rootIdle, zero, wallet, gov, now, yielded, paidOut>>
      /\ Call /\ \A t \in Token : amounts[t] <= aaveIdle[t]
      /\ aaveIdle' = Minus(aaveIdle, amounts) /\ aToken' = Plus(aToken, amounts)
      /\ tvls' = aToken' /\ tvlsAt' = now
  BY DEF PushAave, RefreshTvls
<1>3. /\ rootIdle \in TokenAmounts /\ zero \in TokenAmounts /\ aaveIdle \in TokenAmounts
      /\ aToken \in TokenAmounts /\ now \in Nat
  BY <1>1, Types
<1>4. aaveIdle' \in TokenAmounts /\ \A t \in Token : aaveIdle'[t] = aaveIdle[t] - amounts[t]
  BY <1>1, <1>2, <1>3, MinusType
<1>5. aToken' \in TokenAmounts /\ \A t \in Token : aToken'[t] = aToken[t] + amounts[t]
  BY <1>1, <1>2, <1>3, PlusType
<1>6. ASSUME NEW t \in Token PROVE Holdings'[t] = Holdings[t] /\ tvls'[t] <= aToken'[t]
  <2>1. /\ rootIdle[t] \in Nat /\ zero[t] \in Nat /\ aaveIdle[t] \in Nat /\ aToken[t] \in Nat
        /\ Holdings[t] = rootIdle[t] + zero[t] + aaveIdle[t] + aToken[t]
    BY <1>1, HoldingsType
  <2>2. amounts[t] \in Nat
    BY <1>1 DEF TokenAmounts
  <2>3. Holdings'[t] = rootIdle[t] + zero[t] + aaveIdle'[t] + aToken'[t]
    BY <1>2 DEF Holdings
  <2>4. Holdings'[t] = rootIdle[t] + zero[t] + (aaveIdle[t] - amounts[t]) + (aToken[t] + amounts[t])
    BY <1>4, <1>5, <2>3
  <2>5. aToken[t] + amounts[t] <= aToken[t] + amounts[t]
    BY <2>1, <2>2
  <2> QED BY <1>2, <1>5, <2>1, <2>2, <2>4, <2>5
<1>7. /\ tvlsAt' \in 0..now /\ calls' \in Nat /\ tvls' \in TokenAmounts
      /\ rootIdle' \in TokenAmounts /\ zero' \in TokenAmounts
  BY <1>1, <1>2, <1>3, <1>5, CallCounts
<1> QED BY <1>2, <1>4, <1>5, <1>6, <1>7, MoveStep

LEMMA UpdateTvlsStep ==
  ASSUME IInv, UpdateTvls
  PROVE  IInv' /\ StepBounds
<1>1. TypeOK
  BY DEF IInv
<1>2. /\ UNCHANGED <<rootVars, allowlist, rootIdle, zero, aaveIdle, aToken, wallet, gov, now,
                    yielded, paidOut>>
      /\ Call /\ tvls' = aToken /\ tvlsAt' = now
  BY DEF UpdateTvls, RefreshTvls
<1>3. /\ rootIdle \in TokenAmounts /\ zero \in TokenAmounts /\ aaveIdle \in TokenAmounts
      /\ aToken \in TokenAmounts /\ now \in Nat
  BY <1>1, Types
<1>4. \A t \in Token : Holdings'[t] = Holdings[t] /\ tvls'[t] <= aToken'[t]
  BY <1>2, <1>3 DEF Holdings, TokenAmounts
<1>5. /\ tvlsAt' \in 0..now /\ calls' \in Nat /\ tvls' \in TokenAmounts
      /\ rootIdle' \in TokenAmounts /\ zero' \in TokenAmounts
      /\ aaveIdle' \in TokenAmounts /\ aToken' \in TokenAmounts
  BY <1>1, <1>2, <1>3, CallCounts
<1> QED BY <1>2, <1>4, <1>5, MoveStep

LEMMA ReclaimTokensStep ==
  ASSUME IInv, NEW tokens \in SUBSET Token, ReclaimTokens(tokens)
  PROVE  IInv' /\ StepBounds
<1> DEFINE moved == [t \in Token |-> IF t \in tokens THEN aaveIdle[t] ELSE 0]
<1>1. TypeOK /\ CacheIsBacked
  BY DEF IInv
<1>2. /\ UNCHANGED <<rootVars, allowlist, rootIdle, aaveVars, wallet, gov, now, yielded, paidOut>>
      /\ Call /\ aaveIdle' = Minus(aaveIdle, moved) /\ zero' = Plus(zero, moved)
  BY DEF ReclaimTokens
<1>3. /\ rootIdle \in TokenAmounts /\ zero \in TokenAmounts /\ aaveIdle \in TokenAmounts
      /\ aToken \in TokenAmounts /\ tvls \in TokenAmounts /\ now \in Nat /\ tvlsAt \in 0..now
  BY <1>1 DEF TypeOK
<1>4. ASSUME NEW t \in Token
      PROVE  moved[t] \in Nat /\ moved[t] <= aaveIdle[t]
  BY <1>3 DEF TokenAmounts
<1>5. moved \in TokenAmounts
  BY <1>4 DEF TokenAmounts
<1> HIDE DEF moved
<1>6. zero' \in TokenAmounts /\ \A t \in Token : zero'[t] = zero[t] + moved[t]
  BY <1>2, <1>3, <1>5, PlusType
<1>7. aaveIdle' \in TokenAmounts /\ \A t \in Token : aaveIdle'[t] = aaveIdle[t] - moved[t]
  BY <1>2, <1>3, <1>4, <1>5, MinusType
<1>8. rootIdle' = rootIdle /\ aToken' = aToken /\ tvls' = tvls /\ tvlsAt' = tvlsAt
  BY <1>2 DEF aaveVars
<1>9. ASSUME NEW t \in Token PROVE Holdings'[t] = Holdings[t] /\ tvls'[t] <= aToken'[t]
  <2>1. /\ rootIdle[t] \in Nat /\ zero[t] \in Nat /\ aaveIdle[t] \in Nat /\ aToken[t] \in Nat
        /\ Holdings[t] = rootIdle[t] + zero[t] + aaveIdle[t] + aToken[t] /\ moved[t] \in Nat
    BY <1>1, <1>4, HoldingsType
  <2>2. Holdings'[t] = rootIdle[t] + zero'[t] + aaveIdle'[t] + aToken[t]
    BY <1>8 DEF Holdings
  <2>3. Holdings'[t] = rootIdle[t] + (zero[t] + moved[t]) + (aaveIdle[t] - moved[t]) + aToken[t]
    BY <1>6, <1>7, <2>2
  <2>4. tvls[t] <= aToken[t]
    BY <1>1 DEF CacheIsBacked
  <2> QED BY <1>8, <2>1, <2>3, <2>4
<1>10. /\ tvlsAt' \in 0..now /\ calls' \in Nat /\ tvls' \in TokenAmounts
       /\ rootIdle' \in TokenAmounts /\ aToken' \in TokenAmounts
  BY <1>1, <1>2, <1>3, <1>8, CallCounts
<1> QED BY <1>2, <1>6, <1>7, <1>9, <1>10, MoveStep

-----------------------------------------------------------------------------
(* The environment and the small calls.                                    *)

LEMMA DonateStep ==
  ASSUME IInv, NEW u \in User, NEW amounts \in Donations, Donate(u, amounts)
  PROVE  IInv' /\ StepBounds
<1>1. TypeOK /\ TokensAdd /\ CacheIsBacked /\ amounts \in TokenAmounts
  BY InputAssumption DEF IInv
<1>2. /\ UNCHANGED <<rootVars, allowlist, aaveVars, gov, now, yielded, paidOut>>
      /\ Call /\ \A t \in Token : amounts[t] <= wallet[u][t]
      /\ wallet' = [wallet EXCEPT ![u] = Minus(@, amounts)]
      /\ \/ rootIdle' = Plus(rootIdle, amounts) /\ zero' = zero /\ aaveIdle' = aaveIdle
         \/ zero' = Plus(zero, amounts) /\ rootIdle' = rootIdle /\ aaveIdle' = aaveIdle
         \/ aaveIdle' = Plus(aaveIdle, amounts) /\ rootIdle' = rootIdle /\ zero' = zero
  BY DEF Donate
<1>3. /\ balanceOf' = balanceOf /\ totalSupply' = totalSupply
      /\ lastFeeCharge' = lastFeeCharge /\ lpPriceHighWaterMark' = lpPriceHighWaterMark
      /\ withdrawnAt' = withdrawnAt /\ totalWithdrawn' = totalWithdrawn
      /\ aToken' = aToken /\ tvls' = tvls /\ tvlsAt' = tvlsAt
      /\ allowlist' = allowlist /\ gov' = gov /\ now' = now /\ yielded' = yielded
      /\ paidOut' = paidOut
  BY <1>2 DEF rootVars, aaveVars
<1>4. /\ wallet' \in [User -> TokenAmounts]
      /\ \A t \in Token : Total(WalletOf(t)', User) = Total(WalletOf(t), User) - amounts[t]
  BY <1>1, <1>2, WalletPays
<1>5. /\ rootIdle \in TokenAmounts /\ zero \in TokenAmounts /\ aaveIdle \in TokenAmounts
  BY <1>1, Types
<1>6. /\ Plus(rootIdle, amounts) \in TokenAmounts /\ Plus(zero, amounts) \in TokenAmounts
      /\ Plus(aaveIdle, amounts) \in TokenAmounts
      /\ \A t \in Token : /\ Plus(rootIdle, amounts)[t] = rootIdle[t] + amounts[t]
                          /\ Plus(zero, amounts)[t] = zero[t] + amounts[t]
                          /\ Plus(aaveIdle, amounts)[t] = aaveIdle[t] + amounts[t]
  BY <1>1, <1>5, PlusType
<1>7. /\ rootIdle' \in TokenAmounts /\ zero' \in TokenAmounts /\ aaveIdle' \in TokenAmounts
  BY <1>2, <1>5, <1>6
<1>8. ASSUME NEW t \in Token
      PROVE  Holdings'[t] = Holdings[t] + amounts[t] /\ amounts[t] \in Nat
  <2>1. /\ rootIdle[t] \in Nat /\ zero[t] \in Nat /\ aaveIdle[t] \in Nat /\ aToken[t] \in Nat
        /\ Holdings[t] = rootIdle[t] + zero[t] + aaveIdle[t] + aToken[t]
    BY <1>1, HoldingsType
  <2>2. amounts[t] \in Nat
    BY <1>1 DEF TokenAmounts
  <2>3. Holdings'[t] = rootIdle'[t] + zero'[t] + aaveIdle'[t] + aToken[t]
    BY <1>3 DEF Holdings
  <2>4. CASE rootIdle' = Plus(rootIdle, amounts) /\ zero' = zero /\ aaveIdle' = aaveIdle
    <3>1. Holdings'[t] = (rootIdle[t] + amounts[t]) + zero[t] + aaveIdle[t] + aToken[t]
      BY <1>6, <2>3, <2>4
    <3> QED BY <2>1, <2>2, <3>1
  <2>5. CASE zero' = Plus(zero, amounts) /\ rootIdle' = rootIdle /\ aaveIdle' = aaveIdle
    <3>1. Holdings'[t] = rootIdle[t] + (zero[t] + amounts[t]) + aaveIdle[t] + aToken[t]
      BY <1>6, <2>3, <2>5
    <3> QED BY <2>1, <2>2, <3>1
  <2>6. CASE aaveIdle' = Plus(aaveIdle, amounts) /\ rootIdle' = rootIdle /\ zero' = zero
    <3>1. Holdings'[t] = rootIdle[t] + zero[t] + (aaveIdle[t] + amounts[t]) + aToken[t]
      BY <1>6, <2>3, <2>6
    <3> QED BY <2>1, <2>2, <3>1
  <2> QED BY <1>2, <2>4, <2>5, <2>6
<1>9. TypeOK'
  BY <1>1, <1>2, <1>3, <1>4, <1>7, CallCounts DEF TypeOK
<1>10. \A t \in Token : Total(WalletOf(t), User) \in Int /\ Holdings[t] \in Nat /\ yielded[t] \in Nat
  BY <1>1, HoldingsType
<1>11. TokensAdd'
  <2>1. ASSUME NEW t \in Token
        PROVE  /\ Total(WalletOf(t)', User) \in Int
               /\ Total(WalletOf(t)', User) + Holdings'[t] - yielded'[t]
                              = Total(WalletOf(t), User) + Holdings[t] - yielded[t]
    <3>1. Total(WalletOf(t)', User) \in Int
      BY <1>4, <1>8, <1>10
    <3>2. Total(WalletOf(t)', User) + Holdings'[t] - yielded'[t]
            = (Total(WalletOf(t), User) - amounts[t]) + (Holdings[t] + amounts[t]) - yielded[t]
      BY <1>3, <1>4, <1>8
    <3>3. (Total(WalletOf(t), User) - amounts[t]) + (Holdings[t] + amounts[t]) - yielded[t]
            = Total(WalletOf(t), User) + Holdings[t] - yielded[t]
      BY <1>8, <1>10
    <3> QED BY <3>1, <3>2, <3>3
  <2> QED BY <1>1, <1>9, <2>1, TokensKept
<1>12. SupplyAdds' /\ FirstDepositStaysLocked' /\ CountedIsPaid' /\ CacheIsBacked'
  BY <1>1, <1>3, LedgerKept, CountKept DEF CacheIsBacked
<1>13. StepBounds
  <2>1. \A t \in Token : Holdings'[t] \in Nat /\ Holdings[t] <= Holdings'[t]
    BY <1>8, <1>10
  <2>2. \A t \in Token : paidOut'[t] \in Nat /\ paidOut'[t] <= paidOut[t]
    BY <1>1, <1>3, Types DEF TokenAmounts
  <2> QED BY <1>1, <1>3, <2>1, <2>2, QuietStep
<1> QED BY <1>9, <1>11, <1>12, <1>13 DEF IInv

LEMMA AaveInterestStep ==
  ASSUME IInv, NEW t \in Token, NEW amount \in Interest, AaveInterest(t, amount)
  PROVE  IInv' /\ StepBounds
<1>1. TypeOK /\ TokensAdd /\ CacheIsBacked /\ amount \in Nat
  BY InputAssumption DEF IInv
<1>2. /\ UNCHANGED <<rootVars, allowlist, rootIdle, zero, aaveIdle, tvls, tvlsAt, wallet,
                    gov, now, paidOut>>
      /\ Call /\ aToken' = [aToken EXCEPT ![t] = @ + amount]
      /\ yielded' = [yielded EXCEPT ![t] = @ + amount]
  BY DEF AaveInterest
<1>3. /\ balanceOf' = balanceOf /\ totalSupply' = totalSupply
      /\ lastFeeCharge' = lastFeeCharge /\ lpPriceHighWaterMark' = lpPriceHighWaterMark
      /\ withdrawnAt' = withdrawnAt /\ totalWithdrawn' = totalWithdrawn
      /\ paidOut' = paidOut /\ now' = now
  BY <1>2 DEF rootVars
<1>4. aToken \in TokenAmounts /\ yielded \in TokenAmounts /\ tvls \in TokenAmounts
  BY <1>1, Types
<1>5. aToken' \in TokenAmounts /\ yielded' \in TokenAmounts
  BY <1>1, <1>2, <1>4 DEF TokenAmounts
<1>6. TypeOK'
  BY <1>1, <1>2, <1>3, <1>5, CallCounts DEF TypeOK
<1>7. ASSUME NEW s \in Token
      PROVE  \E n \in Nat : aToken'[s] = aToken[s] + n /\ yielded'[s] = yielded[s] + n
  <2>1. aToken[s] \in Nat /\ yielded[s] \in Nat
    BY <1>4 DEF TokenAmounts
  <2>2. CASE s = t
    BY <1>1, <1>2, <1>4, <2>2 DEF TokenAmounts
  <2>3. CASE s # t
    <3>1. aToken'[s] = aToken[s] + 0 /\ yielded'[s] = yielded[s] + 0
      BY <1>2, <1>4, <2>1, <2>3 DEF TokenAmounts
    <3> QED BY <3>1
  <2> QED BY <2>2, <2>3
<1>8. ASSUME NEW s \in Token
      PROVE  /\ Holdings'[s] \in Nat /\ Holdings[s] <= Holdings'[s] /\ tvls'[s] <= aToken'[s]
             /\ Total(WalletOf(s)', User) \in Int
             /\ Total(WalletOf(s)', User) + Holdings'[s] - yielded'[s]
                    = Total(WalletOf(s), User) + Holdings[s] - yielded[s]
  <2>1. PICK n \in Nat : aToken'[s] = aToken[s] + n /\ yielded'[s] = yielded[s] + n
    BY <1>7
  <2>2. /\ rootIdle[s] \in Nat /\ zero[s] \in Nat /\ aaveIdle[s] \in Nat /\ aToken[s] \in Nat
        /\ Holdings[s] = rootIdle[s] + zero[s] + aaveIdle[s] + aToken[s] /\ Holdings[s] \in Nat
        /\ yielded[s] \in Nat /\ Total(WalletOf(s), User) \in Int
    BY <1>1, HoldingsType
  <2>3. Holdings'[s] = rootIdle[s] + zero[s] + aaveIdle[s] + (aToken[s] + n)
    BY <1>2, <2>1 DEF Holdings
  <2>4. Holdings'[s] = Holdings[s] + n
    BY <2>2, <2>3
  <2>5. Total(WalletOf(s)', User) = Total(WalletOf(s), User)
    BY <1>2 DEF WalletOf
  <2>6. Total(WalletOf(s)', User) + Holdings'[s] - yielded'[s]
            = Total(WalletOf(s), User) + (Holdings[s] + n) - (yielded[s] + n)
    BY <2>1, <2>4, <2>5
  <2>7. Total(WalletOf(s), User) + (Holdings[s] + n) - (yielded[s] + n)
            = Total(WalletOf(s), User) + Holdings[s] - yielded[s]
    BY <2>2
  <2>8. tvls[s] <= aToken[s] /\ tvls[s] \in Nat
    BY <1>1, <1>4 DEF CacheIsBacked, TokenAmounts
  <2>9. tvls'[s] <= aToken'[s]
    BY <1>2, <2>1, <2>2, <2>8
  <2> QED BY <2>2, <2>4, <2>5, <2>6, <2>7, <2>9
<1>9. TokensAdd'
  BY <1>1, <1>6, <1>8, TokensKept
<1>10. SupplyAdds' /\ FirstDepositStaysLocked' /\ CountedIsPaid' /\ CacheIsBacked'
  BY <1>3, <1>8, LedgerKept, CountKept DEF CacheIsBacked
<1>11. StepBounds
  <2>1. \A s \in Token : paidOut'[s] \in Nat /\ paidOut'[s] <= paidOut[s]
    BY <1>1, <1>3, Types DEF TokenAmounts
  <2> QED BY <1>1, <1>3, <1>8, <2>1, QuietStep
<1> QED BY <1>6, <1>9, <1>10, <1>11 DEF IInv

(* Steps that touch neither LP tokens nor tokens: the allowlist and the    *)
(* parameters of governance.                                               *)
LEMMA ParameterStep ==
  ASSUME IInv, UNCHANGED <<rootVars, rootIdle, zero, aaveIdle, aaveVars, wallet, now, yielded,
                           paidOut>>,
         Call, allowlist' \in SUBSET User, gov' \in GovType
  PROVE  IInv' /\ StepBounds
<1> USE DEF rootVars, aaveVars
<1>1. TypeOK /\ TokensAdd /\ CacheIsBacked
  BY DEF IInv
<1>2. TypeOK'
  BY <1>1, CallCounts DEF TypeOK
<1>3. \A t \in Token : Holdings'[t] = Holdings[t] /\ WalletOf(t)' = WalletOf(t)
  BY DEF Holdings, WalletOf
<1>4. \A t \in Token : Holdings[t] \in Nat
  BY <1>1, HoldingsType
<1>5. TokensAdd'
  <2>1. ASSUME NEW t \in Token
        PROVE Total(WalletOf(t)', User) + Holdings'[t] = Wealth * Cardinality(User) + yielded'[t]
    BY <1>1, <1>3 DEF TokensAdd
  <2> QED BY <2>1 DEF TokensAdd
<1>6. SupplyAdds' /\ FirstDepositStaysLocked' /\ CountedIsPaid' /\ CacheIsBacked'
  BY <1>1, LedgerKept, CountKept DEF CacheIsBacked
<1>7. StepBounds
  <2>1. \A t \in Token : Holdings'[t] \in Nat /\ Holdings[t] <= Holdings'[t]
    BY <1>3, <1>4
  <2>2. \A t \in Token : paidOut'[t] \in Nat /\ paidOut'[t] <= paidOut[t]
    BY <1>1, Types DEF TokenAmounts
  <2> QED BY <1>1, <2>1, <2>2, QuietStep
<1> QED BY <1>2, <1>5, <1>6, <1>7 DEF IInv

LEMMA AddDepositorStep ==
  ASSUME IInv, NEW u \in User, AddDepositor(u) PROVE IInv' /\ StepBounds
<1>1. allowlist' \in SUBSET User /\ gov' \in GovType
  BY DEF AddDepositor, IInv, TypeOK
<1> QED BY <1>1, ParameterStep DEF AddDepositor

LEMMA RemoveDepositorStep ==
  ASSUME IInv, NEW u \in User, RemoveDepositor(u) PROVE IInv' /\ StepBounds
<1>1. allowlist' \in SUBSET User /\ gov' \in GovType
  BY DEF RemoveDepositor, IInv, TypeOK
<1> QED BY <1>1, ParameterStep DEF RemoveDepositor

LEMMA SetParamsStep ==
  ASSUME IInv, NEW p \in GovParams, SetParams(p) PROVE IInv' /\ StepBounds
<1>1. allowlist' \in SUBSET User /\ gov' \in GovType
  BY InputAssumption DEF SetParams, IInv, TypeOK
<1> QED BY <1>1, ParameterStep DEF SetParams

LEMMA TickStep ==
  ASSUME IInv, Tick PROVE IInv' /\ StepBounds
<1>1. TypeOK /\ TokensAdd /\ CacheIsBacked
  BY DEF IInv
<1>2. /\ UNCHANGED <<rootVars, allowlist, rootIdle, zero, aaveIdle, aaveVars, wallet, gov,
                    yielded, calls>>
      /\ now' = now + 1 /\ paidOut' = NoTokens
  BY DEF Tick
<1>3. NoTokens \in TokenAmounts /\ \A t \in Token : NoTokens[t] = 0
  BY NoTokensType
<1>4. now \in Nat /\ now + 1 \in Nat /\ \A i \in 0..now : i \in 0..(now + 1)
  BY <1>1, Types
<1>5. TypeOK'
  BY <1>1, <1>2, <1>3, <1>4 DEF TypeOK, rootVars, aaveVars
<1>6. \A t \in Token : Holdings'[t] = Holdings[t] /\ WalletOf(t)' = WalletOf(t)
  BY <1>2 DEF Holdings, WalletOf, aaveVars
<1>7. TokensAdd'
  <2>1. ASSUME NEW t \in Token
        PROVE Total(WalletOf(t)', User) + Holdings'[t] = Wealth * Cardinality(User) + yielded'[t]
    BY <1>1, <1>2, <1>6 DEF TokensAdd
  <2> QED BY <2>1 DEF TokensAdd
<1>8. SupplyAdds' /\ FirstDepositStaysLocked' /\ CacheIsBacked'
  BY <1>1, <1>2, LedgerKept DEF CacheIsBacked, rootVars, aaveVars
<1>9. CountedIsPaid'
  <2>1. withdrawnAt' = withdrawnAt /\ withdrawnAt \in Nat /\ withdrawnAt <= now
    BY <1>1, <1>2, Types DEF rootVars
  <2>2. withdrawnAt # now + 1
    BY <1>4, <2>1
  <2> QED BY <1>2, <2>1, <2>2 DEF CountedIsPaid, WithdrawnSoFar
<1>10. StepBounds
  <2>1. \A t \in Token : Holdings'[t] \in Nat /\ Holdings[t] <= Holdings'[t]
    BY <1>1, <1>6, HoldingsType
  <2>2. \A t \in Token : paidOut'[t] \in Nat /\ paidOut'[t] <= paidOut[t]
    BY <1>1, <1>2, <1>3, Types DEF TokenAmounts
  <2> QED BY <1>1, <1>2, <2>1, <2>2, QuietStep DEF rootVars
<1> QED BY <1>5, <1>7, <1>8, <1>9, <1>10 DEF IInv

(* A transfer of LP tokens, to oneself or to address(0) too.               *)
LEMMA TransferLpStep ==
  ASSUME IInv, NEW u \in User, NEW to \in Account, NEW amount \in LpAmounts,
         TransferLp(u, to, amount)
  PROVE  IInv' /\ StepBounds
<1>1. TypeOK /\ TokensAdd /\ CacheIsBacked /\ SupplyAdds /\ FirstDepositStaysLocked
      /\ amount \in Nat
  BY InputAssumption DEF IInv
<1>2. /\ UNCHANGED <<totalSupply, lastFeeCharge, lpPriceHighWaterMark, withdrawnAt,
                    totalWithdrawn, allowlist, rootIdle, zero, aaveIdle, aaveVars,
                    wallet, gov, now, yielded, paidOut>>
      /\ Call /\ amount <= balanceOf[u]
      /\ balanceOf' = LET debited == [balanceOf EXCEPT ![u] = @ - amount]
                      IN  [debited EXCEPT ![to] = @ + amount]
  BY DEF TransferLp
<1>3. balanceOf \in [Account -> Nat] /\ u \in Account /\ u # Locked
  BY <1>1, Types, AccountAssumption DEF Account
<1>4. PICK debited : debited = [balanceOf EXCEPT ![u] = @ - amount]
  OBVIOUS
<1>5. balanceOf' = [debited EXCEPT ![to] = @ + amount]
  BY <1>2, <1>4
<1>6. PICK n \in Int : n = 0 - amount
  BY <1>1
<1>7. /\ debited \in [Account -> Nat] /\ Credit(debited, balanceOf, Account, u, n)
      /\ debited[Locked] = balanceOf[Locked]
  <2>1. debited \in [Account -> Nat]
    BY <1>1, <1>2, <1>3, <1>4
  <2>2. Credit(debited, balanceOf, Account, u, n)
    BY <1>1, <1>2, <1>3, <1>4, <1>6 DEF Credit
  <2>3. debited[Locked] = balanceOf[Locked]
    BY <1>3, <1>4 DEF Account
  <2> QED BY <2>1, <2>2, <2>3
<1>8. PICK balances : balances = balanceOf'
  OBVIOUS
<1>9. /\ balances \in [Account -> Nat] /\ Credit(balances, debited, Account, to, amount)
      /\ balances[Locked] >= debited[Locked]
  <2>1. balances \in [Account -> Nat]
    BY <1>1, <1>5, <1>7, <1>8
  <2>2. Credit(balances, debited, Account, to, amount)
    BY <1>1, <1>5, <1>7, <1>8 DEF Credit
  <2>3. Locked \in Account
    BY DEF Account
  <2>4. balances[Locked] = debited[Locked] + (IF Locked = to THEN amount ELSE 0)
    BY <2>2, <2>3 DEF Credit
  <2>5. balances[Locked] \in Nat /\ debited[Locked] \in Nat
    BY <1>7, <2>1, <2>3
  <2> QED BY <1>1, <2>1, <2>2, <2>4, <2>5
<1>10. Total(balances, Account) = Total(balanceOf, Account)
  <2>1. Total(debited, Account) = Total(balanceOf, Account) + n
    BY <1>3, <1>7, FiniteSets1, CreditOne
  <2>2. Total(balances, Account) = Total(debited, Account) + amount
    BY <1>1, <1>7, <1>9, FiniteSets1, CreditOne
  <2>3. Total(balanceOf, Account) \in Int
    BY <1>3, FiniteSets1, TotalInt
  <2> QED BY <1>1, <1>6, <2>1, <2>2, <2>3
<1>11. SupplyAdds' /\ FirstDepositStaysLocked'
  <2>1. SupplyAdds'
    BY <1>1, <1>2, <1>8, <1>10 DEF SupplyAdds
  <2>2. \A t \in Token : balanceOf[Locked] >= 10 * PullExistential[t] =>
                         balances[Locked] >= 10 * PullExistential[t]
    <3>1. Locked \in Account
      BY DEF Account
    <3>2. /\ balances[Locked] \in Nat /\ balanceOf[Locked] \in Nat
          /\ balances[Locked] >= balanceOf[Locked]
      BY <1>3, <1>7, <1>9, <3>1
    <3> QED BY <3>2, Scales
  <2>3. FirstDepositStaysLocked'
    BY <1>1, <1>2, <1>8, <2>2 DEF FirstDepositStaysLocked
  <2> QED BY <2>1, <2>3
<1>12. TypeOK'
  BY <1>1, <1>2, <1>8, <1>9, CallCounts DEF TypeOK, aaveVars
<1>13. \A t \in Token : Holdings'[t] = Holdings[t] /\ WalletOf(t)' = WalletOf(t)
  BY <1>2 DEF Holdings, WalletOf, aaveVars
<1>14. TokensAdd'
  <2>1. ASSUME NEW t \in Token
        PROVE Total(WalletOf(t)', User) + Holdings'[t] = Wealth * Cardinality(User) + yielded'[t]
    BY <1>1, <1>2, <1>13 DEF TokensAdd
  <2> QED BY <2>1 DEF TokensAdd
<1>15. CountedIsPaid' /\ CacheIsBacked'
  BY <1>1, <1>2, CountKept DEF CacheIsBacked, aaveVars
<1>16. StepBounds
  <2>1. \A t \in Token : Holdings'[t] \in Nat /\ Holdings[t] <= Holdings'[t]
    BY <1>1, <1>13, HoldingsType
  <2>2. \A t \in Token : paidOut'[t] \in Nat /\ paidOut'[t] <= paidOut[t]
    BY <1>1, <1>2, Types DEF TokenAmounts
  <2> QED BY <1>1, <1>2, <2>1, <2>2, QuietStep
<1> QED BY <1>11, <1>12, <1>14, <1>15, <1>16 DEF IInv

-----------------------------------------------------------------------------
(* ERC20RootVault.deposit                                                  *)

(* Only deposits and withdrawals settle fees; what that does to the mark   *)
(* and to the performance treasury is the same in both.                    *)
LEMMA SettledFees ==
  ASSUME TypeOK, NEW px \in OraclePrices,
         lpPriceHighWaterMark' = FeesOf(px).highWaterMark,
         balanceOf'[PerformanceTreasury] = BalancesWithFees(FeesOf(px))[PerformanceTreasury]
  PROVE  FeeOnlyOnNewHigh
<1>1. PICK fees : fees = FeesOf(px)
  OBVIOUS
<1>2. /\ fees.highWaterMark \in Nat /\ fees.highWaterMark >= lpPriceHighWaterMark
      /\ fees.performance \in Nat
      /\ fees.performance > 0 =>
                fees.highWaterMark > lpPriceHighWaterMark /\ lpPriceHighWaterMark > 0
  BY <1>1, FeesType
<1>3. lpPriceHighWaterMark' = fees.highWaterMark
  BY <1>1
<1>4. ASSUME PerformanceTreasury \notin {StrategyTreasury, ProtocolTreasury},
             balanceOf'[PerformanceTreasury] > balanceOf[PerformanceTreasury]
      PROVE  fees.performance > 0
  <2>1. PerformanceTreasury \in Account /\ balanceOf[PerformanceTreasury] \in Nat
    BY Types DEF Account, Treasury
  <2>2. balanceOf'[PerformanceTreasury]
            = balanceOf[PerformanceTreasury] + 0 + 0 + fees.performance
    BY <1>1, <1>4, <2>1 DEF BalancesWithFees
  <2>3. PICK b \in Int : b = balanceOf'[PerformanceTreasury]
    BY <1>2, <2>1, <2>2
  <2>4. b > balanceOf[PerformanceTreasury]
    BY <1>4, <2>3
  <2> QED BY <1>2, <2>1, <2>2, <2>3, <2>4
<1> QED BY <1>2, <1>3, <1>4 DEF FeeOnlyOnNewHigh

LEMMA DepositStep ==
  ASSUME IInv, NEW u \in User, NEW amounts \in Amounts, NEW px \in OraclePrices,
         Deposit(u, amounts, px)
  PROVE  IInv' /\ StepBounds
<1>1. /\ TypeOK /\ TokensAdd /\ CacheIsBacked /\ SupplyAdds /\ FirstDepositStaysLocked
      /\ amounts \in TokenAmounts
  BY InputAssumption DEF IInv
<1> DEFINE feesX == FeesOf(px)
           supplyX == totalSupply + FeesMinted(feesX)
           balancesX == BalancesWithFees(feesX)
           sentX == NormalizedAmounts(MaxTvl, amounts,
                                      LpAmount(MaxTvl, amounts, supplyX), supplyX)
           lpX == LpAmount(MaxTvl, sentX, supplyX)
<1>2. PICK fees, supply, balances, sent, lpAmount, account :
          /\ fees = feesX /\ supply = supplyX /\ balances = balancesX /\ sent = sentX
          /\ lpAmount = lpX /\ account = MintTo(u, supply)
  OBVIOUS
<1>3. /\ Call
      /\ totalSupply = 0 => \A t \in Token :
             amounts[t] \in 10 * PullExistential[t] .. PullExistential[t] * PullExistential[t]
      /\ \A t \in Token : sent[t] <= wallet[u][t]
      /\ balanceOf' = [balances EXCEPT ![account] = @ + lpAmount]
      /\ totalSupply' = supply + lpAmount
      /\ lastFeeCharge' = fees.chargedAt
      /\ lpPriceHighWaterMark' = fees.highWaterMark
      /\ zero' = Plus(zero, sent)
      /\ wallet' = [wallet EXCEPT ![u] = Minus(@, sent)]
      /\ UNCHANGED <<withdrawnAt, totalWithdrawn, allowlist, rootIdle, aaveIdle,
                     aaveVars, gov, now, yielded, paidOut>>
  BY <1>2 DEF Deposit, FeesOf
<1>4. /\ totalSupply \in Nat /\ MaxTvl \in TokenAmounts /\ balanceOf \in [Account -> Nat]
      /\ zero \in TokenAmounts /\ paidOut \in TokenAmounts /\ now \in Nat
  BY <1>1, Types, TvlTypes
<1>5. /\ FeesMinted(fees) \in Nat /\ supply = totalSupply + FeesMinted(fees)
      /\ supply \in Nat /\ (totalSupply = 0 => supply = 0) /\ (totalSupply > 0 => supply > 0)
  <2>1. FeesMinted(fees) \in Nat /\ supply = totalSupply + FeesMinted(fees)
    BY <1>1, <1>2, FeeBalances
  <2>2. totalSupply = 0 => FeesMinted(fees) = 0
    BY <1>1, <1>2, NoFeesAtFirst
  <2> QED BY <1>4, <2>1, <2>2
<1>6. /\ balances \in [Account -> Nat]
      /\ Total(balances, Account) = Total(balanceOf, Account) + FeesMinted(fees)
      /\ \A a \in User \cup {Locked} : balances[a] = balanceOf[a]
  BY <1>1, <1>2, FeeBalances
<1>7. /\ sent \in TokenAmounts /\ (supply = 0 => sent = amounts)
  <2>1. PICK n \in Nat : n = LpAmount(MaxTvl, amounts, supply)
    BY <1>1, <1>4, <1>5, LpAmountFloor
  <2>2. sent = NormalizedAmounts(MaxTvl, amounts, n, supply)
    BY <1>2, <2>1
  <2> QED BY <1>1, <1>4, <1>5, <2>2, NormalizedType
<1>8. /\ lpAmount \in Nat
      /\ supply = 0 => \A t \in Token : sent[t] <= lpAmount
      /\ supply # 0 => \A t \in Significant(MaxTvl) :
                           lpAmount * MaxTvl[t] <= sent[t] * supply
  <2>1. lpAmount = LpAmount(MaxTvl, sent, supply)
    BY <1>2
  <2> QED BY <1>4, <1>5, <1>7, <2>1, LpAmountFloor
<1>9. /\ u \in Account /\ Locked \in Account /\ account \in {u, Locked}
      /\ account \in Account /\ (supply = 0 => account = Locked) /\ account \notin Treasury
  BY <1>2, AccountAssumption DEF Account, MintTo
<1>10. PICK after : after = balanceOf'
  OBVIOUS
<1>11. /\ after \in [Account -> Nat] /\ Credit(after, balances, Account, account, lpAmount)
       /\ \A a \in Account : a # account => after[a] = balances[a]
  BY <1>3, <1>6, <1>8, <1>9, <1>10 DEF Credit
<1>12. SupplyAdds'
  <2>1. Total(after, Account) = Total(balances, Account) + lpAmount
    BY <1>6, <1>8, <1>9, <1>11, FiniteSets1, CreditOne
  <2>2. Total(after, Account) = supply + lpAmount
    BY <1>1, <1>4, <1>5, <1>6, <1>8, <2>1 DEF SupplyAdds
  <2> QED BY <1>3, <1>10, <2>2 DEF SupplyAdds
<1>13. FirstDepositStaysLocked'
  <2>1. after[Locked] >= balanceOf[Locked] /\ (supply = 0 => after[Locked] >= lpAmount)
        /\ after[Locked] \in Nat /\ balanceOf[Locked] \in Nat
    <3>1. after[Locked] = balanceOf[Locked] + (IF Locked = account THEN lpAmount ELSE 0)
      BY <1>6, <1>9, <1>11 DEF Credit
    <3>2. after[Locked] \in Nat /\ balanceOf[Locked] \in Nat
      BY <1>4, <1>9, <1>11
    <3> QED BY <1>8, <1>9, <3>1, <3>2
  <2>2. ASSUME NEW t \in Token PROVE after[Locked] >= 10 * PullExistential[t]
    <3>1. 10 * PullExistential[t] \in Nat
      BY Scales
    <3>2. CASE totalSupply > 0
      BY <1>1, <2>1, <3>1, <3>2 DEF FirstDepositStaysLocked
    <3>3. CASE totalSupply = 0
      <4>1. amounts[t] >= 10 * PullExistential[t] /\ amounts[t] \in Nat
        BY <1>1, <1>3, <3>1, <3>3 DEF TokenAmounts
      <4>2. sent[t] = amounts[t] /\ sent[t] <= lpAmount
        BY <1>5, <1>7, <1>8, <3>3
      <4> QED BY <1>5, <1>8, <2>1, <3>1, <3>3, <4>1, <4>2
    <3> QED BY <1>4, <3>2, <3>3
  <2> QED BY <1>10, <2>2 DEF FirstDepositStaysLocked
<1>14. /\ wallet' \in [User -> TokenAmounts]
       /\ \A t \in Token : Total(WalletOf(t)', User) = Total(WalletOf(t), User) - sent[t]
  BY <1>1, <1>3, <1>7, WalletPays
<1>15. zero' \in TokenAmounts /\ \A t \in Token : zero'[t] = zero[t] + sent[t]
  BY <1>3, <1>4, <1>7, PlusType
<1>16. ASSUME NEW t \in Token
       PROVE  /\ Holdings'[t] = Holdings[t] + sent[t] /\ sent[t] \in Nat
              /\ Holdings[t] \in Nat /\ Total(WalletOf(t), User) \in Int /\ yielded[t] \in Nat
  <2>1. /\ rootIdle[t] \in Nat /\ zero[t] \in Nat /\ aaveIdle[t] \in Nat /\ aToken[t] \in Nat
        /\ Holdings[t] = rootIdle[t] + zero[t] + aaveIdle[t] + aToken[t] /\ Holdings[t] \in Nat
        /\ Total(WalletOf(t), User) \in Int /\ yielded[t] \in Nat
    BY <1>1, HoldingsType
  <2>2. sent[t] \in Nat
    BY <1>7 DEF TokenAmounts
  <2>3. Holdings'[t] = rootIdle[t] + (zero[t] + sent[t]) + aaveIdle[t] + aToken[t]
    BY <1>3, <1>15 DEF Holdings, aaveVars
  <2> QED BY <2>1, <2>2, <2>3
<1>17. fees.chargedAt \in 0..now /\ fees.highWaterMark \in Nat
  BY <1>1, <1>2, FeesType
<1>18. supply + lpAmount \in Nat
  BY <1>5, <1>8
<1>19. TypeOK'
  BY <1>1, <1>3, <1>10, <1>11, <1>14, <1>15, <1>17, <1>18, CallCounts DEF TypeOK, aaveVars
<1>20. TokensAdd'
  <2>1. ASSUME NEW t \in Token
        PROVE  /\ Total(WalletOf(t)', User) \in Int
               /\ Total(WalletOf(t)', User) + Holdings'[t] - yielded'[t]
                              = Total(WalletOf(t), User) + Holdings[t] - yielded[t]
    <3>1. Total(WalletOf(t)', User) \in Int
      BY <1>14, <1>16
    <3>2. Total(WalletOf(t)', User) + Holdings'[t] - yielded'[t]
            = (Total(WalletOf(t), User) - sent[t]) + (Holdings[t] + sent[t]) - yielded[t]
      BY <1>3, <1>14, <1>16
    <3>3. (Total(WalletOf(t), User) - sent[t]) + (Holdings[t] + sent[t]) - yielded[t]
            = Total(WalletOf(t), User) + Holdings[t] - yielded[t]
      BY <1>16
    <3> QED BY <3>1, <3>2, <3>3
  <2> QED BY <1>1, <1>19, <2>1, TokensKept
<1>21. CountedIsPaid' /\ CacheIsBacked'
  BY <1>1, <1>3, CountKept DEF CacheIsBacked, aaveVars
<1>22. SupplyWithFees = supply
  <2>1. \A a \in Treasury : balanceOf'[a] = BalancesWithFees(FeesOf(px))[a]
    BY <1>2, <1>9, <1>10, <1>11 DEF Account
  <2>2. SupplyWithFees = totalSupply + FeesMinted(FeesOf(px))
    BY <1>1, <1>2, <1>3, <2>1, FeesOfStep
  <2> QED BY <1>2, <2>2
<1>23. NoDilution
  <2> SUFFICES ASSUME totalSupply > 0, NEW t \in Significant(MaxTvl)
               PROVE  MaxTvl'[t] * SupplyWithFees >= MaxTvl[t] * totalSupply'
    BY DEF NoDilution
  <2>1. t \in Token
    BY DEF Significant
  <2>2. PICK share \in Nat : share = mulDiv(AaveFactor, tvls[t], DENOMINATOR)
                                /\ MaxTvl[t] = zero[t] + share
    <3>1. MaxTvl[t] = zero[t] + mulDiv(AaveFactor, tvls[t], DENOMINATOR)
      BY <2>1 DEF MaxTvl
    <3>2. AaveFactor \in Nat
      BY <1>1, AaveFactorNat
    <3>3. mulDiv(AaveFactor, tvls[t], DENOMINATOR) \in Nat
      BY <1>1, <2>1, <3>2, Scales, Types, MulDivFloor DEF TokenAmounts
    <3> QED BY <3>1, <3>3
  <2>3. MaxTvl'[t] = zero'[t] + share
    <3>1. AaveFactor' = AaveFactor /\ tvls' = tvls
      BY <1>3 DEF AaveFactor, aaveVars
    <3>2. MaxTvl'[t] = zero'[t] + mulDiv(AaveFactor', tvls'[t], DENOMINATOR)
      BY <2>1 DEF MaxTvl
    <3> QED BY <2>2, <3>1, <3>2
  <2>4. /\ zero[t] \in Nat /\ sent[t] \in Nat /\ MaxTvl[t] \in Nat
        /\ zero'[t] = zero[t] + sent[t]
    BY <1>4, <1>7, <1>15, <2>1 DEF TokenAmounts
  <2>5. MaxTvl'[t] = MaxTvl[t] + sent[t]
    BY <2>2, <2>3, <2>4
  <2>6. lpAmount * MaxTvl[t] <= sent[t] * supply
    BY <1>5, <1>8
  <2>7. ASSUME NEW m \in Nat, NEW s \in Nat, NEW k \in Nat, NEW l \in Nat, l * m <= s * k
        PROVE  (m + s) * k >= m * (k + l)
    <3>1. (m + s) * k = m * k + s * k /\ m * (k + l) = m * k + l * m
      BY SMT
    <3> QED BY <2>7, <3>1, SMT
  <2>8. (MaxTvl[t] + sent[t]) * supply >= MaxTvl[t] * (supply + lpAmount)
    BY <1>5, <1>8, <2>4, <2>6, <2>7
  <2> QED BY <1>3, <1>22, <2>5, <2>8
<1>24. PaysWithinShare
  <2>1. ASSUME NEW t \in Token PROVE ~(PaidOut(t) > 0)
    <3>1. PaidOut(t) = Holdings[t] - (Holdings[t] + sent[t])
      BY <1>16 DEF PaidOut
    <3> QED BY <1>16, <3>1
  <2> QED BY <2>1 DEF PaysWithinShare
<1>25. LosesOnlyDust
  <2>1. Burnt = supply - (supply + lpAmount)
    BY <1>3, <1>22 DEF Burnt
  <2>2. ~(Burnt > 0)
    BY <1>5, <1>8, <2>1
  <2> QED BY <2>2 DEF LosesOnlyDust
<1>26. FeeOnlyOnNewHigh
  <2>1. PerformanceTreasury \in Account /\ PerformanceTreasury # account
    BY <1>9 DEF Account, Treasury
  <2>2. balanceOf'[PerformanceTreasury] = BalancesWithFees(FeesOf(px))[PerformanceTreasury]
    BY <1>2, <1>10, <1>11, <2>1
  <2>3. lpPriceHighWaterMark' = FeesOf(px).highWaterMark
    BY <1>2, <1>3
  <2> QED BY <1>1, <2>2, <2>3, SettledFees
<1>27. WithinLimit
  <2>1. ASSUME NEW t \in Token PROVE ~(paidOut'[t] > paidOut[t])
    <3>1. paidOut'[t] = paidOut[t] /\ paidOut[t] \in Nat
      BY <1>3, <1>4 DEF TokenAmounts
    <3>2. ~(paidOut[t] > paidOut[t])
      BY <3>1
    <3> QED BY <3>1, <3>2
  <2> QED BY <2>1 DEF WithinLimit
<1> QED BY <1>12, <1>13, <1>19, <1>20, <1>21, <1>23, <1>24, <1>25, <1>26, <1>27
        DEF IInv, StepBounds

-----------------------------------------------------------------------------
(* ERC20RootVault.withdraw                                                 *)

LEMMA WithdrawStep ==
  ASSUME IInv, NEW u \in User, NEW to \in User, NEW n \in LpAmounts, NEW px \in OraclePrices,
         Withdraw(u, to, n, px)
  PROVE  IInv' /\ StepBounds
<1>1. /\ TypeOK /\ TokensAdd /\ CacheIsBacked /\ SupplyAdds /\ FirstDepositStaysLocked
      /\ CountedIsPaid /\ n \in Nat
  BY InputAssumption DEF IInv
<1> DEFINE feesX == FeesOf(px)
           supplyX == totalSupply + FeesMinted(feesX)
           balancesX == BalancesWithFees(feesX)
           lpX == Least(n, balancesX[u])
           wantX == [t \in Token |-> mulDiv(lpX, MinTvl[t], supplyX)]
           pullX == PullAll(wantX)
           burnX == IF SufficientAmountRest(balancesX[u], supplyX, pullX.actual)
                    THEN lpX ELSE balancesX[u]
<1>2. PICK fees, supply, balances, lpAmount, want, pull, toBurn :
          /\ fees = feesX /\ supply = supplyX /\ balances = balancesX /\ lpAmount = lpX
          /\ want = wantX /\ pull = pullX /\ toBurn = burnX
  OBVIOUS
<1>3. /\ Call
      /\ totalSupply > 0
      /\ \A t \in Token : WithdrawnSoFar[t] + pull.actual[t] <= gov.withdrawLimit[t]
      /\ balanceOf' = [balances EXCEPT ![u] = @ - toBurn]
      /\ totalSupply' = supply - toBurn
      /\ lastFeeCharge' = fees.chargedAt
      /\ lpPriceHighWaterMark' = fees.highWaterMark
      /\ withdrawnAt' = now
      /\ totalWithdrawn' = Plus(WithdrawnSoFar, pull.actual)
      /\ zero' = pull.zero
      /\ rootIdle' = NoTokens
      /\ aToken' = pull.aToken
      /\ tvls' = pull.tvls
      /\ tvlsAt' = pull.tvlsAt
      /\ wallet' = [wallet EXCEPT ![to] = Plus(@, pull.actual)]
      /\ paidOut' = Plus(paidOut, pull.actual)
      /\ UNCHANGED <<allowlist, aaveIdle, gov, now, yielded>>
  BY <1>2 DEF Withdraw, FeesOf
<1>4. /\ totalSupply \in Nat /\ MinTvl \in TokenAmounts /\ balanceOf \in [Account -> Nat]
      /\ paidOut \in TokenAmounts /\ now \in Nat /\ aaveIdle \in TokenAmounts
      /\ totalWithdrawn \in TokenAmounts /\ gov.withdrawLimit \in TokenAmounts
  BY <1>1, Types, TvlTypes, GovTypes
<1>5. /\ FeesMinted(fees) \in Nat /\ supply = totalSupply + FeesMinted(fees)
      /\ supply \in Nat \ {0}
  <2>1. FeesMinted(fees) \in Nat /\ supply = totalSupply + FeesMinted(fees)
    BY <1>1, <1>2, FeeBalances
  <2> QED BY <1>3, <1>4, <2>1
<1>6. /\ balances \in [Account -> Nat]
      /\ Total(balances, Account) = supply
      /\ \A a \in User \cup {Locked} : balances[a] = balanceOf[a]
  <2>1. /\ balances \in [Account -> Nat]
        /\ Total(balances, Account) = Total(balanceOf, Account) + FeesMinted(fees)
        /\ \A a \in User \cup {Locked} : balances[a] = balanceOf[a]
    BY <1>1, <1>2, FeeBalances
  <2> QED BY <1>1, <1>5, <2>1 DEF SupplyAdds
<1>7. /\ u \in Account /\ Locked \in Account /\ u # Locked /\ u \notin Treasury
      /\ Treasury \subseteq Account
  BY AccountAssumption DEF Account
<1>8. /\ balances[u] \in Nat /\ balances[u] <= supply
      /\ lpAmount \in Nat /\ lpAmount <= balances[u]
      /\ toBurn \in {lpAmount, balances[u]}
  <2>1. balances[u] \in Nat /\ balances[u] <= supply
    BY <1>6, <1>7, FiniteSets1, TotalNat
  <2>2. lpAmount = Least(n, balances[u]) /\ toBurn \in {lpAmount, balances[u]}
    BY <1>2
  <2> QED BY <1>1, <2>1, <2>2, LeastNat
<1>9. toBurn \in Nat /\ lpAmount <= toBurn /\ toBurn <= balances[u]
  BY <1>8
<1>10. ASSUME NEW t \in Token
       PROVE  /\ want[t] \in Nat /\ want[t] <= MinTvl[t] /\ MinTvl[t] \in Nat
              /\ want[t] = mulDiv(lpAmount, MinTvl[t], supply)
              /\ want[t] * supply <= lpAmount * MinTvl[t]
  <2>1. want[t] = mulDiv(lpAmount, MinTvl[t], supply)
    BY <1>2
  <2>2. MinTvl[t] \in Nat /\ lpAmount <= supply
    BY <1>4, <1>5, <1>8 DEF TokenAmounts
  <2>3. mulDiv(lpAmount, MinTvl[t], supply) <= MinTvl[t]
    BY <1>5, <1>8, <2>2, MulDivPart
  <2>4. /\ mulDiv(lpAmount, MinTvl[t], supply) \in Nat
        /\ mulDiv(lpAmount, MinTvl[t], supply) * supply <= lpAmount * MinTvl[t]
    BY <1>5, <1>8, <2>2, MulDivFloor
  <2> QED BY <2>1, <2>2, <2>3, <2>4
<1>11. want \in TokenAmounts
  <2>1. want = [t \in Token |-> want[t]]
    BY <1>2
  <2> QED BY <1>10, <2>1 DEF TokenAmounts
<1>12. /\ pull.actual \in TokenAmounts /\ pull.zero \in TokenAmounts
       /\ pull.aToken \in TokenAmounts /\ pull.tvls \in TokenAmounts
       /\ pull.tvlsAt \in 0..now
       /\ \A t \in Token :
              /\ pull.actual[t] <= want[t]
              /\ pull.zero[t] + pull.aToken[t] + pull.actual[t]
                      = rootIdle[t] + zero[t] + aToken[t]
              /\ pull.tvls[t] <= pull.aToken[t]
              /\ want[t] <= pull.actual[t] + PullExistential[t]
  <2>1. pull = PullAll(want)
    BY <1>2
  <2> QED BY <1>1, <1>10, <1>11, <2>1, PullFacts
<1>13. PICK after : after = balanceOf'
  OBVIOUS
<1>14. PICK k \in Int : k = 0 - toBurn
  BY <1>9
<1>15. /\ after \in [Account -> Nat] /\ Credit(after, balances, Account, u, k)
       /\ \A a \in Account : a # u => after[a] = balances[a]
  BY <1>3, <1>6, <1>7, <1>8, <1>9, <1>13, <1>14 DEF Credit
<1>16. SupplyAdds'
  <2>1. Total(after, Account) = Total(balances, Account) + k
    BY <1>6, <1>7, <1>15, FiniteSets1, CreditOne
  <2>2. Total(after, Account) = supply - toBurn
    BY <1>5, <1>6, <1>9, <1>14, <2>1
  <2> QED BY <1>3, <1>13, <2>2 DEF SupplyAdds
<1>17. FirstDepositStaysLocked'
  <2>1. after[Locked] = balanceOf[Locked]
    BY <1>6, <1>7, <1>15
  <2>2. \A t \in Token : balanceOf[Locked] >= 10 * PullExistential[t]
    BY <1>1, <1>3 DEF FirstDepositStaysLocked
  <2> QED BY <1>13, <2>1, <2>2 DEF FirstDepositStaysLocked
<1>18. /\ wallet' \in [User -> TokenAmounts]
       /\ \A t \in Token : Total(WalletOf(t)', User) = Total(WalletOf(t), User) + pull.actual[t]
  BY <1>1, <1>3, <1>12, WalletGets
<1>19. /\ paidOut' \in TokenAmounts
       /\ \A t \in Token : paidOut'[t] = paidOut[t] + pull.actual[t]
  BY <1>3, <1>4, <1>12, PlusType
<1>20. WithdrawnSoFar \in TokenAmounts
  BY <1>4, NoTokensType DEF WithdrawnSoFar
<1>21. ASSUME NEW t \in Token
       PROVE  /\ Holdings'[t] = Holdings[t] - pull.actual[t] /\ pull.actual[t] \in Nat
              /\ Holdings'[t] \in Int
              /\ Holdings[t] \in Nat /\ Total(WalletOf(t), User) \in Int /\ yielded[t] \in Nat
  <2>1. /\ rootIdle[t] \in Nat /\ zero[t] \in Nat /\ aaveIdle[t] \in Nat /\ aToken[t] \in Nat
        /\ Holdings[t] = rootIdle[t] + zero[t] + aaveIdle[t] + aToken[t] /\ Holdings[t] \in Nat
        /\ Total(WalletOf(t), User) \in Int /\ yielded[t] \in Nat
    BY <1>1, HoldingsType
  <2>2. pull.actual[t] \in Nat /\ pull.zero[t] \in Nat /\ pull.aToken[t] \in Nat
    BY <1>12 DEF TokenAmounts
  <2>3. NoTokens[t] = 0
    BY NoTokensType
  <2>4. Holdings'[t] = NoTokens[t] + pull.zero[t] + aaveIdle[t] + pull.aToken[t]
    BY <1>3 DEF Holdings
  <2>5. pull.zero[t] + pull.aToken[t] + pull.actual[t] = rootIdle[t] + zero[t] + aToken[t]
    BY <1>12
  <2> QED BY <2>1, <2>2, <2>3, <2>4, <2>5
<1>22. fees.chargedAt \in 0..now /\ fees.highWaterMark \in Nat
  BY <1>1, <1>2, FeesType
<1>23. supply - toBurn \in Nat
  BY <1>5, <1>8, <1>9
<1>24. totalWithdrawn' \in TokenAmounts
  BY <1>3, <1>12, <1>20, PlusType
<1>25. TypeOK'
  <2>1. /\ balanceOf' \in [Account -> Nat] /\ totalSupply' \in Nat /\ calls' \in Nat
        /\ lastFeeCharge' \in 0..now' /\ withdrawnAt' \in 0..now' /\ tvlsAt' \in 0..now'
        /\ lpPriceHighWaterMark' \in Nat /\ now' \in Nat
    BY <1>1, <1>3, <1>4, <1>12, <1>13, <1>15, <1>22, <1>23, CallCounts
  <2>2. /\ rootIdle' \in TokenAmounts /\ zero' \in TokenAmounts /\ aaveIdle' \in TokenAmounts
        /\ aToken' \in TokenAmounts /\ tvls' \in TokenAmounts
    BY <1>3, <1>4, <1>12, NoTokensType
  <2>3. /\ yielded' \in TokenAmounts /\ allowlist' \subseteq User /\ gov' \in GovType
    BY <1>1, <1>3 DEF TypeOK
  <2> QED BY <1>18, <1>19, <1>24, <2>1, <2>2, <2>3 DEF TypeOK
<1>26. TokensAdd'
  <2>1. ASSUME NEW t \in Token
        PROVE  /\ Total(WalletOf(t)', User) \in Int
               /\ Total(WalletOf(t)', User) + Holdings'[t] - yielded'[t]
                              = Total(WalletOf(t), User) + Holdings[t] - yielded[t]
    <3>1. Total(WalletOf(t)', User) \in Int
      BY <1>18, <1>21
    <3>2. Total(WalletOf(t)', User) + Holdings'[t] - yielded'[t]
            = (Total(WalletOf(t), User) + pull.actual[t]) + (Holdings[t] - pull.actual[t]) - yielded[t]
      BY <1>3, <1>18, <1>21
    <3>3. (Total(WalletOf(t), User) + pull.actual[t]) + (Holdings[t] - pull.actual[t]) - yielded[t]
            = Total(WalletOf(t), User) + Holdings[t] - yielded[t]
      BY <1>21
    <3> QED BY <3>1, <3>2, <3>3
  <2> QED BY <1>1, <1>25, <2>1, TokensKept
<1>27. CacheIsBacked'
  BY <1>3, <1>12 DEF CacheIsBacked
<1>28. CountedIsPaid'
  <2>1. WithdrawnSoFar' = totalWithdrawn'
    BY <1>3 DEF WithdrawnSoFar
  <2>2. paidOut = WithdrawnSoFar
    BY <1>1 DEF CountedIsPaid
  <2> QED BY <1>3, <2>1, <2>2 DEF CountedIsPaid
<1>29. SupplyWithFees = supply
  <2>1. \A a \in Treasury : balanceOf'[a] = BalancesWithFees(FeesOf(px))[a]
    BY <1>2, <1>7, <1>13, <1>15
  <2>2. SupplyWithFees = totalSupply + FeesMinted(FeesOf(px))
    BY <1>1, <1>2, <1>3, <2>1, FeesOfStep
  <2> QED BY <1>2, <2>2
<1>30. Burnt = toBurn
  <2>1. Burnt = supply - (supply - toBurn)
    BY <1>3, <1>29 DEF Burnt
  <2> QED BY <1>5, <1>9, <2>1
<1>31. ASSUME NEW t \in Token PROVE PaidOut(t) = pull.actual[t]
  <2>1. PaidOut(t) = Holdings[t] - (Holdings[t] - pull.actual[t])
    BY <1>21 DEF PaidOut
  <2> QED BY <1>21, <2>1
<1>32. NoDilution
  <2>1. totalSupply' = supply - toBurn
    BY <1>3
  <2>2. ~(supply - toBurn > supply)
    BY <1>5, <1>9
  <2> QED BY <1>29, <2>1, <2>2 DEF NoDilution
<1>33. PaysWithinShare
  <2>1. ASSUME NEW t \in Token PROVE pull.actual[t] * supply <= toBurn * MinTvl[t]
    <3>1. /\ pull.actual[t] \in Nat /\ pull.actual[t] <= want[t] /\ want[t] \in Nat
          /\ MinTvl[t] \in Nat /\ want[t] * supply <= lpAmount * MinTvl[t]
      BY <1>10, <1>12, <1>21
    <3>2. ASSUME NEW a \in Nat, NEW b \in Nat, NEW c \in Nat, a <= b PROVE a * c <= b * c
      BY <3>2, SMT
    <3>3. pull.actual[t] * supply <= want[t] * supply
      BY <1>5, <3>1, <3>2
    <3>4. lpAmount * MinTvl[t] <= toBurn * MinTvl[t]
      BY <1>8, <1>9, <3>1, <3>2
    <3>5. /\ pull.actual[t] * supply \in Int /\ want[t] * supply \in Int
          /\ lpAmount * MinTvl[t] \in Int /\ toBurn * MinTvl[t] \in Int
      BY <1>5, <1>8, <1>9, <3>1
    <3> QED BY <3>1, <3>3, <3>4, <3>5
  <2> QED BY <1>29, <1>30, <1>31, <2>1 DEF PaysWithinShare
<1>34. LosesOnlyDust
  <2>1. ASSUME NEW t \in Token
        PROVE  mulDiv(toBurn, MinTvl[t], supply) <= pull.actual[t] + PullExistential[t]
    <3>1. CASE toBurn = lpAmount
      BY <1>10, <1>12, <3>1
    <3>2. CASE toBurn # lpAmount
      <4>1. toBurn = balances[u] /\ ~SufficientAmountRest(balances[u], supply, pull.actual)
        BY <1>2, <3>2
      <4>2. ~(mulDiv(balances[u], MinTvl[t], supply) >= PullExistential[t] + pull.actual[t])
        BY <4>1 DEF SufficientAmountRest
      <4>3. /\ mulDiv(balances[u], MinTvl[t], supply) \in Nat /\ PullExistential[t] \in Nat
            /\ pull.actual[t] \in Nat
        BY <1>5, <1>8, <1>10, <1>21, Scales, MulDivFloor
      <4> QED BY <4>1, <4>2, <4>3
    <3> QED BY <3>1, <3>2
  <2> QED BY <1>29, <1>30, <1>31, <2>1 DEF LosesOnlyDust
<1>35. FeeOnlyOnNewHigh
  <2>1. PerformanceTreasury \in Account /\ PerformanceTreasury # u
    BY <1>7 DEF Treasury
  <2>2. balanceOf'[PerformanceTreasury] = BalancesWithFees(FeesOf(px))[PerformanceTreasury]
    BY <1>2, <1>13, <1>15, <2>1
  <2>3. lpPriceHighWaterMark' = FeesOf(px).highWaterMark
    BY <1>2, <1>3
  <2> QED BY <1>1, <2>2, <2>3, SettledFees
<1>36. WithinLimit
  <2>1. ASSUME NEW t \in Token PROVE paidOut'[t] <= gov.withdrawLimit[t]
    BY <1>1, <1>3, <1>19 DEF CountedIsPaid
  <2> QED BY <2>1 DEF WithinLimit
<1> QED BY <1>16, <1>17, <1>25, <1>26, <1>27, <1>28, <1>32, <1>33, <1>34, <1>35, <1>36
        DEF IInv, StepBounds

-----------------------------------------------------------------------------
(* The theorems.                                                           *)

LEMMA InitInv == Init => IInv
<1> SUFFICES ASSUME Init PROVE IInv
  OBVIOUS
<1> USE DEF Init
<1>1. NoTokens \in TokenAmounts /\ \A t \in Token : NoTokens[t] = 0
  BY NoTokensType
<1>2. wallet \in [User -> TokenAmounts]
  BY Scales DEF TokenAmounts
<1>3. TypeOK
  BY <1>1, <1>2, InputAssumption DEF TypeOK
<1>4. SupplyAdds
  <2>1. \A a \in Account : balanceOf[a] = 0
    OBVIOUS
  <2>2. Total(balanceOf, Account) = 0
    BY <2>1, FiniteSets1, TotalZero
  <2> QED BY <2>2 DEF SupplyAdds
<1>5. TokensAdd
  <2>1. ASSUME NEW t \in Token
        PROVE  Total(WalletOf(t), User) + Holdings[t] = Wealth * Cardinality(User) + yielded[t]
    <3>1. \A u \in User : WalletOf(t)[u] = Wealth
      BY DEF WalletOf
    <3>2. Total(WalletOf(t), User) = Wealth * Cardinality(User)
      BY <3>1, Scales, FiniteSets1, TotalOfSame
    <3>3. Holdings[t] = 0 /\ yielded[t] = 0
      BY <1>1 DEF Holdings
    <3> QED BY <3>2, <3>3
  <2> QED BY <2>1 DEF TokensAdd
<1>6. CacheIsBacked
  BY <1>1 DEF CacheIsBacked
<1>7. FirstDepositStaysLocked
  BY DEF FirstDepositStaysLocked
<1>8. CountedIsPaid
  BY DEF CountedIsPaid, WithdrawnSoFar
<1> QED BY <1>3, <1>4, <1>5, <1>6, <1>7, <1>8 DEF IInv

LEMMA NextStep == IInv /\ Next => IInv' /\ StepBounds
<1> SUFFICES ASSUME IInv, Next PROVE IInv' /\ StepBounds
  OBVIOUS
<1>1. CASE \E u \in User, amounts \in Amounts, px \in OraclePrices : Deposit(u, amounts, px)
  BY <1>1, DepositStep
<1>2. CASE \E u, to \in User, n \in LpAmounts, px \in OraclePrices : Withdraw(u, to, n, px)
  BY <1>2, WithdrawStep
<1>3. CASE \E u \in User, to \in Account, n \in LpAmounts : TransferLp(u, to, n)
  BY <1>3, TransferLpStep
<1>4. CASE \E u \in User : AddDepositor(u)
  BY <1>4, AddDepositorStep
<1>5. CASE \E u \in User : RemoveDepositor(u)
  BY <1>5, RemoveDepositorStep
<1>6. CASE \E amounts \in StrategyAmounts : PullFromZero(amounts)
  BY <1>6, PullFromZeroStep
<1>7. CASE \E amounts \in StrategyAmounts : PullFromAave(amounts)
  BY <1>7, PullFromAaveStep
<1>8. CASE \E amounts \in Donations : PushAave(amounts)
  BY <1>8, PushAaveStep
<1>9. CASE UpdateTvls
  BY <1>9, UpdateTvlsStep
<1>10. CASE \E tokens \in SUBSET Token : ReclaimTokens(tokens)
  BY <1>10, ReclaimTokensStep
<1>11. CASE \E u \in User, amounts \in Donations : Donate(u, amounts)
  BY <1>11, DonateStep
<1>12. CASE \E t \in Token, n \in Interest : AaveInterest(t, n)
  BY <1>12, AaveInterestStep
<1>13. CASE \E p \in GovParams : SetParams(p)
  BY <1>13, SetParamsStep
<1>14. CASE Tick
  BY <1>14, TickStep
<1> QED BY <1>1, <1>2, <1>3, <1>4, <1>5, <1>6, <1>7, <1>8, <1>9, <1>10, <1>11, <1>12,
           <1>13, <1>14 DEF Next

LEMMA IdleStep == IInv /\ UNCHANGED vars => IInv'
<1> SUFFICES ASSUME IInv, UNCHANGED vars PROVE IInv'
  OBVIOUS
<1> USE DEF vars, rootVars, aaveVars
<1>1. TypeOK'
  BY DEF IInv, TypeOK
<1>2. SupplyAdds' /\ FirstDepositStaysLocked' /\ CountedIsPaid'
  BY LedgerKept, CountKept
<1>3. TokensAdd' /\ CacheIsBacked'
  <2>1. Holdings' = Holdings
    BY DEF Holdings
  <2>2. \A t \in Token : WalletOf(t)' = WalletOf(t)
    BY DEF WalletOf
  <2> QED BY <2>1, <2>2 DEF IInv, TokensAdd, CacheIsBacked
<1> QED BY <1>1, <1>2, <1>3 DEF IInv

(* What every later step may rely on.                                      *)
LEMMA Invariance == Spec => []IInv
<1>1. Init => IInv
  BY InitInv
<1>2. IInv /\ [Next]_vars => IInv'
  BY NextStep, IdleStep
<1> QED BY <1>1, <1>2, PTL DEF Spec

(* For every number of users, tokens and calls, every fee, limit and       *)
(* price: the LP ledger adds up over fee mints, the locked first mint,     *)
(* draining burns and transfers; no call creates or loses tokens; what     *)
(* AaveVault claims from its cache is backed; and a first deposit's worth  *)
(* of LP tokens stays out of everybody's reach.                            *)
THEOREM BooksBalance == Spec => []AccountsBalance
<1>1. IInv => AccountsBalance
  BY BooksAreTotals
<1> QED BY <1>1, Invariance, PTL

(* A deposit never takes tvl per LP token from those who hold some, for    *)
(* any token whose tvl is not dust, whatever the rounding of its amounts.  *)
THEOREM DepositsDoNotDilute == Spec => DepositDoesNotDilute
<1>1. IInv /\ [Next]_vars =>
        [(totalSupply > 0 /\ totalSupply' > SupplyWithFees) =>
            \A t \in Significant(MaxTvl) :
                MaxTvl'[t] * SupplyWithFees >= MaxTvl[t] * totalSupply']_vars
  BY NextStep DEF StepBounds, NoDilution
<1> QED BY <1>1, Invariance, PTL DEF Spec, DepositDoesNotDilute

(* Tokens leave the vaults only against burnt LP tokens and within their   *)
(* share of the lower tvl bound; and what leaves within one timestamp is   *)
(* within the withdraw limit, however it is split into calls.              *)
THEOREM PayoutsAreBounded == Spec => PayoutsKeepToBounds
<1>1. IInv /\ [Next]_vars =>
        [\A t \in Token : PaidOut(t) > 0 =>
            PaidOut(t) * SupplyWithFees <= Burnt * MinTvl[t]]_vars
  BY NextStep DEF StepBounds, PaysWithinShare
<1>2. IInv /\ [Next]_vars =>
        [\A t \in Token : paidOut'[t] > paidOut[t] => paidOut'[t] <= gov.withdrawLimit[t]]_vars
  BY NextStep DEF StepBounds, WithinLimit
<1> QED BY <1>1, <1>2, Invariance, PTL
        DEF Spec, PayoutsKeepToBounds, PayoutWithinShare, WithdrawLimitPerTimestamp

(* A withdrawal costs its caller at most a pull existential of each token, *)
(* although the pull gives up on remainders vault by vault, reads tvl from *)
(* a cache, and burns the whole balance when little of it is left.         *)
THEOREM WithdrawalsLoseOnlyDust == Spec => WithdrawLosesOnlyDust
<1>1. IInv /\ [Next]_vars =>
        [Burnt > 0 =>
            \A t \in Token :
                mulDiv(Burnt, MinTvl[t], SupplyWithFees) <= PaidOut(t) + PullExistential[t]]_vars
  BY NextStep DEF StepBounds, LosesOnlyDust
<1> QED BY <1>1, Invariance, PTL DEF Spec, WithdrawLosesOnlyDust

(* The high-water mark never goes down, and no performance fee is minted   *)
(* in a step that does not raise it above an earlier one.                  *)
THEOREM PerformanceIsPaidOnce == Spec => PerformanceFeeOnlyOnNewHigh
<1>1. IInv /\ [Next]_vars =>
        [/\ lpPriceHighWaterMark' >= lpPriceHighWaterMark
         /\ (totalSupply' # totalSupply
               /\ PerformanceTreasury \notin {StrategyTreasury, ProtocolTreasury}
               /\ balanceOf'[PerformanceTreasury] > balanceOf[PerformanceTreasury])
               => lpPriceHighWaterMark' > lpPriceHighWaterMark /\ lpPriceHighWaterMark > 0]_vars
  BY NextStep DEF StepBounds, FeeOnlyOnNewHigh
<1> QED BY <1>1, Invariance, PTL DEF Spec, PerformanceFeeOnlyOnNewHigh

=============================================================================
