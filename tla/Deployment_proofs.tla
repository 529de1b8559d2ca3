-------------------------- MODULE Deployment_proofs --------------------------
(***************************************************************************)
(* UnitPricesGovernance: no unit price takes effect unannounced, for every *)
(* set of tokens and prices and every delay.  A token whose price is or    *)
(* may become unset when the reader looks may get any price; the price of  *)
(* the others can be replaced only by what was staged then, because what   *)
(* is staged later waits for DELAY, and to lose its price a token has to   *)
(* wait as well.                                                           *)
(*                                                                         *)
(* Deployment: ProtocolGovernance is handed over whole or not at all, on   *)
(* every network and for every selection of tags.  The multicall is        *)
(* followed call by call: while its first part runs everything is only     *)
(* staged and nobody is staged two different grants; its last six calls    *)
(* then put in force what was staged, in the order they are made.  As the  *)
(* script sets prices of its own, the first argument is carried over to    *)
(* the composed system.                                                    *)
(*                                                                         *)
(* The runs of scripts: every step behind a run is done, and nothing takes *)
(* a deployment away, so that a run that starts again finds what those     *)
(* before it saved.  From the order in which the scripts are selected, the *)
(* hand-over then finds what the strategies use deployed, and registers it.*)
(***************************************************************************)
EXTENDS Deployment, Sums, TLAPS

(* What can be committed before until was read.  A token of which some     *)
(* price was not read had a price, and keeps one until then.               *)
AnyPriceRead(k) == Prices \cup {0} \subseteq seen.prices[k]
TokenNotice(k) ==
    /\ now < seen.until => unitPrices[k] \in seen.prices[k]
    /\ (stagedUnitPricesTimestamps[k] # 0 /\ stagedUnitPricesTimestamps[k] < seen.until)
           => stagedUnitPrices[k] \in seen.prices[k]
    /\ (now < seen.until /\ ~AnyPriceRead(k)) =>
           /\ unitPrices[k] # 0
           /\ (stagedUnitPricesTimestamps[k] # 0 /\ stagedUnitPricesTimestamps[k] < seen.until)
                  => stagedUnitPrices[k] # 0
Staged == stagedUnitPrices \in [Token -> Prices \cup {0}]
InForce == unitPrices \in [Token -> Prices \cup {0}]

IInv ==
    /\ TypeOK /\ Staged /\ InForce
    /\ seen.until <= now + DELAY
    /\ \A k \in Token : TokenNotice(k)

-----------------------------------------------------------------------------
(* What is staged for a token now cannot be committed before until, unless *)
(* any price was read for it.                                              *)
LEMMA ReadyAfterUntil ==
  ASSUME IInv, NEW k \in Token, now < seen.until, ~AnyPriceRead(k)
  PROVE  ReadyAt(k) >= seen.until
BY PriceAssumption DEF IInv, TypeOK, TokenNotice, ReadyAt

LEMMA StageInv ==
  ASSUME IInv, NEW k \in Token, NEW price \in Prices, StageUnitPrice(k, price)
  PROVE  IInv'
<1>1. /\ stagedUnitPrices' = [stagedUnitPrices EXCEPT ![k] = price]
      /\ stagedUnitPricesTimestamps' = [stagedUnitPricesTimestamps EXCEPT ![k] = ReadyAt(k)]
      /\ UNCHANGED <<unitPrices, now, seen>>
  BY DEF StageUnitPrice, SetStaged
<1>2. ReadyAt(k) \in Nat \ {0} /\ ReadyAt(k) >= now
  BY PriceAssumption DEF IInv, TypeOK, ReadyAt
<1>3. TypeOK' /\ Staged' /\ InForce' /\ (seen.until <= now + DELAY)'
  BY <1>1, <1>2, PriceAssumption DEF IInv, TypeOK, Staged, InForce
<1>4. ASSUME NEW j \in Token PROVE TokenNotice(j)'
  <2>1. CASE j # k
    BY <1>1, <2>1 DEF IInv, TypeOK, TokenNotice, AnyPriceRead
  <2>2. CASE j = k
    <3>1. stagedUnitPrices'[k] = price /\ stagedUnitPricesTimestamps'[k] = ReadyAt(k)
      BY <1>1 DEF IInv, TypeOK
    <3>2. ReadyAt(k) < seen.until => AnyPriceRead(k)
      BY <1>2, ReadyAfterUntil DEF IInv, TypeOK
    <3>3. AnyPriceRead(k) => price \in seen.prices[k]
      BY DEF AnyPriceRead
    <3> QED BY <1>1, <2>2, <3>1, <3>2, <3>3 DEF IInv, TokenNotice, AnyPriceRead
  <2> QED BY <2>1, <2>2
<1> QED BY <1>3, <1>4 DEF IInv

LEMMA RollbackInv ==
  ASSUME IInv, NEW k \in Token, RollbackUnitPrice(k)
  PROVE  IInv'
<1>1. /\ stagedUnitPrices' = [stagedUnitPrices EXCEPT ![k] = 0]
      /\ stagedUnitPricesTimestamps' = [stagedUnitPricesTimestamps EXCEPT ![k] = 0]
      /\ UNCHANGED <<unitPrices, now, seen>>
  BY DEF RollbackUnitPrice, SetStaged
<1>2. TypeOK' /\ Staged' /\ InForce' /\ (seen.until <= now + DELAY)'
  BY <1>1 DEF IInv, TypeOK, Staged, InForce
<1>3. ASSUME NEW j \in Token PROVE TokenNotice(j)'
  BY <1>1 DEF IInv, TypeOK, TokenNotice, AnyPriceRead
<1> QED BY <1>2, <1>3 DEF IInv

LEMMA CommitInv ==
  ASSUME IInv, NEW k \in Token, CommitUnitPrice(k)
  PROVE  IInv'
<1>1. /\ stagedUnitPricesTimestamps[k] # 0 /\ stagedUnitPricesTimestamps[k] <= now
      /\ unitPrices' = [unitPrices EXCEPT ![k] = stagedUnitPrices[k]]
      /\ stagedUnitPrices' = [stagedUnitPrices EXCEPT ![k] = 0]
      /\ stagedUnitPricesTimestamps' = [stagedUnitPricesTimestamps EXCEPT ![k] = 0]
      /\ UNCHANGED <<now, seen>>
  BY DEF CommitUnitPrice, ClearStaged, SetStaged
<1>2. TypeOK' /\ Staged' /\ InForce' /\ (seen.until <= now + DELAY)'
  BY <1>1 DEF IInv, TypeOK, Staged, InForce
<1>3. ASSUME NEW j \in Token PROVE TokenNotice(j)'
  <2>1. CASE j # k
    BY <1>1, <2>1 DEF IInv, TypeOK, TokenNotice, AnyPriceRead
  <2>2. CASE j = k
    <3>1. /\ unitPrices'[k] = stagedUnitPrices[k] /\ stagedUnitPricesTimestamps'[k] = 0
      BY <1>1 DEF IInv, TypeOK
    <3>2. now < seen.until => stagedUnitPricesTimestamps[k] < seen.until
      BY <1>1 DEF IInv, TypeOK
    <3> QED BY <1>1, <2>2, <3>1, <3>2 DEF IInv, TokenNotice, AnyPriceRead
  <2> QED BY <2>1, <2>2
<1> QED BY <1>2, <1>3 DEF IInv

LEMMA TickInv == ASSUME IInv, Tick PROVE IInv'
<1>1. now' = now + 1 /\ UNCHANGED <<unitPrices, stagedUnitPrices, stagedUnitPricesTimestamps, seen>>
  BY DEF Tick, priceVars
<1>2. TypeOK' /\ Staged' /\ InForce' /\ (seen.until <= now + DELAY)'
  BY <1>1, PriceAssumption DEF IInv, TypeOK, Staged, InForce
<1>3. ASSUME NEW k \in Token PROVE TokenNotice(k)'
  BY <1>1 DEF IInv, TypeOK, TokenNotice, AnyPriceRead
<1> QED BY <1>2, <1>3 DEF IInv

LEMMA LookInv == ASSUME IInv, Look PROVE IInv'
<1>1. /\ UNCHANGED <<unitPrices, stagedUnitPrices, stagedUnitPricesTimestamps, now>>
      /\ seen'.until = now + DELAY
      /\ \A k \in Token : seen'.prices[k] =
            IF Unset(k) THEN Prices \cup {0}
            ELSE {unitPrices[k]} \cup
                 (IF stagedUnitPricesTimestamps[k] # 0 THEN {stagedUnitPrices[k]} ELSE {})
  BY DEF Look, priceVars
<1>2. TypeOK' /\ Staged' /\ InForce' /\ (seen.until <= now + DELAY)'
  BY <1>1, PriceAssumption DEF IInv, TypeOK, Staged, InForce
<1>3. ASSUME NEW k \in Token PROVE TokenNotice(k)'
  <2>1. unitPrices[k] \in Prices \cup {0} /\ stagedUnitPrices[k] \in Prices \cup {0}
    BY DEF IInv, Staged, InForce
  <2>2. CASE Unset(k)
    BY <1>1, <2>1, <2>2 DEF TokenNotice, AnyPriceRead
  <2>3. CASE ~Unset(k)
    BY <1>1, <2>1, <2>3 DEF TokenNotice, Unset
  <2> QED BY <2>2, <2>3
<1> QED BY <1>2, <1>3 DEF IInv

LEMMA PricesBegin == Init => IInv
BY PriceAssumption DEF Init, NothingSeen, IInv, TypeOK, Staged, InForce, TokenNotice

LEMMA PriceStep == ASSUME IInv, [Next]_vars PROVE IInv'
<1>1. CASE \E k \in Token, price \in Prices : StageUnitPrice(k, price)
  BY <1>1, StageInv
<1>2. CASE \E k \in Token : RollbackUnitPrice(k) \/ CommitUnitPrice(k)
  BY <1>2, RollbackInv, CommitInv
<1>3. CASE Tick
  BY <1>3, TickInv
<1>4. CASE Look
  BY <1>4, LookInv
<1>5. CASE UNCHANGED vars
  BY <1>5 DEF vars, priceVars, IInv, TypeOK, Staged, InForce, TokenNotice, AnyPriceRead
<1> QED BY <1>1, <1>2, <1>3, <1>4, <1>5 DEF Next

LEMMA Invariance == Spec => []IInv
BY PricesBegin, PriceStep, PTL DEF Spec

-----------------------------------------------------------------------------
(* A price in force was, for DELAY after somebody read the contract, in    *)
(* force or staged when they did.                                          *)
THEOREM PriceNotice == Spec => []NoUnannouncedPrice
<1>1. IInv => NoUnannouncedPrice
  BY DEF IInv, TokenNotice, NoUnannouncedPrice
<1> QED BY <1>1, Invariance, PTL

-----------------------------------------------------------------------------
(* Among indices there is a first one: induction over the calls.           *)
LEMMA FirstIndex ==
    ASSUME NEW n \in Nat, NEW B \in SUBSET (0..n), B # {}
    PROVE  \E m \in B : \A k \in B : m <= k
<1> DEFINE Q == {0..k : k \in B}
<1>1. IsFiniteSet(0..n)
  BY FS_Interval
<1>2. Q \in SUBSET SUBSET (0..n) /\ Q # {}
  OBVIOUS
<1>3. PICK T \in Q : \A U \in Q : U \subseteq T => U = T
  <2> DEFINE D == 0..n
  <2>1. IsFiniteSet(D) /\ Q \in SUBSET SUBSET D /\ Q # {}
    BY <1>1, <1>2
  <2> HIDE DEF Q, D
  <2> QED
    BY <2>1, SmallestSet
<1>4. PICK m \in B : T = 0..m
  BY <1>3
<1>5. ASSUME NEW k \in B, k < m PROVE FALSE
  <2>1. 0..k \subseteq 0..m /\ m \in 0..m /\ m \notin 0..k
    BY <1>5
  <2> QED
    BY <1>3, <1>4, <2>1
<1>6. \A k \in B : m <= k
  BY <1>5
<1> QED
  BY <1>6

(* What the first n calls of a multicall leave, step by step.              *)
IsRun(after, calls, n) ==
    after = [i \in 0..n |-> IF i = 0 THEN {Before} ELSE {Apply(g, calls[i]) : g \in after[i - 1]}]

Begins(after) == after[0] = {Before}
Goes(after, calls, n) ==
    \A i \in 1..n : after[i] = {Apply(g, calls[i]) : g \in after[i - 1]}

LEMMA RunSteps ==
    ASSUME NEW calls, NEW n \in Nat, NEW after, IsRun(after, calls, n)
    PROVE  Begins(after) /\ Goes(after, calls, n)
<1> DEFINE h == [j \in 0..n |-> IF j = 0 THEN {Before}
                                ELSE {Apply(g, calls[j]) : g \in after[j - 1]}]
<1>1. after = h
  BY DEF IsRun
<1>2. h[0] = {Before} /\ \A i \in 1..n : h[i] = {Apply(g, calls[i]) : g \in after[i - 1]}
  OBVIOUS
<1> HIDE DEF h
<1> QED
  BY <1>1, <1>2 DEF Begins, Goes

LEMMA RunExtends ==
    ASSUME NEW calls, NEW n \in Nat, NEW after, IsRun(after, calls, n)
    PROVE  \E more : IsRun(more, calls, n + 1)
<1> DEFINE last == {Apply(g, calls[n + 1]) : g \in after[n]}
           more == [i \in 0..n + 1 |-> IF i = n + 1 THEN last ELSE after[i]]
<1>1. ASSUME NEW i \in 0..n + 1
      PROVE  more[i] = IF i = 0 THEN {Before} ELSE {Apply(g, calls[i]) : g \in more[i - 1]}
  <2>1. CASE i = n + 1
    <3>1. i # 0 /\ i - 1 = n /\ n \in 0..n + 1 /\ n # n + 1
      BY <2>1
    <3>2. more[i] = last /\ more[i - 1] = after[n]
      BY <2>1, <3>1
    <3> HIDE DEF more
    <3> QED
      BY <2>1, <3>1, <3>2
  <2>2. CASE i # n + 1
    <3>1. i \in 0..n /\ more[i] = after[i]
      BY <2>2
    <3>2. i # 0 => i - 1 \in 0..n + 1 /\ i - 1 # n + 1
      BY <2>2
    <3>3. i # 0 => more[i - 1] = after[i - 1]
      BY <3>2
    <3> HIDE DEF more
    <3>4. CASE i = 0
      BY <3>1, <3>4, RunSteps DEF Begins
    <3>5. CASE i # 0
      <4>1. i \in 1..n
        BY <3>1, <3>5
      <4>2. after[i] = {Apply(g, calls[i]) : g \in after[i - 1]}
        BY <4>1, RunSteps DEF Goes
      <4> QED
        BY <3>1, <3>3, <3>5, <4>2
    <3> QED
      BY <3>4, <3>5
  <2> QED
    BY <2>1, <2>2
<1>2. more = [i \in 0..n + 1 |-> more[i]]
  OBVIOUS
<1> HIDE DEF more
<1>3. IsRun(more, calls, n + 1)
  BY <1>1, <1>2 DEF IsRun
<1> QED
  BY <1>3

LEMMA RunExists ==
    ASSUME NEW calls, NEW n \in Nat
    PROVE  \E after : IsRun(after, calls, n)
<1> DEFINE B == {i \in 0..n : ~\E after : IsRun(after, calls, i)}
<1>1. ASSUME B # {} PROVE FALSE
  <2>1. PICK m \in B : \A k \in B : m <= k
    <3>1. B \in SUBSET (0..n)
      OBVIOUS
    <3> HIDE DEF B
    <3> QED
      BY <1>1, <3>1, FirstIndex
  <2>2. m \in 0..n /\ ~\E after : IsRun(after, calls, m)
    BY <2>1
  <2>3. CASE m = 0
    <3> DEFINE f == [i \in 0..0 |-> {Before}]
    <3>1. \A i \in 0..0 : i = 0
      OBVIOUS
    <3>2. IsRun(f, calls, 0)
      BY <3>1 DEF IsRun
    <3> QED
      BY <2>2, <2>3, <3>2
  <2>4. CASE m # 0
    <3>1. m - 1 \in 0..n /\ m - 1 \in Nat /\ ~(m <= m - 1) /\ (m - 1) + 1 = m
      BY <2>2, <2>4
    <3>2. PICK after : IsRun(after, calls, m - 1)
      BY <2>1, <3>1
    <3>3. \E more : IsRun(more, calls, (m - 1) + 1)
      BY <3>1, <3>2, RunExtends
    <3> QED
      BY <2>2, <3>1, <3>3
  <2> QED
    BY <2>3, <2>4
<1>2. n \in 0..n
  OBVIOUS
<1> QED
  BY <1>1, <1>2

LEMMA FinalizedUnfolds ==
    ASSUME NEW calls, Len(calls) \in Nat
    PROVE  \E after : IsRun(after, calls, Len(calls)) /\ Finalized(calls) = after[Len(calls)]
<1> DEFINE chosen == CHOOSE after :
               after = [i \in 0..Len(calls) |->
                           IF i = 0 THEN {Before} ELSE {Apply(g, calls[i]) : g \in after[i - 1]}]
<1>1. Finalized(calls) = chosen[Len(calls)]
  BY DEF Finalized
<1>2. \E after : IsRun(after, calls, Len(calls))
  BY RunExists
<1>3. IsRun(chosen, calls, Len(calls))
  BY <1>2 DEF IsRun
<1> QED
  BY <1>1, <1>3

-----------------------------------------------------------------------------
(* The calls that only stage, or set prices, and what is staged for whom:  *)
(* nobody is staged two different grants.                                  *)
Spenders == {"uniV3", "uniV2", "curve", "cowswap", "all"}
Known == Token \cup {"deployer", "admin"} \cup Spenders \cup Registrars
Validators ==
    {"ERC20Validator", "UniV3Validator", "UniV2Validator", "CurveValidator", "AllowAllValidator"}
Perms(x) ==
    IF x \in Token THEN {"ERC20_VAULT_TOKEN", "ERC20_TRANSFER"}
    ELSE IF x \in {"deployer", "admin"} THEN {"CREATE_VAULT"}
    ELSE IF x \in Spenders THEN {"ERC20_APPROVE"}
    ELSE {"REGISTER_VAULT"}
Staging ==
    {C("stageUnitPrice", k, UnitPrice[k]) : k \in Token}
      \cup {C("commitUnitPrice", k, 0) : k \in Token}
      \cup {C("stagePermissionGrants", x, Perms(x)) : x \in Known}
      \cup {C("stageValidator", x, v) : x \in Known, v \in Validators}
StagingCalls ==
    setUnitPrices \o registerGovernances \o registerTokens \o registerExternalProtocols
      \o Creators

LEMMA PricesAreStaged == setUnitPrices \in Seq(Staging)
<1> DEFINE order == <<"weth", "wsteth", "wbtc", "dai", "usdc", "usdt">>
           s == [i \in 1..6 |-> C("stageUnitPrice", order[i], UnitPrice[order[i]])]
           t == [i \in 1..6 |-> C("commitUnitPrice", order[i], 0)]
<1>1. setUnitPrices = s \o t
  BY DEF setUnitPrices
<1>2. \A i \in 1..6 : order[i] \in Token
  BY DeploymentAssumption
<1> HIDE DEF order
<1>3. s \in Seq(Staging) /\ t \in Seq(Staging)
  <2>1. \A i \in 1..6 : C("stageUnitPrice", order[i], UnitPrice[order[i]]) \in Staging
                         /\ C("commitUnitPrice", order[i], 0) \in Staging
    BY <1>2 DEF Staging
  <2> QED
    BY <2>1
<1> HIDE DEF s, t
<1> QED
  BY <1>1, <1>3

LEMMA GrantsStage ==
    \A x \in Known : C("stagePermissionGrants", x, Perms(x)) \in Staging
BY DEF Staging

LEMMA RegisterStages ==
    ASSUME NEW name \in Registrars
    PROVE  Register(name) \in Seq(Staging)
<1>1. C("stagePermissionGrants", name, {"REGISTER_VAULT"}) \in Staging
  <2>1. name \in Known /\ Perms(name) = {"REGISTER_VAULT"}
    BY DeploymentAssumption DEF Known, Perms, Registrars, Spenders
  <2> QED
    BY <2>1 DEF Staging
<1> QED
  BY <1>1 DEF Register

LEMMA GovernancesAreStaged == registerGovernances \in Seq(Staging)
<1>1. \A name \in Registrars : Register(name) \in Seq(Staging)
  BY RegisterStages
<1> QED
  BY <1>1 DEF registerGovernances, Registrars

LEMMA AllowStages ==
    ASSUME NEW k \in Token
    PROVE  Allow(k) \in Seq(Staging)
<1>1. k \in Known /\ Perms(k) = {"ERC20_VAULT_TOKEN", "ERC20_TRANSFER"}
  BY DEF Perms, Known
<1>2. /\ C("stagePermissionGrants", k, {"ERC20_VAULT_TOKEN", "ERC20_TRANSFER"}) \in Staging
      /\ C("stageValidator", k, "ERC20Validator") \in Staging
  BY <1>1 DEF Staging, Validators
<1> QED
  BY <1>2 DEF Allow

LEMMA TokensAreStaged == registerTokens \in Seq(Staging)
<1>1. \A k \in Token : Allow(k) \in Seq(Staging)
  BY AllowStages
<1> QED
  BY <1>1, DeploymentAssumption DEF registerTokens

LEMMA SpendStages ==
    ASSUME NEW n \in Nat, NEW spenders \in [1..n -> Spenders]
    PROVE  Spend(spenders) \in Seq(Staging)
<1>1. \A x \in Spenders : x \in Known /\ Perms(x) = {"ERC20_APPROVE"}
  BY DeploymentAssumption DEF Known, Perms, Spenders
<1>2. ASSUME NEW x \in Spenders
      PROVE  C("stagePermissionGrants", x, {"ERC20_APPROVE"}) \in Staging
  <2>1. x \in Known /\ Perms(x) = {"ERC20_APPROVE"}
    BY <1>1
  <2>2. C("stagePermissionGrants", x, Perms(x)) \in Staging
    BY <2>1, GrantsStage
  <2> QED
    BY <2>1, <2>2
<1>3. DOMAIN spenders = 1..n
  OBVIOUS
<1> QED
  BY <1>2, <1>3 DEF Spend

LEMMA ValidateStages ==
    ASSUME NEW n \in Nat, NEW addresses \in [1..n -> Known], NEW validator \in Validators
    PROVE  Validate(addresses, validator) \in Seq(Staging)
<1>1. \A x \in Known : C("stageValidator", x, validator) \in Staging
  BY DEF Staging
<1>2. DOMAIN addresses = 1..n
  OBVIOUS
<1> QED
  BY <1>1, <1>2 DEF Validate

LEMMA CreatorsAreStaged == Creators \in Seq(Staging)
<1>1. /\ "deployer" \in Known /\ "admin" \in Known
      /\ Perms("deployer") = {"CREATE_VAULT"} /\ Perms("admin") = {"CREATE_VAULT"}
  BY DeploymentAssumption DEF Perms, Known
<1>2. /\ C("stagePermissionGrants", "deployer", {"CREATE_VAULT"}) \in Staging
      /\ C("stagePermissionGrants", "admin", {"CREATE_VAULT"}) \in Staging
  BY <1>1 DEF Staging
<1> QED
  BY <1>2 DEF Creators

(* A list of the addresses of a network.                                   *)
Lists(n, S) == [1..n -> S]
LEMMA ApproveListsAre ==
    ASSUME NEW net \in DOMAIN ALLOWED_APPROVE_LIST
    PROVE  LET data == ALLOWED_APPROVE_LIST[net] IN
           /\ \E n \in Nat : data.keys \in Lists(n, Spenders)
           /\ \E n \in Nat : data.all \in Lists(n, Spenders)
           /\ \E n \in Nat : data.erc20 \in Lists(n, Token)
<1> DEFINE data == ALLOWED_APPROVE_LIST[net]
<1>1. net \in {"mainnet", "polygon", "base"}
  BY DEF ALLOWED_APPROVE_LIST
<1>2. CASE net = "mainnet"
  <2>1. data = [erc20 |-> <<"weth", "usdc", "wbtc", "dai">>, all |-> <<>>,
                keys |-> <<"uniV3", "uniV2", "curve", "cowswap">>]
    BY <1>2 DEF ALLOWED_APPROVE_LIST, Approve
  <2>2. /\ data.keys \in Lists(4, Spenders) /\ data.all \in Lists(0, Spenders)
        /\ data.erc20 \in Lists(4, Token)
    BY <2>1, DeploymentAssumption DEF Lists, Spenders
  <2> QED
    BY <2>2
<1>3. CASE net = "polygon"
  <2>1. data = [erc20 |-> <<"weth", "usdc", "wbtc", "dai">>, all |-> <<>>,
                keys |-> <<"uniV3", "uniV2", "curve">>]
    BY <1>3 DEF ALLOWED_APPROVE_LIST, Approve
  <2>2. /\ data.keys \in Lists(3, Spenders) /\ data.all \in Lists(0, Spenders)
        /\ data.erc20 \in Lists(4, Token)
    BY <2>1, DeploymentAssumption DEF Lists, Spenders
  <2> QED
    BY <2>2
<1>4. CASE net = "base"
  <2>1. data = [erc20 |-> <<"usdc", "weth", "wsteth", "dai">>, all |-> <<"all">>,
                keys |-> <<"uniV3">>]
    BY <1>4 DEF ALLOWED_APPROVE_LIST, Approve
  <2>2. /\ data.keys \in Lists(1, Spenders) /\ data.all \in Lists(1, Spenders)
        /\ data.erc20 \in Lists(4, Token)
    BY <2>1, DeploymentAssumption DEF Lists, Spenders
  <2> QED
    BY <2>2
<1> QED
  BY <1>1, <1>2, <1>3, <1>4

LEMMA ListsAreSequences ==
    ASSUME NEW m \in Nat, NEW n \in Nat, NEW S, NEW s \in [1..m -> S], NEW t \in [1..n -> S]
    PROVE  s \o t \in [1..m + n -> S]
<1>1. s \in Seq(S) /\ t \in Seq(S) /\ Len(s) = m /\ Len(t) = n
  OBVIOUS
<1> DEFINE u == s \o t
<1>2. u \in Seq(S) /\ Len(u) = m + n
  BY <1>1
<1> HIDE DEF u
<1>3. u \in [1..m + n -> S]
  BY <1>2
<1> QED
  BY <1>3 DEF u

LEMMA ProtocolsAreStaged == registerExternalProtocols \in Seq(Staging)
<1>1. CASE network \notin DOMAIN ALLOWED_APPROVE_LIST
  BY <1>1 DEF registerExternalProtocols
<1>2. CASE network \in DOMAIN ALLOWED_APPROVE_LIST
  <2> DEFINE data == ALLOWED_APPROVE_LIST[network]
             Of(key) == IF key \in ToSet(data.keys) THEN <<key>> ELSE <<>>
  <2>1. PICK m \in Nat : data.keys \in Lists(m, Spenders)
    BY <1>2, ApproveListsAre
  <2>2. PICK n \in Nat : data.all \in Lists(n, Spenders)
    BY <1>2, ApproveListsAre
  <2>3. PICK l \in Nat : data.erc20 \in Lists(l, Token)
    BY <1>2, ApproveListsAre
  <2>4. registerExternalProtocols =
            Spend(data.keys \o data.all)
              \o Validate(Of("uniV3"), "UniV3Validator") \o Validate(Of("uniV2"), "UniV2Validator")
              \o Validate(Of("curve"), "CurveValidator") \o Validate(data.erc20, "ERC20Validator")
              \o Validate(data.all, "AllowAllValidator")
    BY <1>2 DEF registerExternalProtocols
  <2>5. \A key \in Known : Of(key) \in [1..0 -> Known] \/ Of(key) \in [1..1 -> Known]
    <3> HIDE DEF data
    <3> QED
      OBVIOUS
  <2> HIDE DEF data, Of
  <2>6. Spend(data.keys \o data.all) \in Seq(Staging)
    <3>1. data.keys \o data.all \in [1..m + n -> Spenders] /\ m + n \in Nat
      <4> DEFINE s == data.keys
                 t == data.all
      <4>1. s \in [1..m -> Spenders] /\ t \in [1..n -> Spenders]
        BY <2>1, <2>2 DEF Lists
      <4> HIDE DEF s, t
      <4>2. s \o t \in [1..m + n -> Spenders] /\ m + n \in Nat
        BY <4>1, ListsAreSequences
      <4> QED
        BY <4>2, Zenon DEF s, t
    <3> QED
      BY <3>1, SpendStages
  <2>7. \A key \in Known, v \in Validators : Validate(Of(key), v) \in Seq(Staging)
    BY <2>5, ValidateStages, 0 \in Nat, 1 \in Nat
  <2>8. Validate(data.erc20, "ERC20Validator") \in Seq(Staging)
    <3>1. data.erc20 \in [1..l -> Known] /\ "ERC20Validator" \in Validators
      BY <2>3 DEF Lists, Known, Validators
    <3> QED
      BY <3>1, ValidateStages
  <2>9. Validate(data.all, "AllowAllValidator") \in Seq(Staging)
    <3>1. data.all \in [1..n -> Known] /\ "AllowAllValidator" \in Validators
      BY <2>2 DEF Lists, Known, Validators
    <3> QED
      BY <3>1, ValidateStages
  <2>10. /\ Validate(Of("uniV3"), "UniV3Validator") \in Seq(Staging)
         /\ Validate(Of("uniV2"), "UniV2Validator") \in Seq(Staging)
         /\ Validate(Of("curve"), "CurveValidator") \in Seq(Staging)
    <3>1. {"uniV3", "uniV2", "curve"} \subseteq Known
          /\ {"UniV3Validator", "UniV2Validator", "CurveValidator"} \subseteq Validators
      BY DEF Known, Spenders, Validators
    <3> QED
      BY <2>7, <3>1
  <2> QED
    BY <2>4, <2>6, <2>8, <2>9, <2>10
<1> QED
  BY <1>1, <1>2

LEMMA StagingIsSequence == StagingCalls \in Seq(Staging)
BY PricesAreStaged, GovernancesAreStaged, TokensAreStaged, ProtocolsAreStaged, CreatorsAreStaged
   DEF StagingCalls

(* Among them are a grant and a validator for every token, and the         *)
(* creators' grants.                                                       *)
IsJoin(u, s, t, S) ==
    /\ u \in Seq(S) /\ Len(u) = Len(s) + Len(t)
    /\ Len(s) \in Nat /\ Len(t) \in Nat
    /\ DOMAIN u = 1..Len(u) /\ DOMAIN s = 1..Len(s) /\ DOMAIN t = 1..Len(t)
    /\ \A i \in 1..Len(s) : u[i] = s[i]
    /\ \A i \in 1..Len(t) : u[Len(s) + i] = t[i]
LEMMA Joined ==
    ASSUME NEW S, NEW s \in Seq(S), NEW t \in Seq(S)
    PROVE  IsJoin(s \o t, s, t, S)
BY DEF IsJoin

LEMMA RangeJoins ==
    ASSUME NEW S, NEW s \in Seq(S), NEW t \in Seq(S)
    PROVE  ToSet(s \o t) = ToSet(s) \cup ToSet(t)
<1> DEFINE u == s \o t
<1>0. IsJoin(u, s, t, S)
  BY Joined
<1> HIDE DEF u
<1>1. /\ u \in Seq(S) /\ Len(u) = Len(s) + Len(t) /\ Len(s) \in Nat /\ Len(t) \in Nat
      /\ DOMAIN u = 1..Len(u) /\ DOMAIN s = 1..Len(s) /\ DOMAIN t = 1..Len(t)
      /\ \A i \in 1..Len(s) : u[i] = s[i]
      /\ \A i \in 1..Len(t) : u[Len(s) + i] = t[i]
  BY <1>0 DEF IsJoin
<1>2. ASSUME NEW i \in DOMAIN u PROVE u[i] \in ToSet(s) \cup ToSet(t)
  <2>1. CASE i <= Len(s)
    BY <1>1, <2>1 DEF ToSet
  <2>2. CASE i > Len(s)
    <3>1. i - Len(s) \in DOMAIN t /\ Len(s) + (i - Len(s)) = i
      BY <1>1, <2>2
    <3> QED
      BY <1>1, <3>1 DEF ToSet
  <2> QED
    BY <1>1, <2>1, <2>2
<1>3. ASSUME NEW i \in DOMAIN s PROVE s[i] \in ToSet(u)
  BY <1>1 DEF ToSet
<1>4. ASSUME NEW i \in DOMAIN t PROVE t[i] \in ToSet(u)
  <2>1. Len(s) + i \in DOMAIN u
    BY <1>1
  <2> QED
    BY <1>1, <2>1 DEF ToSet
<1>5. ToSet(u) = ToSet(s) \cup ToSet(t)
  BY <1>2, <1>3, <1>4 DEF ToSet
<1> QED
  BY <1>5 DEF u

LEMMA TokensAreAllowed ==
    ASSUME NEW k \in Token
    PROVE  /\ C("stagePermissionGrants", k, Perms(k)) \in ToSet(registerTokens)
           /\ C("stageValidator", k, "ERC20Validator") \in ToSet(registerTokens)
<1>1. ToSet(Allow(k)) \subseteq ToSet(registerTokens)
  <2>1. \A x \in Token : Allow(x) \in Seq(Staging)
    BY AllowStages
  <2> DEFINE a == Allow("weth") \o Allow("wbtc")
             b == a \o Allow("usdc")
             c == b \o Allow("usdt")
             d == c \o Allow("dai")
  <2>2. /\ Allow("weth") \in Seq(Staging) /\ Allow("wbtc") \in Seq(Staging)
        /\ Allow("usdc") \in Seq(Staging) /\ Allow("usdt") \in Seq(Staging)
        /\ Allow("dai") \in Seq(Staging) /\ Allow("wsteth") \in Seq(Staging)
    BY <2>1, DeploymentAssumption
  <2>3. a \in Seq(Staging) /\ ToSet(a) = ToSet(Allow("weth")) \cup ToSet(Allow("wbtc"))
    BY <2>2, RangeJoins
  <2> HIDE DEF a
  <2>4. b \in Seq(Staging) /\ ToSet(b) = ToSet(a) \cup ToSet(Allow("usdc"))
    BY <2>2, <2>3, RangeJoins
  <2> HIDE DEF b
  <2>5. c \in Seq(Staging) /\ ToSet(c) = ToSet(b) \cup ToSet(Allow("usdt"))
    BY <2>2, <2>4, RangeJoins
  <2> HIDE DEF c
  <2>6. d \in Seq(Staging) /\ ToSet(d) = ToSet(c) \cup ToSet(Allow("dai"))
    BY <2>2, <2>5, RangeJoins
  <2> HIDE DEF d
  <2>7. ToSet(d \o Allow("wsteth")) = ToSet(d) \cup ToSet(Allow("wsteth"))
    BY <2>2, <2>6, RangeJoins
  <2>8. registerTokens = d \o Allow("wsteth")
    BY DEF registerTokens, a, b, c, d
  <2> QED
    BY <2>3, <2>4, <2>5, <2>6, <2>7, <2>8, DeploymentAssumption
<1>2. Perms(k) = {"ERC20_VAULT_TOKEN", "ERC20_TRANSFER"}
  BY DEF Perms
<1> DEFINE s == Allow(k)
<1>3. /\ s[1] = C("stagePermissionGrants", k, Perms(k)) /\ s[2] = C("stageValidator", k, "ERC20Validator")
      /\ 1 \in DOMAIN s /\ 2 \in DOMAIN s
  BY <1>2 DEF Allow
<1> HIDE DEF s
<1>4. s[1] \in ToSet(s) /\ s[2] \in ToSet(s)
  BY <1>3 DEF ToSet
<1> QED
  BY <1>1, <1>3, <1>4 DEF s

(* And a grant for every governance that is deployed.                      *)
LEMMA GovernancesAreRegistered ==
    ASSUME NEW x \in Registrars \cap deployed
    PROVE  C("stagePermissionGrants", x, {"REGISTER_VAULT"}) \in ToSet(registerGovernances)
<1>1. ToSet(Register(x)) \subseteq ToSet(registerGovernances)
  <2>1. \A name \in Registrars : Register(name) \in Seq(Staging)
    BY RegisterStages
  <2> DEFINE a == Register("AaveVaultGovernance") \o Register("UniV3VaultGovernance")
             b == a \o Register("PancakeSwapVaultGovernance")
             c == b \o Register("ERC20VaultGovernance")
             d == c \o Register("YearnVaultGovernance")
             e == d \o Register("ERC20RootVaultGovernance")
             f == e \o Register("BalancerCSPVaultGovernance")
  <2>2. /\ Register("AaveVaultGovernance") \in Seq(Staging)
        /\ Register("UniV3VaultGovernance") \in Seq(Staging)
        /\ Register("PancakeSwapVaultGovernance") \in Seq(Staging)
        /\ Register("ERC20VaultGovernance") \in Seq(Staging)
        /\ Register("YearnVaultGovernance") \in Seq(Staging)
        /\ Register("ERC20RootVaultGovernance") \in Seq(Staging)
        /\ Register("BalancerCSPVaultGovernance") \in Seq(Staging)
        /\ Register("MellowVaultGovernance") \in Seq(Staging)
    BY <2>1 DEF Registrars
  <2>3. /\ a \in Seq(Staging)
        /\ ToSet(a) = ToSet(Register("AaveVaultGovernance")) \cup ToSet(Register("UniV3VaultGovernance"))
    BY <2>2, RangeJoins
  <2> HIDE DEF a
  <2>4. b \in Seq(Staging) /\ ToSet(b) = ToSet(a) \cup ToSet(Register("PancakeSwapVaultGovernance"))
    BY <2>2, <2>3, RangeJoins
  <2> HIDE DEF b
  <2>5. c \in Seq(Staging) /\ ToSet(c) = ToSet(b) \cup ToSet(Register("ERC20VaultGovernance"))
    BY <2>2, <2>4, RangeJoins
  <2> HIDE DEF c
  <2>6. d \in Seq(Staging) /\ ToSet(d) = ToSet(c) \cup ToSet(Register("YearnVaultGovernance"))
    BY <2>2, <2>5, RangeJoins
  <2> HIDE DEF d
  <2>7. e \in Seq(Staging) /\ ToSet(e) = ToSet(d) \cup ToSet(Register("ERC20RootVaultGovernance"))
    BY <2>2, <2>6, RangeJoins
  <2> HIDE DEF e
  <2>8. f \in Seq(Staging) /\ ToSet(f) = ToSet(e) \cup ToSet(Register("BalancerCSPVaultGovernance"))
    BY <2>2, <2>7, RangeJoins
  <2> HIDE DEF f
  <2>9. ToSet(f \o Register("MellowVaultGovernance"))
            = ToSet(f) \cup ToSet(Register("MellowVaultGovernance"))
    BY <2>2, <2>8, RangeJoins
  <2>10. registerGovernances = f \o Register("MellowVaultGovernance")
    BY DEF registerGovernances, a, b, c, d, e, f
  <2> QED
    BY <2>3, <2>4, <2>5, <2>6, <2>7, <2>8, <2>9, <2>10 DEF Registrars
<1> DEFINE s == Register(x)
<1>2. s[1] = C("stagePermissionGrants", x, {"REGISTER_VAULT"}) /\ 1 \in DOMAIN s
  BY DEF Register
<1> HIDE DEF s
<1>3. s[1] \in ToSet(s)
  BY <1>2 DEF ToSet
<1> QED
  BY <1>1, <1>2, <1>3 DEF s

LEMMA StagingHolds ==
    /\ \A x \in Registrars \cap deployed :
           C("stagePermissionGrants", x, {"REGISTER_VAULT"}) \in ToSet(StagingCalls)
    /\ \A k \in Token : /\ C("stagePermissionGrants", k, Perms(k)) \in ToSet(StagingCalls)
                        /\ C("stageValidator", k, "ERC20Validator") \in ToSet(StagingCalls)
    /\ C("stagePermissionGrants", "deployer", {"CREATE_VAULT"}) \in ToSet(StagingCalls)
    /\ C("stagePermissionGrants", "admin", {"CREATE_VAULT"}) \in ToSet(StagingCalls)
<1> DEFINE a == setUnitPrices \o registerGovernances
           b == a \o registerTokens
           c == b \o registerExternalProtocols
<1>1. a \in Seq(Staging) /\ ToSet(a) = ToSet(setUnitPrices) \cup ToSet(registerGovernances)
  BY PricesAreStaged, GovernancesAreStaged, RangeJoins
<1> HIDE DEF a
<1>2. b \in Seq(Staging) /\ ToSet(b) = ToSet(a) \cup ToSet(registerTokens)
  BY <1>1, TokensAreStaged, RangeJoins
<1> HIDE DEF b
<1>3. c \in Seq(Staging) /\ ToSet(c) = ToSet(b) \cup ToSet(registerExternalProtocols)
  BY <1>2, ProtocolsAreStaged, RangeJoins
<1> HIDE DEF c
<1>4. ToSet(c \o Creators) = ToSet(c) \cup ToSet(Creators)
  BY <1>3, CreatorsAreStaged, RangeJoins
<1>5. StagingCalls = c \o Creators
  BY DEF StagingCalls, a, b, c
<1>6. /\ Creators[1] = C("stagePermissionGrants", "deployer", {"CREATE_VAULT"})
      /\ Creators[2] = C("stagePermissionGrants", "admin", {"CREATE_VAULT"})
      /\ 1 \in DOMAIN Creators /\ 2 \in DOMAIN Creators
  BY DEF Creators
<1>7. Creators[1] \in ToSet(Creators) /\ Creators[2] \in ToSet(Creators)
  BY <1>6 DEF ToSet
<1> QED
  BY <1>1, <1>2, <1>3, <1>4, <1>5, <1>6, <1>7, TokensAreAllowed, GovernancesAreRegistered

-----------------------------------------------------------------------------
(* While calls are staged: the deployer is the only admin and there is no  *)
(* delay, so whatever is staged is due at once, and prices are those of    *)
(* the scripts.                                                            *)
Fields ==
    {"admins", "delay", "paramsAt", "granted", "stagedGrants", "validators", "stagedValidators",
     "price", "stagedPrice", "priceAt", "reverted"}
Whole(g) == DOMAIN g = Fields /\ g.reverted \in BOOLEAN
Held(g, admins, delay, at) == g.admins = admins /\ g.delay = delay /\ g.paramsAt = at
PricesSet(g) ==
    /\ g.price \in [Token -> Prices \cup {0}] /\ g.stagedPrice \in [Token -> Prices \cup {0}]
    /\ g.priceAt \in [Token -> Nat]
    /\ \A k \in Token : /\ g.priceAt[k] = 0 => g.stagedPrice[k] = 0
                        /\ g.priceAt[k] # 0 => g.priceAt[k] >= now
GrantsStaged(g) ==
    /\ g.granted = {}
    /\ \A x \in DOMAIN g.stagedGrants : g.stagedGrants[x] = [perms |-> Perms(x), at |-> now]
ValidatorsStaged(g) ==
    /\ g.validators = <<>>
    /\ \A x \in DOMAIN g.stagedValidators : g.stagedValidators[x].at = now
StagesOnly(g) ==
    Held(g, {"deployer"}, 0, 0) /\ PricesSet(g) /\ GrantsStaged(g) /\ ValidatorsStaged(g)

(* A call that has gone through did not revert before.                     *)
LEMMA RevertsStay ==
    ASSUME NEW g, NEW c, Whole(g), g.reverted
    PROVE  Whole(Apply(g, c)) /\ Apply(g, c).reverted
<1>1. Apply(g, c) = [g EXCEPT !.reverted = TRUE]
  BY DEF Apply
<1> QED
  BY <1>1 DEF Whole, Fields

Passes(g) == Whole(g) /\ ~g.reverted /\ "deployer" \in g.admins

PriceStaged(g, k, p) ==
    [g EXCEPT !.stagedPrice[k] = p,
              !.priceAt[k] = IF g.price[k] = 0 THEN now ELSE now + DELAY]
LEMMA StagePriceIs ==
    ASSUME NEW g, Passes(g), NEW k, NEW p
    PROVE  Apply(g, C("stageUnitPrice", k, p)) = PriceStaged(g, k, p)
BY DEF Apply, C, Passes, PriceStaged

LEMMA CommitPriceIs ==
    ASSUME NEW g, Passes(g), NEW k
    PROVE  Apply(g, C("commitUnitPrice", k, 0)) =
               IF g.priceAt[k] = 0 \/ g.priceAt[k] > now THEN [g EXCEPT !.reverted = TRUE]
               ELSE [g EXCEPT !.price[k] = g.stagedPrice[k], !.stagedPrice[k] = 0, !.priceAt[k] = 0]
BY DEF Apply, C, Passes

LEMMA StageGrantIs ==
    ASSUME NEW g, Passes(g), NEW x, NEW perms
    PROVE  Apply(g, C("stagePermissionGrants", x, perms)) =
               [g EXCEPT !.stagedGrants =
                   Put(g.stagedGrants, x, [perms |-> perms, at |-> now + g.delay])]
BY DEF Apply, C, Passes

LEMMA StageValidatorIs ==
    ASSUME NEW g, Passes(g), NEW x, NEW v
    PROVE  Apply(g, C("stageValidator", x, v)) =
               [g EXCEPT !.stagedValidators =
                   Put(g.stagedValidators, x, [to |-> v, at |-> now + g.delay])]
BY DEF Apply, C, Passes

LEMMA CommitGrantsIs ==
    ASSUME NEW g, Passes(g)
    PROVE  Apply(g, C("commitAllPermissionGrants", "", 0)) =
               [g EXCEPT !.granted = g.granted \cup
                             UNION {{x} \X g.stagedGrants[x].perms : x \in Due(g.stagedGrants)},
                         !.stagedGrants = Restrict(g.stagedGrants, DOMAIN g.stagedGrants
                                                                    \ Due(g.stagedGrants))]
BY DEF Apply, C, Passes

LEMMA CommitValidatorsIs ==
    ASSUME NEW g, Passes(g)
    PROVE  Apply(g, C("commitAllValidators", "", 0)) =
               [g EXCEPT !.validators =
                             [x \in DOMAIN g.validators \cup Due(g.stagedValidators) |->
                                 IF x \in Due(g.stagedValidators) THEN g.stagedValidators[x].to
                                 ELSE g.validators[x]],
                         !.stagedValidators = Restrict(g.stagedValidators,
                             DOMAIN g.stagedValidators \ Due(g.stagedValidators))]
BY DEF Apply, C, Passes

LEMMA ParamsAre ==
    ASSUME NEW g, Passes(g)
    PROVE  /\ Apply(g, C("stageParams", "", 0)) = [g EXCEPT !.paramsAt = now + g.delay]
           /\ Apply(g, C("commitParams", "", 0)) =
                  IF g.paramsAt = 0 \/ g.paramsAt > now THEN [g EXCEPT !.reverted = TRUE]
                  ELSE [g EXCEPT !.delay = 1, !.paramsAt = 0]
BY DEF Apply, C, Passes

LEMMA RolesAre ==
    ASSUME NEW g, Passes(g), NEW a
    PROVE  /\ Apply(g, C("grantRole", a, 0)) = [g EXCEPT !.admins = g.admins \cup {a}]
           /\ Apply(g, C("renounceRole", a, 0)) = [g EXCEPT !.admins = g.admins \ {a}]
BY DEF Apply, C, Passes

LEMMA ScriptPrices == ASSUME NEW k \in Token PROVE UnitPrice[k] \in Prices
BY DeploymentAssumption DEF UnitPrice

(* A call of the staging part keeps what was staged and adds its own.      *)
Stages(g, c) ==
    /\ c.call = "stagePermissionGrants" => c.of \in DOMAIN g.stagedGrants
    /\ c.call = "stageValidator" => c.of \in DOMAIN g.stagedValidators
Keeps(g, h) ==
    /\ DOMAIN g.stagedGrants \subseteq DOMAIN h.stagedGrants
    /\ DOMAIN g.stagedValidators \subseteq DOMAIN h.stagedValidators

LEMMA StagingStep ==
    ASSUME NEW g, Whole(g), ~g.reverted, StagesOnly(g), NEW c \in Staging, now \in Nat \ {0}
    PROVE  /\ Whole(Apply(g, c))
           /\ ~Apply(g, c).reverted => StagesOnly(Apply(g, c)) /\ Stages(Apply(g, c), c)
                                        /\ Keeps(g, Apply(g, c))
<1> DEFINE h == Apply(g, c)
<1>1. Passes(g) /\ g.delay = 0 /\ now + g.delay = now
  BY DEF Passes, StagesOnly, Held
<1>2. CASE c \in {C("stageUnitPrice", k, UnitPrice[k]) : k \in Token}
  <2>1. PICK k \in Token : c = C("stageUnitPrice", k, UnitPrice[k])
    BY <1>2
  <2>2. h = [g EXCEPT !.stagedPrice[k] = UnitPrice[k],
                      !.priceAt[k] = IF g.price[k] = 0 THEN now ELSE now + DELAY]
    <3>1. h = PriceStaged(g, k, UnitPrice[k])
      BY <1>1, <2>1, StagePriceIs
    <3> QED
      BY <3>1 DEF PriceStaged
  <2> HIDE DEF h
  <2>3. /\ Whole(h) /\ h.admins = g.admins /\ h.delay = g.delay /\ h.paramsAt = g.paramsAt
        /\ h.granted = g.granted /\ h.stagedGrants = g.stagedGrants
        /\ h.validators = g.validators /\ h.stagedValidators = g.stagedValidators
        /\ h.price = g.price /\ h.stagedPrice = [g.stagedPrice EXCEPT ![k] = UnitPrice[k]]
        /\ h.priceAt = [g.priceAt EXCEPT ![k] = IF g.price[k] = 0 THEN now ELSE now + DELAY]
    BY <2>2 DEF Whole, Fields
  <2>4. PricesSet(h)
    BY <2>3, ScriptPrices, PriceAssumption DEF StagesOnly, PricesSet
  <2>5. c.call = "stageUnitPrice"
    BY <2>1 DEF C
  <2> QED
    BY <2>3, <2>4, <2>5
       DEF StagesOnly, Held, GrantsStaged, ValidatorsStaged, Stages, Keeps, h
<1>3. CASE c \in {C("commitUnitPrice", k, 0) : k \in Token}
  <2>1. PICK k \in Token : c = C("commitUnitPrice", k, 0)
    BY <1>3
  <2>2. h = IF g.priceAt[k] = 0 \/ g.priceAt[k] > now THEN [g EXCEPT !.reverted = TRUE]
            ELSE [g EXCEPT !.price[k] = g.stagedPrice[k], !.stagedPrice[k] = 0, !.priceAt[k] = 0]
    BY <1>1, <2>1, CommitPriceIs
  <2> HIDE DEF h
  <2>3. CASE g.priceAt[k] = 0 \/ g.priceAt[k] > now
    <3>1. Whole(h) /\ h.reverted
      BY <2>2, <2>3 DEF Whole, Fields
    <3> QED
      BY <3>1 DEF h
  <2>4. CASE ~(g.priceAt[k] = 0 \/ g.priceAt[k] > now)
    <3>1. h = [g EXCEPT !.price[k] = g.stagedPrice[k], !.stagedPrice[k] = 0, !.priceAt[k] = 0]
      BY <2>2, <2>4
    <3>2. /\ Whole(h) /\ h.admins = g.admins /\ h.delay = g.delay /\ h.paramsAt = g.paramsAt
          /\ h.granted = g.granted /\ h.stagedGrants = g.stagedGrants
          /\ h.validators = g.validators /\ h.stagedValidators = g.stagedValidators
          /\ h.price = [g.price EXCEPT ![k] = g.stagedPrice[k]]
          /\ h.stagedPrice = [g.stagedPrice EXCEPT ![k] = 0]
          /\ h.priceAt = [g.priceAt EXCEPT ![k] = 0]
      BY <3>1 DEF Whole, Fields
    <3>3. PricesSet(h)
      BY <3>2 DEF StagesOnly, PricesSet
    <3>4. c.call = "commitUnitPrice"
      BY <2>1 DEF C
    <3> QED
      BY <3>2, <3>3, <3>4
         DEF StagesOnly, Held, GrantsStaged, ValidatorsStaged, Stages, Keeps, h
  <2> QED
    BY <2>3, <2>4
<1>4. CASE c \in {C("stagePermissionGrants", x, Perms(x)) : x \in Known}
  <2>1. PICK x \in Known : c = C("stagePermissionGrants", x, Perms(x))
    BY <1>4
  <2>2. h = [g EXCEPT !.stagedGrants =
                 Put(g.stagedGrants, x, [perms |-> Perms(x), at |-> now + g.delay])]
    BY <1>1, <2>1, StageGrantIs
  <2> HIDE DEF h
  <2>3. /\ Whole(h) /\ h.admins = g.admins /\ h.delay = g.delay /\ h.paramsAt = g.paramsAt
        /\ h.granted = g.granted /\ h.price = g.price /\ h.stagedPrice = g.stagedPrice
        /\ h.priceAt = g.priceAt
        /\ h.validators = g.validators /\ h.stagedValidators = g.stagedValidators
        /\ h.stagedGrants = Put(g.stagedGrants, x, [perms |-> Perms(x), at |-> now])
    BY <1>1, <2>2 DEF Whole, Fields
  <2>4. GrantsStaged(h) /\ DOMAIN h.stagedGrants = DOMAIN g.stagedGrants \cup {x}
    <3> DEFINE s == g.stagedGrants
               v == [perms |-> Perms(x), at |-> now]
               t == Put(s, x, v)
    <3>1. DOMAIN t = DOMAIN s \cup {x} /\ t[x] = v /\ \A y \in DOMAIN s : y # x => t[y] = s[y]
      <4> HIDE DEF s, v
      <4> QED
        BY DEF Put
    <3>2. h.stagedGrants = t
      BY <2>3
    <3> HIDE DEF t
    <3>3. \A y \in DOMAIN t : t[y] = [perms |-> Perms(y), at |-> now]
      BY <3>1 DEF StagesOnly, GrantsStaged
    <3> QED
      BY <2>3, <3>1, <3>2, <3>3 DEF StagesOnly, GrantsStaged
  <2>5. c.call = "stagePermissionGrants" /\ c.of = x
    BY <2>1 DEF C
  <2> QED
    BY <2>3, <2>4, <2>5
       DEF StagesOnly, Held, PricesSet, ValidatorsStaged, Stages, Keeps, h
<1>5. CASE c \in {C("stageValidator", x, v) : x \in Known, v \in Validators}
  <2>1. PICK x \in Known, v \in Validators : c = C("stageValidator", x, v)
    BY <1>5
  <2>2. h = [g EXCEPT !.stagedValidators =
                 Put(g.stagedValidators, x, [to |-> v, at |-> now + g.delay])]
    BY <1>1, <2>1, StageValidatorIs
  <2> HIDE DEF h
  <2>3. /\ Whole(h) /\ h.admins = g.admins /\ h.delay = g.delay /\ h.paramsAt = g.paramsAt
        /\ h.granted = g.granted /\ h.price = g.price /\ h.stagedPrice = g.stagedPrice
        /\ h.priceAt = g.priceAt
        /\ h.validators = g.validators /\ h.stagedGrants = g.stagedGrants
        /\ h.stagedValidators = Put(g.stagedValidators, x, [to |-> v, at |-> now])
    BY <1>1, <2>2 DEF Whole, Fields
  <2>4. ValidatorsStaged(h) /\ DOMAIN h.stagedValidators = DOMAIN g.stagedValidators \cup {x}
    <3> DEFINE s == g.stagedValidators
               u == [to |-> v, at |-> now]
               t == Put(s, x, u)
    <3>1. DOMAIN t = DOMAIN s \cup {x} /\ t[x] = u /\ \A y \in DOMAIN s : y # x => t[y] = s[y]
      <4> HIDE DEF s, u
      <4> QED
        BY DEF Put
    <3>2. h.stagedValidators = t
      BY <2>3
    <3> HIDE DEF t
    <3>3. \A y \in DOMAIN t : t[y].at = now
      BY <3>1 DEF StagesOnly, ValidatorsStaged
    <3> QED
      BY <2>3, <3>1, <3>2, <3>3 DEF StagesOnly, ValidatorsStaged
  <2>5. c.call = "stageValidator" /\ c.of = x
    BY <2>1 DEF C
  <2> QED
    BY <2>3, <2>4, <2>5
       DEF StagesOnly, Held, PricesSet, GrantsStaged, Stages, Keeps, h
<1> QED
  BY <1>2, <1>3, <1>4, <1>5 DEF Staging

(* After i calls of the staging part all of them have staged what they say *)
(* or one of them reverted.                                                *)
StagedBy(g, calls, i) ==
    /\ Whole(g)
    /\ ~g.reverted => StagesOnly(g) /\ \A j \in 1..i : Stages(g, calls[j])

LEMMA StagedByNext ==
    ASSUME NEW calls, NEW i \in Nat, calls[i + 1] \in Staging, now \in Nat \ {0},
           NEW g, StagedBy(g, calls, i)
    PROVE  StagedBy(Apply(g, calls[i + 1]), calls, i + 1)
<1> DEFINE c == calls[i + 1]
           h == Apply(g, c)
<1>1. CASE g.reverted
  BY <1>1, RevertsStay DEF StagedBy
<1>2. CASE ~g.reverted
  <2>1. Whole(g) /\ StagesOnly(g) /\ \A j \in 1..i : Stages(g, calls[j])
    BY <1>2 DEF StagedBy
  <2>2. Whole(h) /\ (~h.reverted => StagesOnly(h) /\ Stages(h, c) /\ Keeps(g, h))
    BY <1>2, <2>1, StagingStep
  <2> HIDE DEF h
  <2>3. ASSUME ~h.reverted, NEW j \in 1..i + 1 PROVE Stages(h, calls[j])
    <3>1. CASE j = i + 1
      BY <2>2, <2>3, <3>1
    <3>2. CASE j # i + 1
      <4>1. Stages(g, calls[j])
        BY <2>1, <3>2
      <4> QED
        BY <2>2, <2>3, <4>1 DEF Stages, Keeps
    <3> QED
      BY <3>1, <3>2
  <2> QED
    BY <2>2, <2>3 DEF StagedBy, h
<1> QED
  BY <1>1, <1>2

(* The state in which the multicall starts, and n staging calls from it.   *)
Undelayed ==
    /\ now \in Nat \ {0}
    /\ gov.admins = {"deployer"} /\ gov.delay = 0 /\ gov.paramsAt = 0 /\ gov.granted = {}
    /\ gov.stagedGrants = <<>> /\ gov.validators = <<>> /\ gov.stagedValidators = <<>>
    /\ unitPrices = [k \in Token |-> 0] /\ stagedUnitPrices = [k \in Token |-> 0]
    /\ stagedUnitPricesTimestamps = [k \in Token |-> 0]

LEMMA BeforeIsStaged ==
    ASSUME Undelayed, NEW calls
    PROVE  StagedBy(Before, calls, 0)
<1>1. /\ Whole(Before) /\ Before.admins = {"deployer"} /\ Before.delay = 0 /\ Before.paramsAt = 0
      /\ Before.granted = {} /\ Before.stagedGrants = <<>> /\ Before.validators = <<>>
      /\ Before.stagedValidators = <<>> /\ Before.price = [k \in Token |-> 0]
      /\ Before.stagedPrice = [k \in Token |-> 0] /\ Before.priceAt = [k \in Token |-> 0]
  BY DEF Undelayed, Before, Whole, Fields
<1>2. DOMAIN <<>> = {}
  OBVIOUS
<1>3. StagesOnly(Before)
  BY <1>1, <1>2 DEF StagesOnly, Held, PricesSet, GrantsStaged, ValidatorsStaged
<1> QED
  BY <1>1, <1>3 DEF StagedBy

LEMMA AllAreStaged ==
    ASSUME Undelayed, NEW calls, NEW n \in Nat, NEW p \in 0..n, NEW after,
           IsRun(after, calls, n), \A i \in 1..p : calls[i] \in Staging
    PROVE  \A g \in after[p] : StagedBy(g, calls, p)
<1> DEFINE B == {i \in 0..p : ~\A g \in after[i] : StagedBy(g, calls, i)}
<1>1. Begins(after) /\ Goes(after, calls, n)
  BY RunSteps
<1>2. ASSUME B # {} PROVE FALSE
  <2>1. B \in SUBSET (0..p) /\ p \in Nat
    OBVIOUS
  <2>2. PICK m \in B : \A k \in B : m <= k
    <3> HIDE DEF B
    <3> QED
      BY <1>2, <2>1, FirstIndex
  <2>3. m \in 0..p /\ ~\A g \in after[m] : StagedBy(g, calls, m)
    BY <2>2
  <2>4. CASE m = 0
    BY <1>1, <2>3, <2>4, BeforeIsStaged DEF Begins
  <2>5. CASE m # 0
    <3>1. m - 1 \in 0..p /\ m - 1 \in Nat /\ ~(m <= m - 1) /\ (m - 1) + 1 = m /\ m \in 1..n /\ m \in 1..p
      BY <2>3, <2>5
    <3>2. \A g \in after[m - 1] : StagedBy(g, calls, m - 1)
      BY <2>2, <3>1
    <3>3. after[m] = {Apply(g, calls[m]) : g \in after[m - 1]}
      BY <1>1, <3>1 DEF Goes
    <3>4. ASSUME NEW g \in after[m - 1] PROVE StagedBy(Apply(g, calls[m]), calls, m)
      <4>1. StagedBy(g, calls, m - 1) /\ calls[m] \in Staging /\ now \in Nat \ {0}
        BY <3>1, <3>2 DEF Undelayed
      <4>2. StagedBy(Apply(g, calls[(m - 1) + 1]), calls, (m - 1) + 1)
        BY <3>1, <4>1, StagedByNext
      <4> QED
        BY <3>1, <4>2
    <3> QED
      BY <2>3, <3>3, <3>4
  <2> QED
    BY <2>4, <2>5
<1>3. p \in 0..p
  OBVIOUS
<1> QED
  BY <1>2, <1>3

-----------------------------------------------------------------------------
(* The last six calls: everything staged is due and comes into force, the  *)
(* parameters bring the delay, and the admin takes over.                   *)
LastCalls ==
    <<C("commitAllPermissionGrants", "", 0), C("commitAllValidators", "", 0),
      C("stageParams", "", 0), C("commitParams", "", 0),
      C("grantRole", "admin", 0), C("renounceRole", "deployer", 0)>>

LEMMA TwoMore ==
    ASSUME NEW S, NEW s \in Seq(S), NEW t \in Seq(S), Len(t) = 2
    PROVE  /\ s \o t \in Seq(S) /\ Len(s \o t) = Len(s) + 2
           /\ \A i \in 1..Len(s) : (s \o t)[i] = s[i]
           /\ (s \o t)[Len(s) + 1] = t[1] /\ (s \o t)[Len(s) + 2] = t[2]
<1> DEFINE u == s \o t
<1>0. IsJoin(u, s, t, S)
  BY Joined
<1> HIDE DEF u
<1>1. /\ u \in Seq(S) /\ Len(u) = Len(s) + Len(t) /\ Len(s) \in Nat
      /\ \A i \in 1..Len(s) : u[i] = s[i]
      /\ \A i \in 1..Len(t) : u[Len(s) + i] = t[i]
  BY <1>0 DEF IsJoin
<1>2. u[Len(s) + 1] = t[1] /\ u[Len(s) + 2] = t[2] /\ Len(u) = Len(s) + 2
  BY <1>1
<1> QED
  BY <1>1, <1>2 DEF u

LEMMA FinalizingIs ==
    LET p == Len(StagingCalls) IN
    /\ p \in Nat /\ Len(FinalizingCalls) = p + 6
    /\ \A i \in 1..p : FinalizingCalls[i] \in Staging /\ FinalizingCalls[i] = StagingCalls[i]
    /\ FinalizingCalls[p + 1] = C("commitAllPermissionGrants", "", 0)
    /\ FinalizingCalls[p + 2] = C("commitAllValidators", "", 0)
    /\ FinalizingCalls[p + 3] = C("stageParams", "", 0)
    /\ FinalizingCalls[p + 4] = C("commitParams", "", 0)
    /\ FinalizingCalls[p + 5] = C("grantRole", "admin", 0)
    /\ FinalizingCalls[p + 6] = C("renounceRole", "deployer", 0)
<1> DEFINE p == Len(StagingCalls)
           S == Staging \cup {LastCalls[i] : i \in 1..6}
           s == StagingCalls
           u == s \o CommitStaged
           v == u \o SetParams
           w == v \o HandOver
<1>1. s \in Seq(S) /\ s \in Seq(Staging) /\ p = Len(s) /\ p \in Nat
  <2>1. Staging \subseteq S
    OBVIOUS
  <2> HIDE DEF S
  <2> QED
    BY <2>1, StagingIsSequence
<1>2. /\ CommitStaged \in Seq(S) /\ Len(CommitStaged) = 2
      /\ CommitStaged[1] = LastCalls[1] /\ CommitStaged[2] = LastCalls[2]
  <2>1. CommitStaged = <<LastCalls[1], LastCalls[2]>>
    BY DEF CommitStaged, LastCalls
  <2>2. LastCalls[1] \in S /\ LastCalls[2] \in S
    OBVIOUS
  <2> HIDE DEF S
  <2> QED
    BY <2>1, <2>2
<1>3. /\ SetParams \in Seq(S) /\ Len(SetParams) = 2
      /\ SetParams[1] = LastCalls[3] /\ SetParams[2] = LastCalls[4]
  <2>1. SetParams = <<LastCalls[3], LastCalls[4]>>
    BY DEF SetParams, LastCalls
  <2>2. LastCalls[3] \in S /\ LastCalls[4] \in S
    OBVIOUS
  <2> HIDE DEF S
  <2> QED
    BY <2>1, <2>2
<1>4. /\ HandOver \in Seq(S) /\ Len(HandOver) = 2
      /\ HandOver[1] = LastCalls[5] /\ HandOver[2] = LastCalls[6]
  <2>1. HandOver = <<LastCalls[5], LastCalls[6]>>
    BY DEF HandOver, LastCalls
  <2>2. LastCalls[5] \in S /\ LastCalls[6] \in S
    OBVIOUS
  <2> HIDE DEF S
  <2> QED
    BY <2>1, <2>2
<1> HIDE DEF S, s, p
<1>5. /\ u \in Seq(S) /\ Len(u) = p + 2 /\ \A i \in 1..p : u[i] = s[i]
      /\ u[p + 1] = LastCalls[1] /\ u[p + 2] = LastCalls[2]
  BY <1>1, <1>2, TwoMore, SMTT(30)
<1> HIDE DEF u
<1>6. /\ v \in Seq(S) /\ Len(v) = p + 4 /\ \A i \in 1..p + 2 : v[i] = u[i]
      /\ v[p + 3] = LastCalls[3] /\ v[p + 4] = LastCalls[4]
  <2>1. /\ v \in Seq(S) /\ Len(v) = Len(u) + 2 /\ \A i \in 1..Len(u) : v[i] = u[i]
        /\ v[Len(u) + 1] = LastCalls[3] /\ v[Len(u) + 2] = LastCalls[4]
    BY <1>3, <1>5, TwoMore, SMTT(30)
  <2>2. Len(u) = p + 2 /\ (p + 2) + 1 = p + 3 /\ (p + 2) + 2 = p + 4
    BY <1>1, <1>5
  <2> HIDE DEF v
  <2> QED
    BY <2>1, <2>2
<1> HIDE DEF v
<1>7. /\ w \in Seq(S) /\ Len(w) = p + 6 /\ \A i \in 1..p + 4 : w[i] = v[i]
      /\ w[p + 5] = LastCalls[5] /\ w[p + 6] = LastCalls[6]
  <2>1. /\ w \in Seq(S) /\ Len(w) = Len(v) + 2 /\ \A i \in 1..Len(v) : w[i] = v[i]
        /\ w[Len(v) + 1] = LastCalls[5] /\ w[Len(v) + 2] = LastCalls[6]
    BY <1>4, <1>6, TwoMore, SMTT(30)
  <2>2. Len(v) = p + 4 /\ (p + 4) + 1 = p + 5 /\ (p + 4) + 2 = p + 6
    BY <1>1, <1>6
  <2> HIDE DEF w
  <2> QED
    BY <2>1, <2>2
<1>8. FinalizingCalls = w
  BY DEF FinalizingCalls, StagingCalls, s, u, v
<1> HIDE DEF w
<1>9. \A i \in 1..p : w[i] = s[i] /\ s[i] \in Staging
  <2>1. \A i \in 1..p : i \in 1..p + 2 /\ i \in 1..p + 4
    BY <1>1
  <2> QED
    BY <1>1, <1>5, <1>6, <1>7, <2>1
<1>10. /\ w[p + 1] = LastCalls[1] /\ w[p + 2] = LastCalls[2] /\ w[p + 3] = LastCalls[3]
       /\ w[p + 4] = LastCalls[4]
  <2>1. /\ p + 1 \in 1..p + 2 /\ p + 2 \in 1..p + 2 /\ p + 1 \in 1..p + 4 /\ p + 2 \in 1..p + 4
        /\ p + 3 \in 1..p + 4 /\ p + 4 \in 1..p + 4
    BY <1>1
  <2> QED
    BY <1>5, <1>6, <1>7, <2>1
<1>11. /\ LastCalls[1] = C("commitAllPermissionGrants", "", 0)
       /\ LastCalls[2] = C("commitAllValidators", "", 0)
       /\ LastCalls[3] = C("stageParams", "", 0) /\ LastCalls[4] = C("commitParams", "", 0)
       /\ LastCalls[5] = C("grantRole", "admin", 0) /\ LastCalls[6] = C("renounceRole", "deployer", 0)
  BY DEF LastCalls
<1> QED
  BY <1>1, <1>7, <1>8, <1>9, <1>10, <1>11 DEF p, s

Granted(g) ==
    /\ g.stagedGrants = <<>>
    /\ \A x \in Registrars \cap deployed : <<x, "REGISTER_VAULT">> \in g.granted
    /\ \A k \in Token : <<k, "ERC20_VAULT_TOKEN">> \in g.granted
    /\ <<"deployer", "CREATE_VAULT">> \in g.granted /\ <<"admin", "CREATE_VAULT">> \in g.granted
Validated(g) == g.stagedValidators = <<>> /\ Token \subseteq DOMAIN g.validators

(* The phases of the multicall behind its staging part, for those of its   *)
(* states that no call has reverted.                                       *)
AllStaged(g) ==
    /\ StagesOnly(g) /\ Token \cup {"deployer", "admin"} \subseteq DOMAIN g.stagedGrants
    /\ Registrars \cap deployed \subseteq DOMAIN g.stagedGrants
    /\ Token \subseteq DOMAIN g.stagedValidators
GrantsDone(g) ==
    /\ Held(g, {"deployer"}, 0, 0) /\ PricesSet(g) /\ Granted(g)
    /\ ValidatorsStaged(g) /\ Token \subseteq DOMAIN g.stagedValidators
InForceFor(g, admins, delay, at) ==
    Held(g, admins, delay, at) /\ PricesSet(g) /\ Granted(g) /\ Validated(g)

LEMMA StagedIsAll ==
    ASSUME NEW g, StagedBy(g, FinalizingCalls, Len(StagingCalls)), ~g.reverted
    PROVE  Whole(g) /\ AllStaged(g)
<1> DEFINE p == Len(StagingCalls)
<1>1. /\ Whole(g) /\ StagesOnly(g)
      /\ \A j \in 1..p : Stages(g, StagingCalls[j])
  BY FinalizingIs DEF StagedBy
<1>2. ASSUME NEW c \in ToSet(StagingCalls) PROVE Stages(g, c)
  <2>1. DOMAIN StagingCalls = 1..p
    BY StagingIsSequence
  <2> QED
    BY <1>1, <1>2, <2>1 DEF ToSet
<1>3. ASSUME NEW x, NEW q, C("stagePermissionGrants", x, q) \in ToSet(StagingCalls)
      PROVE  x \in DOMAIN g.stagedGrants
  <2>1. Stages(g, C("stagePermissionGrants", x, q))
    BY <1>2, <1>3
  <2> QED
    BY <2>1 DEF Stages, C
<1>4. ASSUME NEW x, NEW v, C("stageValidator", x, v) \in ToSet(StagingCalls)
      PROVE  x \in DOMAIN g.stagedValidators
  <2>1. Stages(g, C("stageValidator", x, v))
    BY <1>2, <1>4
  <2> QED
    BY <2>1 DEF Stages, C
<1> QED
  BY <1>1, <1>3, <1>4, StagingHolds DEF AllStaged

LEMMA NothingLeft ==
    ASSUME NEW f, NEW S, S = {}
    PROVE  Restrict(f, S) = <<>>
BY DEF Restrict

LEMMA GrantsCommit ==
    ASSUME NEW g, Whole(g), ~g.reverted, AllStaged(g), now \in Nat
    PROVE  LET h == Apply(g, C("commitAllPermissionGrants", "", 0)) IN
           Whole(h) /\ GrantsDone(h)
<1> DEFINE h == Apply(g, C("commitAllPermissionGrants", "", 0))
           s == g.stagedGrants
           all == UNION {{x} \X s[x].perms : x \in Due(s)}
<1>1. Passes(g)
  BY DEF Passes, AllStaged, StagesOnly, Held
<1>2. Due(s) = DOMAIN s /\ \A x \in DOMAIN s : s[x].perms = Perms(x)
  <2>1. \A x \in DOMAIN s : s[x] = [perms |-> Perms(x), at |-> now]
    BY DEF AllStaged, StagesOnly, GrantsStaged
  <2> HIDE DEF s
  <2>2. \A x \in DOMAIN s : s[x].perms = Perms(x) /\ s[x].at = now
    BY <2>1
  <2> QED
    BY <2>2 DEF Due
<1>3. h = [g EXCEPT !.granted = g.granted \cup all,
                    !.stagedGrants = Restrict(s, DOMAIN s \ Due(s))]
  BY <1>1, CommitGrantsIs
<1> HIDE DEF h
<1>4. Restrict(s, DOMAIN s \ Due(s)) = <<>>
  <2> HIDE DEF s
  <2> QED
    BY <1>2, NothingLeft
<1>5. ASSUME NEW x \in DOMAIN s, NEW q \in Perms(x) PROVE <<x, q>> \in all
  <2>1. x \in Due(s) /\ q \in s[x].perms
    BY <1>2, <1>5
  <2> HIDE DEF s
  <2> QED
    BY <2>1
<1> HIDE DEF all
<1>6. /\ Whole(h) /\ h.granted = g.granted \cup all /\ h.stagedGrants = <<>>
      /\ h.admins = g.admins /\ h.delay = g.delay /\ h.paramsAt = g.paramsAt
      /\ h.validators = g.validators /\ h.stagedValidators = g.stagedValidators
      /\ h.price = g.price /\ h.stagedPrice = g.stagedPrice /\ h.priceAt = g.priceAt
  BY <1>3, <1>4 DEF Whole, Fields
<1>7. Token \cup {"deployer", "admin"} \cup (Registrars \cap deployed) \subseteq DOMAIN s
  BY DEF AllStaged
<1>8. /\ \A k \in Token : "ERC20_VAULT_TOKEN" \in Perms(k)
      /\ "CREATE_VAULT" \in Perms("deployer") /\ "CREATE_VAULT" \in Perms("admin")
      /\ \A x \in Registrars : "REGISTER_VAULT" \in Perms(x)
  BY DeploymentAssumption DEF Perms, Registrars, Spenders
<1> HIDE DEF s
<1>9. Granted(h)
  BY <1>5, <1>6, <1>7, <1>8 DEF Granted
<1>10. GrantsDone(h)
  BY <1>6, <1>9 DEF GrantsDone, AllStaged, StagesOnly, Held, PricesSet, ValidatorsStaged
<1> QED
  BY <1>6, <1>10 DEF h

LEMMA ValidatorsCommit ==
    ASSUME NEW g, Whole(g), ~g.reverted, GrantsDone(g), now \in Nat
    PROVE  LET h == Apply(g, C("commitAllValidators", "", 0)) IN
           Whole(h) /\ InForceFor(h, {"deployer"}, 0, 0)
<1> DEFINE h == Apply(g, C("commitAllValidators", "", 0))
           s == g.stagedValidators
           all == [x \in DOMAIN g.validators \cup Due(s) |->
                      IF x \in Due(s) THEN s[x].to ELSE g.validators[x]]
<1>1. Passes(g)
  BY DEF Passes, GrantsDone, Held
<1>2. Due(s) = DOMAIN s
  BY DEF Due, GrantsDone, ValidatorsStaged
<1>3. h = [g EXCEPT !.validators = all,
                    !.stagedValidators = Restrict(s, DOMAIN s \ Due(s))]
  BY <1>1, CommitValidatorsIs
<1> HIDE DEF h
<1>4. Restrict(s, DOMAIN s \ Due(s)) = <<>>
  <2> HIDE DEF s
  <2> QED
    BY <1>2, NothingLeft
<1>5. Token \subseteq DOMAIN all
  BY <1>2 DEF GrantsDone
<1> HIDE DEF all
<1>6. /\ Whole(h) /\ h.validators = all /\ h.stagedValidators = <<>>
      /\ h.admins = g.admins /\ h.delay = g.delay /\ h.paramsAt = g.paramsAt
      /\ h.granted = g.granted /\ h.stagedGrants = g.stagedGrants
      /\ h.price = g.price /\ h.stagedPrice = g.stagedPrice /\ h.priceAt = g.priceAt
  BY <1>3, <1>4 DEF Whole, Fields
<1>7. InForceFor(h, {"deployer"}, 0, 0)
  BY <1>5, <1>6 DEF InForceFor, GrantsDone, Held, PricesSet, Granted, Validated
<1> QED
  BY <1>6, <1>7 DEF h

LEMMA ParamsAndRoles ==
    ASSUME NEW g, Whole(g), ~g.reverted, now \in Nat \ {0}, NEW admins, NEW delay, NEW at,
           InForceFor(g, admins, delay, at), "deployer" \in admins
    PROVE  /\ LET h == Apply(g, C("stageParams", "", 0)) IN
              delay = 0 => Whole(h) /\ InForceFor(h, admins, delay, now)
           /\ LET h == Apply(g, C("commitParams", "", 0)) IN
              at = now => Whole(h) /\ InForceFor(h, admins, 1, 0)
           /\ LET h == Apply(g, C("grantRole", "admin", 0)) IN
              Whole(h) /\ InForceFor(h, admins \cup {"admin"}, delay, at)
           /\ LET h == Apply(g, C("renounceRole", "deployer", 0)) IN
              Whole(h) /\ InForceFor(h, admins \ {"deployer"}, delay, at)
<1>1. Passes(g) /\ g.admins = admins /\ g.delay = delay /\ g.paramsAt = at
  BY DEF Passes, InForceFor, Held
<1>2. ASSUME delay = 0
      PROVE  LET h == Apply(g, C("stageParams", "", 0)) IN
             Whole(h) /\ InForceFor(h, admins, delay, now)
  <2>1. Apply(g, C("stageParams", "", 0)) = [g EXCEPT !.paramsAt = now]
    <3>1. Apply(g, C("stageParams", "", 0)) = [g EXCEPT !.paramsAt = now + g.delay]
      BY <1>1, ParamsAre
    <3>2. now + g.delay = now
      BY <1>1, <1>2
    <3> QED
      BY <3>1, <3>2
  <2> QED
    BY <1>1, <2>1
       DEF Whole, Fields, InForceFor, Held, PricesSet, Granted, Validated
<1>3. ASSUME at = now
      PROVE  LET h == Apply(g, C("commitParams", "", 0)) IN
             Whole(h) /\ InForceFor(h, admins, 1, 0)
  <2>1. Apply(g, C("commitParams", "", 0)) = [g EXCEPT !.delay = 1, !.paramsAt = 0]
    <3>1. Apply(g, C("commitParams", "", 0)) =
              IF g.paramsAt = 0 \/ g.paramsAt > now THEN [g EXCEPT !.reverted = TRUE]
              ELSE [g EXCEPT !.delay = 1, !.paramsAt = 0]
      BY <1>1, ParamsAre
    <3>2. ~(g.paramsAt = 0 \/ g.paramsAt > now)
      BY <1>1, <1>3
    <3> QED
      BY <3>1, <3>2, Zenon
  <2> QED
    BY <1>1, <2>1
       DEF Whole, Fields, InForceFor, Held, PricesSet, Granted, Validated
<1>4. LET h == Apply(g, C("grantRole", "admin", 0)) IN
      Whole(h) /\ InForceFor(h, admins \cup {"admin"}, delay, at)
  <2>1. Apply(g, C("grantRole", "admin", 0)) = [g EXCEPT !.admins = admins \cup {"admin"}]
    BY <1>1, RolesAre
  <2> QED
    BY <1>1, <2>1
       DEF Whole, Fields, InForceFor, Held, PricesSet, Granted, Validated
<1>5. LET h == Apply(g, C("renounceRole", "deployer", 0)) IN
      Whole(h) /\ InForceFor(h, admins \ {"deployer"}, delay, at)
  <2>1. Apply(g, C("renounceRole", "deployer", 0)) = [g EXCEPT !.admins = admins \ {"deployer"}]
    BY <1>1, RolesAre
  <2> QED
    BY <1>1, <2>1
       DEF Whole, Fields, InForceFor, Held, PricesSet, Granted, Validated
<1> QED
  BY <1>2, <1>3, <1>4, <1>5

(* A multicall that goes through leaves everything in force and the admin  *)
(* in charge.                                                              *)
LEMMA FinalizedIsWhole ==
    ASSUME Undelayed, NEW g \in Finalized(FinalizingCalls), ~g.reverted
    PROVE  Whole(g) /\ InForceFor(g, {"admin"}, 1, 0)
<1> DEFINE p == Len(StagingCalls)
           F == FinalizingCalls
           n == p + 6
<1>1. /\ p \in Nat /\ Len(F) = n /\ n \in Nat /\ p \in 0..n
      /\ \A i \in 1..p : F[i] \in Staging
  <2>1. p \in Nat /\ Len(F) = p + 6 /\ \A i \in 1..p : F[i] \in Staging
    BY FinalizingIs
  <2> HIDE DEF p
  <2> QED
    BY <2>1
<1>2. /\ F[p + 1] = C("commitAllPermissionGrants", "", 0)
      /\ F[p + 2] = C("commitAllValidators", "", 0)
      /\ F[p + 3] = C("stageParams", "", 0) /\ F[p + 4] = C("commitParams", "", 0)
      /\ F[p + 5] = C("grantRole", "admin", 0) /\ F[p + 6] = C("renounceRole", "deployer", 0)
  BY FinalizingIs
<1>3. now \in Nat \ {0} /\ now \in Nat
  BY DEF Undelayed
<1>4. \A h : StagedBy(h, F, p) /\ ~h.reverted => Whole(h) /\ AllStaged(h)
  BY StagedIsAll
<1> HIDE DEF p, F
<1>5. PICK after : IsRun(after, F, n) /\ Finalized(F) = after[n]
  <2>1. \E after : IsRun(after, F, Len(F)) /\ Finalized(F) = after[Len(F)]
    BY <1>1, FinalizedUnfolds
  <2> QED
    BY <1>1, <2>1
<1>6. /\ after[p + 1] = {Apply(h, F[p + 1]) : h \in after[p]}
      /\ after[p + 2] = {Apply(h, F[p + 2]) : h \in after[p + 1]}
      /\ after[p + 3] = {Apply(h, F[p + 3]) : h \in after[p + 2]}
      /\ after[p + 4] = {Apply(h, F[p + 4]) : h \in after[p + 3]}
      /\ after[p + 5] = {Apply(h, F[p + 5]) : h \in after[p + 4]}
      /\ after[p + 6] = {Apply(h, F[p + 6]) : h \in after[p + 5]}
  <2>1. \A i \in 1..n : after[i] = {Apply(h, F[i]) : h \in after[i - 1]}
    <3> HIDE DEF n
    <3>1. n \in Nat
      BY <1>1
    <3>2. Goes(after, F, n)
      BY <1>5, <3>1, RunSteps, Zenon
    <3> QED
      BY <3>2 DEF Goes
  <2>2. /\ p + 1 \in 1..n /\ p + 2 \in 1..n /\ p + 3 \in 1..n
        /\ p + 4 \in 1..n /\ p + 5 \in 1..n /\ p + 6 \in 1..n
        /\ (p + 1) - 1 = p /\ (p + 2) - 1 = p + 1 /\ (p + 3) - 1 = p + 2
        /\ (p + 4) - 1 = p + 3 /\ (p + 5) - 1 = p + 4 /\ (p + 6) - 1 = p + 5
    BY <1>1
  <2> HIDE DEF n
  <2> QED
    BY <2>1, <2>2
<1>7. \A h \in after[p] : Whole(h) /\ (~h.reverted => AllStaged(h))
  <2>1. \A h \in after[p] : StagedBy(h, F, p)
    BY <1>1, <1>5, AllAreStaged
  <2> QED
    BY <1>4, <2>1 DEF StagedBy
<1>8. \A h \in after[p + 1] : Whole(h) /\ (~h.reverted => GrantsDone(h))
  <2>1. ASSUME NEW h \in after[p]
        PROVE  Whole(Apply(h, F[p + 1]))
               /\ (~Apply(h, F[p + 1]).reverted => GrantsDone(Apply(h, F[p + 1])))
    BY <1>2, <1>3, <1>7, GrantsCommit, RevertsStay
  <2> QED
    BY <1>6, <2>1
<1>9. \A h \in after[p + 2] : Whole(h) /\ (~h.reverted => InForceFor(h, {"deployer"}, 0, 0))
  <2>1. ASSUME NEW h \in after[p + 1]
        PROVE  Whole(Apply(h, F[p + 2]))
               /\ (~Apply(h, F[p + 2]).reverted => InForceFor(Apply(h, F[p + 2]), {"deployer"}, 0, 0))
    BY <1>2, <1>3, <1>8, ValidatorsCommit, RevertsStay
  <2> QED
    BY <1>6, <2>1
<1>10. \A h \in after[p + 3] : Whole(h) /\ (~h.reverted => InForceFor(h, {"deployer"}, 0, now))
  <2>1. ASSUME NEW h \in after[p + 2]
        PROVE  Whole(Apply(h, F[p + 3]))
               /\ (~Apply(h, F[p + 3]).reverted => InForceFor(Apply(h, F[p + 3]), {"deployer"}, 0, now))
    BY <1>2, <1>3, <1>9, ParamsAndRoles, RevertsStay
  <2> QED
    BY <1>6, <2>1
<1>11. \A h \in after[p + 4] : Whole(h) /\ (~h.reverted => InForceFor(h, {"deployer"}, 1, 0))
  <2>1. ASSUME NEW h \in after[p + 3]
        PROVE  Whole(Apply(h, F[p + 4]))
               /\ (~Apply(h, F[p + 4]).reverted => InForceFor(Apply(h, F[p + 4]), {"deployer"}, 1, 0))
    BY <1>2, <1>3, <1>10, ParamsAndRoles, RevertsStay
  <2> QED
    BY <1>6, <2>1
<1>12. \A h \in after[p + 5] :
           Whole(h) /\ (~h.reverted => InForceFor(h, {"deployer"} \cup {"admin"}, 1, 0))
  <2>1. ASSUME NEW h \in after[p + 4]
        PROVE  Whole(Apply(h, F[p + 5]))
               /\ (~Apply(h, F[p + 5]).reverted =>
                       InForceFor(Apply(h, F[p + 5]), {"deployer"} \cup {"admin"}, 1, 0))
    BY <1>2, <1>3, <1>11, ParamsAndRoles, RevertsStay
  <2> QED
    BY <1>6, <2>1
<1>13. \A h \in after[p + 6] : Whole(h) /\ (~h.reverted => InForceFor(h, {"admin"}, 1, 0))
  <2>1. ASSUME NEW h \in after[p + 5]
        PROVE  Whole(Apply(h, F[p + 6]))
               /\ (~Apply(h, F[p + 6]).reverted => InForceFor(Apply(h, F[p + 6]), {"admin"}, 1, 0))
    <3> DEFINE both == {"deployer"} \cup {"admin"}
    <3>1. "deployer" \in both /\ both \ {"deployer"} = {"admin"}
      OBVIOUS
    <3>2. Whole(h) /\ (~h.reverted => InForceFor(h, both, 1, 0))
      BY <1>12
    <3> HIDE DEF both
    <3>3. CASE h.reverted
      BY <3>2, <3>3, RevertsStay
    <3>4. CASE ~h.reverted
      <4>1. LET r == Apply(h, C("renounceRole", "deployer", 0)) IN
            Whole(r) /\ InForceFor(r, both \ {"deployer"}, 1, 0)
        BY <1>3, <3>1, <3>2, <3>4, ParamsAndRoles
      <4> QED
        BY <1>2, <3>1, <4>1
    <3> QED
      BY <3>3, <3>4
  <2> QED
    BY <1>6, <2>1
<1> QED
  BY <1>5, <1>13 DEF F

-----------------------------------------------------------------------------
(* The inductive invariant.  Until ProtocolGovernance is handed over there *)
(* is no price, and whoever looks at one may find any later; from then on  *)
(* the delay is there.                                                     *)
GovFields ==
    {"admins", "delay", "paramsAt", "granted", "stagedGrants", "validators", "stagedValidators"}
NoPrices ==
    /\ unitPrices = [k \in Token |-> 0] /\ stagedUnitPrices = [k \in Token |-> 0]
    /\ stagedUnitPricesTimestamps = [k \in Token |-> 0]
DInv ==
    /\ IInv /\ HandedOverWhole
    /\ DOMAIN gov = GovFields /\ gov.delay \in {0, 1}
    /\ gov.delay = 0 =>
           NoPrices /\ (seen.until <= now \/ \A k \in Token : AnyPriceRead(k))

LEMMA DeploymentBegins == DeployInit => DInv
<1> SUFFICES ASSUME DeployInit PROVE DInv
  OBVIOUS
<1>1. IInv
  BY PricesBegin DEF DeployInit
<1>2. gov = [admins |-> {"deployer"}, delay |-> 0, paramsAt |-> 0, granted |-> {},
             stagedGrants |-> <<>>, validators |-> <<>>, stagedValidators |-> <<>>]
  BY DEF DeployInit
<1>3. HandedOverWhole /\ DOMAIN gov = GovFields /\ gov.delay = 0
  BY <1>2 DEF HandedOverWhole, GovFields
<1>4. NoPrices /\ seen.until <= now
  <2>1. NoPrices /\ now = 1 /\ seen.until = 0
    BY DEF DeployInit, Init, NothingSeen, NoPrices
  <2> QED
    BY <2>1
<1> QED
  BY <1>1, <1>3, <1>4 DEF DInv

LEMMA NothingHappens ==
    ASSUME DInv, UNCHANGED <<vars, gov>>
    PROVE  DInv'
<1>1. IInv'
  BY PriceStep DEF DInv
<1> QED
  BY <1>1 DEF DInv, HandedOverWhole, NoPrices, AnyPriceRead, vars, priceVars

LEMMA IssuerKeeps ==
    ASSUME DInv, UNCHANGED vars,
           gov' = [gov EXCEPT !.granted = @ \ ({"ERC20RootVaultGovernance"} \X {"REGISTER_VAULT"})]
    PROVE  DInv'
<1> DEFINE lost == {"ERC20RootVaultGovernance"} \X {"REGISTER_VAULT"}
<1>1. IInv'
  BY PriceStep DEF DInv
<1>2. /\ \A k : <<k, "ERC20_VAULT_TOKEN">> \notin lost
      /\ <<"deployer", "CREATE_VAULT">> \notin lost /\ <<"admin", "CREATE_VAULT">> \notin lost
  OBVIOUS
<1>3. gov' = [gov EXCEPT !.granted = gov.granted \ lost]
  OBVIOUS
<1> HIDE DEF lost
<1>4. /\ DOMAIN gov' = DOMAIN gov /\ gov'.granted = gov.granted \ lost
      /\ gov'.admins = gov.admins /\ gov'.delay = gov.delay /\ gov'.paramsAt = gov.paramsAt
      /\ gov'.stagedGrants = gov.stagedGrants /\ gov'.validators = gov.validators
      /\ gov'.stagedValidators = gov.stagedValidators
  BY <1>3 DEF DInv, GovFields
<1>5. HandedOverWhole'
  BY <1>2, <1>4 DEF DInv, HandedOverWhole
<1> QED
  BY <1>1, <1>4, <1>5 DEF DInv, NoPrices, AnyPriceRead, vars, priceVars

LEMMA FinalizeKeeps ==
    ASSUME DInv, gov.delay = 0, NEW g \in Finalized(FinalizingCalls), ~g.reverted,
           unitPrices' = g.price, stagedUnitPrices' = g.stagedPrice,
           stagedUnitPricesTimestamps' = g.priceAt, gov' = Restrict(g, DOMAIN gov),
           UNCHANGED <<now, seen>>
    PROVE  DInv'
<1>1. Undelayed
  BY DEF DInv, IInv, TypeOK, HandedOverWhole, NoPrices, Undelayed
<1>2. Whole(g) /\ InForceFor(g, {"admin"}, 1, 0)
  BY <1>1, FinalizedIsWhole
<1>3. /\ DOMAIN gov' = GovFields /\ gov'.admins = g.admins /\ gov'.delay = g.delay
      /\ gov'.paramsAt = g.paramsAt /\ gov'.granted = g.granted
      /\ gov'.stagedGrants = g.stagedGrants /\ gov'.validators = g.validators
      /\ gov'.stagedValidators = g.stagedValidators
  BY DEF DInv, GovFields, Restrict
<1>4. HandedOverWhole' /\ gov'.delay = 1
  BY <1>2, <1>3 DEF InForceFor, Held, Granted, Validated, HandedOverWhole
<1>5. PricesSet(g)
  BY <1>2 DEF InForceFor
<1>6. TypeOK' /\ Staged' /\ InForce' /\ (seen.until <= now + DELAY)'
  <2>1. Prices \cup {0} \subseteq Nat
    BY PriceAssumption
  <2> QED
    BY <1>5, <2>1 DEF DInv, IInv, TypeOK, Staged, InForce, PricesSet
<1>7. ASSUME NEW k \in Token PROVE TokenNotice(k)'
  <2>1. /\ unitPrices'[k] \in Prices \cup {0} /\ stagedUnitPrices'[k] \in Prices \cup {0}
        /\ stagedUnitPricesTimestamps'[k] # 0 => stagedUnitPricesTimestamps'[k] >= now
        /\ stagedUnitPricesTimestamps'[k] \in Nat
    BY <1>5 DEF PricesSet
  <2>2. CASE seen.until <= now
    BY <2>1, <2>2 DEF DInv, IInv, TypeOK, TokenNotice
  <2>3. CASE AnyPriceRead(k)
    BY <2>1, <2>3 DEF TokenNotice, AnyPriceRead
  <2> QED
    BY <2>2, <2>3 DEF DInv
<1> QED
  BY <1>3, <1>4, <1>6, <1>7 DEF DInv, IInv

LEMMA AdminKeeps ==
    ASSUME DInv, AdminStep
    PROVE  DInv'
<1>1. gov' = gov
  BY DEF AdminStep, scriptVars
<1>2. [Next]_vars
  BY DeploymentAssumption DEF AdminStep, Next
<1>3. IInv'
  BY <1>2, PriceStep DEF DInv
<1>4. HandedOverWhole' /\ DOMAIN gov' = GovFields /\ gov'.delay \in {0, 1}
  BY <1>1 DEF DInv, HandedOverWhole
<1>5. ASSUME gov.delay = 0
      PROVE  NoPrices' /\ (seen.until <= now \/ \A k \in Token : AnyPriceRead(k))'
  <2>1. "admin" \notin gov.admins
    BY <1>5 DEF DInv, HandedOverWhole
  <2>2. Tick \/ Look
    BY <2>1 DEF AdminStep
  <2>3. NoPrices /\ NoPrices'
    BY <1>5, <2>2 DEF DInv, NoPrices, Tick, Look, priceVars
  <2>4. CASE Tick
    <3>1. now' = now + 1 /\ seen' = seen /\ now \in Nat /\ seen.until \in Nat
      BY <2>4 DEF Tick, DInv, IInv, TypeOK
    <3>2. CASE seen.until <= now
      BY <2>3, <3>1, <3>2
    <3>3. CASE \A k \in Token : AnyPriceRead(k)
      BY <2>3, <3>1, <3>3 DEF AnyPriceRead
    <3> QED
      BY <1>5, <3>2, <3>3 DEF DInv
  <2>5. CASE Look
    <3>1. \A k \in Token : Unset(k)
      BY <2>3 DEF NoPrices, Unset
    <3>2. \A k \in Token : seen'.prices[k] = Prices \cup {0}
      BY <2>5, <3>1 DEF Look
    <3> QED
      BY <2>3, <3>2 DEF AnyPriceRead
  <2> QED
    BY <2>2, <2>3, <2>4, <2>5
<1> QED
  BY <1>1, <1>3, <1>4, <1>5 DEF DInv

LEMMA RunKeeps ==
    ASSUME DInv, RunStep
    PROVE  DInv'
<1>1. CASE IssuerStep
  <2>1. UNCHANGED vars
    BY <1>1 DEF IssuerStep
  <2>2. \/ UNCHANGED gov
        \/ gov' = [gov EXCEPT !.granted = @ \ ({"ERC20RootVaultGovernance"} \X {"REGISTER_VAULT"})]
    BY <1>1 DEF IssuerStep
  <2> QED
    BY <2>1, <2>2, IssuerKeeps, NothingHappens
<1>2. CASE FinalizeStep
  <2>1. CASE gov.delay > 0
    <3>1. UNCHANGED <<vars, gov>>
      BY <1>2, <2>1 DEF FinalizeStep, scriptVars
    <3> QED
      BY <3>1, NothingHappens
  <2>2. CASE ~(gov.delay > 0)
    <3>1. gov.delay = 0
      BY <2>2 DEF DInv
    <3>2. PICK g \in Finalized(FinalizingCalls) :
              \/ UNCHANGED <<vars, gov>>
              \/ /\ ~g.reverted
                 /\ unitPrices' = g.price /\ stagedUnitPrices' = g.stagedPrice
                 /\ stagedUnitPricesTimestamps' = g.priceAt /\ gov' = Restrict(g, DOMAIN gov)
                 /\ UNCHANGED <<now, seen>>
      BY <1>2, <2>2 DEF FinalizeStep, Stop, scriptVars
    <3> QED
      BY <3>1, <3>2, FinalizeKeeps, NothingHappens
  <2> QED
    BY <2>1, <2>2
<1>3. CASE EndRun \/ GetStep \/ DeployStep \/ HelperStep \/ ApproveStep
  <2>1. UNCHANGED <<vars, gov>>
    BY <1>3 DEF EndRun, GetStep, DeployStep, HelperStep, ApproveStep, Stop, scriptVars
  <2> QED
    BY <2>1, NothingHappens
<1>4. CASE CreateStep \/ CombineStep \/ RegisterStep
  <2>1. UNCHANGED <<vars, gov>>
    BY <1>4 DEF CreateStep, CombineStep, RegisterStep, Stop, scriptVars
  <2> QED
    BY <2>1, NothingHappens
<1> QED
  BY <1>1, <1>2, <1>3, <1>4 DEF RunStep

LEMMA DeploymentStep == ASSUME DInv, [DeployNext]_dvars PROVE DInv'
<1>1. CASE \E tag \in {network} \cup Selections : StartRun(tag)
  <2>1. UNCHANGED <<vars, gov>>
    BY <1>1 DEF StartRun, scriptVars
  <2> QED
    BY <2>1, NothingHappens
<1>2. CASE RunStep
  BY <1>2, RunKeeps
<1>3. CASE Crash
  <2>1. UNCHANGED <<vars, gov>>
    BY <1>3 DEF Crash, Stop, scriptVars
  <2> QED
    BY <2>1, NothingHappens
<1>4. CASE AdminStep
  BY <1>4, AdminKeeps
<1>5. CASE UNCHANGED dvars
  <2>1. UNCHANGED <<vars, gov>>
    BY <1>5 DEF dvars, scriptVars
  <2> QED
    BY <2>1, NothingHappens
<1> QED
  BY <1>1, <1>2, <1>3, <1>4, <1>5 DEF DeployNext

LEMMA DeploymentInvariant == DeploySpec => []DInv
BY DeploymentBegins, DeploymentStep, PTL DEF DeploySpec

(* On every network, whatever tags were run, and wherever the runs crashed *)
(* and were started again: ProtocolGovernance is handed over whole or not  *)
(* at all.                                                                 *)
THEOREM HandOverIsWhole == DeploySpec => []HandedOverWhole
<1>1. DInv => HandedOverWhole
  BY DEF DInv
<1> QED
  BY <1>1, DeploymentInvariant, PTL

(* The first prices, which the scripts set with no delay, included: no     *)
(* unit price takes effect unannounced in the deployed protocol.           *)
THEOREM DeployedPriceNotice == DeploySpec => []NoUnannouncedPrice
<1>1. DInv => NoUnannouncedPrice
  BY DEF DInv, IInv, TokenNotice, NoUnannouncedPrice
<1> QED
  BY <1>1, DeploymentInvariant, PTL

-----------------------------------------------------------------------------
(* What the scripts need is there.  The steps that a run has behind it are *)
(* done, whatever went on before and between: no crash and no other run    *)
(* takes a deployment away.                                                *)
RG == "ERC20RootVaultGovernance"
Done(step, saved, uses) ==
    /\ step.op = "deploy" => step.name \in saved
    /\ step.op = "deploy helper" => uses.next # "none"
    /\ step.op = "deploy issuer" => uses.now # "none"
RunInv ==
    /\ network \in Networks
    /\ run \in [tag : {network} \cup Selections \cup {""}, at : Nat]
    /\ run # Idle =>
           /\ run.tag \in {network} \cup Selections /\ run.at \in Nat \ {0}
           /\ \A i \in 1..run.at - 1 : Done(Plan[network][run.tag][i], deployed, issuer)

(* Without a swallowed failure the governance of record uses the helper    *)
(* that is deployed.                                                       *)
Helpers == {"none", "own", "written"}
IssuerInv ==
    /\ issuer \in [now : Helpers, next : Helpers]
    /\ issuer.next = "none" => issuer.now = "none"
    /\ issuer.now # "none" => RG \in deployed
    /\ ~fellBack => issuer.now # "written" /\ issuer.next # "written"

(* Once handed over, nothing registers what the strategies use again, so   *)
(* that the governance of record must be the one that was registered.      *)
BuildableInv ==
    ~fellBack /\ gov.delay # 0 =>
        /\ Used(network) \X {"REGISTER_VAULT"} \subseteq gov.granted
        /\ Tokens(network) \X {"ERC20_VAULT_TOKEN"} \subseteq gov.granted
        /\ RG \in Used(network) => issuer.now = "own"

SInv == DInv /\ RunInv /\ IssuerInv /\ deployed \subseteq Deployable(network) /\ BuildableInv

(* The order of a plan, at the step that is due.                           *)
OrderAt(steps, j, n) ==
    /\ steps[j].op = "deploy" => steps[j].name # RG
    /\ steps[j].op = "deploy issuer" => \E i \in 1..j - 1 : steps[i].op = "deploy helper"
    /\ steps[j].op = "finalize" /\ SavedBefore(steps, j) \subseteq Deployable(n) =>
           /\ Used(n) \subseteq Registrars \cap SavedBefore(steps, j)
           /\ Tokens(n) \subseteq Token

LEMMA PlanOrder ==
    ASSUME RunInv, run # Idle
    PROVE  LET steps == Plan[network][run.tag] IN
           /\ Steps = steps /\ steps \in Seq(ToSet(steps))
           /\ Len(steps) \in Nat /\ DOMAIN steps = 1..Len(steps)
           /\ \A j \in 1..Len(steps) : OrderAt(steps, j, network)
<1> DEFINE steps == Plan[network][run.tag]
<1>1. network \in Networks /\ run.tag \in {network} \cup Selections
  BY DEF RunInv
<1>2. Steps = steps
  BY DEF Steps
<1>3. /\ steps \in Seq(ToSet(steps))
      /\ \A j \in 1..Len(steps) : OrderAt(steps, j, network)
  BY <1>1, OrderAssumption DEF OrderAt, RG
<1> HIDE DEF steps
<1>4. Len(steps) \in Nat /\ DOMAIN steps = 1..Len(steps)
  BY <1>3
<1> QED
  BY <1>2, <1>3, <1>4 DEF steps

(* Where a step is due, what the steps before it saved is there.           *)
LEMMA SavedIsThere ==
    ASSUME SInv, run # Idle, run.at <= Len(Steps), NEW x \in SavedBefore(Plan[network][run.tag], run.at)
    PROVE  /\ x \in deployed /\ x \in Deployable(network)
           /\ x = RG => issuer.now # "none"
<1> DEFINE steps == Plan[network][run.tag]
<1>1. /\ run.at \in Nat \ {0} /\ run.at \in 1..Len(steps) /\ Len(steps) \in Nat
      /\ \A i \in 1..Len(steps) : OrderAt(steps, i, network)
      /\ \A i \in 1..run.at - 1 : Done(steps[i], deployed, issuer)
  <2>1. run.at \in Nat \ {0} /\ \A i \in 1..run.at - 1 : Done(steps[i], deployed, issuer)
    BY DEF SInv, RunInv
  <2>2. /\ Steps = steps /\ Len(steps) \in Nat
        /\ \A i \in 1..Len(steps) : OrderAt(steps, i, network)
    BY PlanOrder DEF SInv
  <2> HIDE DEF steps
  <2> QED
    BY <2>1, <2>2
<1>2. PICK i \in 1..run.at - 1 : x \in Saves(steps[i])
  BY DEF SavedBefore
<1> HIDE DEF steps
<1>3. OrderAt(steps, i, network) /\ Done(steps[i], deployed, issuer)
  BY <1>1
<1>4. CASE steps[i].op = "deploy"
  <2>1. x = steps[i].name
    BY <1>2, <1>4 DEF Saves
  <2> QED
    BY <1>3, <1>4, <2>1 DEF Done, OrderAt, SInv
<1>5. CASE steps[i].op = "deploy issuer"
  <2>1. x = RG /\ issuer.now # "none"
    BY <1>2, <1>3, <1>5 DEF Saves, Done, RG
  <2> QED
    BY <2>1 DEF SInv, IssuerInv, Deployable, RG
<1> QED
  BY <1>2, <1>4, <1>5 DEF Saves

-----------------------------------------------------------------------------
(* What a step does to a run: it goes on, having done its step, or stops.  *)
Grows ==
    /\ network' = network /\ deployed \subseteq deployed'
    /\ issuer.next # "none" => issuer'.next # "none"
    /\ issuer.now # "none" => issuer'.now # "none"

LEMMA GoesOn ==
    ASSUME RunInv, run # Idle, Grows, Continue,
           Done(Plan[network][run.tag][run.at], deployed', issuer')
    PROVE  RunInv'
<1> DEFINE steps == Plan[network][run.tag]
<1>1. /\ run'.tag = run.tag /\ run'.at = run.at + 1 /\ run.at \in Nat \ {0}
      /\ run' \in [tag : {network} \cup Selections \cup {""}, at : Nat]
      /\ run.tag \in {network} \cup Selections /\ network \in Networks
      /\ \A i \in 1..run.at - 1 : Done(steps[i], deployed, issuer)
  <2>1. /\ run.tag \in {network} \cup Selections /\ run.at \in Nat \ {0} /\ network \in Networks
        /\ run \in [tag : {network} \cup Selections \cup {""}, at : Nat]
        /\ \A i \in 1..run.at - 1 : Done(steps[i], deployed, issuer)
    BY DEF RunInv
  <2> HIDE DEF steps
  <2>2. run' = [run EXCEPT !.at = run.at + 1]
    BY DEF Continue
  <2>3. /\ run'.tag = run.tag /\ run'.at = run.at + 1
        /\ run' \in [tag : {network} \cup Selections \cup {""}, at : Nat]
    <3> DEFINE tags == {network} \cup Selections \cup {""}
    <3>1. run \in [tag : tags, at : Nat] /\ run.at + 1 \in Nat
      <4>1. run \in [tag : tags, at : Nat]
        BY <2>1
      <4>2. run.at \in Nat
        BY <2>1
      <4>3. \A x \in Nat : x + 1 \in Nat
        OBVIOUS
      <4>4. run.at + 1 \in Nat
        BY ONLY <4>2, <4>3
      <4> HIDE DEF tags
      <4> QED
        BY ONLY <4>1, <4>4
    <3> HIDE DEF tags
    <3>2. run'.tag = run.tag /\ run'.at = run.at + 1 /\ run' \in [tag : tags, at : Nat]
      BY <2>2, <3>1
    <3> QED
      BY <3>2 DEF tags
  <2> QED
    BY <2>1, <2>3
<1> HIDE DEF steps
<1>0. run.at \in Nat \ {0}
  BY <1>1
<1>2. ASSUME NEW i \in 1..run.at PROVE Done(steps[i], deployed', issuer')
  <2>1. CASE i = run.at
    BY <2>1 DEF steps
  <2>2. CASE i # run.at
    <3>1. i \in 1..run.at - 1
      BY <1>0, <2>2
    <3>2. Done(steps[i], deployed, issuer)
      BY <1>1, <3>1
    <3> QED
      BY <3>2 DEF Done, Grows
  <2> QED
    BY <2>1, <2>2
<1>3. Plan[network'][run'.tag] = steps /\ network' = network
  BY <1>1 DEF Grows, steps
<1>4. run'.at - 1 = run.at /\ run'.at \in Nat \ {0}
  <2>1. run'.at = run.at + 1
    BY <1>1
  <2> QED
    BY <1>0, <2>1
<1>5. \A i \in 1..run'.at - 1 : Done(Plan[network'][run'.tag][i], deployed', issuer')
  BY <1>2, <1>3, <1>4
<1> QED
  BY <1>1, <1>3, <1>4, <1>5 DEF RunInv

LEMMA Stops ==
    ASSUME RunInv, network' = network, run' = Idle
    PROVE  RunInv'
BY DEF RunInv, Idle

LEMMA Stays ==
    ASSUME RunInv, UNCHANGED <<network, run, deployed, issuer>>
    PROVE  RunInv'
BY DEF RunInv

(* Most steps leave what the invariant is about alone.                     *)
LEMMA NothingChanges ==
    ASSUME SInv, UNCHANGED <<network, deployed, issuer, gov, fellBack>>
    PROVE  (IssuerInv /\ deployed \subseteq Deployable(network) /\ BuildableInv)'
BY DEF SInv, IssuerInv, BuildableInv

OtherOps == {"get", "create", "combine", "approve issuer", "register contracts"}
LEMMA OthersAreDone ==
    ASSUME NEW step, step.op \in OtherOps \cup {"finalize"}
    PROVE  Done(step, deployed', issuer')
BY DEF Done, OtherOps

LEMMA OtherSteps ==
    ASSUME SInv,
           EndRun \/ GetStep \/ ApproveStep \/ CreateStep \/ CombineStep \/ RegisterStep
    PROVE  RunInv' /\ UNCHANGED <<network, deployed, issuer, gov, fellBack>>
<1>1. UNCHANGED <<network, deployed, issuer, gov, fellBack>>
  BY DEF EndRun, GetStep, ApproveStep, CreateStep, CombineStep, RegisterStep, Stop, scriptVars
<1>2. \/ run' = Idle
      \/ Continue /\ run # Idle /\ Steps[run.at].op \in OtherOps
  BY DEF EndRun, GetStep, ApproveStep, CreateStep, CombineStep, RegisterStep, Stop, Current, OtherOps
<1>3. CASE run' = Idle
  BY <1>1, <1>3, Stops DEF SInv
<1>4. CASE Continue /\ run # Idle /\ Steps[run.at].op \in OtherOps
  <2>1. Steps = Plan[network][run.tag]
    BY <1>4 DEF Steps
  <2>2. Done(Plan[network][run.tag][run.at], deployed', issuer')
    BY <1>4, <2>1, OthersAreDone
  <2>3. Grows
    BY <1>1 DEF Grows
  <2>4. RunInv'
    BY <1>4, <2>2, <2>3, GoesOn DEF SInv
  <2> QED
    BY <1>1, <2>4
<1> QED
  BY <1>1, <1>2, <1>3, <1>4

LEMMA DeploySteps ==
    ASSUME SInv, DeployStep
    PROVE  (RunInv /\ IssuerInv /\ deployed \subseteq Deployable(network) /\ BuildableInv)'
<1> DEFINE steps == Plan[network][run.tag]
<1>1. /\ run # Idle /\ run.at <= Len(Steps) /\ Steps[run.at].op = "deploy"
      /\ UNCHANGED <<network, issuer, gov, fellBack>>
  BY DEF DeployStep, Current, Stop, scriptVars
<1>2. /\ Steps = steps /\ Len(steps) \in Nat /\ DOMAIN steps = 1..Len(steps)
      /\ run.at \in Nat \ {0} /\ run.tag \in {network} \cup Selections
  BY <1>1, PlanOrder DEF SInv, RunInv
<1>3. CASE ~(Name \in deployed \/ Steps[run.at].ok)
  <2>1. run' = Idle /\ deployed' = deployed
    BY <1>3 DEF DeployStep, Stop, scriptVars
  <2>2. RunInv'
    BY <1>1, <2>1, Stops DEF SInv
  <2> QED
    BY <1>1, <2>1, <2>2, NothingChanges
<1>4. CASE Name \in deployed \/ Steps[run.at].ok
  <2>1. Continue /\ deployed' = deployed \cup {Name} /\ Name = steps[run.at].name
    BY <1>2, <1>4 DEF DeployStep, Name
  <2> HIDE DEF steps
  <2>2. Done(steps[run.at], deployed', issuer')
    BY <1>1, <1>2, <2>1 DEF Done
  <2>3. RunInv'
    <3>1. Grows
      BY <1>1, <2>1 DEF Grows
    <3> QED
      BY <1>1, <2>1, <2>2, <3>1, GoesOn DEF SInv, steps
  <2>4. Name \in Deployable(network)
    <3>1. CASE Name \in deployed
      BY <3>1 DEF SInv
    <3>2. CASE Name \notin deployed
      <4>1. steps[run.at].ok /\ steps[run.at].op = "deploy" /\ run.at \in DOMAIN steps
        BY <1>1, <1>2, <1>4, <3>2
      <4>2. steps[run.at] \in ToSet(steps)
        BY <4>1 DEF ToSet
      <4> QED
        <5>1. run.tag \in {network} \cup Selections
          BY <1>1 DEF SInv, RunInv
        <5>2. steps[run.at] \in {s \in ToSet(Plan[network][run.tag]) : s.op = "deploy" /\ s.ok}
          BY <4>1, <4>2 DEF steps
        <5>3. steps[run.at].name \in Deployable(network)
          BY <5>1, <5>2 DEF Deployable
        <5> QED
          BY <1>2, <2>1, <5>3
    <3> QED
      BY <3>1, <3>2
  <2>5. (IssuerInv /\ BuildableInv)'
    BY <1>1, <2>1 DEF SInv, IssuerInv, BuildableInv
  <2> QED
    BY <1>1, <2>1, <2>3, <2>4, <2>5 DEF SInv
<1> QED
  BY <1>3, <1>4

LEMMA HelperSteps ==
    ASSUME SInv, HelperStep
    PROVE  (RunInv /\ IssuerInv /\ deployed \subseteq Deployable(network) /\ BuildableInv)'
<1>1. /\ run # Idle /\ Steps[run.at].op = "deploy helper" /\ Continue
      /\ UNCHANGED <<network, gov>>
  BY DEF HelperStep, Current
<1>2. \/ /\ deployed' = deployed \cup {"ERC20RootVaultHelper"} /\ fellBack' = fellBack
         /\ issuer' = [issuer EXCEPT !.next = "own"]
      \/ /\ deployed' = deployed /\ fellBack' = TRUE
         /\ issuer' = [issuer EXCEPT !.next = "written"]
  BY DEF HelperStep
<1>3. issuer'.now = issuer.now /\ issuer'.next # "none" /\ IssuerInv'
  BY <1>2 DEF SInv, IssuerInv, Helpers
<1>4. RunInv'
  <2>1. Grows
    BY <1>1, <1>2, <1>3 DEF Grows
  <2>2. Steps = Plan[network][run.tag]
    BY <1>1 DEF Steps
  <2>3. Done(Steps[run.at], deployed', issuer')
    BY <1>1, <1>3 DEF Done
  <2> QED
    BY <1>1, <2>1, <2>2, <2>3, GoesOn DEF SInv
<1>5. (deployed \subseteq Deployable(network))'
  <2>1. "ERC20RootVaultHelper" \in Deployable(network)
    BY DEF Deployable
  <2>2. deployed \subseteq Deployable(network)
    BY DEF SInv
  <2>3. deployed' \subseteq Deployable(network)
    BY <1>2, <2>1, <2>2
  <2>4. Deployable(network)' = Deployable(network)
    BY <1>1 DEF Deployable
  <2> QED
    BY <2>3, <2>4
<1>6. BuildableInv'
  BY <1>1, <1>2, <1>3 DEF SInv, BuildableInv
<1> QED
  BY <1>3, <1>4, <1>5, <1>6

LEMMA IssuerSteps ==
    ASSUME SInv, IssuerStep
    PROVE  (RunInv /\ IssuerInv /\ deployed \subseteq Deployable(network) /\ BuildableInv)'
<1> DEFINE steps == Plan[network][run.tag]
<1>1. /\ run # Idle /\ run.at <= Len(Steps) /\ Steps[run.at].op = "deploy issuer" /\ Continue
      /\ UNCHANGED <<network, fellBack>>
  BY DEF IssuerStep, Current
<1>2. issuer.next # "none"
  <2>1. /\ Steps = steps /\ Len(steps) \in Nat /\ run.at \in Nat \ {0}
        /\ \A j \in 1..Len(steps) : OrderAt(steps, j, network)
        /\ \A i \in 1..run.at - 1 : Done(steps[i], deployed, issuer)
    BY <1>1, PlanOrder DEF SInv, RunInv
  <2> HIDE DEF steps
  <2>2. OrderAt(steps, run.at, network)
    <3>1. run.at <= Len(steps)
      BY <1>1, <2>1
    <3>2. run.at \in 1..Len(steps)
      BY <2>1, <3>1
    <3> QED
      BY <2>1, <3>2
  <2>3. PICK i \in 1..run.at - 1 : steps[i].op = "deploy helper"
    BY <1>1, <2>1, <2>2 DEF OrderAt
  <2>4. Done(steps[i], deployed, issuer)
    BY <2>1
  <2> QED
    BY <2>3, <2>4 DEF Done
<1>3. \/ issuer.now = issuer.next /\ UNCHANGED <<deployed, issuer, gov>>
      \/ /\ issuer.now # issuer.next /\ deployed' = deployed \cup {RG}
         /\ issuer' = [issuer EXCEPT !.now = issuer.next]
         /\ gov' = [gov EXCEPT !.granted = @ \ ({RG} \X {"REGISTER_VAULT"})]
  BY DEF IssuerStep, RG
<1>4. issuer'.now = issuer.next /\ issuer'.next = issuer.next /\ IssuerInv'
  BY <1>1, <1>2, <1>3 DEF SInv, IssuerInv
<1>5. RunInv'
  <2>1. Grows
    BY <1>1, <1>2, <1>3, <1>4 DEF Grows
  <2>2. Steps = steps
    BY <1>1 DEF Steps
  <2>3. Done(Steps[run.at], deployed', issuer')
    BY <1>1, <1>2, <1>4 DEF Done
  <2> QED
    BY <1>1, <2>1, <2>2, <2>3, GoesOn DEF SInv
<1>6. (deployed \subseteq Deployable(network))'
  <2>1. RG \in Deployable(network)
    BY DEF Deployable, RG
  <2>2. deployed' \subseteq deployed \cup {RG} /\ deployed \subseteq Deployable(network)
    BY <1>3 DEF SInv
  <2> QED
    BY <1>1, <2>1, <2>2
<1>7. BuildableInv'
  <2>1. CASE issuer.now = issuer.next
    BY <1>1, <1>3, <2>1 DEF SInv, BuildableInv
  <2>2. CASE issuer.now # issuer.next
    <3> SUFFICES ASSUME ~fellBack, gov'.delay # 0
                 PROVE  /\ Used(network) \X {"REGISTER_VAULT"} \subseteq gov'.granted
                        /\ Tokens(network) \X {"ERC20_VAULT_TOKEN"} \subseteq gov'.granted
                        /\ RG \notin Used(network)
      BY <1>1 DEF BuildableInv
    <3>1. gov'.granted = gov.granted \ ({RG} \X {"REGISTER_VAULT"}) /\ gov'.delay = gov.delay
      BY <1>3, <2>2 DEF SInv, DInv, GovFields
    <3>2. issuer.now # "own"
      BY <1>2, <2>2 DEF SInv, IssuerInv, Helpers
    <3>3. /\ Used(network) \X {"REGISTER_VAULT"} \subseteq gov.granted
          /\ Tokens(network) \X {"ERC20_VAULT_TOKEN"} \subseteq gov.granted
          /\ RG \notin Used(network)
      BY <3>1, <3>2 DEF SInv, BuildableInv
    <3> QED
      BY <3>1, <3>3
  <2> QED
    BY <2>1, <2>2
<1> QED
  BY <1>4, <1>5, <1>6, <1>7

LEMMA FinalizeSteps ==
    ASSUME SInv, FinalizeStep
    PROVE  (RunInv /\ IssuerInv /\ deployed \subseteq Deployable(network) /\ BuildableInv)'
<1> DEFINE steps == Plan[network][run.tag]
<1>1. /\ run # Idle /\ run.at <= Len(Steps) /\ Steps[run.at].op = "finalize"
      /\ UNCHANGED <<network, deployed, issuer, fellBack>>
  BY DEF FinalizeStep, Current, Stop, scriptVars
<1>2. run' = Idle \/ Continue
  BY DEF FinalizeStep, Stop
<1>3. RunInv'
  <2>1. CASE run' = Idle
    BY <1>1, <2>1, Stops DEF SInv
  <2>2. CASE Continue
    <3>1. Steps = steps
      BY <1>1 DEF Steps
    <3>2. Done(Steps[run.at], deployed', issuer')
      BY <1>1, OthersAreDone
    <3>3. Grows
      BY <1>1 DEF Grows
    <3> QED
      BY <1>1, <2>2, <3>1, <3>2, <3>3, GoesOn DEF SInv
  <2> QED
    BY <1>2, <2>1, <2>2
<1>4. PICK g : \/ UNCHANGED gov
               \/ /\ gov.delay = 0 /\ g \in Finalized(FinalizingCalls) /\ ~g.reverted
                  /\ gov' = Restrict(g, DOMAIN gov)
  <2>1. CASE gov.delay > 0
    BY <2>1 DEF FinalizeStep, scriptVars
  <2>2. CASE ~(gov.delay > 0)
    <3>1. gov.delay = 0
      BY <2>2 DEF SInv, DInv
    <3> QED
      BY <2>2, <3>1 DEF FinalizeStep, Stop, scriptVars
  <2> QED
    BY <2>1, <2>2
<1>5. CASE UNCHANGED gov
  BY <1>1, <1>3, <1>5, NothingChanges
<1>6. CASE ~UNCHANGED gov
  <2>1. gov.delay = 0 /\ g \in Finalized(FinalizingCalls) /\ ~g.reverted /\ gov' = Restrict(g, DOMAIN gov)
    BY <1>4, <1>6
  <2>2. Undelayed
    BY <2>1 DEF SInv, DInv, IInv, TypeOK, HandedOverWhole, NoPrices, Undelayed
  <2>3. Granted(g)
    BY <2>1, <2>2, FinalizedIsWhole DEF InForceFor
  <2>4. gov'.granted = g.granted
    BY <2>1 DEF SInv, DInv, GovFields, Restrict
  <2>5. \A x \in SavedBefore(steps, run.at) : /\ x \in deployed /\ x \in Deployable(network)
                                              /\ x = RG => issuer.now # "none"
    BY <1>1, SavedIsThere
  <2>6. Used(network) \subseteq Registrars \cap SavedBefore(steps, run.at) /\ Tokens(network) \subseteq Token
    <3>1. /\ Steps = steps /\ Len(steps) \in Nat /\ run.at \in Nat \ {0}
          /\ \A j \in 1..Len(steps) : OrderAt(steps, j, network)
      BY <1>1, PlanOrder DEF SInv, RunInv
    <3> HIDE DEF steps
    <3>2. OrderAt(steps, run.at, network)
      BY <1>1, <3>1
    <3> QED
      BY <1>1, <2>5, <3>1, <3>2 DEF OrderAt
  <2>7. ~fellBack /\ RG \in Used(network) => issuer.now = "own"
    BY <2>5, <2>6 DEF SInv, IssuerInv, Helpers
  <2>8. /\ Used(network) \X {"REGISTER_VAULT"} \subseteq gov'.granted
        /\ Tokens(network) \X {"ERC20_VAULT_TOKEN"} \subseteq gov'.granted
    BY <2>3, <2>4, <2>5, <2>6 DEF Granted
  <2>9. BuildableInv'
    BY <1>1, <2>7, <2>8 DEF BuildableInv
  <2> QED
    BY <1>1, <1>3, <2>9 DEF SInv, IssuerInv
<1> QED
  BY <1>5, <1>6

-----------------------------------------------------------------------------
LEMMA ScriptsBegin == DeployInit => SInv
<1> SUFFICES ASSUME DeployInit PROVE SInv
  OBVIOUS
<1>1. DInv
  BY DeploymentBegins
<1>2. RunInv
  BY DEF DeployInit, RunInv, Idle
<1>3. IssuerInv /\ deployed \subseteq Deployable(network)
  BY DEF DeployInit, IssuerInv, Helpers
<1>4. gov.delay = 0
  BY DEF DeployInit
<1> QED
  BY <1>1, <1>2, <1>3, <1>4 DEF SInv, BuildableInv

LEMMA ScriptsStep == ASSUME SInv, [DeployNext]_dvars PROVE SInv'
<1>1. DInv'
  BY DeploymentStep DEF SInv
<1>2. CASE \E tag \in {network} \cup Selections : StartRun(tag)
  <2>1. PICK tag \in {network} \cup Selections : run' = [tag |-> tag, at |-> 1]
    BY <1>2 DEF StartRun
  <2>2. UNCHANGED <<network, deployed, issuer, gov, fellBack>>
    BY <1>2 DEF StartRun, scriptVars
  <2>3. /\ run'.tag = tag /\ run'.at = 1
        /\ run' \in [tag : {network} \cup Selections \cup {""}, at : Nat]
    BY <2>1
  <2>4. network' = network /\ network \in Networks
    BY <2>2 DEF SInv, RunInv
  <2>5. \A i \in 1..run'.at - 1 : FALSE
    <3>1. \A i \in 1..1 - 1 : FALSE
      OBVIOUS
    <3>2. run'.at = 1
      BY <2>3
    <3> QED
      BY <3>1, <3>2
  <2>6. RunInv'
    <3>1. run'.at \in Nat \ {0}
      <4>1. 1 \in Nat \ {0}
        OBVIOUS
      <4> QED
        BY <2>3, <4>1
    <3>0. run'.tag \in {network} \cup Selections
      BY <2>3, <2>1, Zenon
    <3> QED
      BY <2>3, <2>4, <2>5, <3>0, <3>1 DEF RunInv
  <2> QED
    BY <1>1, <2>2, <2>6, NothingChanges DEF SInv
<1>3. CASE RunStep
  <2>1. CASE EndRun \/ GetStep \/ ApproveStep \/ CreateStep \/ CombineStep \/ RegisterStep
    BY <1>1, <2>1, OtherSteps, NothingChanges DEF SInv
  <2> QED
    BY <1>1, <1>3, <2>1, DeploySteps, HelperSteps, IssuerSteps, FinalizeSteps DEF RunStep, SInv
<1>4. CASE Crash
  <2>1. run' = Idle /\ UNCHANGED <<network, deployed, issuer, gov, fellBack>>
    BY <1>4 DEF Crash, Stop, scriptVars
  <2> QED
    BY <1>1, <2>1, Stops, NothingChanges DEF SInv
<1>5. CASE AdminStep \/ UNCHANGED dvars
  <2>1. UNCHANGED <<network, run, deployed, issuer, gov, fellBack>>
    BY <1>5 DEF AdminStep, dvars, scriptVars
  <2> QED
    BY <1>1, <2>1, Stays, NothingChanges DEF SInv
<1> QED
  BY <1>2, <1>3, <1>4, <1>5 DEF DeployNext

LEMMA ScriptsInvariant == DeploySpec => []SInv
BY ScriptsBegin, ScriptsStep, PTL DEF DeploySpec

(* Once ProtocolGovernance is handed over, the governances of record that  *)
(* the network's strategies use are registered and their tokens allowed,   *)
(* however many runs of whatever tags crashed or were started again,       *)
(* unless a failure to deploy the helper was swallowed.                    *)
THEOREM StrategiesStayBuildable == DeploySpec => []StrategiesCanBeBuilt
<1>1. SInv => StrategiesCanBeBuilt
  BY DEF SInv, BuildableInv, StrategiesCanBeBuilt
<1> QED
  BY <1>1, ScriptsInvariant, PTL

-----------------------------------------------------------------------------
(* A lookup of a whole run finds what it names, as long as the selection   *)
(* puts the script that saves it first: what a step saved stays deployed.  *)
LookedUp == outcome.tag = network => outcome.why # "missing"

LEMMA LookupsFindTheirs ==
    ASSUME LookupsFit, SInv, LookedUp, [DeployNext]_dvars
    PROVE  LookedUp'
<1> USE DEF LookedUp
<1>1. CASE GetStep
  <2>1. /\ run # Idle /\ run.at <= Len(Steps) /\ Steps[run.at].op = "get"
        /\ network' = network
        /\ \/ outcome' = outcome
           \/ /\ ~ (Steps[run.at].uses \subseteq deployed)
              /\ outcome'.tag = run.tag
    BY <1>1 DEF GetStep, Current, Stop, scriptVars
  <2>2. CASE outcome' = outcome
    BY <2>1, <2>2
  <2>3. CASE ~ (Steps[run.at].uses \subseteq deployed) /\ outcome'.tag = run.tag
    <3>1. SUFFICES ASSUME run.tag = network PROVE FALSE
      BY <2>1, <2>3
    <3>2. /\ Steps = Plan[network][run.tag] /\ Len(Steps) \in Nat
          /\ network \in Networks /\ run.at \in Nat \ {0}
      BY <2>1, PlanOrder DEF SInv, RunInv
    <3>3. run.at \in 1..Len(Steps)
      BY <2>1, <3>2
    <3>4. Steps[run.at].uses \subseteq SavedBefore(Plan[network][run.tag], run.at)
      BY <2>1, <3>1, <3>2, <3>3 DEF LookupsFit
    <3>5. SavedBefore(Plan[network][run.tag], run.at) \subseteq deployed
      BY <2>1, SavedIsThere
    <3> QED
      BY <2>3, <3>4, <3>5
  <2> QED
    BY <2>1, <2>2, <2>3
<1>2. CASE \/ EndRun \/ DeployStep \/ CreateStep \/ CombineStep \/ RegisterStep \/ Crash
           \/ FinalizeStep
  <2>1. network' = network /\ (outcome' = outcome \/ outcome'.why # "missing")
    <3>1. CASE EndRun \/ Crash
      BY <3>1 DEF EndRun, Crash, Stop
    <3>2. CASE DeployStep
      BY <3>2 DEF DeployStep, Stop
    <3>5. CASE RegisterStep
      <4>1. network' = network /\ (outcome' = outcome \/ Stop("reverted"))
        BY <3>5, Zenon DEF RegisterStep
      <4> QED
        BY <4>1 DEF Stop
    <3>3. CASE CreateStep \/ CombineStep
      BY <3>3 DEF CreateStep, CombineStep, Stop, scriptVars
    <3>4. CASE FinalizeStep
      BY <3>4 DEF FinalizeStep, Stop, scriptVars
    <3> QED
      BY <1>2, <3>1, <3>2, <3>3, <3>4, <3>5
  <2> QED
    BY <2>1
<1>3. CASE \/ HelperStep \/ IssuerStep \/ ApproveStep \/ AdminStep \/ UNCHANGED dvars
           \/ \E tag \in {network} \cup Selections : StartRun(tag)
  <2>1. network' = network /\ outcome' = outcome
    BY <1>3 DEF HelperStep, IssuerStep, ApproveStep, AdminStep, StartRun, dvars
  <2> QED
    BY <2>1
<1> QED
  BY <1>1, <1>2, <1>3 DEF DeployNext, RunStep

(* A run of a whole network, the first or one after others that crashed or *)
(* were of a selected tag, never fails on a deployment that is missing     *)
(* where each of its lookups comes after the script that saves what it     *)
(* looks up.                                                               *)
THEOREM LookupsSucceed == ASSUME LookupsFit PROVE DeploySpec => []NothingMissing
<1>1. DeployInit => LookedUp
  <2> SUFFICES ASSUME DeployInit PROVE outcome.why # "missing"
    BY DEF LookedUp
  <2>1. outcome = [tag |-> "", why |-> ""]
    BY DEF DeployInit
  <2>2. outcome.why = ""
    BY <2>1
  <2> QED
    BY <2>2
<1>2. SInv /\ LookedUp /\ [DeployNext]_dvars => LookedUp'
  BY LookupsFindTheirs
<1>3. LookedUp => NothingMissing
  BY DEF LookedUp, NothingMissing
<1> QED
  BY <1>1, <1>2, <1>3, ScriptsInvariant, PTL DEF DeploySpec
=============================================================================
