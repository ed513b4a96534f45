-------------------------- MODULE PolicyFlowProofs --------------------------
(***************************************************************************)
(* Theorems about PolicyFlow for every number of bundles, policies, claims *)
(* and payouts and every choice of amounts, fees and levels.               *)
(***************************************************************************)
EXTENDS PolicyFlow, AccountingProofs

LEMMA BundleBookUpdate ==
  ASSUME NEW b, bundleBook \in [Bundles -> BookType],
         NEW book, b \in Bundles => book \in BookType
  PROVE  [bundleBook EXCEPT ![b] = book] \in [Bundles -> BookType]
  OBVIOUS

----------------------------------------------------------------------------
(* Type correctness of the transactions of the pool.                       *)

LEMMA PoolStepType ==
  ASSUME PoolTypeOK, PoolNext
  PROVE  PoolTypeOK'
<1> USE BundlePoolAssumption
<1>1. ASSUME NEW b \in Bundles, NEW d \in BundleLifetimes, CreateBundle(b, d)
      PROVE  PoolTypeOK'
  BY <1>1 DEF PoolTypeOK, CreateBundle, Times, BundleStates
<1>2. ASSUME NEW b \in Bundles, NEW d \in BundleLifetimes, ExtendBundle(b, d)
      PROVE  PoolTypeOK'
  BY <1>2 DEF PoolTypeOK, ExtendBundle, Times, BundleStates
<1>3. ASSUME NEW b \in Bundles, NEW a \in StakeAmounts, Stake(b, a)
      PROVE  PoolTypeOK'
  <2> DEFINE fee == FeeAmount(StakingFee, a)
  <2>1. fee \in Nat /\ a - fee \in Nat
    BY <1>3, FeeAmountType DEF Stake
  <2> HIDE DEF fee
  <2>2. poolBook' = Increase(poolBook, a - fee, fee)
        /\ bundleBook' = [bundleBook EXCEPT ![b] = Increase(bundleBook[b], a - fee, 0)]
    BY <1>3 DEF Stake, fee
  <2>3. poolBook' \in BookType
    BY <2>1, <2>2, BookOperations DEF PoolTypeOK
  <2>4. Increase(bundleBook[b], a - fee, 0) \in BookType
    BY <2>1, BookOperations DEF PoolTypeOK
  <2>5. bundleBook' \in [Bundles -> BookType]
    BY <2>2, <2>4 DEF PoolTypeOK
  <2>6. poolWallet' \in Nat
    BY <1>3 DEF Stake, PoolTypeOK
  <2> QED
    BY <1>3, <2>3, <2>5, <2>6 DEF Stake, PoolTypeOK
<1>4. ASSUME NEW b \in Bundles, NEW a \in StakeAmounts \union {Available(bundleBook[b])},
             Unstake(b, a)
      PROVE  PoolTypeOK'
  <2>1. bundleBook[b] \in BookType
    BY DEF PoolTypeOK
  <2>2. a \in Nat
    <3>1. CASE a \in StakeAmounts
      BY <3>1
    <3>2. CASE a = Available(bundleBook[b])
      <4>1. Available(bundleBook[b]) \in Int /\ Available(bundleBook[b]) >= 0
        BY <1>4, <2>1 DEF Unstake, CanUnstake, Available, BookType
      <4> QED
        BY <3>2, <4>1
    <3> QED
      BY <3>1, <3>2
  <2>3. Decrease(bundleBook[b], a, 0) \in BookType
    BY <1>4, <2>1, <2>2, BookOperations DEF Unstake, CanUnstake
  <2>4. bundleBook' \in [Bundles -> BookType]
    BY <1>4, <2>3 DEF Unstake, PoolTypeOK
  <2>5. poolBook' \in BookType
    BY <1>4, <2>2, BookOperations DEF Unstake, PoolTypeOK
  <2>6. poolWallet' \in Nat
    BY <1>4 DEF Unstake, PoolTypeOK
  <2> QED
    BY <1>4, <2>4, <2>5, <2>6 DEF Unstake, PoolTypeOK
<1>5. ASSUME NEW b \in Bundles, LockBundle(b) \/ UnlockBundle(b)
      PROVE  PoolTypeOK'
  BY <1>5 DEF PoolTypeOK, LockBundle, UnlockBundle
<1>6. ASSUME NEW b \in Bundles, CloseBundle(b)
      PROVE  PoolTypeOK'
  <2> DEFINE book     == bundleBook[b]
             unstaked == book.balance - book.fees
             paidOut  == unstaked + book.fees
  <2>1. book \in BookType
    BY DEF PoolTypeOK
  <2>2. unstaked \in Nat /\ book.fees \in Nat /\ paidOut \in Nat
    BY <1>6, <2>1 DEF CloseBundle, BookType
  <2>3. CanDecrease(book, unstaked, book.fees)
    BY <2>1, <2>2 DEF CanDecrease, BookType
  <2>4. /\ bundleBook' = [bundleBook EXCEPT ![b] = Decrease(book, unstaked, book.fees)]
        /\ poolBook' = Decrease(poolBook, paidOut, 0)
        /\ CanDecrease(poolBook, paidOut, 0)
        /\ paidOut <= poolWallet
        /\ poolWallet' = poolWallet - paidOut
    BY <1>6 DEF CloseBundle
  <2>5. Decrease(book, unstaked, book.fees) \in BookType
    BY <2>1, <2>2, <2>3, BookOperations
  <2> HIDE DEF book, unstaked, paidOut
  <2>6. bundleBook' \in [Bundles -> BookType]
    BY <2>4, <2>5 DEF PoolTypeOK
  <2>7. poolBook' \in BookType
    BY <2>2, <2>4, BookOperations DEF PoolTypeOK
  <2>8. poolWallet' \in Nat
    BY <2>2, <2>4 DEF PoolTypeOK
  <2>9. bundle' \in [Bundles -> [state : BundleStates, expiredAt : Times]]
    BY <1>6 DEF CloseBundle, PoolTypeOK, BundleStates
  <2> QED
    BY <1>6, <2>6, <2>7, <2>8, <2>9 DEF CloseBundle, PoolTypeOK
<1>7. ASSUME NEW b \in Bundles, NEW a \in 1..bundleBook[b].fees, WithdrawBundleFees(b, a)
      PROVE  PoolTypeOK'
  <2>1. bundleBook[b] \in BookType /\ a \in Nat
    BY DEF PoolTypeOK, BookType
  <2>2. Decrease(bundleBook[b], 0, a) \in BookType
    BY <1>7, <2>1, BookOperations DEF WithdrawBundleFees
  <2>3. bundleBook' \in [Bundles -> BookType]
    BY <1>7, <2>2 DEF WithdrawBundleFees, PoolTypeOK
  <2>4. poolBook' \in BookType
    BY <1>7, <2>1, BookOperations DEF WithdrawBundleFees, PoolTypeOK
  <2>5. poolWallet' \in Nat
    BY <1>7 DEF WithdrawBundleFees, PoolTypeOK
  <2> QED
    BY <1>7, <2>3, <2>4, <2>5 DEF WithdrawBundleFees, PoolTypeOK
<1>8. ASSUME NEW a \in 1..poolBook.fees, WithdrawPoolFees(a)
      PROVE  PoolTypeOK'
  <2>1. a \in Nat
    BY DEF PoolTypeOK, BookType
  <2>2. poolBook' \in BookType
    BY <1>8, <2>1, BookOperations DEF WithdrawPoolFees, PoolTypeOK
  <2>3. poolWallet' \in Nat
    BY <1>8, <2>1 DEF WithdrawPoolFees, PoolTypeOK
  <2> QED
    BY <1>8, <2>2, <2>3 DEF WithdrawPoolFees, PoolTypeOK
<1>9. ASSUME NEW a \in 1..productBook.fees, WithdrawProductFees(a)
      PROVE  PoolTypeOK'
  <2>1. a \in Nat
    BY DEF PoolTypeOK, BookType
  <2>2. productBook' \in BookType
    BY <1>9, <2>1, BookOperations DEF WithdrawProductFees, PoolTypeOK
  <2>3. productWallet' \in Nat
    BY <1>9, <2>1 DEF WithdrawProductFees, PoolTypeOK
  <2> QED
    BY <1>9, <2>2, <2>3 DEF WithdrawProductFees, PoolTypeOK
<1>10. ASSUME NEW m \in MaxBalanceAmounts, SetMaxBalanceAmount(m)
       PROVE  PoolTypeOK'
  BY <1>10 DEF PoolTypeOK, SetMaxBalanceAmount
<1>11. ASSUME NEW a \in StakeAmounts, FundPoolWallet(a) \/ DefundPoolWallet(a)
       PROVE  PoolTypeOK'
  BY <1>11 DEF PoolTypeOK, FundPoolWallet, DefundPoolWallet
<1>12. ASSUME Tick
       PROVE  PoolTypeOK'
  BY <1>12 DEF PoolTypeOK, Tick, poolVars, Times
<1> QED
  BY <1>1, <1>2, <1>3, <1>4, <1>5, <1>6, <1>7, <1>8, <1>9, <1>10, <1>11, <1>12, PoolNext
     DEF PoolNext

LEMMA LockCollateralType ==
  ASSUME PoolTypeOK, NEW b, NEW s \in Nat, LockCollateral(b, s)
  PROVE  bundleBook' \in [Bundles -> BookType] /\ tvl' \in Nat
<1> DEFINE local == LocalCollateral(CollateralizationLevel, RetentionLevel, s)
           total == TotalCollateral(CollateralizationLevel, s)
<1>1. local \in Nat /\ total \in Nat
  BY CollateralType, BundlePoolAssumption
<1>2. /\ bundleBook' = [bundleBook EXCEPT ![b] = [bundleBook[b] EXCEPT !.locked = @ + local]]
      /\ tvl' = tvl + total
  BY DEF LockCollateral
<1> HIDE DEF local, total
<1>3. b \in Bundles => [bundleBook[b] EXCEPT !.locked = @ + local] \in BookType
  BY <1>1, BookOperations DEF PoolTypeOK
<1> QED
  BY <1>1, <1>2, <1>3, BundleBookUpdate DEF PoolTypeOK

LEMMA ReleaseCollateralType ==
  ASSUME PoolTypeOK, NEW b, NEW amount \in Int, ReleaseCollateral(b, amount)
  PROVE  bundleBook' \in [Bundles -> BookType] /\ tvl' \in Nat
<1>1. amount \in Nat
  BY DEF ReleaseCollateral
<1>2. b \in Bundles => [bundleBook[b] EXCEPT !.locked = @ - amount] \in BookType
  BY <1>1, BookOperations DEF PoolTypeOK, ReleaseCollateral
<1>3. bundleBook' \in [Bundles -> BookType]
  BY <1>2, BundleBookUpdate DEF PoolTypeOK, ReleaseCollateral
<1>4. tvl' \in Nat
  BY <1>1 DEF PoolTypeOK, ReleaseCollateral
<1> QED
  BY <1>3, <1>4

LEMMA ProcessSaleType ==
  ASSUME PoolTypeOK, NEW b, NEW premium \in PremiumInfos, ProcessSale(b, premium)
  PROVE  bundleBook' \in [Bundles -> BookType] /\ poolBook' \in BookType
<1>1. /\ premium.net \in Nat /\ premium.poolFee \in Nat /\ premium.bundleFee \in Nat
      /\ premium.net + premium.bundleFee \in Nat
  BY DEF PremiumInfos
<1>2. b \in Bundles => Increase(bundleBook[b], premium.net, premium.bundleFee) \in BookType
  BY <1>1, BookOperations DEF PoolTypeOK
<1>3. poolBook' \in BookType
  BY <1>1, BookOperations DEF PoolTypeOK, ProcessSale
<1> QED
  BY <1>2, <1>3, BundleBookUpdate DEF PoolTypeOK, ProcessSale

LEMMA ProcessPoolPayoutType ==
  ASSUME PoolTypeOK, NEW b, NEW amount \in Nat, ProcessPoolPayout(b, amount)
  PROVE  /\ bundleBook' \in [Bundles -> BookType]
         /\ poolBook' \in BookType /\ productBook' \in BookType
         /\ tvl' \in Nat /\ poolWallet' \in Nat /\ productWallet' \in Nat
<1> DEFINE fee == FeeAmount(ProcessingFee, amount)
<1>1. fee \in Nat
  BY FeeAmountType, BundlePoolAssumption
<1>2. /\ CanDecrease(poolBook, amount, 0)
      /\ CanDecrease(bundleBook[b], amount, 0)
      /\ amount <= bundleBook[b].locked
      /\ amount <= tvl
      /\ amount <= poolWallet
  BY DEF ProcessPoolPayout, CanPayOut
<1>3. /\ poolBook' = Decrease(poolBook, amount, 0)
      /\ bundleBook' = [bundleBook EXCEPT ![b] =
           [Decrease(bundleBook[b], amount, 0) EXCEPT !.locked = @ - amount]]
      /\ tvl' = tvl - amount
      /\ poolWallet' = poolWallet - amount
      /\ productBook' = Increase(productBook, 0, fee)
      /\ productWallet' = productWallet + fee
  BY DEF ProcessPoolPayout, BookPayoutFee
<1> HIDE DEF fee
<1>4. ASSUME b \in Bundles
      PROVE  [Decrease(bundleBook[b], amount, 0) EXCEPT !.locked = @ - amount] \in BookType
  <2>1. Decrease(bundleBook[b], amount, 0) \in BookType
    BY <1>2, <1>4, BookOperations DEF PoolTypeOK
  <2>2. Decrease(bundleBook[b], amount, 0).locked = bundleBook[b].locked
    BY <1>4 DEF Decrease, PoolTypeOK, BookType
  <2> QED
    BY <1>2, <2>1, <2>2, BookOperations
<1>5. bundleBook' \in [Bundles -> BookType]
  BY <1>3, <1>4, BundleBookUpdate DEF PoolTypeOK
<1>6. poolBook' \in BookType /\ productBook' \in BookType
  BY <1>1, <1>2, <1>3, BookOperations DEF PoolTypeOK
<1>7. tvl' \in Nat /\ poolWallet' \in Nat /\ productWallet' \in Nat
  BY <1>1, <1>2, <1>3 DEF PoolTypeOK
<1> QED
  BY <1>5, <1>6, <1>7

----------------------------------------------------------------------------
(* Type correctness of the transactions of the product.                    *)

LEMMA PolicyRecordTypes ==
  ASSUME NEW info \in PolicyType, NEW t \in Nat
  PROVE  /\ Activated(info, t) \in PolicyType
         /\ now \in Times => Expired(info, t) \in PolicyType
<1>1. info.lifetime \in Nat /\ t + info.lifetime \in Nat
  BY DEF PolicyType
<1>2. \A x, y \in Nat : [info EXCEPT !.activatedAt = x, !.expiredAt = y] \in PolicyType
  BY DEF PolicyType, Times
<1>3. \A x \in Nat : [info EXCEPT !.expiredAt = x] \in PolicyType
  BY DEF PolicyType, Times
<1> QED
  BY <1>1, <1>2, <1>3 DEF Activated, Expired, Times

LEMMA RiskStepType ==
  ASSUME TypeOK, RiskNext
  PROVE  TypeOK'
<1>1. PICK r \in Risks : CreateRisk(r) \/ LockRisk(r) \/ UnlockRisk(r) \/ CloseRisk(r)
  BY DEF RiskNext
<1>2. ProductTypeOK'
  BY <1>1 DEF TypeOK, ProductTypeOK, RiskStates, CreateRisk, LockRisk, UnlockRisk, CloseRisk
<1>3. PoolTypeOK'
  BY <1>1 DEF TypeOK, PoolTypeOK, CreateRisk, LockRisk, UnlockRisk, CloseRisk, poolVars
<1> QED
  BY <1>2, <1>3 DEF TypeOK

LEMMA ApplicationStepType ==
  ASSUME TypeOK, ApplicationNext
  PROVE  TypeOK'
<1> USE PolicyFlowAssumption
<1>1. ASSUME NEW p \in Policies, NEW r \in Risks, NEW b \in Bundles,
             NEW s \in SumInsuredAmounts, NEW l \in PolicyLifetimes,
             CreateApplication(p, r, b, s, l)
      PROVE  TypeOK'
  <2>1. [NoPolicy EXCEPT !.state = "APPLIED", !.bundle = b, !.risk = r,
                         !.sumInsured = s, !.lifetime = l] \in PolicyType
    BY DEF NoPolicy, NoPremium, PolicyType, PremiumInfos, PolicyStates, PremiumStates, Times
  <2>2. policy' \in [Policies -> PolicyType]
    BY <1>1, <2>1 DEF CreateApplication, TypeOK, ProductTypeOK
  <2> QED
    BY <1>1, <2>2 DEF CreateApplication, TypeOK, ProductTypeOK, PoolTypeOK, poolVars
<1>2. ASSUME NEW p \in Policies, RevokeApplication(p) \/ DeclineApplication(p)
      PROVE  TypeOK'
  <2>1. policy[p] \in PolicyType
    BY DEF TypeOK, ProductTypeOK
  <2>2. \A st \in PolicyStates : [policy[p] EXCEPT !.state = st] \in PolicyType
    BY <2>1 DEF PolicyType
  <2>3. policy' \in [Policies -> PolicyType]
    BY <1>2, <2>2 DEF RevokeApplication, DeclineApplication, TypeOK, ProductTypeOK, PolicyStates
  <2> QED
    BY <1>2, <2>3 DEF RevokeApplication, DeclineApplication, TypeOK, ProductTypeOK,
                      PoolTypeOK, poolVars
<1> QED
  BY <1>1, <1>2, ApplicationNext DEF ApplicationNext

LEMMA CreatePolicyType ==
  ASSUME TypeOK, NEW p \in Policies, NEW t \in Nat, NEW premium \in Premiums,
         CreatePolicy(p, t, premium)
  PROVE  TypeOK'
<1> DEFINE info    == policy[p]
           covered == IF t > 0 THEN Activated(info, t) ELSE info
           b       == info.bundle
           r       == info.risk
<1>1. info \in PolicyType /\ premium \in PremiumInfos
  BY PolicyFlowAssumption DEF TypeOK, ProductTypeOK
<1>2. covered \in PolicyType
  BY <1>1, PolicyRecordTypes
<1>3. LockCollateral(b, info.sumInsured) /\ info.sumInsured \in Nat
  BY <1>1 DEF CreatePolicy, PolicyType
<1>4. bundleBook' \in [Bundles -> BookType] /\ tvl' \in Nat
  BY <1>3, LockCollateralType DEF TypeOK
<1>5. /\ policy' = [policy EXCEPT ![p] = [covered EXCEPT
           !.state = "COLLATERALIZED", !.premium = premium, !.premiumState = "EXPECTED"]]
      /\ riskPolicies' = [riskPolicies EXCEPT ![r] = @ \union {p}]
      /\ bundlePolicies' = [bundlePolicies EXCEPT ![b] = @ \union {p}]
  BY DEF CreatePolicy
<1> HIDE DEF info, covered, b, r
<1>6. [covered EXCEPT !.state = "COLLATERALIZED", !.premium = premium,
                      !.premiumState = "EXPECTED"] \in PolicyType
  BY <1>1, <1>2 DEF PolicyType, PolicyStates, PremiumStates
<1>7. /\ policy' \in [Policies -> PolicyType]
      /\ riskPolicies' \in [Risks -> SUBSET Policies]
      /\ bundlePolicies' \in [Bundles -> SUBSET Policies]
  BY <1>5, <1>6 DEF TypeOK, ProductTypeOK, PoolTypeOK
<1> QED
  BY <1>4, <1>7 DEF CreatePolicy, TypeOK, ProductTypeOK, PoolTypeOK

LEMMA CollectPremiumType ==
  ASSUME TypeOK, NEW p \in Policies, NEW t \in Nat, CollectPremium(p, t)
  PROVE  TypeOK'
<1> DEFINE info    == policy[p]
           covered == IF t > 0 THEN Activated(info, t) ELSE info
           premium == info.premium
<1>1. info \in PolicyType /\ premium \in PremiumInfos
  BY DEF TypeOK, ProductTypeOK, PolicyType
<1>2. covered \in PolicyType
  BY <1>1, PolicyRecordTypes
<1>3. /\ ProcessSale(info.bundle, premium)
      /\ productBook' = Increase(productBook, 0, premium.productFee)
      /\ productWallet' = productWallet + premium.productFee
      /\ poolWallet' = poolWallet + PoolPremium(premium)
      /\ policy' = [policy EXCEPT ![p] = [covered EXCEPT !.premiumState = "PAID"]]
  BY DEF CollectPremium
<1>4. bundleBook' \in [Bundles -> BookType] /\ poolBook' \in BookType
  BY <1>1, <1>3, ProcessSaleType DEF TypeOK
<1> HIDE DEF info, covered, premium
<1>5. premium.productFee \in Nat /\ PoolPremium(premium) \in Nat
  BY <1>1 DEF PremiumInfos, PoolPremium
<1>6. productBook' \in BookType /\ productWallet' \in Nat /\ poolWallet' \in Nat
  <2>1. productBook \in BookType /\ productWallet \in Nat /\ poolWallet \in Nat
    BY DEF TypeOK, PoolTypeOK
  <2>2. Increase(productBook, 0, premium.productFee) \in BookType
    BY <1>5, <2>1, BookOperations
  <2> QED
    BY <1>3, <1>5, <2>1, <2>2
<1>7. [covered EXCEPT !.premiumState = "PAID"] \in PolicyType
  BY <1>2 DEF PolicyType, PremiumStates
<1>8. policy' \in [Policies -> PolicyType]
  BY <1>3, <1>7 DEF TypeOK, ProductTypeOK
<1> QED
  BY <1>4, <1>6, <1>8 DEF CollectPremium, TypeOK, ProductTypeOK, PoolTypeOK

LEMMA PolicyTimesType ==
  ASSUME TypeOK, NEW p \in Policies, NEW t \in Nat,
         Activate(p, t) \/ AdjustActivation(p, t) \/ Expire(p, t)
  PROVE  TypeOK'
<1>1. policy[p] \in PolicyType /\ now \in Times
  BY DEF TypeOK, ProductTypeOK, PoolTypeOK
<1>2. [policy[p] EXCEPT !.activatedAt = t] \in PolicyType
  BY <1>1 DEF PolicyType, Times
<1>3. policy' \in [Policies -> PolicyType]
  BY <1>1, <1>2, PolicyRecordTypes DEF Activate, AdjustActivation, Expire, TypeOK, ProductTypeOK
<1> QED
  BY <1>3 DEF Activate, AdjustActivation, Expire, TypeOK, ProductTypeOK, PoolTypeOK, poolVars

LEMMA ClosePolicyType ==
  ASSUME TypeOK, NEW p \in Policies, ClosePolicy(p)
  PROVE  TypeOK'
<1> DEFINE info == policy[p]
<1>1. info \in PolicyType
  BY DEF TypeOK, ProductTypeOK
<1>2. RemainingCollateral(info) \in Int
  BY <1>1 DEF RemainingCollateral, PolicyType
<1>3. /\ ReleaseCollateral(info.bundle, RemainingCollateral(info))
      /\ policy' = [policy EXCEPT ![p] = [info EXCEPT !.state = "CLOSED"]]
      /\ riskPolicies' = [riskPolicies EXCEPT ![info.risk] = @ \ {p}]
      /\ bundlePolicies' = [bundlePolicies EXCEPT ![info.bundle] = @ \ {p}]
  BY DEF ClosePolicy
<1>4. bundleBook' \in [Bundles -> BookType] /\ tvl' \in Nat
  BY <1>2, <1>3, ReleaseCollateralType DEF TypeOK
<1> HIDE DEF info
<1>5. [info EXCEPT !.state = "CLOSED"] \in PolicyType
  BY <1>1 DEF PolicyType, PolicyStates
<1>6. /\ policy' \in [Policies -> PolicyType]
      /\ riskPolicies' \in [Risks -> SUBSET Policies]
      /\ bundlePolicies' \in [Bundles -> SUBSET Policies]
  BY <1>3, <1>5 DEF TypeOK, ProductTypeOK, PoolTypeOK
<1> QED
  BY <1>4, <1>6 DEF ClosePolicy, TypeOK, ProductTypeOK, PoolTypeOK

LEMMA PolicyStepType ==
  ASSUME TypeOK, PolicyNext
  PROVE  TypeOK'
<1>1. ActivationTimes \union {0} \subseteq Nat /\ 1..MaxTime \subseteq Nat /\ 0..MaxTime \subseteq Nat
  BY PolicyFlowAssumption, BundlePoolAssumption
<1> QED
  BY <1>1, CreatePolicyType, CollectPremiumType, PolicyTimesType, ClosePolicyType DEF PolicyNext

\* Claims and payouts are only written at the place of one claim or payout.
LEMMA ClaimUpdate ==
  ASSUME ProductTypeOK, NEW p \in Policies, NEW c \in ClaimIds, NEW new \in ClaimType
  PROVE  [claim EXCEPT ![p][c] = new] \in [Policies -> [ClaimIds -> ClaimType]]
  BY DEF ProductTypeOK

LEMMA PayoutUpdate ==
  ASSUME ProductTypeOK, NEW p \in Policies, NEW c \in ClaimIds, NEW k \in PayoutIds,
         NEW new \in PayoutType
  PROVE  [payout EXCEPT ![p][c][k] = new]
           \in [Policies -> [ClaimIds -> [PayoutIds -> PayoutType]]]
<1>1. payout[p] \in [ClaimIds -> [PayoutIds -> PayoutType]]
      /\ payout[p][c] \in [PayoutIds -> PayoutType]
  BY DEF ProductTypeOK
<1>2. [payout[p][c] EXCEPT ![k] = new] \in [PayoutIds -> PayoutType]
  BY <1>1
<1>3. [payout[p] EXCEPT ![c] = [payout[p][c] EXCEPT ![k] = new]]
        \in [ClaimIds -> [PayoutIds -> PayoutType]]
  BY <1>1, <1>2
<1> QED
  BY <1>3 DEF ProductTypeOK

LEMMA ClaimEntryTypes ==
  ASSUME ProductTypeOK, NEW p \in Policies
  PROVE  /\ policy[p] \in PolicyType
         /\ \A c \in ClaimIds :
              /\ claim[p][c] \in ClaimType
              /\ \A k \in PayoutIds : payout[p][c][k] \in PayoutType
  BY DEF ProductTypeOK

LEMMA ClaimRecordTypes ==
  ASSUME NEW info \in ClaimType
  PROVE  /\ \A st \in ClaimStates, a \in Nat :
              [info EXCEPT !.state = st, !.claimAmount = a] \in ClaimType
         /\ \A st \in ClaimStates : [info EXCEPT !.state = st] \in ClaimType
         /\ \A n, m \in Nat :
              [info EXCEPT !.payoutsCount = n, !.openPayoutsCount = m] \in ClaimType
         /\ \A n \in Nat : [info EXCEPT !.openPayoutsCount = n] \in ClaimType
         /\ \A n, m \in Nat :
              [info EXCEPT !.paidAmount = n, !.openPayoutsCount = m] \in ClaimType
  BY DEF ClaimType

LEMMA PolicyCounterTypes ==
  ASSUME NEW info \in PolicyType
  PROVE  /\ info.claimsCount \in Nat /\ info.openClaimsCount \in Nat
         /\ info.claimAmount \in Nat /\ info.payoutAmount \in Nat
         /\ \A n, m \in Nat :
              [info EXCEPT !.claimsCount = n, !.openClaimsCount = m] \in PolicyType
         /\ \A n \in Nat : [info EXCEPT !.openClaimsCount = n] \in PolicyType
         /\ \A n \in Nat : [info EXCEPT !.claimAmount = n] \in PolicyType
         /\ \A n, m \in Nat :
              [info EXCEPT !.payoutAmount = n, !.openClaimsCount = m] \in PolicyType
  BY DEF PolicyType

LEMMA SubmitClaimType ==
  ASSUME TypeOK, NEW p \in Policies, NEW a \in Nat, SubmitClaim(p, a)
  PROVE  TypeOK'
<1> DEFINE info == policy[p]
           c    == info.claimsCount + 1
           new  == [NoClaim EXCEPT !.state = "SUBMITTED", !.claimAmount = a]
<1>1. info \in PolicyType
  BY ClaimEntryTypes DEF TypeOK
<1>2. new \in ClaimType
  BY DEF NoClaim, ClaimType, ClaimStates
<1>3. [info EXCEPT !.claimsCount = info.claimsCount + 1,
                   !.openClaimsCount = info.openClaimsCount + 1] \in PolicyType
  <2>1. info.claimsCount + 1 \in Nat /\ info.openClaimsCount + 1 \in Nat
    BY <1>1 DEF PolicyType
  <2> QED
    BY <1>1, <2>1, PolicyCounterTypes
<1>4. /\ c \in ClaimIds
      /\ claim' = [claim EXCEPT ![p][c] = new]
      /\ policy' = [policy EXCEPT ![p] = [info EXCEPT !.claimsCount = info.claimsCount + 1,
                                         !.openClaimsCount = info.openClaimsCount + 1]]
  BY DEF SubmitClaim, TypeOK, ProductTypeOK
<1> HIDE DEF info, c, new
<1>5. claim' \in [Policies -> [ClaimIds -> ClaimType]]
  BY <1>2, <1>4, ClaimUpdate DEF TypeOK
<1>6. policy' \in [Policies -> PolicyType]
  BY <1>3, <1>4 DEF TypeOK, ProductTypeOK
<1> QED
  BY <1>5, <1>6 DEF SubmitClaim, TypeOK, ProductTypeOK, PoolTypeOK, poolVars

LEMMA ConfirmClaimType ==
  ASSUME TypeOK, NEW p \in Policies, NEW c \in ClaimIds, NEW a \in Nat, ConfirmClaim(p, c, a)
  PROVE  TypeOK'
<1> DEFINE updated == [policy[p] EXCEPT !.claimAmount = @ + a]
           full    == updated.claimAmount >= updated.sumInsured
           new     == [claim[p][c] EXCEPT !.state = "CONFIRMED", !.claimAmount = a]
<1>1. policy[p] \in PolicyType /\ claim[p][c] \in ClaimType /\ now \in Nat
  BY ClaimEntryTypes DEF TypeOK, PoolTypeOK, Times
<1>2. updated \in PolicyType
  <2>1. policy[p].claimAmount + a \in Nat
    BY <1>1 DEF PolicyType
  <2> QED
    BY <1>1, <2>1, PolicyCounterTypes
<1>3. Expired(updated, now) \in PolicyType
  BY <1>1, <1>2, PolicyRecordTypes DEF Times
<1>4. new \in ClaimType
  BY <1>1, ClaimRecordTypes DEF ClaimStates
<1>5. claim' = [claim EXCEPT ![p][c] = new]
  BY DEF ConfirmClaim, TypeOK, ProductTypeOK
<1>6. policy' = [policy EXCEPT ![p] = IF full THEN Expired(updated, now) ELSE updated]
  BY DEF ConfirmClaim
<1> HIDE DEF updated, full, new
<1>7. claim' \in [Policies -> [ClaimIds -> ClaimType]]
  BY <1>4, <1>5, ClaimUpdate DEF TypeOK
<1>8. policy' \in [Policies -> PolicyType]
  BY <1>2, <1>3, <1>6 DEF TypeOK, ProductTypeOK
<1> QED
  BY <1>7, <1>8 DEF ConfirmClaim, TypeOK, ProductTypeOK, PoolTypeOK, poolVars

LEMMA EndClaimType ==
  ASSUME TypeOK, NEW p \in Policies, NEW c \in ClaimIds,
         DeclineClaim(p, c) \/ RevokeClaim(p, c) \/ CancelConfirmedClaim(p, c)
  PROVE  TypeOK'
<1>1. policy[p] \in PolicyType /\ claim[p][c] \in ClaimType
  BY ClaimEntryTypes DEF TypeOK
<1>2. PICK st \in ClaimStates : claim' = [claim EXCEPT ![p][c] = [claim[p][c] EXCEPT !.state = st]]
  BY DEF DeclineClaim, RevokeClaim, CancelConfirmedClaim, ClaimStates
<1>3. claim' \in [Policies -> [ClaimIds -> ClaimType]]
  BY <1>1, <1>2, ClaimRecordTypes, ClaimUpdate DEF TypeOK
<1>4. policy[p].openClaimsCount > 0
        => [policy[p] EXCEPT !.openClaimsCount = @ - 1] \in PolicyType
  <2>1. policy[p].openClaimsCount > 0 => policy[p].openClaimsCount - 1 \in Nat
    BY <1>1 DEF PolicyType
  <2> QED
    BY <1>1, <2>1, PolicyCounterTypes
<1>5. policy' \in [Policies -> PolicyType]
  BY <1>4 DEF DeclineClaim, RevokeClaim, CancelConfirmedClaim, TypeOK, ProductTypeOK
<1> QED
  BY <1>3, <1>5 DEF DeclineClaim, RevokeClaim, CancelConfirmedClaim, TypeOK, ProductTypeOK,
                    PoolTypeOK, poolVars

LEMMA CreatePayoutType ==
  ASSUME TypeOK, NEW p \in Policies, NEW c \in ClaimIds, NEW a \in Nat, CreatePayout(p, c, a)
  PROVE  TypeOK'
<1> DEFINE info == claim[p][c]
           k    == info.payoutsCount + 1
           new  == [state |-> "EXPECTED", amount |-> a]
           next == [info EXCEPT !.payoutsCount = @ + 1, !.openPayoutsCount = @ + 1]
<1>1. info \in ClaimType /\ new \in PayoutType
  BY ClaimEntryTypes DEF TypeOK, PayoutType, PayoutStates
<1>2. next \in ClaimType
  <2>1. info.payoutsCount + 1 \in Nat /\ info.openPayoutsCount + 1 \in Nat
    BY <1>1 DEF ClaimType
  <2> QED
    BY <1>1, <2>1, ClaimRecordTypes
<1>3. k \in PayoutIds /\ payout' = [payout EXCEPT ![p][c][k] = new]
  BY DEF CreatePayout
<1>4. claim' = [claim EXCEPT ![p][c] = next]
  BY DEF CreatePayout, TypeOK, ProductTypeOK
<1> HIDE DEF info, k, new, next
<1>5. claim' \in [Policies -> [ClaimIds -> ClaimType]]
  BY <1>2, <1>4, ClaimUpdate DEF TypeOK
<1>6. payout' \in [Policies -> [ClaimIds -> [PayoutIds -> PayoutType]]]
  BY <1>1, <1>3, PayoutUpdate DEF TypeOK
<1> QED
  BY <1>5, <1>6 DEF CreatePayout, TypeOK, ProductTypeOK, PoolTypeOK, poolVars

LEMMA ProcessPayoutType ==
  ASSUME TypeOK, NEW p \in Policies, NEW c \in ClaimIds, NEW k \in PayoutIds,
         ProcessPayout(p, c, k)
  PROVE  TypeOK'
<1> DEFINE amount  == payout[p][c][k].amount
           info    == claim[p][c]
           updated == [info EXCEPT !.paidAmount = @ + amount, !.openPayoutsCount = @ - 1]
           settled == IsSettled(updated)
           newClaim == IF settled THEN [updated EXCEPT !.state = "CLOSED"] ELSE updated
           newPolicy == [policy[p] EXCEPT !.payoutAmount = @ + amount,
                                          !.openClaimsCount = IF settled THEN @ - 1 ELSE @]
<1>1. policy[p] \in PolicyType /\ info \in ClaimType /\ payout[p][c][k] \in PayoutType
  BY ClaimEntryTypes DEF TypeOK
<1>2. amount \in Nat
  BY <1>1 DEF PayoutType
<1>3. /\ info.openPayoutsCount > 0
      /\ settled => policy[p].openClaimsCount > 0
      /\ payout' = [payout EXCEPT ![p][c][k] = [payout[p][c][k] EXCEPT !.state = "PAID"]]
      /\ ProcessPoolPayout(policy[p].bundle, amount)
      /\ policy' = [policy EXCEPT ![p] = newPolicy]
      /\ claim' = [claim EXCEPT ![p][c] = newClaim]
  BY DEF ProcessPayout
<1>4. updated \in ClaimType
  <2>1. info.paidAmount + amount \in Nat /\ info.openPayoutsCount - 1 \in Nat
    BY <1>1, <1>2, <1>3 DEF ClaimType
  <2> QED
    BY <1>1, <2>1, ClaimRecordTypes
<1>5. newClaim \in ClaimType
  BY <1>4, ClaimRecordTypes DEF ClaimStates
<1>6. newPolicy \in PolicyType
  <2>1. /\ policy[p].payoutAmount + amount \in Nat
        /\ (IF settled THEN policy[p].openClaimsCount - 1 ELSE policy[p].openClaimsCount) \in Nat
    BY <1>1, <1>2, <1>3 DEF PolicyType
  <2> QED
    BY <1>1, <2>1, PolicyCounterTypes
<1>7. [payout[p][c][k] EXCEPT !.state = "PAID"] \in PayoutType
  BY <1>1 DEF PayoutType, PayoutStates
<1>8. /\ bundleBook' \in [Bundles -> BookType]
      /\ poolBook' \in BookType /\ productBook' \in BookType
      /\ tvl' \in Nat /\ poolWallet' \in Nat /\ productWallet' \in Nat
  BY <1>2, <1>3, ProcessPoolPayoutType DEF TypeOK
<1> HIDE DEF amount, info, updated, settled, newClaim, newPolicy
<1>9. claim' \in [Policies -> [ClaimIds -> ClaimType]]
  BY <1>3, <1>5, ClaimUpdate DEF TypeOK
<1>10. payout' \in [Policies -> [ClaimIds -> [PayoutIds -> PayoutType]]]
  BY <1>3, <1>7, PayoutUpdate DEF TypeOK
<1>11. policy' \in [Policies -> PolicyType]
  BY <1>3, <1>6 DEF TypeOK, ProductTypeOK
<1> QED
  BY <1>8, <1>9, <1>10, <1>11 DEF ProcessPayout, TypeOK, ProductTypeOK, PoolTypeOK

LEMMA CancelPayoutType ==
  ASSUME TypeOK, NEW p \in Policies, NEW c \in ClaimIds, NEW k \in PayoutIds,
         CancelPayout(p, c, k)
  PROVE  TypeOK'
<1>1. claim[p][c] \in ClaimType /\ payout[p][c][k] \in PayoutType
  BY ClaimEntryTypes DEF TypeOK
<1>2. [payout[p][c][k] EXCEPT !.state = "CANCELLED"] \in PayoutType
  BY <1>1 DEF PayoutType, PayoutStates
<1>3. [claim[p][c] EXCEPT !.openPayoutsCount = @ - 1] \in ClaimType
  <2>1. claim[p][c].openPayoutsCount - 1 \in Nat
    BY <1>1 DEF CancelPayout, ClaimType
  <2> QED
    BY <1>1, <2>1, ClaimRecordTypes
<1>4. payout' \in [Policies -> [ClaimIds -> [PayoutIds -> PayoutType]]]
  BY <1>2, PayoutUpdate DEF TypeOK, CancelPayout
<1>5. claim' \in [Policies -> [ClaimIds -> ClaimType]]
  BY <1>3, ClaimUpdate DEF TypeOK, CancelPayout
<1> QED
  BY <1>4, <1>5 DEF CancelPayout, TypeOK, ProductTypeOK, PoolTypeOK, poolVars

LEMMA ClaimStepType ==
  ASSUME TypeOK, ClaimNext
  PROVE  TypeOK'
<1>1. ClaimAmounts \subseteq Nat /\ PayoutAmounts \subseteq Nat
  BY PolicyFlowAssumption
<1> QED
  BY <1>1, SubmitClaimType, ConfirmClaimType, EndClaimType, CreatePayoutType,
     ProcessPayoutType, CancelPayoutType DEF ClaimNext

----------------------------------------------------------------------------
(* Type correctness.                                                       *)

\* Every amount, counter and set the services keep has its type in every
\* reachable state: no decrease of a balance, fee, locked amount, wallet or
\* counter goes below zero, for every number of objects, fees and levels.
THEOREM TypeCorrect == Spec => []TypeOK
<1>1. Init => TypeOK
  <2> SUFFICES ASSUME Init PROVE TypeOK
    OBVIOUS
  <2>1. PoolTypeOK
    BY BundlePoolAssumption DEF Init, PoolInit, PoolTypeOK, EmptyBook, BookType, BundleStates, Times
  <2>2. NoPolicy \in PolicyType /\ NoClaim \in ClaimType /\ NoPayout \in PayoutType
    BY DEF NoPolicy, NoPremium, NoClaim, NoPayout, PolicyType, ClaimType, PayoutType,
           PremiumInfos, PolicyStates, PremiumStates, ClaimStates, PayoutStates, Times
  <2>3. ProductTypeOK
    BY <2>2 DEF Init, ProductTypeOK, RiskStates
  <2> QED
    BY <2>1, <2>3 DEF TypeOK
<1>2. TypeOK /\ [Next]_vars => TypeOK'
  <2> SUFFICES ASSUME TypeOK, [Next]_vars PROVE TypeOK'
    OBVIOUS
  <2>1. CASE PoolNext /\ UNCHANGED productVars
    <3>1. PoolTypeOK'
      BY <2>1, PoolStepType DEF TypeOK
    <3> QED
      BY <2>1, <3>1 DEF TypeOK, ProductTypeOK, productVars
  <2>2. CASE RiskNext
    BY <2>2, RiskStepType
  <2>3. CASE ApplicationNext
    BY <2>3, ApplicationStepType
  <2>4. CASE PolicyNext
    BY <2>4, PolicyStepType
  <2>5. CASE ClaimNext
    BY <2>5, ClaimStepType
  <2>6. CASE UNCHANGED vars
    BY <2>6 DEF TypeOK, PoolTypeOK, ProductTypeOK, vars, poolVars, productVars
  <2> QED
    BY <2>1, <2>2, <2>3, <2>4, <2>5, <2>6 DEF Next
<1> QED
  BY <1>1, <1>2, PTL DEF Spec

----------------------------------------------------------------------------
(* Links of policies to bundles and risks.                                 *)

\* A step that links and unlinks nothing, leaves the policies in force as
\* they are and closes only bundles without policies.
LEMMA LinksKept ==
  ASSUME LinkedPoliciesAreInForce,
         UNCHANGED <<bundlePolicies, riskPolicies>>,
         \A p \in Policies :
           /\ policy'[p].state = "COLLATERALIZED" <=> policy[p].state = "COLLATERALIZED"
           /\ policy[p].state = "COLLATERALIZED" =>
                policy'[p].bundle = policy[p].bundle /\ policy'[p].risk = policy[p].risk,
         \A b \in Bundles :
           bundle'[b].state = "CLOSED" => bundle[b].state = "CLOSED" \/ bundlePolicies[b] = {}
  PROVE  LinkedPoliciesAreInForce'
  BY DEF LinkedPoliciesAreInForce

LEMMA PoolStepKeepsLinks ==
  ASSUME TypeOK, LinkedPoliciesAreInForce, PoolNext, UNCHANGED productVars
  PROVE  LinkedPoliciesAreInForce'
<1>1. UNCHANGED <<bundlePolicies, riskPolicies, policy>>
  BY DEF PoolNext, productVars, poolVars, CreateBundle, ExtendBundle, Stake, Unstake, LockBundle,
         UnlockBundle, CloseBundle, WithdrawBundleFees, WithdrawPoolFees, WithdrawProductFees,
         SetMaxBalanceAmount, FundPoolWallet, DefundPoolWallet, Tick
<1>2. ASSUME NEW b \in Bundles, bundle'[b].state = "CLOSED"
      PROVE  bundle[b].state = "CLOSED" \/ bundlePolicies[b] = {}
  <2>1. bundle \in [Bundles -> [state : BundleStates, expiredAt : Times]]
    BY DEF TypeOK, PoolTypeOK
  <2>2. CASE UNCHANGED bundle
    BY <1>2, <2>2
  <2>3. CASE \E x \in Bundles, d \in BundleLifetimes : CreateBundle(x, d) \/ ExtendBundle(x, d)
    BY <1>2, <2>1, <2>3 DEF CreateBundle, ExtendBundle
  <2>4. CASE \E x \in Bundles : CloseBundle(x)
    BY <1>2, <2>1, <2>4 DEF CloseBundle, BundleIsCloseable
  <2> QED
    BY <2>2, <2>3, <2>4
       DEF PoolNext, poolVars, Stake, Unstake, LockBundle, UnlockBundle, WithdrawBundleFees,
           WithdrawPoolFees, WithdrawProductFees, SetMaxBalanceAmount, FundPoolWallet,
           DefundPoolWallet, Tick
<1> QED
  BY <1>1, <1>2, LinksKept

LEMMA ApplicationStepKeepsLinks ==
  ASSUME TypeOK, LinkedPoliciesAreInForce, ApplicationNext
  PROVE  LinkedPoliciesAreInForce'
<1>1. UNCHANGED <<bundlePolicies, riskPolicies, bundle>>
  BY DEF ApplicationNext, CreateApplication, RevokeApplication, DeclineApplication, poolVars
<1>2. policy \in [Policies -> PolicyType]
  BY DEF TypeOK, ProductTypeOK
<1>3. PICK q \in Policies :
        /\ \A p \in Policies \ {q} : policy'[p] = policy[p]
        /\ policy[q].state # "COLLATERALIZED"
        /\ policy'[q].state # "COLLATERALIZED"
  <2>1. ASSUME NEW p \in Policies, NEW r \in Risks, NEW b \in Bundles, NEW s \in SumInsuredAmounts,
               NEW l \in PolicyLifetimes, CreateApplication(p, r, b, s, l)
        PROVE  /\ \A q \in Policies \ {p} : policy'[q] = policy[q]
               /\ policy[p].state # "COLLATERALIZED" /\ policy'[p].state # "COLLATERALIZED"
    BY <1>2, <2>1 DEF CreateApplication, NoPolicy, NONE
  <2>2. ASSUME NEW p \in Policies, RevokeApplication(p) \/ DeclineApplication(p)
        PROVE  /\ \A q \in Policies \ {p} : policy'[q] = policy[q]
               /\ policy[p].state # "COLLATERALIZED" /\ policy'[p].state # "COLLATERALIZED"
    BY <1>2, <2>2 DEF RevokeApplication, DeclineApplication, PolicyTransitions, PolicyType
  <2> QED
    BY <2>1, <2>2, ApplicationNext DEF ApplicationNext
<1> QED
  BY <1>1, <1>3, LinksKept

\* The steps of policies and claims that neither link nor unlink: the state
\* and the links of every policy stay.
LEMMA ActivationStepKeepsLinks ==
  ASSUME TypeOK, LinkedPoliciesAreInForce, NEW p \in Policies, NEW t \in Nat,
         \/ CollectPremium(p, t) \/ Activate(p, t) \/ AdjustActivation(p, t) \/ Expire(p, t)
  PROVE  LinkedPoliciesAreInForce'
<1>1. UNCHANGED <<bundlePolicies, riskPolicies, bundle>>
  BY DEF CollectPremium, Activate, AdjustActivation, Expire, poolVars
<1>2. policy \in [Policies -> PolicyType] /\ policy[p] \in PolicyType
  BY DEF TypeOK, ProductTypeOK
<1>3. \A info \in PolicyType :
        /\ Activated(info, t).state = info.state /\ Expired(info, t).state = info.state
        /\ Activated(info, t).bundle = info.bundle /\ Expired(info, t).bundle = info.bundle
        /\ Activated(info, t).risk = info.risk /\ Expired(info, t).risk = info.risk
  BY DEF Activated, Expired, PolicyType
<1>4. \A info \in PolicyType : Activated(info, t) \in PolicyType /\ Expired(info, t) \in PolicyType
  BY PolicyRecordTypes DEF TypeOK, PoolTypeOK
<1>5. PICK info \in PolicyType :
        /\ policy' = [policy EXCEPT ![p] = info]
        /\ info.state = policy[p].state
        /\ info.bundle = policy[p].bundle
        /\ info.risk = policy[p].risk
  <2>1. CASE CollectPremium(p, t)
    <3> DEFINE covered == IF t > 0 THEN Activated(policy[p], t) ELSE policy[p]
    <3>1. /\ covered \in PolicyType
          /\ covered.state = policy[p].state
          /\ covered.bundle = policy[p].bundle
          /\ covered.risk = policy[p].risk
      BY <1>2, <1>3, <1>4
    <3>2. policy' = [policy EXCEPT ![p] = [covered EXCEPT !.premiumState = "PAID"]]
      BY <2>1 DEF CollectPremium
    <3> HIDE DEF covered
    <3>3. [covered EXCEPT !.premiumState = "PAID"] \in PolicyType
      BY <3>1 DEF PolicyType, PremiumStates
    <3>4. /\ [covered EXCEPT !.premiumState = "PAID"].state = policy[p].state
          /\ [covered EXCEPT !.premiumState = "PAID"].bundle = policy[p].bundle
          /\ [covered EXCEPT !.premiumState = "PAID"].risk = policy[p].risk
      BY <3>1 DEF PolicyType
    <3> QED
      BY <3>2, <3>3, <3>4
  <2>2. CASE Activate(p, t)
    <3>1. policy' = [policy EXCEPT ![p] = Activated(policy[p], t)]
      BY <2>2 DEF Activate
    <3> QED
      BY <1>2, <1>3, <1>4, <3>1
  <2>3. CASE AdjustActivation(p, t)
    <3>1. policy' = [policy EXCEPT ![p] = [policy[p] EXCEPT !.activatedAt = t]]
      BY <1>2, <2>3 DEF AdjustActivation
    <3>2. [policy[p] EXCEPT !.activatedAt = t] \in PolicyType
      BY <1>2 DEF PolicyType, Times
    <3>3. /\ [policy[p] EXCEPT !.activatedAt = t].state = policy[p].state
          /\ [policy[p] EXCEPT !.activatedAt = t].bundle = policy[p].bundle
          /\ [policy[p] EXCEPT !.activatedAt = t].risk = policy[p].risk
      BY <1>2 DEF PolicyType
    <3> QED
      BY <3>1, <3>2, <3>3
  <2>4. CASE Expire(p, t)
    <3>1. policy' = [policy EXCEPT ![p] = Expired(policy[p], t)]
      BY <2>4 DEF Expire
    <3> QED
      BY <1>2, <1>3, <1>4, <3>1
  <2> QED
    BY <2>1, <2>2, <2>3, <2>4
<1>6. \A q \in Policies : /\ policy'[q].state = policy[q].state
                          /\ policy'[q].bundle = policy[q].bundle
                          /\ policy'[q].risk = policy[q].risk
  BY <1>2, <1>5
<1> QED
  BY <1>1, <1>6, LinksKept

LEMMA ClaimStepKeepsLinks ==
  ASSUME TypeOK, LinkedPoliciesAreInForce, ClaimNext
  PROVE  LinkedPoliciesAreInForce'
<1> DEFINE SameCover == \A q \in Policies : /\ policy'[q].state = policy[q].state
                                            /\ policy'[q].bundle = policy[q].bundle
                                            /\ policy'[q].risk = policy[q].risk
<1> DEFINE SameLinks == UNCHANGED <<bundlePolicies, riskPolicies, bundle>>
<1>1. policy \in [Policies -> PolicyType]
  BY DEF TypeOK, ProductTypeOK
<1>2. ASSUME NEW p \in Policies, NEW c \in ClaimIds, NEW a \in ClaimAmounts, ConfirmClaim(p, c, a)
      PROVE  SameCover /\ SameLinks
  BY <1>1, <1>2 DEF ConfirmClaim, Expired, PolicyType, poolVars
<1>3. ASSUME NEW p \in Policies, NEW a \in ClaimAmounts, SubmitClaim(p, a)
      PROVE  SameCover /\ SameLinks
  BY <1>1, <1>3 DEF SubmitClaim, PolicyType, poolVars
<1>4. ASSUME NEW p \in Policies, NEW c \in ClaimIds, DeclineClaim(p, c) \/ RevokeClaim(p, c)
      PROVE  SameCover /\ SameLinks
  BY <1>1, <1>4 DEF DeclineClaim, RevokeClaim, PolicyType, poolVars
<1>5. ASSUME NEW p \in Policies, NEW c \in ClaimIds, NEW k \in PayoutIds, ProcessPayout(p, c, k)
      PROVE  SameCover /\ SameLinks
  BY <1>1, <1>5 DEF ProcessPayout, PolicyType
<1>6. ASSUME NEW p \in Policies, NEW c \in ClaimIds, CancelConfirmedClaim(p, c)
      PROVE  SameCover /\ SameLinks
  BY <1>6 DEF CancelConfirmedClaim, poolVars
<1>7. ASSUME NEW p \in Policies, NEW c \in ClaimIds, NEW a \in PayoutAmounts, CreatePayout(p, c, a)
      PROVE  SameCover /\ SameLinks
  BY <1>7 DEF CreatePayout, poolVars
<1>8. ASSUME NEW p \in Policies, NEW c \in ClaimIds, NEW k \in PayoutIds, CancelPayout(p, c, k)
      PROVE  SameCover /\ SameLinks
  BY <1>8 DEF CancelPayout, poolVars
<1>9. SameCover /\ SameLinks
  <2> HIDE DEF SameCover, SameLinks
  <2> QED
    BY <1>2, <1>3, <1>4, <1>5, <1>6, <1>7, <1>8, Zenon DEF ClaimNext
<1> QED
  BY <1>9, LinksKept

LEMMA CreatePolicyLinks ==
  ASSUME TypeOK, LinkedPoliciesAreInForce, NEW p \in Policies, NEW t \in Nat,
         NEW premium \in Premiums, CreatePolicy(p, t, premium)
  PROVE  LinkedPoliciesAreInForce'
<1>1. /\ policy \in [Policies -> PolicyType] /\ policy[p] \in PolicyType
      /\ bundlePolicies \in [Bundles -> SUBSET Policies]
      /\ riskPolicies \in [Risks -> SUBSET Policies]
  BY DEF TypeOK, ProductTypeOK, PoolTypeOK
<1>2. /\ policy[p].state = "APPLIED"
      /\ bundle[policy[p].bundle].state = "ACTIVE"
      /\ UNCHANGED bundle
      /\ riskPolicies' = [riskPolicies EXCEPT ![policy[p].risk] = @ \union {p}]
      /\ bundlePolicies' = [bundlePolicies EXCEPT ![policy[p].bundle] = @ \union {p}]
  BY DEF CreatePolicy, LockCollateral, BundleIsOpen
<1>3. /\ policy'[p].state = "COLLATERALIZED"
      /\ policy'[p].bundle = policy[p].bundle
      /\ policy'[p].risk = policy[p].risk
      /\ \A q \in Policies \ {p} : policy'[q] = policy[q]
  <2> DEFINE covered == IF t > 0 THEN Activated(policy[p], t) ELSE policy[p]
  <2>1. covered \in PolicyType
    BY <1>1, PolicyRecordTypes
  <2>2. covered.bundle = policy[p].bundle /\ covered.risk = policy[p].risk
    BY <1>1 DEF Activated, PolicyType
  <2>3. policy' = [policy EXCEPT ![p] = [covered EXCEPT
           !.state = "COLLATERALIZED", !.premium = premium, !.premiumState = "EXPECTED"]]
    BY DEF CreatePolicy
  <2> HIDE DEF covered
  <2> QED
    BY <1>1, <2>1, <2>2, <2>3 DEF PolicyType
<1>4. \A q \in Policies, b \in Bundles :
        q \in bundlePolicies'[b] <=> policy'[q].state = "COLLATERALIZED" /\ policy'[q].bundle = b
  BY <1>1, <1>2, <1>3 DEF LinkedPoliciesAreInForce
<1>5. \A q \in Policies, r \in Risks :
        q \in riskPolicies'[r] <=> policy'[q].state = "COLLATERALIZED" /\ policy'[q].risk = r
  BY <1>1, <1>2, <1>3 DEF LinkedPoliciesAreInForce
<1>6. \A b \in Bundles : bundle'[b].state = "CLOSED" => bundlePolicies'[b] = {}
  BY <1>1, <1>2 DEF LinkedPoliciesAreInForce
<1> QED
  BY <1>4, <1>5, <1>6 DEF LinkedPoliciesAreInForce

LEMMA ClosePolicyLinks ==
  ASSUME TypeOK, LinkedPoliciesAreInForce, NEW p \in Policies, ClosePolicy(p)
  PROVE  LinkedPoliciesAreInForce'
<1>1. /\ policy \in [Policies -> PolicyType] /\ policy[p] \in PolicyType
      /\ bundlePolicies \in [Bundles -> SUBSET Policies]
      /\ riskPolicies \in [Risks -> SUBSET Policies]
  BY DEF TypeOK, ProductTypeOK, PoolTypeOK
<1>2. /\ policy' = [policy EXCEPT ![p] = [policy[p] EXCEPT !.state = "CLOSED"]]
      /\ UNCHANGED bundle
      /\ riskPolicies' = [riskPolicies EXCEPT ![policy[p].risk] = @ \ {p}]
      /\ bundlePolicies' = [bundlePolicies EXCEPT ![policy[p].bundle] = @ \ {p}]
  BY DEF ClosePolicy
<1>3. /\ policy'[p].state = "CLOSED"
      /\ \A q \in Policies \ {p} : policy'[q] = policy[q]
  BY <1>1, <1>2 DEF PolicyType
<1>4. \A q \in Policies, b \in Bundles :
        q \in bundlePolicies'[b] <=> policy'[q].state = "COLLATERALIZED" /\ policy'[q].bundle = b
  BY <1>1, <1>2, <1>3 DEF LinkedPoliciesAreInForce
<1>5. \A q \in Policies, r \in Risks :
        q \in riskPolicies'[r] <=> policy'[q].state = "COLLATERALIZED" /\ policy'[q].risk = r
  BY <1>1, <1>2, <1>3 DEF LinkedPoliciesAreInForce
<1>6. \A b \in Bundles : bundle'[b].state = "CLOSED" => bundlePolicies'[b] = {}
  BY <1>1, <1>2 DEF LinkedPoliciesAreInForce
<1> QED
  BY <1>4, <1>5, <1>6 DEF LinkedPoliciesAreInForce

\* The policies linked to a bundle or a risk are exactly those in force, in
\* every reachable state and also when the product activates applications:
\* no order of selling and closing strands a policy in a closed bundle.
THEOREM LinksCorrect == Spec => []LinkedPoliciesAreInForce
<1>1. Init => LinkedPoliciesAreInForce
  BY DEF Init, PoolInit, LinkedPoliciesAreInForce, NoPolicy, NONE
<1>2. TypeOK /\ LinkedPoliciesAreInForce /\ [Next]_vars => LinkedPoliciesAreInForce'
  <2> SUFFICES ASSUME TypeOK, LinkedPoliciesAreInForce, [Next]_vars
               PROVE  LinkedPoliciesAreInForce'
    OBVIOUS
  <2>1. CASE PoolNext /\ UNCHANGED productVars
    BY <2>1, PoolStepKeepsLinks
  <2>2. CASE RiskNext
    <3>1. UNCHANGED <<bundlePolicies, riskPolicies, policy, bundle>>
      BY <2>2 DEF RiskNext, CreateRisk, LockRisk, UnlockRisk, CloseRisk, poolVars
    <3> QED
      BY <3>1, LinksKept
  <2>3. CASE ApplicationNext
    BY <2>3, ApplicationStepKeepsLinks
  <2>4. CASE PolicyNext
    <3>1. ActivationTimes \union {0} \subseteq Nat /\ 1..MaxTime \subseteq Nat
          /\ 0..MaxTime \subseteq Nat
      BY PolicyFlowAssumption, BundlePoolAssumption
    <3> QED
      BY <2>4, <3>1, CreatePolicyLinks, ActivationStepKeepsLinks, ClosePolicyLinks DEF PolicyNext
  <2>5. CASE ClaimNext
    BY <2>5, ClaimStepKeepsLinks
  <2>6. CASE UNCHANGED vars
    <3>1. UNCHANGED <<bundlePolicies, riskPolicies, policy, bundle>>
      BY <2>6 DEF vars, poolVars, productVars
    <3> QED
      BY <3>1, LinksKept
  <2> QED
    BY <2>1, <2>2, <2>3, <2>4, <2>5, <2>6 DEF Next
<1> QED
  BY <1>1, <1>2, TypeCorrect, PTL DEF Spec
=============================================================================
