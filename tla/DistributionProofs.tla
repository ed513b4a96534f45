------------------------- MODULE DistributionProofs -------------------------
(***************************************************************************)
(* Theorems about Pricing and Distribution for any number of distributors, *)
(* referral codes and sales and any fees, discounts and commissions.       *)
(***************************************************************************)
EXTENDS Distribution, AccountingProofs, FiniteSetTheorems

----------------------------------------------------------------------------
(* The premium                                                             *)

LEMMA ShareType ==
  ASSUME NEW amount \in Nat, NEW rate \in Nat
  PROVE  Share(amount, rate) \in Nat
<1>1. amount * rate \in Nat
  BY ProductType
<1>2. Unit \in Nat \ {0}
  BY DEF Unit
<1> QED
  BY <1>1, <1>2, RoundHalfUpType DEF Share

LEMMA FullPremiumType ==
  ASSUME NEW net \in Nat, NEW fees \in FeeInfoType
  PROVE  /\ FeeAmount(fees.product, net) \in Nat
         /\ FeeAmount(fees.pool, net) \in Nat
         /\ FeeAmount(fees.bundle, net) \in Nat
         /\ FeeAmount(fees.distribution, net)
              = Share(net, fees.distribution.fractional) + fees.distribution.fixed
         /\ Share(net, fees.distribution.fractional) \in Nat
         /\ fees.distribution.fixed \in Nat
         /\ fees.minDistributionOwner.fixed \in Nat
         /\ FullPremium(net, fees) \in Nat
<1>1. /\ fees.product \in Fees /\ fees.pool \in Fees /\ fees.bundle \in Fees
      /\ fees.distribution \in Fees /\ fees.minDistributionOwner \in Fees
  BY DEF FeeInfoType
<1>2. /\ FeeAmount(fees.product, net) \in Nat
      /\ FeeAmount(fees.pool, net) \in Nat
      /\ FeeAmount(fees.bundle, net) \in Nat
      /\ FeeAmount(fees.distribution, net) \in Nat
  BY <1>1, FeeAmountType
<1>3. fees.distribution.fixed \in Nat /\ fees.distribution.fractional \in Nat
      /\ fees.minDistributionOwner.fixed \in Nat
  BY <1>1 DEF Fees
<1>4. Share(net, fees.distribution.fractional) \in Nat
  BY <1>3, ShareType
<1>5. FeeAmount(fees.distribution, net)
        = Share(net, fees.distribution.fractional) + fees.distribution.fixed
  BY DEF FeeAmount, Share
<1>6. FullPremium(net, fees) \in Nat
  BY <1>2 DEF FullPremium
<1> QED
  BY <1>2, <1>3, <1>4, <1>5, <1>6

LEMMA DeductionTypes ==
  ASSUME NEW net \in Nat, NEW fees \in FeeInfoType, NEW terms \in TermsType
  PROVE  /\ Commission(net, terms) \in Nat
         /\ Discount(net, fees, terms) \in Nat
<1>1. terms.commission \in Nat /\ terms.discount \in Nat
  BY DEF TermsType
<1>2. FullPremium(net, fees) \in Nat
  BY FullPremiumType
<1> QED
  BY <1>1, <1>2, ShareType DEF Commission, Discount

\* What the policy holder pays is what the wallets of product, pool and
\* distribution get, to the last token and whatever the rounding: the checks
\* of PricingService.calculatePremium against a wrong split never revert.
THEOREM PremiumIsSplit ==
  ASSUME NEW net \in Nat, NEW fees \in FeeInfoType, NEW terms \in TermsType
  PROVE  LET info == CalculatePremium(net, fees, terms)
         IN  info.premium = info.product + info.distribution + info.pool
<1> DEFINE var == Share(net, fees.distribution.fractional)
           commission == Commission(net, terms)
           discount == Discount(net, fees, terms)
<1>1. /\ FullPremium(net, fees)
           = net + FeeAmount(fees.product, net) + FeeAmount(fees.pool, net)
             + FeeAmount(fees.bundle, net) + (var + fees.distribution.fixed)
      /\ FeeAmount(fees.product, net) \in Nat /\ FeeAmount(fees.pool, net) \in Nat
      /\ FeeAmount(fees.bundle, net) \in Nat /\ var \in Nat /\ fees.distribution.fixed \in Nat
  BY FullPremiumType DEF FullPremium
<1>2. commission \in Nat /\ discount \in Nat
  BY DeductionTypes
<1>3. DistributionPart(net, fees, terms)
        = fees.distribution.fixed + (var - (commission + discount)) + commission
  BY DEF DistributionPart, OwnerVariable
<1> HIDE DEF var, commission, discount
<1>4. FullPremium(net, fees) - discount
        = ProductPart(net, fees) + DistributionPart(net, fees, terms) + PoolPart(net, fees)
  BY <1>1, <1>2, <1>3 DEF ProductPart, PoolPart
<1> QED
  BY <1>4 DEF CalculatePremium, discount

LEMMA PremiumType ==
  ASSUME NEW net \in Nat, NEW fees \in FeeInfoType, NEW terms \in TermsType,
         IsPriceable(net, fees, terms)
  PROVE  LET info == CalculatePremium(net, fees, terms)
         IN  /\ info \in PremiumInfoType
             /\ info.distribution
                  = info.distributionFixed + info.ownerVariable + info.commission
             /\ fees.minDistributionOwner.fixed <= fees.distribution.fixed
                  => info.ownerFixed <= info.distributionFixed
<1> DEFINE var == Share(net, fees.distribution.fractional)
           commission == Commission(net, terms)
           discount == Discount(net, fees, terms)
<1>1. /\ FeeAmount(fees.product, net) \in Nat /\ FeeAmount(fees.pool, net) \in Nat
      /\ FeeAmount(fees.bundle, net) \in Nat /\ var \in Nat /\ fees.distribution.fixed \in Nat
      /\ fees.minDistributionOwner.fixed \in Nat /\ FullPremium(net, fees) \in Nat
      /\ FullPremium(net, fees)
           = net + FeeAmount(fees.product, net) + FeeAmount(fees.pool, net)
             + FeeAmount(fees.bundle, net) + (var + fees.distribution.fixed)
  BY FullPremiumType DEF FullPremium
<1>2. commission \in Nat /\ discount \in Nat
  BY DeductionTypes
<1>3. OwnerVariable(net, fees, terms) = var - (commission + discount)
  BY DEF OwnerVariable
<1>4. var - (commission + discount) >= 0
  BY <1>3 DEF IsPriceable
<1>5. DistributionPart(net, fees, terms)
        = fees.distribution.fixed + OwnerVariable(net, fees, terms) + commission
  BY DEF DistributionPart
<1> HIDE DEF var, commission, discount
<1>6. OwnerVariable(net, fees, terms) \in Nat
  BY <1>1, <1>2, <1>3, <1>4
<1>7. FullPremium(net, fees) - discount \in Nat
  BY <1>1, <1>2, <1>4
<1>8. /\ OwnerFixed(fees, terms) \in Nat
      /\ fees.minDistributionOwner.fixed <= fees.distribution.fixed
           => OwnerFixed(fees, terms) <= fees.distribution.fixed
  BY <1>1 DEF OwnerFixed
<1>9. DistributionPart(net, fees, terms) \in Nat
  BY <1>1, <1>2, <1>5, <1>6
<1>10. PoolPart(net, fees) \in Nat /\ ProductPart(net, fees) \in Nat
  BY <1>1 DEF PoolPart, ProductPart
<1> QED
  BY <1>1, <1>2, <1>5, <1>6, <1>7, <1>8, <1>9, <1>10
     DEF CalculatePremium, PremiumInfoType, commission, discount

----------------------------------------------------------------------------
(* Type correctness.  That every part of a premium is a natural number     *)
(* needs the references: the commission comes from the type of the         *)
(* distributor of the referral code.                                       *)

LEMMA FeeInfoTyped ==
  ASSUME TypeOK
  PROVE  FeeInfo \in FeeInfoType
<1>1. distributionFee \in DistributionFeeType
  BY DistributionAssumption DEF TypeOK
<1>2. ComponentFees \in [product : Fees, pool : Fees, bundle : Fees]
  BY DistributionAssumption
<1> QED
  BY <1>1, <1>2 DEF FeeInfo, FeeInfoType, DistributionFeeType

LEMMA TermsTyped ==
  ASSUME TypeOK, NEW r \in Referrals \union {0}
  PROVE  Terms(r) \in TermsType
<1>1. CASE ReferralIsValid(r)
  <2>1. r \in Referrals /\ ReferralExists(r)
    BY <1>1 DEF ReferralIsValid
  <2>2. referral[r] \in ReferralType
    BY <2>1 DEF TypeOK
  <2>3. referral[r].distributor \in Distributors
    BY <2>1, <2>2, DistributionAssumption DEF ReferralExists, ReferralType, Distributors
  <2>4. distributor[referral[r].distributor].type \in DOMAIN typeInfo
    BY <2>1, <2>3 DEF TypeOK, ReferencesExist
  <2>5. typeInfo[distributor[referral[r].distributor].type] \in TypeInfos
    BY <2>4 DEF TypeOK
  <2>6. typeInfo[distributor[referral[r].distributor].type].commission \in Nat
    BY <2>5, DistributionAssumption
  <2>7. referral[r].discount \in Nat
    BY <2>2 DEF ReferralType
  <2> QED
    BY <1>1, <2>6, <2>7 DEF Terms, TermsType
<1>2. CASE ~ReferralIsValid(r)
  BY <1>2 DEF Terms, TermsType, NoTerms
<1> QED
  BY <1>1, <1>2

LEMMA SaleReferral ==
  ASSUME TypeOK, NEW s \in Sales
  PROVE  sale[s] \in SaleType /\ sale[s].referral \in Referrals \union {0}
<1>1. sale[s] \in SaleType
  BY DEF TypeOK
<1> QED
  BY <1>1, DistributionAssumption DEF SaleType, Referrals

LEMMA DistributorStepType ==
  ASSUME TypeOK, DistributorNext
  PROVE  TypeOK'
<1>1. ASSUME NEW f \in DistributionFees, SetDistributionFees(f)
      PROVE  TypeOK'
  BY <1>1 DEF SetDistributionFees, TypeOK, ReferencesExist, ReferralExists
<1>2. ASSUME NEW info \in TypeInfos, CreateDistributorType(info)
      PROVE  TypeOK'
  <2>1. /\ typeInfo \in Seq(TypeInfos)
        /\ typeInfo' = Append(typeInfo, info)
        /\ Len(typeInfo) < MaxTypes
        /\ MaxTypes \in Nat
        /\ UNCHANGED <<now, distributionFee, distributor, referral, sale, distributionBook,
                       distributorBook, distributionWallet>>
    BY <1>2, DistributionAssumption DEF CreateDistributorType, TypeOK
  <2>2. typeInfo' \in Seq(TypeInfos) /\ Len(typeInfo') <= MaxTypes
        /\ DOMAIN typeInfo \subseteq DOMAIN typeInfo'
    BY <2>1
  <2>3. ReferencesExist'
    BY <2>1, <2>2 DEF TypeOK, ReferencesExist, ReferralExists
  <2> QED
    BY <2>1, <2>2, <2>3 DEF TypeOK
<1>3. ASSUME NEW d \in Distributors, NEW t \in Types,
             CreateDistributor(d, t) \/ ChangeDistributorType(d, t)
      PROVE  TypeOK'
  <2>1. /\ t \in DOMAIN typeInfo
        /\ distributor' = [distributor EXCEPT ![d].type = t]
        /\ UNCHANGED <<now, distributionFee, typeInfo, referral, sale, distributionBook,
                       distributorBook, distributionWallet>>
    BY <1>3 DEF CreateDistributor, ChangeDistributorType
  <2>2. t \in 0..MaxTypes /\ t # 0
    BY DistributionAssumption DEF Types
  <2>3. /\ distributor \in [Distributors -> DistributorType]
        /\ distributor' \in [Distributors -> DistributorType]
    BY <2>1, <2>2 DEF TypeOK, DistributorType
  <2>4. /\ distributor'[d].type = t
        /\ \A e \in Distributors \ {d} : distributor'[e] = distributor[e]
    BY <2>1, <2>3 DEF DistributorType
  <2>5. distributor'[d] # NoDistributor
    BY <2>2, <2>4 DEF NoDistributor
  <2>6. ReferencesExist'
    <3>1. \A e \in Distributors :
            distributor'[e] # NoDistributor => distributor'[e].type \in DOMAIN typeInfo'
      BY <2>1, <2>4 DEF TypeOK, ReferencesExist
    <3>2. \A r \in Referrals : ReferralExists(r)' =>
            distributor'[referral'[r].distributor] # NoDistributor
      <4> SUFFICES ASSUME NEW r \in Referrals, referral[r].distributor # 0
                   PROVE  distributor'[referral[r].distributor] # NoDistributor
        BY <2>1 DEF ReferralExists
      <4>1. referral[r].distributor \in Distributors
        BY DistributionAssumption DEF TypeOK, ReferralType, Distributors
      <4> QED
        BY <2>4, <2>5, <4>1 DEF TypeOK, ReferencesExist, ReferralExists
    <3> QED
      BY <3>1, <3>2 DEF ReferencesExist
  <2> QED
    BY <2>1, <2>3, <2>6 DEF TypeOK
<1>4. ASSUME NEW r \in Referrals, NEW d \in Distributors, NEW discount \in DiscountPercentages,
             NEW m \in ReferralLimits, NEW t \in Times, CreateReferral(r, d, discount, m, t)
      PROVE  TypeOK'
  <2>1. /\ distributor[d] # NoDistributor
        /\ referral' = [referral EXCEPT ![r] =
             [distributor |-> d, discount |-> discount, maxReferrals |-> m,
              used |-> 0, expiryAt |-> t]]
        /\ UNCHANGED <<now, distributionFee, typeInfo, distributor, sale, distributionBook,
                       distributorBook, distributionWallet>>
    BY <1>4 DEF CreateReferral
  <2>2. d \in 0..MaxDistributors /\ discount \in Nat /\ m \in Nat /\ t \in Nat
    BY DistributionAssumption DEF Distributors, Times
  <2>3. referral \in [Referrals -> ReferralType] /\ referral' \in [Referrals -> ReferralType]
    BY <2>1, <2>2 DEF TypeOK, ReferralType
  <2>4. /\ referral'[r].distributor = d
        /\ \A q \in Referrals \ {r} : referral'[q] = referral[q]
    BY <2>1, <2>3
  <2>5. ReferencesExist'
    BY <2>1, <2>4 DEF TypeOK, ReferencesExist, ReferralExists
  <2> QED
    BY <2>1, <2>3, <2>5 DEF TypeOK
<1> QED
  BY <1>1, <1>2, <1>3, <1>4 DEF DistributorNext

LEMMA CreatePolicyType ==
  ASSUME TypeOK, NEW s \in Sales, NEW net \in NetPremiums, CreatePolicy(s, net)
  PROVE  TypeOK'
<1> DEFINE r == sale[s].referral
           info == CalculatePremium(net, FeeInfo, Terms(r))
<1>1. /\ IsPriceable(net, FeeInfo, Terms(r))
      /\ sale' = [sale EXCEPT ![s].state = "EXPECTED", ![s].info = info]
      /\ referral' = ReferralsProcessed(r)
      /\ UNCHANGED <<now, distributionFee, typeInfo, distributor, distributionBook,
                     distributorBook, distributionWallet>>
  BY DEF CreatePolicy
<1>2. net \in Nat /\ r \in Referrals \union {0} /\ sale[s] \in SaleType
  BY DistributionAssumption, SaleReferral
<1>3. info \in PremiumInfoType
  BY <1>1, <1>2, FeeInfoTyped, TermsTyped, PremiumType
<1> HIDE DEF info, r
<1>4. sale' \in [Sales -> SaleType]
  BY <1>1, <1>3 DEF TypeOK, SaleType
<1>5. /\ referral' \in [Referrals -> ReferralType]
      /\ \A q \in Referrals : referral'[q].distributor = referral[q].distributor
  <2>1. CASE ReferralIsValid(r)
    <3>1. r \in Referrals /\ referral' = [referral EXCEPT ![r].used = referral[r].used + 1]
      BY <1>1, <1>2, <2>1 DEF ReferralIsValid, ReferralsProcessed
    <3>2. referral \in [Referrals -> ReferralType] /\ referral[r].used + 1 \in Nat
      BY <3>1 DEF TypeOK, ReferralType
    <3> QED
      BY <3>1, <3>2 DEF ReferralType
  <2>2. CASE ~ReferralIsValid(r)
    BY <1>1, <2>2 DEF ReferralsProcessed, TypeOK
  <2> QED
    BY <2>1, <2>2
<1>6. ReferencesExist'
  BY <1>1, <1>5 DEF TypeOK, ReferencesExist, ReferralExists
<1> QED
  BY <1>1, <1>4, <1>5, <1>6 DEF TypeOK

LEMMA CollectPremiumType ==
  ASSUME TypeOK, NEW s \in Sales, CollectPremium(s)
  PROVE  TypeOK'
<1> DEFINE r == sale[s].referral
           d == referral[r].distributor
           info == sale[s].info
<1>1. /\ ProcessSale(r, info)
      /\ sale' = [sale EXCEPT ![s].state = "PAID"]
      /\ distributionWallet' = distributionWallet + info.distribution
      /\ UNCHANGED <<now, distributionFee, typeInfo, referral>>
  BY DEF CollectPremium
<1>2. sale[s] \in SaleType /\ r \in Referrals \union {0} /\ info \in PremiumInfoType
  BY SaleReferral DEF SaleType
<1>3. info.ownerFixed + info.ownerVariable \in Nat /\ info.commission \in Nat
      /\ info.distribution \in Nat
  BY <1>2 DEF PremiumInfoType
<1>4. sale' \in [Sales -> SaleType] /\ distributionWallet' \in Nat
  <2>1. sale \in [Sales -> SaleType] /\ distributionWallet \in Nat
    BY DEF TypeOK
  <2>2. distributionWallet' \in Nat
    BY <1>1, <1>3, <2>1
  <2>3. [sale[s] EXCEPT !.state = "PAID"] \in SaleType
    BY <1>2 DEF SaleType
  <2> QED
    BY <1>1, <2>1, <2>2, <2>3
<1>5. ReferralIsValid(r) => d \in Distributors /\ distributor[d] # NoDistributor
  <2> SUFFICES ASSUME ReferralIsValid(r)
               PROVE  d \in Distributors /\ distributor[d] # NoDistributor
    OBVIOUS
  <2>1. r \in Referrals /\ ReferralExists(r)
    BY <1>2 DEF ReferralIsValid
  <2>2. d \in Distributors
    BY <2>1, DistributionAssumption DEF TypeOK, ReferralType, Distributors, ReferralExists
  <2> QED
    BY <2>1, <2>2 DEF TypeOK, ReferencesExist
<1>6. ProcessSale(r, info) =
        IF ReferralIsValid(r)
        THEN /\ distributionBook' = Increase(distributionBook, info.commission,
                                             info.ownerFixed + info.ownerVariable)
             /\ distributorBook' = [distributorBook EXCEPT ![d] = Increase(@, 0, info.commission)]
             /\ distributor' = [distributor EXCEPT ![d].policiesSold = @ + 1]
        ELSE /\ distributionBook' = Increase(distributionBook, 0,
                                             info.ownerFixed + info.ownerVariable)
             /\ UNCHANGED <<distributor, distributorBook>>
  BY DEF ProcessSale
<1> HIDE DEF info, r, d
<1>7. /\ distributionBook' \in BookType
      /\ distributorBook' \in [Distributors -> BookType]
      /\ distributor' \in [Distributors -> DistributorType]
      /\ \A e \in Distributors :
           /\ distributor[e] # NoDistributor =>
                /\ distributor'[e] # NoDistributor
                /\ distributor'[e].type = distributor[e].type
           /\ distributor[e] = NoDistributor => distributor'[e] = NoDistributor
  <2>1. CASE ReferralIsValid(r)
    <3>1. /\ distributor' = [distributor EXCEPT ![d].policiesSold = @ + 1]
          /\ distributor \in [Distributors -> DistributorType]
          /\ d \in Distributors /\ distributor[d] # NoDistributor
          /\ distributor[d] \in DistributorType
      BY <1>1, <1>5, <1>6, <2>1 DEF TypeOK
    <3>2. distributor[d].policiesSold + 1 \in Nat \ {0}
      BY <3>1 DEF DistributorType
    <3>3. distributor' \in [Distributors -> DistributorType]
      BY <3>1, <3>2 DEF DistributorType
    <3>4. /\ distributor'[d].type = distributor[d].type
          /\ distributor'[d].policiesSold # 0
          /\ \A e \in Distributors \ {d} : distributor'[e] = distributor[e]
      BY <3>1, <3>2 DEF DistributorType
    <3>5. distributor'[d] # NoDistributor
      BY <3>4 DEF NoDistributor
    <3>6. /\ distributionBook' = Increase(distributionBook, info.commission,
                                          info.ownerFixed + info.ownerVariable)
          /\ distributorBook' = [distributorBook EXCEPT ![d] =
                                  Increase(distributorBook[d], 0, info.commission)]
          /\ distributionBook \in BookType
          /\ distributorBook[d] \in BookType
      BY <1>1, <1>6, <2>1, <3>1 DEF TypeOK
    <3>7. /\ distributionBook' \in BookType
          /\ Increase(distributorBook[d], 0, info.commission) \in BookType
      BY <1>3, <3>6, BookOperations
    <3>8. distributorBook' \in [Distributors -> BookType]
      BY <3>6, <3>7 DEF TypeOK
    <3> QED
      BY <3>1, <3>3, <3>4, <3>5, <3>7, <3>8
  <2>2. CASE ~ReferralIsValid(r)
    <3>1. /\ distributionBook' = Increase(distributionBook, 0, info.ownerFixed + info.ownerVariable)
          /\ UNCHANGED <<distributor, distributorBook>>
          /\ distributionBook \in BookType
      BY <1>1, <1>6, <2>2 DEF TypeOK
    <3>2. distributionBook' \in BookType
      BY <1>3, <3>1, BookOperations
    <3> QED
      BY <3>1, <3>2 DEF TypeOK
  <2> QED
    BY <2>1, <2>2
<1>8. ReferencesExist'
  <2>1. \A q \in Referrals : referral[q].distributor # 0 => referral[q].distributor \in Distributors
    BY DistributionAssumption DEF TypeOK, ReferralType, Distributors
  <2> QED
    BY <1>1, <1>7, <2>1 DEF TypeOK, ReferencesExist, ReferralExists
<1> QED
  BY <1>1, <1>4, <1>7, <1>8 DEF TypeOK

LEMMA WithdrawalStepType ==
  ASSUME TypeOK, WithdrawalNext
  PROVE  TypeOK'
<1>1. ASSUME NEW d \in Distributors, NEW a \in WithdrawAmounts \union {distributorBook[d].fees},
             WithdrawCommission(d, a)
      PROVE  TypeOK'
  <2>1. distributorBook[d] \in BookType /\ distributorBook[d].fees \in Nat
        /\ distributionBook \in BookType
    BY DEF TypeOK, BookType
  <2>2. a \in Nat
    BY <2>1, DistributionAssumption
  <2>3. /\ CanDecrease(distributionBook, a, 0) /\ CanDecrease(distributorBook[d], 0, a)
        /\ a <= distributionWallet
        /\ distributionBook' = Decrease(distributionBook, a, 0)
        /\ distributorBook' = [distributorBook EXCEPT ![d] = Decrease(distributorBook[d], 0, a)]
        /\ distributionWallet' = distributionWallet - a
        /\ UNCHANGED <<now, distributionFee, typeInfo, distributor, referral, sale>>
    BY <1>1 DEF WithdrawCommission
  <2>4. distributionBook' \in BookType /\ Decrease(distributorBook[d], 0, a) \in BookType
    BY <2>1, <2>2, <2>3, BookOperations
  <2>5. distributorBook' \in [Distributors -> BookType] /\ distributionWallet' \in Nat
    BY <2>2, <2>3, <2>4 DEF TypeOK
  <2> QED
    BY <2>3, <2>4, <2>5 DEF TypeOK, ReferencesExist, ReferralExists
<1>2. ASSUME NEW a \in WithdrawAmounts \union {distributionBook.fees}, WithdrawDistributionFees(a)
      PROVE  TypeOK'
  <2>1. distributionBook \in BookType /\ distributionBook.fees \in Nat
    BY DEF TypeOK, BookType
  <2>2. a \in Nat
    BY <2>1, DistributionAssumption
  <2>3. /\ CanDecrease(distributionBook, 0, a)
        /\ a <= distributionWallet
        /\ distributionBook' = Decrease(distributionBook, 0, a)
        /\ distributionWallet' = distributionWallet - a
        /\ UNCHANGED <<now, distributionFee, typeInfo, distributor, referral, sale,
                       distributorBook>>
    BY <1>2 DEF WithdrawDistributionFees
  <2>4. distributionBook' \in BookType
    BY <2>1, <2>2, <2>3, BookOperations
  <2>5. distributionWallet' \in Nat
    BY <2>2, <2>3 DEF TypeOK
  <2> QED
    BY <2>3, <2>4, <2>5 DEF TypeOK, ReferencesExist, ReferralExists
<1> QED
  BY <1>1, <1>2 DEF WithdrawalNext

LEMMA InitType == Init => TypeOK
<1> SUFFICES ASSUME Init
             PROVE  TypeOK
  OBVIOUS
<1>1. NoDistributor \in DistributorType /\ NoReferral \in ReferralType
  BY DistributionAssumption DEF NoDistributor, NoReferral, DistributorType, ReferralType
<1>2. NoPremiumInfo \in PremiumInfoType /\ EmptyBook \in BookType
  BY DEF NoPremiumInfo, PremiumInfoType, EmptyBook, BookType
<1>3. NoSale \in SaleType
  BY <1>2, DistributionAssumption DEF NoSale, SaleType
<1>4. now \in Times /\ distributionFee \in DistributionFees /\ distributionWallet \in Nat
  BY DistributionAssumption DEF Init, Times
<1>5. typeInfo \in Seq(TypeInfos) /\ Len(typeInfo) <= MaxTypes
  BY DistributionAssumption DEF Init
<1>6. ReferencesExist
  BY DEF Init, ReferencesExist, ReferralExists, NoReferral
<1> QED
  BY <1>1, <1>2, <1>3, <1>4, <1>5, <1>6 DEF Init, TypeOK

\* No fee, discount or commission the owner and the distributors choose, and
\* no order of creating, pricing, paying and withdrawing, takes a part of a
\* premium, a balance or the wallet below zero.
THEOREM DistributionTypeCorrect == Spec => []TypeOK
<1>1. TypeOK /\ [Next]_vars => TypeOK'
  <2> SUFFICES ASSUME TypeOK, [Next]_vars
               PROVE  TypeOK'
    OBVIOUS
  <2>1. CASE DistributorNext
    BY <2>1, DistributorStepType
  <2>2. CASE SaleNext
    <3>1. ASSUME NEW s \in Sales, NEW r \in Referrals \union {0}, CreateApplication(s, r)
          PROVE  TypeOK'
      <4>1. /\ sale' = [sale EXCEPT ![s] = [NoSale EXCEPT !.state = "APPLIED", !.referral = r]]
            /\ UNCHANGED <<now, distributionFee, typeInfo, distributor, referral,
                           distributionBook, distributorBook, distributionWallet>>
        BY <3>1 DEF CreateApplication
      <4>2. NoPremiumInfo \in PremiumInfoType /\ r \in 0..MaxReferralCodes
        BY DistributionAssumption DEF NoPremiumInfo, PremiumInfoType, Referrals
      <4>3. [NoSale EXCEPT !.state = "APPLIED", !.referral = r] \in SaleType
        BY <4>2 DEF NoSale, SaleType
      <4>4. sale' \in [Sales -> SaleType]
        BY <4>1, <4>3 DEF TypeOK
      <4> QED
        BY <4>1, <4>4 DEF TypeOK, ReferencesExist, ReferralExists
    <3> QED
      BY <2>2, <3>1, CreatePolicyType, CollectPremiumType DEF SaleNext
  <2>3. CASE WithdrawalNext
    BY <2>3, WithdrawalStepType
  <2>4. CASE Tick
    BY <2>4, DistributionAssumption DEF Tick, TypeOK, Times, ReferencesExist, ReferralExists
  <2>5. CASE UNCHANGED vars
    BY <2>5 DEF vars, TypeOK, ReferencesExist, ReferralExists
  <2> QED
    BY <2>1, <2>2, <2>3, <2>4, <2>5 DEF Next
<1> QED
  BY <1>1, InitType, PTL DEF Spec

----------------------------------------------------------------------------
(* The wallet.  A premium waits in the store between the transaction that  *)
(* computes it and the one that books it: the invariant has to remember    *)
(* what the premiums still to be collected will bring.                     *)

ExpectedPremiumsFit ==
  \A s \in Sales :
    sale[s].state = "EXPECTED" =>
      sale[s].info.distribution
        = sale[s].info.distributionFixed + sale[s].info.ownerVariable + sale[s].info.commission

LEMMA CreatePolicyFits ==
  ASSUME TypeOK, ExpectedPremiumsFit, NEW s \in Sales, NEW net \in NetPremiums,
         CreatePolicy(s, net)
  PROVE  ExpectedPremiumsFit'
<1> DEFINE r == sale[s].referral
           info == CalculatePremium(net, FeeInfo, Terms(r))
<1>1. /\ IsPriceable(net, FeeInfo, Terms(r))
      /\ sale' = [sale EXCEPT ![s].state = "EXPECTED", ![s].info = info]
  BY DEF CreatePolicy
<1>2. net \in Nat /\ r \in Referrals \union {0} /\ sale[s] \in SaleType
  BY DistributionAssumption, SaleReferral
<1>3. info.distribution = info.distributionFixed + info.ownerVariable + info.commission
  BY <1>1, <1>2, FeeInfoTyped, TermsTyped, PremiumType
<1> HIDE DEF info, r
<1>4. /\ sale'[s].info = info
      /\ \A q \in Sales \ {s} : sale'[q] = sale[q]
  BY <1>1, <1>2 DEF TypeOK, SaleType
<1> QED
  BY <1>3, <1>4 DEF ExpectedPremiumsFit

LEMMA ExcessMinimumTypes ==
  ASSUME TypeOK
  PROVE  /\ \A s \in Sales : ExcessMinimum(s) \in Nat
         /\ ExcessMinimums \in Nat
<1> DEFINE a == [s \in Sales |-> ExcessMinimum(s)]
<1>1. ASSUME NEW s \in Sales
      PROVE  ExcessMinimum(s) \in Nat
  <2>1. sale[s].info.ownerFixed \in Nat /\ sale[s].info.distributionFixed \in Nat
    BY SaleReferral DEF SaleType, PremiumInfoType
  <2> QED
    BY <2>1 DEF ExcessMinimum
<1>2. \A i \in 1..MaxSales : a[i] \in Nat
  BY <1>1 DEF Sales
<1> HIDE DEF a
<1>3. SumUpTo(a, MaxSales) \in Nat
  BY <1>2, SumIsNatural, DistributionAssumption
<1> QED
  BY <1>1, <1>3 DEF ExcessMinimums, a

\* The excess of all premiums changes with the only sale that changes.
LEMMA ExcessFollows ==
  ASSUME TypeOK, TypeOK', NEW s \in Sales, \A q \in Sales \ {s} : sale'[q] = sale[q]
  PROVE  ExcessMinimums' = ExcessMinimums + (ExcessMinimum(s)' - ExcessMinimum(s))
<1> DEFINE a == [q \in Sales |-> ExcessMinimum(q)]
           b == [q \in Sales |-> ExcessMinimum(q)']
<1>1. \A i \in 1..MaxSales : a[i] \in Int /\ b[i] \in Int
  <2>1. \A q \in Sales : ExcessMinimum(q) \in Nat
    BY ExcessMinimumTypes
  <2>2. ASSUME NEW q \in Sales
        PROVE  ExcessMinimum(q)' \in Nat
    <3>1. sale'[q] \in SaleType
      BY DEF TypeOK
    <3>2. sale'[q].info.ownerFixed \in Nat /\ sale'[q].info.distributionFixed \in Nat
      BY <3>1 DEF SaleType, PremiumInfoType
    <3> QED
      BY <3>2 DEF ExcessMinimum
  <2> QED
    BY <2>1, <2>2 DEF Sales
<1>2. \A i \in 1..MaxSales : i # s => b[i] = a[i]
  BY DEF Sales, ExcessMinimum
<1>3. s \in 1..MaxSales /\ MaxSales \in Nat
  BY DistributionAssumption DEF Sales
<1>4. a[s] = ExcessMinimum(s) /\ b[s] = ExcessMinimum(s)'
  OBVIOUS
<1>5. ExcessMinimums = SumUpTo(a, MaxSales) /\ ExcessMinimums' = SumUpTo(b, MaxSales)
  BY DEF ExcessMinimums, Sales
<1> HIDE DEF a, b
<1>6. SumUpTo(b, MaxSales) = SumUpTo(a, MaxSales) + (b[s] - a[s])
  BY <1>1, <1>2, <1>3, SumOfUpdated
<1> QED
  BY <1>4, <1>5, <1>6

\* Only a premium that is collected adds to the excess.
LEMMA UnpaidSaleKeepsExcess ==
  ASSUME TypeOK, TypeOK', NEW s \in Sales, \A q \in Sales \ {s} : sale'[q] = sale[q],
         sale[s].state # "PAID", sale'[s].state # "PAID"
  PROVE  ExcessMinimums' = ExcessMinimums
<1>1. ExcessMinimum(s) = 0 /\ ExcessMinimum(s)' = 0
  BY DEF ExcessMinimum
<1>2. ExcessMinimums \in Nat
  BY ExcessMinimumTypes
<1> QED
  BY <1>1, <1>2, ExcessFollows

LEMMA CollectPremiumFits ==
  ASSUME TypeOK, TypeOK', ExpectedPremiumsFit, WalletCoversBooks, NEW s \in Sales,
         CollectPremium(s)
  PROVE  ExpectedPremiumsFit' /\ WalletCoversBooks'
<1> DEFINE info == sale[s].info
           r == sale[s].referral
<1>1. /\ sale[s].state = "EXPECTED"
      /\ ProcessSale(r, info)
      /\ sale' = [sale EXCEPT ![s].state = "PAID"]
      /\ distributionWallet' = distributionWallet + info.distribution
  BY DEF CollectPremium
<1>2. /\ info.ownerFixed \in Nat /\ info.ownerVariable \in Nat /\ info.commission \in Nat
      /\ info.distribution \in Nat /\ info.distributionFixed \in Nat
  BY SaleReferral DEF SaleType, PremiumInfoType
<1>3. info.distribution = info.distributionFixed + info.ownerVariable + info.commission
  BY <1>1 DEF ExpectedPremiumsFit
<1>4. \/ distributionBook' = Increase(distributionBook, info.commission,
                                      info.ownerFixed + info.ownerVariable)
      \/ distributionBook' = Increase(distributionBook, 0, info.ownerFixed + info.ownerVariable)
  BY <1>1 DEF ProcessSale
<1>5. /\ \A q \in Sales : sale'[q].state = "EXPECTED" => sale'[q] = sale[q]
      /\ \A q \in Sales \ {s} : sale'[q] = sale[q]
      /\ sale'[s].state = "PAID" /\ sale'[s].info = info
  BY <1>1 DEF TypeOK, SaleType
<1>6. /\ ExcessMinimum(s) = 0
      /\ ExcessMinimum(s)' = IF info.ownerFixed > info.distributionFixed
                             THEN info.ownerFixed - info.distributionFixed ELSE 0
  BY <1>1, <1>5 DEF ExcessMinimum
<1> HIDE DEF info, r
<1>7. ExcessMinimums \in Nat /\ ExcessMinimums' = ExcessMinimums + (ExcessMinimum(s)' - 0)
  BY <1>5, <1>6, ExcessFollows, ExcessMinimumTypes
<1>8. distributionBook \in BookType /\ distributionBook.balance \in Nat /\ distributionWallet \in Nat
  BY DEF TypeOK, BookType
<1>9. \/ distributionBook'.balance = distributionBook.balance + info.commission
                                      + (info.ownerFixed + info.ownerVariable)
      \/ distributionBook'.balance = distributionBook.balance + 0
                                      + (info.ownerFixed + info.ownerVariable)
  BY <1>4, <1>8 DEF Increase, BookType
<1>10. distributionBook'.balance <= distributionWallet' + ExcessMinimums'
  BY <1>1, <1>2, <1>3, <1>6, <1>7, <1>8, <1>9 DEF WalletCoversBooks
<1> QED
  BY <1>5, <1>10 DEF ExpectedPremiumsFit, WalletCoversBooks

LEMMA WithdrawalFits ==
  ASSUME TypeOK, WalletCoversBooks, NEW amount \in Nat, NEW fee \in Nat,
         CanDecrease(distributionBook, amount, fee),
         distributionBook' = Decrease(distributionBook, amount, fee),
         distributionWallet' = distributionWallet - (amount + fee),
         UNCHANGED sale
  PROVE  WalletCoversBooks'
<1>1. distributionBook \in BookType /\ distributionBook.balance \in Nat /\ distributionWallet \in Nat
  BY DEF TypeOK, BookType
<1>2. distributionBook'.balance = distributionBook.balance - (amount + fee)
  BY <1>1 DEF Decrease, BookType
<1>3. ExcessMinimums \in Nat /\ ExcessMinimums' = ExcessMinimums
  BY ExcessMinimumTypes DEF ExcessMinimums, ExcessMinimum
<1> QED
  BY <1>1, <1>2, <1>3 DEF WalletCoversBooks

LEMMA NoExcessAtStart == Init => ExcessMinimums = 0
<1> SUFFICES ASSUME Init
             PROVE  ExcessMinimums = 0
  OBVIOUS
<1> DEFINE a == [s \in Sales |-> ExcessMinimum(s)]
<1>1. \A i \in 1..MaxSales : a[i] = 0
  BY DEF Init, Sales, ExcessMinimum, NoSale, NONE
<1> HIDE DEF a
<1>2. SumUpTo(a, MaxSales) = 0
  BY <1>1, SumOfZeros, DistributionAssumption
<1> QED
  BY <1>2 DEF ExcessMinimums, a

\* Nothing that the distribution's books promise is missing in its wallet but the
\* excess of minimum fees over distribution fees in the premiums that were paid,
\* whatever happens to fees, types and referral codes between pricing a policy and
\* collecting its premium.  Nothing is assumed of the fees.
THEOREM WalletSolvent == Spec => []WalletCoversBooks
<1> DEFINE Inv == ExpectedPremiumsFit /\ WalletCoversBooks
<1>1. Init => Inv
  BY NoExcessAtStart
  DEF Init, ExpectedPremiumsFit, WalletCoversBooks, NoSale, EmptyBook, NONE
<1>2. TypeOK /\ TypeOK' /\ Inv /\ [Next]_vars => Inv'
  <2> SUFFICES ASSUME TypeOK, TypeOK', Inv, [Next]_vars
               PROVE  Inv'
    OBVIOUS
  <2>1. ASSUME UNCHANGED <<sale, distributionBook, distributionWallet>>
        PROVE  Inv'
    BY <2>1 DEF ExpectedPremiumsFit, WalletCoversBooks, ExcessMinimums, ExcessMinimum
  <2>2. CASE DistributorNext
    <3>1. UNCHANGED <<sale, distributionBook, distributionWallet>>
      BY <2>2 DEF DistributorNext, SetDistributionFees, CreateDistributorType,
                  CreateDistributor, ChangeDistributorType, CreateReferral
    <3> QED
      BY <2>1, <3>1
  <2>3. CASE SaleNext
    <3>1. ASSUME NEW s \in Sales, NEW r \in Referrals \union {0}, CreateApplication(s, r)
          PROVE  Inv'
      <4>1. /\ sale[s].state = NONE
            /\ sale' = [sale EXCEPT ![s] = [NoSale EXCEPT !.state = "APPLIED", !.referral = r]]
            /\ UNCHANGED <<distributionBook, distributionWallet>>
        BY <3>1 DEF CreateApplication
      <4>2. /\ \A q \in Sales \ {s} : sale'[q] = sale[q]
            /\ sale'[s].state = "APPLIED"
        BY <4>1 DEF TypeOK, NoSale
      <4>3. ExcessMinimums' = ExcessMinimums
        BY <4>1, <4>2, UnpaidSaleKeepsExcess DEF NONE
      <4>4. ExpectedPremiumsFit'
        BY <4>2 DEF ExpectedPremiumsFit
      <4> QED
        BY <4>1, <4>3, <4>4 DEF WalletCoversBooks
    <3>2. ASSUME NEW s \in Sales, NEW net \in NetPremiums, CreatePolicy(s, net)
          PROVE  Inv'
      <4>1. /\ UNCHANGED <<distributionBook, distributionWallet>>
            /\ sale[s].state = "APPLIED"
            /\ \A q \in Sales \ {s} : sale'[q] = sale[q]
            /\ sale'[s].state = "EXPECTED"
        BY <3>2 DEF CreatePolicy, TypeOK, SaleType
      <4>2. ExcessMinimums' = ExcessMinimums
        BY <4>1, UnpaidSaleKeepsExcess
      <4> QED
        BY <3>2, <4>1, <4>2, CreatePolicyFits DEF WalletCoversBooks
    <3> QED
      BY <2>3, <3>1, <3>2, CollectPremiumFits DEF SaleNext
  <2>4. CASE WithdrawalNext
    <3>1. ASSUME NEW d \in Distributors,
                 NEW a \in WithdrawAmounts \union {distributorBook[d].fees},
                 WithdrawCommission(d, a)
          PROVE  Inv'
      <4>1. a \in Nat
        BY DistributionAssumption DEF TypeOK, BookType
      <4>2. /\ CanDecrease(distributionBook, a, 0)
            /\ distributionBook' = Decrease(distributionBook, a, 0)
            /\ distributionWallet' = distributionWallet - a
            /\ UNCHANGED sale
        BY <3>1 DEF WithdrawCommission
      <4>3. a = a + 0
        BY <4>1
      <4> QED
        BY <4>1, <4>2, <4>3, WithdrawalFits DEF ExpectedPremiumsFit
    <3>2. ASSUME NEW a \in WithdrawAmounts \union {distributionBook.fees},
                 WithdrawDistributionFees(a)
          PROVE  Inv'
      <4>1. a \in Nat
        BY DistributionAssumption DEF TypeOK, BookType
      <4>2. /\ CanDecrease(distributionBook, 0, a)
            /\ distributionBook' = Decrease(distributionBook, 0, a)
            /\ distributionWallet' = distributionWallet - a
            /\ UNCHANGED sale
        BY <3>2 DEF WithdrawDistributionFees
      <4>3. a = 0 + a
        BY <4>1
      <4> QED
        BY <4>1, <4>2, <4>3, WithdrawalFits DEF ExpectedPremiumsFit
    <3> QED
      BY <2>4, <3>1, <3>2 DEF WithdrawalNext
  <2>5. CASE Tick \/ UNCHANGED vars
    <3>1. UNCHANGED <<sale, distributionBook, distributionWallet>>
      BY <2>5 DEF Tick, vars
    <3> QED
      BY <2>1, <3>1
  <2> QED
    BY <2>2, <2>3, <2>4, <2>5 DEF Next
<1> QED
  BY <1>1, <1>2, DistributionTypeCorrect, PTL DEF Spec

\* When every fee that the owner of the distribution sets has a fixed part of at least
\* the fixed part of the minimum fee set with it, no premium has an excess.
OwnersAskNoMoreThanTheFee ==
  \A f \in DistributionFees : f.minDistributionOwner.fixed <= f.distribution.fixed

NoExcess == \A s \in Sales : sale[s].info.ownerFixed <= sale[s].info.distributionFixed

LEMMA CreatePolicyKeepsNoExcess ==
  ASSUME OwnersAskNoMoreThanTheFee, TypeOK, NoExcess, NEW s \in Sales,
         NEW net \in NetPremiums, CreatePolicy(s, net)
  PROVE  NoExcess'
<1> DEFINE r == sale[s].referral
           info == CalculatePremium(net, FeeInfo, Terms(r))
<1>1. /\ IsPriceable(net, FeeInfo, Terms(r))
      /\ sale' = [sale EXCEPT ![s].state = "EXPECTED", ![s].info = info]
  BY DEF CreatePolicy
<1>2. net \in Nat /\ r \in Referrals \union {0} /\ sale[s] \in SaleType
  BY DistributionAssumption, SaleReferral
<1>3. FeeInfo.minDistributionOwner.fixed <= FeeInfo.distribution.fixed
  BY DEF OwnersAskNoMoreThanTheFee, FeeInfo, TypeOK
<1>4. info.ownerFixed <= info.distributionFixed
  BY <1>1, <1>2, <1>3, FeeInfoTyped, TermsTyped, PremiumType
<1> HIDE DEF info, r
<1>5. /\ sale'[s].info = info
      /\ \A q \in Sales \ {s} : sale'[q] = sale[q]
  BY <1>1, <1>2 DEF TypeOK, SaleType
<1> QED
  BY <1>4, <1>5 DEF NoExcess

LEMMA NoExcessStep ==
  ASSUME OwnersAskNoMoreThanTheFee, TypeOK, NoExcess, [Next]_vars
  PROVE  NoExcess'
<1>1. CASE UNCHANGED sale
  BY <1>1 DEF NoExcess
<1>2. ASSUME NEW s \in Sales, NEW r \in Referrals \union {0}, CreateApplication(s, r)
      PROVE  NoExcess'
  <2>1. sale' = [sale EXCEPT ![s] = [NoSale EXCEPT !.state = "APPLIED", !.referral = r]]
    BY <1>2 DEF CreateApplication
  <2>2. /\ \A q \in Sales \ {s} : sale'[q] = sale[q]
        /\ sale'[s].info = NoPremiumInfo
    BY <2>1 DEF TypeOK, NoSale
  <2> QED
    BY <2>2 DEF NoExcess, NoPremiumInfo
<1>3. ASSUME NEW s \in Sales, CollectPremium(s)
      PROVE  NoExcess'
  <2>1. \A q \in Sales : sale'[q].info = sale[q].info
    BY <1>3 DEF CollectPremium, TypeOK, SaleType
  <2> QED
    BY <2>1 DEF NoExcess
<1>4. CASE SaleNext
  BY <1>2, <1>3, <1>4, CreatePolicyKeepsNoExcess DEF SaleNext
<1>5. CASE DistributorNext \/ WithdrawalNext \/ Tick \/ UNCHANGED vars
  BY <1>1, <1>5 DEF DistributorNext, SetDistributionFees, CreateDistributorType,
     CreateDistributor, ChangeDistributorType, CreateReferral, WithdrawalNext,
     WithdrawCommission, WithdrawDistributionFees, Tick, vars
<1> QED
  BY <1>4, <1>5 DEF Next

\* With such fees the wallet of the distribution holds all that its books promise to
\* owner and distributors.
THEOREM WalletHoldsAllWithFairMinimums ==
  ASSUME OwnersAskNoMoreThanTheFee
  PROVE  Spec => [](distributionBook.balance <= distributionWallet)
<1>1. Init => NoExcess
  BY DEF Init, NoExcess, NoSale, NoPremiumInfo
<1>2. TypeOK /\ NoExcess /\ [Next]_vars => NoExcess'
  BY NoExcessStep
<1>3. TypeOK /\ NoExcess /\ WalletCoversBooks => distributionBook.balance <= distributionWallet
  <2> SUFFICES ASSUME TypeOK, NoExcess, WalletCoversBooks
               PROVE  distributionBook.balance <= distributionWallet
    OBVIOUS
  <2> DEFINE a == [s \in Sales |-> ExcessMinimum(s)]
  <2>1. \A i \in 1..MaxSales : a[i] = 0
    <3>1. ASSUME NEW s \in Sales
          PROVE  ~(sale[s].info.ownerFixed > sale[s].info.distributionFixed)
      <4>1. /\ sale[s].info.ownerFixed \in Nat /\ sale[s].info.distributionFixed \in Nat
            /\ sale[s].info.ownerFixed <= sale[s].info.distributionFixed
        BY SaleReferral DEF SaleType, PremiumInfoType, NoExcess
      <4> QED
        BY <4>1
    <3> QED
      BY <3>1 DEF Sales, ExcessMinimum
  <2> HIDE DEF a
  <2>2. SumUpTo(a, MaxSales) = 0
    BY <2>1, SumOfZeros, DistributionAssumption
  <2>3. ExcessMinimums = 0
    BY <2>2 DEF ExcessMinimums, a
  <2>4. distributionWallet \in Nat
    BY DEF TypeOK
  <2> QED
    BY <2>3, <2>4 DEF WalletCoversBooks
<1> QED
  BY <1>1, <1>2, <1>3, DistributionTypeCorrect, WalletSolvent, PTL DEF Spec

----------------------------------------------------------------------------
(* The commissions.                                                        *)

\* What a distributor may withdraw is d more than before.
Credited(d, amount) ==
  /\ distributorBook'[d].balance = distributorBook[d].balance + amount
  /\ distributorBook'[d].fees = distributorBook[d].fees + amount
  /\ \A e \in Distributors : e # d => distributorBook'[e] = distributorBook[e]

DistributionBooked(amount, fee) ==
  /\ distributionBook'.balance = distributionBook.balance + amount + fee
  /\ distributionBook'.fees = distributionBook.fees + fee

LEMMA DistributorBooks ==
  ASSUME TypeOK
  PROVE  /\ distributionBook.balance \in Nat /\ distributionBook.fees \in Nat
         /\ distributionBook \in BookType
         /\ \A d \in Distributors : /\ distributorBook[d] \in BookType
                                    /\ distributorBook[d].balance \in Nat
                                    /\ distributorBook[d].fees \in Nat
  BY DEF TypeOK, BookType

LEMMA OwedFollows ==
  ASSUME TypeOK, NEW d \in Distributors, NEW amount \in Int, Credited(d, amount)
  PROVE  CommissionsOwed' = CommissionsOwed + amount /\ CommissionsOwed \in Int
<1> DEFINE x == [e \in Distributors |-> distributorBook[e].balance]
           y == [e \in Distributors |-> distributorBook'[e].balance]
<1>1. MaxDistributors \in Nat /\ Distributors = 1..MaxDistributors
  BY DistributionAssumption DEF Distributors
<1>2. \A e \in 1..MaxDistributors : x[e] \in Int
  BY <1>1, DistributorBooks
<1>3. \A e \in 1..MaxDistributors : e # d => y[e] = x[e]
  BY <1>1 DEF Credited
<1>4. y[d] = x[d] + amount
  BY DEF Credited
<1>5. CommissionsOwed = SumUpTo(x, MaxDistributors) /\ CommissionsOwed' = SumUpTo(y, MaxDistributors)
  BY DEF CommissionsOwed
<1> HIDE DEF x, y
<1>6. \A e \in 1..MaxDistributors : y[e] \in Int
  <2> SUFFICES ASSUME NEW e \in 1..MaxDistributors
               PROVE  y[e] \in Int
    OBVIOUS
  <2>1. CASE e = d
    BY <1>2, <1>4, <2>1
  <2>2. CASE e # d
    BY <1>2, <1>3, <2>2
  <2> QED
    BY <2>1, <2>2
<1>7. SumUpTo(y, MaxDistributors) = SumUpTo(x, MaxDistributors) + (y[d] - x[d])
  BY <1>1, <1>2, <1>3, <1>6, SumOfUpdated
<1>8. SumUpTo(x, MaxDistributors) \in Int /\ x[d] \in Int
  BY <1>1, <1>2, SumIsInteger
<1> QED
  BY <1>4, <1>5, <1>7, <1>8

LEMMA CommissionBooked ==
  ASSUME TypeOK, CommissionsAreCovered, NEW d \in Distributors, NEW amount \in Int, NEW fee \in Int,
         Credited(d, amount), DistributionBooked(amount, fee)
  PROVE  CommissionsAreCovered'
<1>1. CommissionsOwed' = CommissionsOwed + amount /\ CommissionsOwed \in Int
  BY OwedFollows
<1>2. distributionBook'.balance = distributionBook'.fees + CommissionsOwed'
  BY <1>1, DistributorBooks DEF CommissionsAreCovered, DistributionBooked
<1>3. ASSUME NEW e \in Distributors
      PROVE  distributorBook'[e].balance = distributorBook'[e].fees
  BY <1>3, DistributorBooks DEF CommissionsAreCovered, Credited
<1> QED
  BY <1>2, <1>3 DEF CommissionsAreCovered

LEMMA FeeBooked ==
  ASSUME TypeOK, CommissionsAreCovered, NEW fee \in Int,
         distributorBook' = distributorBook, DistributionBooked(0, fee)
  PROVE  CommissionsAreCovered'
<1>1. CommissionsOwed' = CommissionsOwed
  BY DEF CommissionsOwed
<1>2. CommissionsOwed = distributionBook.balance - distributionBook.fees
  <2> DEFINE x == [e \in Distributors |-> distributorBook[e].balance]
  <2>1. CommissionsOwed = SumUpTo(x, MaxDistributors)
    BY DEF CommissionsOwed
  <2>2. \A e \in 1..MaxDistributors : x[e] \in Int
    BY DistributorBooks DEF Distributors
  <2> HIDE DEF x
  <2>3. CommissionsOwed \in Int
    BY <2>1, <2>2, SumIsInteger, DistributionAssumption
  <2> QED
    BY <2>3, DistributorBooks DEF CommissionsAreCovered
<1>3. distributionBook'.balance = distributionBook'.fees + CommissionsOwed'
  BY <1>1, <1>2, DistributorBooks DEF DistributionBooked
<1> QED
  BY <1>3 DEF CommissionsAreCovered

LEMMA CollectPremiumKeepsCommissions ==
  ASSUME TypeOK, CommissionsAreCovered, NEW s \in Sales, CollectPremium(s)
  PROVE  CommissionsAreCovered'
<1> DEFINE info == sale[s].info
           r == sale[s].referral
           d == referral[r].distributor
           fee == info.ownerFixed + info.ownerVariable
<1>1. ProcessSale(r, info)
  BY DEF CollectPremium
<1>2. fee \in Nat /\ info.commission \in Nat
  BY SaleReferral DEF SaleType, PremiumInfoType
<1>3. ReferralIsValid(r) => d \in Distributors
  <2> SUFFICES ASSUME ReferralIsValid(r)
               PROVE  d \in Distributors
    OBVIOUS
  <2>1. r \in Referrals /\ ReferralExists(r)
    BY SaleReferral DEF ReferralIsValid
  <2>2. referral[r] \in ReferralType
    BY <2>1 DEF TypeOK
  <2> QED
    BY <2>1, <2>2, DistributionAssumption DEF ReferralExists, ReferralType, Distributors
<1>4. IF ReferralIsValid(r)
      THEN /\ distributionBook' = Increase(distributionBook, info.commission, fee)
           /\ distributorBook' = [distributorBook EXCEPT ![d] = Increase(@, 0, info.commission)]
      ELSE /\ distributionBook' = Increase(distributionBook, 0, fee)
           /\ distributorBook' = distributorBook
  BY <1>1 DEF ProcessSale
<1> HIDE DEF info, r, d, fee
<1>5. CASE ReferralIsValid(r)
  <2>1. DistributionBooked(info.commission, fee)
    BY <1>2, <1>4, <1>5, DistributorBooks DEF Increase, BookType, DistributionBooked
  <2>2. distributorBook'[d] = Increase(distributorBook[d], 0, info.commission)
        /\ \A e \in Distributors : e # d => distributorBook'[e] = distributorBook[e]
    BY <1>3, <1>4, <1>5 DEF TypeOK
  <2>3. Credited(d, info.commission)
    BY <1>2, <1>3, <1>5, <2>2, DistributorBooks DEF Increase, BookType, Credited
  <2> QED
    BY <1>2, <1>3, <1>5, <2>1, <2>3, CommissionBooked
<1>6. CASE ~ReferralIsValid(r)
  <2>1. DistributionBooked(0, fee)
    BY <1>2, <1>4, <1>6, DistributorBooks DEF Increase, BookType, DistributionBooked
  <2> QED
    BY <1>2, <1>4, <1>6, <2>1, FeeBooked
<1> QED
  BY <1>5, <1>6

LEMMA WithdrawalKeepsCommissions ==
  ASSUME TypeOK, CommissionsAreCovered, WithdrawalNext
  PROVE  CommissionsAreCovered'
<1>1. ASSUME NEW d \in Distributors, NEW a \in WithdrawAmounts \union {distributorBook[d].fees},
             WithdrawCommission(d, a)
      PROVE  CommissionsAreCovered'
  <2>1. a \in Nat
    BY DistributorBooks, DistributionAssumption
  <2>2. /\ distributionBook' = Decrease(distributionBook, a, 0)
        /\ distributorBook' = [distributorBook EXCEPT ![d] = Decrease(distributorBook[d], 0, a)]
    BY <1>1 DEF WithdrawCommission
  <2>3. PICK m \in Int : m = -a
    BY <2>1
  <2>4. DistributionBooked(m, 0)
    BY <2>1, <2>2, <2>3, DistributorBooks DEF Decrease, BookType, DistributionBooked
  <2>5. distributorBook'[d] = Decrease(distributorBook[d], 0, a)
        /\ \A e \in Distributors : e # d => distributorBook'[e] = distributorBook[e]
    BY <2>2 DEF TypeOK
  <2>6. Credited(d, m)
    BY <2>1, <2>3, <2>5, DistributorBooks DEF Decrease, BookType, Credited
  <2> QED
    BY <2>4, <2>6, CommissionBooked
<1>2. ASSUME NEW a \in WithdrawAmounts \union {distributionBook.fees}, WithdrawDistributionFees(a)
      PROVE  CommissionsAreCovered'
  <2>1. a \in Nat
    BY DistributorBooks, DistributionAssumption
  <2>2. distributionBook' = Decrease(distributionBook, 0, a) /\ distributorBook' = distributorBook
    BY <1>2 DEF WithdrawDistributionFees
  <2>3. PICK m \in Int : m = -a
    BY <2>1
  <2>4. DistributionBooked(0, m)
    BY <2>1, <2>2, <2>3, DistributorBooks DEF Decrease, BookType, DistributionBooked
  <2> QED
    BY <2>2, <2>4, FeeBooked
<1> QED
  BY <1>1, <1>2 DEF WithdrawalNext

\* The balance of the distribution is the owner's fees and what the distributors may
\* withdraw, exactly, for any number of distributors: neither side can take what is the
\* other's (processSale, withdrawCommission, withdrawFees).
THEOREM CommissionsStayCovered == Spec => []CommissionsAreCovered
<1>1. Init => CommissionsAreCovered
  <2> SUFFICES ASSUME Init
               PROVE  CommissionsAreCovered
    OBVIOUS
  <2> DEFINE x == [e \in Distributors |-> distributorBook[e].balance]
  <2>1. \A e \in 1..MaxDistributors : x[e] = 0
    BY DEF Init, EmptyBook, Distributors
  <2>2. CommissionsOwed = SumUpTo(x, MaxDistributors)
    BY DEF CommissionsOwed
  <2> HIDE DEF x
  <2>3. CommissionsOwed = 0
    BY <2>1, <2>2, SumOfZeros, DistributionAssumption
  <2> QED
    BY <2>3 DEF CommissionsAreCovered, Init, EmptyBook
<1>2. TypeOK /\ CommissionsAreCovered /\ [Next]_vars => CommissionsAreCovered'
  <2> SUFFICES ASSUME TypeOK, CommissionsAreCovered, [Next]_vars
               PROVE  CommissionsAreCovered'
    OBVIOUS
  <2>1. ASSUME UNCHANGED <<distributionBook, distributorBook>>
        PROVE  CommissionsAreCovered'
    BY <2>1 DEF CommissionsAreCovered, CommissionsOwed
  <2>2. CASE DistributorNext
    BY <2>1, <2>2 DEF DistributorNext, SetDistributionFees, CreateDistributorType,
       CreateDistributor, ChangeDistributorType, CreateReferral
  <2>3. CASE SaleNext
    <3>1. CASE \E s \in Sales : CollectPremium(s)
      BY <3>1, CollectPremiumKeepsCommissions
    <3>2. CASE ~ \E s \in Sales : CollectPremium(s)
      <4>1. \/ \E s \in Sales, r \in Referrals \union {0} : CreateApplication(s, r)
            \/ \E s \in Sales, net \in NetPremiums : CreatePolicy(s, net)
        BY <2>3, <3>2, Zenon DEF SaleNext
      <4>2. \A s, r : CreateApplication(s, r) => UNCHANGED <<distributionBook, distributorBook>>
        BY DEF CreateApplication
      <4>3. \A s, net : CreatePolicy(s, net) => UNCHANGED <<distributionBook, distributorBook>>
        BY DEF CreatePolicy
      <4> QED
        BY <2>1, <4>1, <4>2, <4>3
    <3> QED
      BY <3>1, <3>2
  <2>4. CASE WithdrawalNext
    BY <2>4, WithdrawalKeepsCommissions
  <2>5. CASE Tick \/ UNCHANGED vars
    BY <2>1, <2>5 DEF Tick, vars
  <2> QED
    BY <2>2, <2>3, <2>4, <2>5 DEF Next
<1> QED
  BY <1>1, <1>2, DistributionTypeCorrect, PTL DEF Spec


----------------------------------------------------------------------------
(* The uses of referral codes.  A discount is seen in the premium only if  *)
(* it does not round to nothing: the code counts the use, the premium does *)
(* not show it.  So the sales with a discount are at most as many as the   *)
(* uses, and exactly as many when every discount amounts to something.     *)

FeesWith(fees) ==
  [product |-> ComponentFees.product, pool |-> ComponentFees.pool,
   bundle |-> ComponentFees.bundle, distribution |-> fees.distribution,
   minDistributionOwner |-> fees.minDistributionOwner]

EveryDiscountShows ==
  \A net \in NetPremiums, fees \in DistributionFees, d \in DiscountPercentages :
    Share(FullPremium(net, FeesWith(fees)), d) > 0

\* Sales get their discount when the policy is created.
UnpricedHaveNoDiscount ==
  \A s \in Sales : sale[s].state \in {NONE, "APPLIED"} => sale[s].info.discount = 0

ReferralIsSound(r) ==
  /\ ReferralExists(r) => referral[r].discount \in DiscountPercentages
  /\ ~ReferralExists(r) => referral[r].used = 0
  /\ referral[r].used <= referral[r].maxReferrals

UsesAreCounted(r) ==
  /\ Cardinality(DiscountedSales(r)) <= referral[r].used
  /\ EveryDiscountShows => Cardinality(DiscountedSales(r)) = referral[r].used

ReferralsAreSound ==
  /\ UnpricedHaveNoDiscount
  /\ \A r \in Referrals : ReferralIsSound(r) /\ UsesAreCounted(r)

LEMMA DiscountedSalesAreFinite ==
  ASSUME NEW r
  PROVE  IsFiniteSet(DiscountedSales(r)) /\ Cardinality(DiscountedSales(r)) \in Nat
<1>1. IsFiniteSet(Sales)
  BY FS_Interval, DistributionAssumption DEF Sales
<1>2. DiscountedSales(r) \in SUBSET Sales
  BY DEF DiscountedSales
<1>3. IsFiniteSet(DiscountedSales(r))
  BY <1>1, <1>2, FS_Subset
<1> QED
  BY <1>3, FS_CardinalityType

LEMMA SameReferralsStaySound ==
  ASSUME ReferralsAreSound, UNCHANGED referral,
         \A s \in Sales : /\ sale'[s].referral = sale[s].referral
                          /\ sale'[s].info = sale[s].info
                          /\ sale'[s].state \in {NONE, "APPLIED"} => sale'[s].state = sale[s].state
  PROVE  ReferralsAreSound'
<1>1. \A r \in Referrals : DiscountedSales(r)' = DiscountedSales(r)
  BY DEF DiscountedSales
<1>2. UnpricedHaveNoDiscount'
  BY DEF ReferralsAreSound, UnpricedHaveNoDiscount
<1>3. ASSUME NEW r \in Referrals
      PROVE  ReferralIsSound(r)' /\ UsesAreCounted(r)'
  <2>1. ReferralIsSound(r) /\ UsesAreCounted(r)
    BY DEF ReferralsAreSound
  <2>2. DiscountedSales(r)' = DiscountedSales(r)
    BY <1>1
  <2> QED
    BY <2>1, <2>2 DEF ReferralIsSound, UsesAreCounted, ReferralExists
<1> QED
  BY <1>2, <1>3 DEF ReferralsAreSound

LEMMA CreateReferralKeepsSound ==
  ASSUME TypeOK, ReferralsAreSound, NEW r \in Referrals, NEW d \in Distributors,
         NEW discount \in DiscountPercentages, NEW m \in ReferralLimits, NEW t \in Times,
         CreateReferral(r, d, discount, m, t)
  PROVE  ReferralsAreSound'
<1>1. /\ ~ReferralExists(r) /\ UNCHANGED sale /\ m \in Nat
      /\ referral' = [referral EXCEPT ![r] =
           [distributor |-> d, discount |-> discount, maxReferrals |-> m,
            used |-> 0, expiryAt |-> t]]
  BY DistributionAssumption DEF CreateReferral
<1>2. /\ referral'[r] = [distributor |-> d, discount |-> discount, maxReferrals |-> m,
                         used |-> 0, expiryAt |-> t]
      /\ \A q \in Referrals : q # r => referral'[q] = referral[q]
  BY <1>1 DEF TypeOK
<1>3. referral'[r].distributor # 0 /\ referral'[r].discount = discount
      /\ referral'[r].used = 0 /\ referral'[r].maxReferrals = m
  BY <1>2 DEF Distributors
<1>4. \A q \in Referrals : DiscountedSales(q)' = DiscountedSales(q)
  BY <1>1 DEF DiscountedSales
<1>5. ASSUME NEW q \in Referrals
      PROVE  ReferralIsSound(q)' /\ UsesAreCounted(q)'
  <2>1. ReferralIsSound(q) /\ UsesAreCounted(q) /\ DiscountedSales(q)' = DiscountedSales(q)
    BY <1>4 DEF ReferralsAreSound
  <2>2. CASE q = r
    <3>1. referral[r].used = 0
      BY <1>1, <2>1, <2>2 DEF ReferralIsSound
    <3>2. UsesAreCounted(r)'
      BY <1>3, <2>1, <2>2, <3>1 DEF UsesAreCounted
    <3> QED
      BY <1>1, <1>3, <2>2, <3>2 DEF ReferralIsSound, ReferralExists
  <2>3. CASE q # r
    BY <1>2, <2>1, <2>3 DEF ReferralIsSound, UsesAreCounted, ReferralExists
  <2> QED
    BY <2>2, <2>3
<1>6. UnpricedHaveNoDiscount'
  BY <1>1 DEF ReferralsAreSound, UnpricedHaveNoDiscount
<1> QED
  BY <1>5, <1>6 DEF ReferralsAreSound

LEMMA CreateApplicationKeepsSound ==
  ASSUME TypeOK, ReferralsAreSound, NEW s \in Sales, NEW r \in Referrals \union {0},
         CreateApplication(s, r)
  PROVE  ReferralsAreSound'
<1>1. /\ sale[s].state = NONE /\ UNCHANGED referral
      /\ sale' = [sale EXCEPT ![s] = [NoSale EXCEPT !.state = "APPLIED", !.referral = r]]
  BY DEF CreateApplication
<1>2. \A q \in Sales : q # s => sale'[q] = sale[q]
  BY <1>1 DEF TypeOK
<1>3. sale'[s].info.discount = 0 /\ sale[s].info.discount = 0
  BY <1>1 DEF TypeOK, NoSale, NoPremiumInfo, ReferralsAreSound, UnpricedHaveNoDiscount
<1>4. \A q \in Referrals : DiscountedSales(q)' = DiscountedSales(q)
  <2> SUFFICES ASSUME NEW q \in Referrals
               PROVE  DiscountedSales(q)' = DiscountedSales(q)
    OBVIOUS
  <2>1. \A i \in Sales : i \in DiscountedSales(q)' <=> i \in DiscountedSales(q)
    <3> SUFFICES ASSUME NEW i \in Sales
                 PROVE  i \in DiscountedSales(q)' <=> i \in DiscountedSales(q)
      OBVIOUS
    <3>1. CASE i = s
      BY <1>3, <3>1 DEF DiscountedSales
    <3>2. CASE i # s
      BY <1>2, <3>2 DEF DiscountedSales
    <3> QED
      BY <3>1, <3>2
  <2> QED
    BY <2>1 DEF DiscountedSales
<1>5. ASSUME NEW q \in Referrals
      PROVE  ReferralIsSound(q)' /\ UsesAreCounted(q)'
  BY <1>1, <1>4 DEF ReferralsAreSound, ReferralIsSound, UsesAreCounted, ReferralExists
<1>6. UnpricedHaveNoDiscount'
  BY <1>2, <1>3 DEF ReferralsAreSound, UnpricedHaveNoDiscount
<1> QED
  BY <1>5, <1>6 DEF ReferralsAreSound

\* Without a valid referral there is no discount, and with one there is if it shows.
LEMMA DiscountOfTerms ==
  ASSUME TypeOK, ReferralsAreSound, NEW net \in NetPremiums, NEW r \in Referrals \union {0}
  PROVE  LET discount == CalculatePremium(net, FeeInfo, Terms(r)).discount
         IN  /\ discount \in Nat
             /\ ~ReferralIsValid(r) => discount = 0
             /\ ReferralIsValid(r) /\ EveryDiscountShows => discount > 0
<1>1. net \in Nat /\ FullPremium(net, FeeInfo) \in Nat
  BY FeeInfoTyped, FullPremiumType, DistributionAssumption
<1>2. CalculatePremium(net, FeeInfo, Terms(r)).discount = Discount(net, FeeInfo, Terms(r))
  BY DEF CalculatePremium
<1>3. Discount(net, FeeInfo, Terms(r)) \in Nat
  BY <1>1, FeeInfoTyped, TermsTyped, DeductionTypes
<1>4. ASSUME ~ReferralIsValid(r)
      PROVE  Discount(net, FeeInfo, Terms(r)) = 0
  <2>1. Discount(net, FeeInfo, Terms(r)) = Share(FullPremium(net, FeeInfo), 0)
    BY <1>4 DEF Discount, Terms, NoTerms
  <2>2. FullPremium(net, FeeInfo) * 0 = 0
    BY <1>1
  <2> QED
    BY <2>1, <2>2 DEF Share, RoundHalfUp, Unit
<1>5. ASSUME ReferralIsValid(r), EveryDiscountShows
      PROVE  Discount(net, FeeInfo, Terms(r)) > 0
  <2>1. r \in Referrals /\ ReferralExists(r)
    BY <1>5 DEF ReferralIsValid
  <2>2. referral[r].discount \in DiscountPercentages
    BY <2>1 DEF ReferralsAreSound, ReferralIsSound
  <2>3. FeeInfo = FeesWith(distributionFee) /\ distributionFee \in DistributionFees
    BY DEF FeeInfo, FeesWith, TypeOK
  <2>4. Terms(r).discount = referral[r].discount
    BY <1>5 DEF Terms
  <2> QED
    BY <1>5, <2>2, <2>3, <2>4 DEF EveryDiscountShows, Discount
<1> QED
  BY <1>2, <1>3, <1>4, <1>5

LEMMA CreatePolicyKeepsSound ==
  ASSUME TypeOK, ReferralsAreSound, NEW s \in Sales, NEW net \in NetPremiums, CreatePolicy(s, net)
  PROVE  ReferralsAreSound'
<1> DEFINE r == sale[s].referral
           info == CalculatePremium(net, FeeInfo, Terms(r))
           discount == info.discount
<1>1. /\ sale[s].state = "APPLIED" /\ r \in Referrals \union {0}
      /\ sale' = [sale EXCEPT ![s].state = "EXPECTED", ![s].info = info]
      /\ referral' = ReferralsProcessed(r)
  BY SaleReferral DEF CreatePolicy
<1>2. /\ discount \in Nat
      /\ ~ReferralIsValid(r) => discount = 0
      /\ ReferralIsValid(r) /\ EveryDiscountShows => discount > 0
  BY <1>1, DiscountOfTerms
<1>3. sale[s].info.discount = 0
  BY <1>1 DEF ReferralsAreSound, UnpricedHaveNoDiscount
<1>4. /\ sale'[s].info = info /\ sale'[s].state = "EXPECTED" /\ sale'[s].referral = r
      /\ \A q \in Sales : q # s => sale'[q] = sale[q]
  BY <1>1 DEF TypeOK, SaleType
<1> HIDE DEF info, r
<1>5. ASSUME NEW q \in Referrals
      PROVE  DiscountedSales(q)' = IF q = r /\ discount > 0 THEN DiscountedSales(q) \union {s}
                                                           ELSE DiscountedSales(q)
  <2>1. \A i \in Sales : i \in DiscountedSales(q)' <=>
                           \/ i \in DiscountedSales(q)
                           \/ i = s /\ q = r /\ discount > 0
    <3> SUFFICES ASSUME NEW i \in Sales
                 PROVE  i \in DiscountedSales(q)' <=>
                          \/ i \in DiscountedSales(q)
                          \/ i = s /\ q = r /\ discount > 0
      OBVIOUS
    <3>1. CASE i = s
      BY <1>3, <1>4, <3>1 DEF DiscountedSales
    <3>2. CASE i # s
      BY <1>4, <3>2 DEF DiscountedSales
    <3> QED
      BY <3>1, <3>2
  <2>2. DiscountedSales(q)' \subseteq Sales /\ DiscountedSales(q) \subseteq Sales
    BY DEF DiscountedSales
  <2> QED
    BY <2>1, <2>2
<1>6. UnpricedHaveNoDiscount'
  BY <1>4 DEF ReferralsAreSound, UnpricedHaveNoDiscount, NONE
<1>7. s \notin DiscountedSales(r)
  BY <1>3 DEF DiscountedSales
<1> HIDE DEF discount
<1>8. ASSUME NEW q \in Referrals
      PROVE  ReferralIsSound(q)' /\ UsesAreCounted(q)'
  <2>1. /\ ReferralIsSound(q) /\ UsesAreCounted(q)
        /\ IsFiniteSet(DiscountedSales(q)) /\ Cardinality(DiscountedSales(q)) \in Nat
        /\ referral[q] \in ReferralType
    BY DiscountedSalesAreFinite DEF ReferralsAreSound, TypeOK
  <2>2. CASE q = r /\ ReferralIsValid(r)
    <3>1. referral' = [referral EXCEPT ![q].used = referral[q].used + 1]
      BY <1>1, <2>2 DEF ReferralsProcessed
    <3>2. /\ referral'[q].used = referral[q].used + 1
          /\ referral'[q].maxReferrals = referral[q].maxReferrals
          /\ referral'[q].distributor = referral[q].distributor
          /\ referral'[q].discount = referral[q].discount
      BY <3>1, <2>1 DEF TypeOK, ReferralType
    <3>3. ReferralExists(q) /\ referral[q].used < referral[q].maxReferrals
      BY <2>2 DEF ReferralIsValid
    <3>4. ReferralIsSound(q)'
      BY <2>1, <3>2, <3>3 DEF ReferralIsSound, ReferralExists, ReferralType
    <3>5. Cardinality(DiscountedSales(q) \union {s}) = Cardinality(DiscountedSales(q)) + 1
      BY <1>7, <2>1, <2>2, FS_AddElement
    <3>6. Cardinality(DiscountedSales(q)') =
            IF discount > 0 THEN Cardinality(DiscountedSales(q)) + 1
                            ELSE Cardinality(DiscountedSales(q))
      BY <1>5, <2>2, <3>5
    <3>7. UsesAreCounted(q)'
      <4>1. referral[q].used \in Nat
        BY <2>1 DEF ReferralType
      <4> QED
        BY <1>2, <2>1, <2>2, <3>2, <3>6, <4>1 DEF UsesAreCounted
    <3> QED
      BY <3>4, <3>7
  <2>3. CASE ~(q = r /\ ReferralIsValid(r))
    <3>1. referral'[q] = referral[q]
      BY <1>1, <2>3 DEF ReferralsProcessed, TypeOK
    <3>2. DiscountedSales(q)' = DiscountedSales(q)
      BY <1>2, <1>5, <2>3
    <3> QED
      BY <2>1, <3>1, <3>2 DEF ReferralIsSound, UsesAreCounted, ReferralExists
  <2> QED
    BY <2>2, <2>3
<1> QED
  BY <1>6, <1>8 DEF ReferralsAreSound

LEMMA StepKeepsReferralsSound ==
  ASSUME TypeOK, ReferralsAreSound, [Next]_vars
  PROVE  ReferralsAreSound'
<1>1. ASSUME UNCHANGED <<referral, sale>>
      PROVE  ReferralsAreSound'
  BY <1>1, SameReferralsStaySound
<1>2. CASE DistributorNext
  <2>1. \/ UNCHANGED <<referral, sale>>
        \/ \E r \in Referrals, d \in Distributors, discount \in DiscountPercentages,
              m \in ReferralLimits, t \in Times : CreateReferral(r, d, discount, m, t)
    <3>1. \A f : SetDistributionFees(f) => UNCHANGED <<referral, sale>>
      BY DEF SetDistributionFees
    <3>2. \A i : CreateDistributorType(i) => UNCHANGED <<referral, sale>>
      BY DEF CreateDistributorType
    <3>3. \A d, t : CreateDistributor(d, t) \/ ChangeDistributorType(d, t)
                      => UNCHANGED <<referral, sale>>
      BY DEF CreateDistributor, ChangeDistributorType
    <3> QED
      BY <1>2, <3>1, <3>2, <3>3, Zenon DEF DistributorNext
  <2> QED
    BY <1>1, <2>1, CreateReferralKeepsSound
<1>3. ASSUME NEW s \in Sales, CollectPremium(s)
      PROVE  ReferralsAreSound'
  <2>1. sale' = [sale EXCEPT ![s].state = "PAID"] /\ UNCHANGED referral
    BY <1>3 DEF CollectPremium
  <2>2. \A q \in Sales : /\ sale'[q].referral = sale[q].referral
                         /\ sale'[q].info = sale[q].info
                         /\ sale'[q].state \in {NONE, "APPLIED"} => sale'[q].state = sale[q].state
    BY <2>1 DEF TypeOK, SaleType, NONE
  <2> QED
    BY <2>1, <2>2, SameReferralsStaySound
<1>4. CASE SaleNext
  BY <1>3, <1>4, CreateApplicationKeepsSound, CreatePolicyKeepsSound DEF SaleNext
<1>5. CASE WithdrawalNext
  <2>1. \A d, a : WithdrawCommission(d, a) => UNCHANGED <<referral, sale>>
    BY DEF WithdrawCommission
  <2>2. \A a : WithdrawDistributionFees(a) => UNCHANGED <<referral, sale>>
    BY DEF WithdrawDistributionFees
  <2>3. UNCHANGED <<referral, sale>>
    BY <1>5, <2>1, <2>2, Zenon DEF WithdrawalNext
  <2> QED
    BY <1>1, <2>3
<1>6. CASE Tick \/ UNCHANGED vars
  BY <1>1, <1>6 DEF Tick, vars
<1> QED
  BY <1>2, <1>4, <1>5, <1>6 DEF Next

LEMMA NoReferralsAtStart ==
  ASSUME Init
  PROVE  ReferralsAreSound
<1>1. /\ sale = [s \in Sales |-> NoSale] /\ referral = [r \in Referrals |-> NoReferral]
  BY DEF Init
<1>2. UnpricedHaveNoDiscount
  BY <1>1 DEF UnpricedHaveNoDiscount, NoSale, NoPremiumInfo
<1>3. ASSUME NEW r \in Referrals
      PROVE  ReferralIsSound(r) /\ UsesAreCounted(r)
  <2>1. DiscountedSales(r) = {}
    BY <1>1 DEF DiscountedSales, NoSale, NoPremiumInfo
  <2>2. Cardinality(DiscountedSales(r)) = 0
    BY <2>1, FS_EmptySet
  <2>3. referral[r].used = 0 /\ referral[r].maxReferrals = 0 /\ referral[r].distributor = 0
    BY <1>1 DEF NoReferral
  <2> QED
    BY <2>2, <2>3 DEF ReferralIsSound, UsesAreCounted, ReferralExists
<1> QED
  BY <1>2, <1>3 DEF ReferralsAreSound

\* Whatever discounts round to: a code gives at most as many as uses were counted, and
\* is never used more often than it was created for.
THEOREM UsesStayWithinLimit == Spec => []ReferralsAreSound
<1>1. Init => ReferralsAreSound
  BY NoReferralsAtStart
<1>2. TypeOK /\ ReferralsAreSound /\ [Next]_vars => ReferralsAreSound'
  BY StepKeepsReferralsSound
<1> QED
  BY <1>1, <1>2, DistributionTypeCorrect, PTL DEF Spec

\* When every discount amounts to something, the sales with a discount are exactly the
\* uses that processReferral counted, for any number of codes and sales, however many
\* applications were made with the last use.
THEOREM DiscountsStayCounted ==
  ASSUME EveryDiscountShows
  PROVE  Spec => []DiscountsAreCounted
<1>1. ReferralsAreSound => DiscountsAreCounted
  BY DEF ReferralsAreSound, ReferralIsSound, UsesAreCounted, DiscountsAreCounted
<1> QED
  BY <1>1, UsesStayWithinLimit, PTL
=============================================================================
