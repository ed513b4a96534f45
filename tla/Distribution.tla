---------------------------- MODULE Distribution ----------------------------
(***************************************************************************)
(* The distribution component of a product: distributor types,             *)
(* distributors, referral codes, the commissions of distributors and the   *)
(* fees of the distribution owner (DistributionService, the distribution   *)
(* part of ComponentService and AccountingService), together with the      *)
(* steps of a policy sale that call it (ApplicationService, PolicyService, *)
(* PricingService).  Collateral, cover and claims of the policies sold are *)
(* the subject of module PolicyFlow and are left out here.                 *)
(*                                                                         *)
(* A sale is priced when the policy is created and settled when its        *)
(* premium is collected: two transactions, between which referrals are     *)
(* used up or expire, distributors change type and fees change.            *)
(***************************************************************************)
EXTENDS Pricing, ObjectLifecycle, Sums, Sequences, FiniteSets

CONSTANTS
  MaxTypes,             \* distributor types ever created
  MaxDistributors,      \* distributor NFTs ever minted
  MaxReferralCodes,     \* referral codes ever created
  MaxSales,             \* policy NFTs ever minted
  MaxTime,              \* last block time
  ComponentFees,        \* the fees of product, pool and bundle
  DistributionFees,     \* arguments of setDistributionFees
  TypeInfos,            \* arguments of createDistributorType
  DiscountPercentages,  \* arguments of createReferral
  ReferralLimits,       \* maxReferrals arguments of createReferral
  NetPremiums,          \* results of the product's calculateNetPremium
  WithdrawAmounts       \* amounts withdrawn, besides all there is

DistributionFeeType == [distribution : Fees, minDistributionOwner : Fees]

ASSUME DistributionAssumption ==
  /\ MaxTypes \in Nat
  /\ MaxDistributors \in Nat
  /\ MaxReferralCodes \in Nat
  /\ MaxSales \in Nat
  /\ MaxTime \in Nat \ {0}
  /\ ComponentFees \in [product : Fees, pool : Fees, bundle : Fees]
  /\ DistributionFees # {}
  /\ DistributionFees \subseteq DistributionFeeType
  /\ TypeInfos \subseteq [minDiscount : Nat, maxDiscount : Nat, commission : Nat,
                          maxReferralCount : Nat, maxReferralLifetime : Nat]
  /\ DiscountPercentages \subseteq Nat
  /\ ReferralLimits \subseteq Nat
  /\ NetPremiums \subseteq Nat
  /\ WithdrawAmounts \subseteq Nat

VARIABLES
  now,                \* block.timestamp
  distributionFee,    \* the distribution's part of FeeInfo
  typeInfo,           \* the DistributorTypeInfos created so far
  distributor,        \* DistributorInfo of every distributor NFT
  referral,           \* ReferralInfo of every referral code
  sale,               \* what a sale needs of policy, premium and their states
  distributionBook,   \* BalanceStore entry of the distribution
  distributorBook,    \* BalanceStore entries of the distributors
  distributionWallet  \* tokens held by the distribution's wallet

vars == <<now, distributionFee, typeInfo, distributor, referral, sale,
          distributionBook, distributorBook, distributionWallet>>

Types        == 1..MaxTypes
Distributors == 1..MaxDistributors
Referrals    == 1..MaxReferralCodes
Sales        == 1..MaxSales
Times        == 1..MaxTime

\* Zero is the id of "no distributor", "no referral" and "no type".
NoDistributor == [type |-> 0, policiesSold |-> 0]

NoReferral ==
  [distributor |-> 0, discount |-> 0, maxReferrals |-> 0, used |-> 0, expiryAt |-> 0]

NoSale == [state |-> NONE, referral |-> 0, info |-> NoPremiumInfo]

Init ==
  /\ now = 1
  /\ distributionFee \in DistributionFees
  /\ typeInfo = <<>>
  /\ distributor = [d \in Distributors |-> NoDistributor]
  /\ referral = [r \in Referrals |-> NoReferral]
  /\ sale = [s \in Sales |-> NoSale]
  /\ distributionBook = EmptyBook
  /\ distributorBook = [d \in Distributors |-> EmptyBook]
  /\ distributionWallet = 0

FeeInfo ==
  [product |-> ComponentFees.product, pool |-> ComponentFees.pool,
   bundle |-> ComponentFees.bundle, distribution |-> distributionFee.distribution,
   minDistributionOwner |-> distributionFee.minDistributionOwner]

ReferralExists(r) == referral[r].distributor # 0

----------------------------------------------------------------------------
(* Distribution owner and distributors                                     *)

\* The types and referrals that exist are not consulted.
SetDistributionFees(fees) ==
  /\ distributionFee' = fees
  /\ UNCHANGED <<now, typeInfo, distributor, referral, sale, distributionBook,
                 distributorBook, distributionWallet>>

\* What the distribution fee leaves for discounts, in percent of the net premium.
FitsDistributionFee(info) ==
  distributionFee.minDistributionOwner.fractional + info.commission + info.maxDiscount
    <= distributionFee.distribution.fractional

CreateDistributorType(info) ==
  /\ Len(typeInfo) < MaxTypes
  /\ FitsDistributionFee(info)
  /\ typeInfo' = Append(typeInfo, info)
  /\ UNCHANGED <<now, distributionFee, distributor, referral, sale, distributionBook,
                 distributorBook, distributionWallet>>

CreateDistributor(d, t) ==
  /\ distributor[d] = NoDistributor
  /\ \A e \in 1..(d - 1) : distributor[e] # NoDistributor
  /\ t \in DOMAIN typeInfo
  /\ distributor' = [distributor EXCEPT ![d].type = t]
  /\ UNCHANGED <<now, distributionFee, typeInfo, referral, sale, distributionBook,
                 distributorBook, distributionWallet>>

ChangeDistributorType(d, t) ==
  /\ distributor[d] # NoDistributor
  /\ t \in DOMAIN typeInfo
  /\ distributor' = [distributor EXCEPT ![d].type = t]
  /\ UNCHANGED <<now, distributionFee, typeInfo, referral, sale, distributionBook,
                 distributorBook, distributionWallet>>

\* The limits of the distributor's type bind a referral when it is created only.
WithinType(info, discount, maxReferrals, expiryAt) ==
  /\ maxReferrals <= info.maxReferralCount
  /\ info.minDiscount <= discount
  /\ discount <= info.maxDiscount
  /\ expiryAt - now <= info.maxReferralLifetime

CreateReferral(r, d, discount, maxReferrals, expiryAt) ==
  /\ ~ReferralExists(r)
  /\ \A q \in 1..(r - 1) : ReferralExists(q)
  /\ distributor[d] # NoDistributor
  /\ expiryAt >= now
  /\ WithinType(typeInfo[distributor[d].type], discount, maxReferrals, expiryAt)
  /\ referral' = [referral EXCEPT ![r] =
       [distributor |-> d, discount |-> discount, maxReferrals |-> maxReferrals,
        used |-> 0, expiryAt |-> expiryAt]]
  /\ UNCHANGED <<now, distributionFee, typeInfo, distributor, sale, distributionBook,
                 distributorBook, distributionWallet>>

\* Mutant: one use too many.
ReferralIsValidM(r) ==
  /\ r # 0
  /\ ReferralExists(r)
  /\ now <= referral[r].expiryAt
  /\ referral[r].used <= referral[r].maxReferrals

ReferralIsValid(r) ==
  /\ r # 0
  /\ ReferralExists(r)
  /\ referral[r].expiryAt = 0 \/ now <= referral[r].expiryAt
  /\ referral[r].used < referral[r].maxReferrals

----------------------------------------------------------------------------
(* The sale of a policy                                                    *)

\* An application names no referral or one that is valid at that moment.
CreateApplication(s, r) ==
  /\ sale[s].state = NONE
  /\ \A q \in 1..(s - 1) : sale[q].state # NONE
  /\ r = 0 \/ ReferralIsValid(r)
  /\ sale' = [sale EXCEPT ![s] = [NoSale EXCEPT !.state = "APPLIED", !.referral = r]]
  /\ UNCHANGED <<now, distributionFee, typeInfo, distributor, referral,
                 distributionBook, distributorBook, distributionWallet>>

\* The commission is that of the type the distributor has by now.
Terms(r) ==
  IF ReferralIsValid(r)
  THEN [valid |-> TRUE, discount |-> referral[r].discount,
        commission |-> typeInfo[distributor[referral[r].distributor].type].commission]
  ELSE NoTerms

\* DistributionService.processReferral
ReferralsProcessed(r) ==
  IF ReferralIsValid(r) THEN [referral EXCEPT ![r].used = @ + 1] ELSE referral

\* PolicyService.createPolicy: fixes the premium and uses the referral.  The
\* limit maxPremiumAmount is an argument the product may set as high as it likes.
CreatePolicy(s, net) ==
  /\ sale[s].state = "APPLIED"
  /\ IsPriceable(net, FeeInfo, Terms(sale[s].referral))
  /\ sale' = [sale EXCEPT ![s].state = "EXPECTED",
                          ![s].info = CalculatePremium(net, FeeInfo, Terms(sale[s].referral))]
  /\ referral' = ReferralsProcessed(sale[s].referral)
  /\ UNCHANGED <<now, distributionFee, typeInfo, distributor, distributionBook,
                 distributorBook, distributionWallet>>

\* Mutant: the owner is booked the minimum fee as it is now, not as it was priced.
ProcessSaleM(r, info) ==
  LET d        == referral[r].distributor
      ownerFee == distributionFee.minDistributionOwner.fixed + info.ownerVariable
  IN  IF ReferralIsValid(r)
      THEN /\ distributionBook' = Increase(distributionBook, info.commission, ownerFee)
           /\ distributorBook' = [distributorBook EXCEPT ![d] = Increase(@, 0, info.commission)]
           /\ distributor' = [distributor EXCEPT ![d].policiesSold = @ + 1]
      ELSE /\ distributionBook' = Increase(distributionBook, 0, info.ownerFixed + info.ownerVariable)
           /\ UNCHANGED <<distributor, distributorBook>>

\* DistributionService.processSale: the commission is credited when the
\* referral is valid at this moment, whatever it was when the policy was priced.
ProcessSale(r, info) ==
  LET d        == referral[r].distributor
      ownerFee == info.ownerFixed + info.ownerVariable
  IN  IF ReferralIsValid(r)
      THEN /\ distributionBook' = Increase(distributionBook, info.commission, ownerFee)
           /\ distributorBook' = [distributorBook EXCEPT ![d] = Increase(@, 0, info.commission)]
           /\ distributor' = [distributor EXCEPT ![d].policiesSold = @ + 1]
      ELSE /\ distributionBook' = Increase(distributionBook, 0, ownerFee)
           /\ UNCHANGED <<distributor, distributorBook>>

\* PolicyService.collectPremium
CollectPremium(s) ==
  LET info == sale[s].info
  IN  /\ sale[s].state = "EXPECTED"
      /\ info.premium > 0
      /\ ProcessSale(sale[s].referral, info)
      /\ sale' = [sale EXCEPT ![s].state = "PAID"]
      /\ distributionWallet' = distributionWallet + info.distribution
      /\ UNCHANGED <<now, distributionFee, typeInfo, referral>>

----------------------------------------------------------------------------
(* Withdrawals.  AMOUNT_MAX asks for all there is; a transfer of nothing   *)
(* reverts.                                                                *)

\* Mutant: the distribution's balance is not decreased.
WithdrawCommissionM(d, amount) ==
  /\ distributor[d] # NoDistributor
  /\ amount > 0
  /\ amount <= distributorBook[d].fees
  /\ CanDecrease(distributorBook[d], 0, amount)
  /\ amount <= distributionWallet
  /\ distributorBook' = [distributorBook EXCEPT ![d] = Decrease(@, 0, amount)]
  /\ distributionWallet' = distributionWallet - amount
  /\ UNCHANGED <<now, distributionFee, typeInfo, distributor, referral, sale, distributionBook>>

WithdrawCommission(d, amount) ==
  /\ distributor[d] # NoDistributor
  /\ amount > 0
  /\ amount <= distributorBook[d].fees
  /\ CanDecrease(distributionBook, amount, 0)
  /\ CanDecrease(distributorBook[d], 0, amount)
  /\ amount <= distributionWallet
  /\ distributionBook' = Decrease(distributionBook, amount, 0)
  /\ distributorBook' = [distributorBook EXCEPT ![d] = Decrease(@, 0, amount)]
  /\ distributionWallet' = distributionWallet - amount
  /\ UNCHANGED <<now, distributionFee, typeInfo, distributor, referral, sale>>

\* ComponentService.withdrawFees by the owner of the distribution
WithdrawDistributionFees(amount) ==
  /\ amount > 0
  /\ amount <= distributionBook.fees
  /\ CanDecrease(distributionBook, 0, amount)
  /\ amount <= distributionWallet
  /\ distributionBook' = Decrease(distributionBook, 0, amount)
  /\ distributionWallet' = distributionWallet - amount
  /\ UNCHANGED <<now, distributionFee, typeInfo, distributor, referral, sale,
                 distributorBook>>

Tick ==
  /\ now < MaxTime
  /\ now' = now + 1
  /\ UNCHANGED <<distributionFee, typeInfo, distributor, referral, sale,
                 distributionBook, distributorBook, distributionWallet>>

DistributorNext ==
  \/ \E f \in DistributionFees : SetDistributionFees(f)
  \/ \E info \in TypeInfos : CreateDistributorType(info)
  \/ \E d \in Distributors, t \in Types : CreateDistributor(d, t) \/ ChangeDistributorType(d, t)
  \/ \E r \in Referrals, d \in Distributors, discount \in DiscountPercentages,
        m \in ReferralLimits, t \in Times : CreateReferral(r, d, discount, m, t)

SaleNext ==
  \/ \E s \in Sales, r \in Referrals \union {0} : CreateApplication(s, r)
  \/ \E s \in Sales, net \in NetPremiums : CreatePolicy(s, net)
  \/ \E s \in Sales : CollectPremium(s)

WithdrawalNext ==
  \/ \E d \in Distributors : \E a \in WithdrawAmounts \union {distributorBook[d].fees} :
       WithdrawCommission(d, a)
  \/ \E a \in WithdrawAmounts \union {distributionBook.fees} : WithdrawDistributionFees(a)

Next == DistributorNext \/ SaleNext \/ WithdrawalNext \/ Tick

Spec == Init /\ [][Next]_vars
----------------------------------------------------------------------------
(* Properties                                                              *)

DistributorType == [type : 0..MaxTypes, policiesSold : Nat]

ReferralType ==
  [distributor : 0..MaxDistributors, discount : Nat, maxReferrals : Nat,
   used : Nat, expiryAt : Nat]

PremiumInfoType ==
  [net : Nat, premium : Nat, product : Nat, pool : Nat, distribution : Nat,
   distributionFixed : Nat, ownerFixed : Nat, ownerVariable : Nat, commission : Nat, discount : Nat]

SaleType ==
  [state : {NONE, "APPLIED", "EXPECTED", "PAID"}, referral : 0..MaxReferralCodes,
   info : PremiumInfoType]

\* Distributors have a type, referral codes a distributor.
ReferencesExist ==
  /\ \A d \in Distributors :
       distributor[d] # NoDistributor => distributor[d].type \in DOMAIN typeInfo
  /\ \A r \in Referrals :
       ReferralExists(r) => distributor[referral[r].distributor] # NoDistributor

\* Everything stays in its type: every amount of a premium, every balance and
\* every counter is a natural number, so no fee configuration the owner sets
\* between creating a referral and pricing with it makes a part of a premium
\* negative (PricingService._calculateDistributionOwnerFeeAmount).
TypeOK ==
  /\ now \in Times
  /\ distributionFee \in DistributionFees
  /\ typeInfo \in Seq(TypeInfos)
  /\ Len(typeInfo) <= MaxTypes
  /\ distributor \in [Distributors -> DistributorType]
  /\ referral \in [Referrals -> ReferralType]
  /\ sale \in [Sales -> SaleType]
  /\ distributionBook \in BookType
  /\ distributorBook \in [Distributors -> BookType]
  /\ distributionWallet \in Nat
  /\ ReferencesExist

CommissionsOwed == SumUpTo([d \in Distributors |-> distributorBook[d].balance], MaxDistributors)

\* What the distribution's balance holds beyond the owner's fees is exactly
\* what the distributors may withdraw, after any sequence of sales and of
\* withdrawals by the owner and the distributors: neither can be blocked by
\* or eat into the other's money (DistributionService.processSale and
\* withdrawCommission, ComponentService.withdrawFees).
CommissionsAreCovered ==
  /\ distributionBook.balance = distributionBook.fees + CommissionsOwed
  /\ \A d \in Distributors : distributorBook[d].balance = distributorBook[d].fees

\* With a valid referral the owner is booked the fixed part of the minimum fee
\* (distributionOwnerFeeFixAmount) while the premium brings the fixed part of the
\* distribution fee (distributionFeeFixAmount).  No setter compares the two.
ExcessMinimum(s) ==
  LET info == sale[s].info
  IN  IF sale[s].state = "PAID" /\ info.ownerFixed > info.distributionFixed
      THEN info.ownerFixed - info.distributionFixed
      ELSE 0

ExcessMinimums == SumUpTo([s \in Sales |-> ExcessMinimum(s)], MaxSales)

\* What the distribution's balance promises to owner and distributors is in its
\* wallet, up to the excess of minimum fees over distribution fees in the premiums
\* that were paid, and nothing else is ever missing: what a sale adds to the books
\* (processSale, when the premium is collected) is covered by what it adds to the
\* wallet (computed by PricingService when the policy was created), whatever fees,
\* types and referral codes have become in between and whoever withdraws first.
WalletCoversBooks == distributionBook.balance <= distributionWallet + ExcessMinimums

DiscountedSales(r) ==
  {s \in Sales : sale[s].referral = r /\ sale[s].info.discount > 0}

\* A referral code gives as many discounts as it has counted uses and never
\* more than it was created for, however many applications name it before
\* the first of them becomes a policy (ApplicationService.create checks the
\* code, PolicyService.createPolicy prices with it and counts the use).
DiscountsAreCounted ==
  \A r \in Referrals :
    /\ Cardinality(DiscountedSales(r)) = referral[r].used
    /\ referral[r].used <= referral[r].maxReferrals
=============================================================================
