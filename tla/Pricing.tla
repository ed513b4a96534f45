------------------------------ MODULE Pricing ------------------------------
(***************************************************************************)
(* PricingService.calculatePremium: from the net premium of the product to *)
(* the premium the policy holder pays, and the way it is split between the *)
(* product, the pool, the owner of the distribution and the distributor.   *)
(*                                                                         *)
(* "fees" is the fee configuration the price is based on; "terms" is what  *)
(* the referral of the application stands for, with valid = FALSE when     *)
(* there is none that can be used.                                         *)
(***************************************************************************)
EXTENDS Accounting

FeeInfoType ==
  [product : Fees, pool : Fees, bundle : Fees,
   distribution : Fees, minDistributionOwner : Fees]

TermsType == [valid : BOOLEAN, discount : Nat, commission : Nat]

NoTerms == [valid |-> FALSE, discount |-> 0, commission |-> 0]

\* Amount.multiplyWith
Share(amount, rate) == RoundHalfUp(amount * rate, Unit)

\* Every fee is computed from the net premium, none from another fee.
FullPremium(net, fees) ==
  net + FeeAmount(fees.product, net) + FeeAmount(fees.pool, net)
      + FeeAmount(fees.bundle, net) + FeeAmount(fees.distribution, net)

\* The commission is a share of the net premium, the discount one of the full.
Commission(net, terms) == Share(net, terms.commission)
Discount(net, fees, terms) == Share(FullPremium(net, fees), terms.discount)

\* Without a referral the owner of the distribution gets everything.
OwnerFixed(fees, terms) ==
  IF terms.valid THEN fees.minDistributionOwner.fixed ELSE fees.distribution.fixed

OwnerVariable(net, fees, terms) ==
  Share(net, fees.distribution.fractional)
    - (Commission(net, terms) + Discount(net, fees, terms))

\* Mutant: the subtractions are not checked.
IsPriceableM(net, fees, terms) ==
  OwnerFixed(fees, terms) >= fees.minDistributionOwner.fixed

\* The subtractions do not underflow, and the fixed part is not too small.
IsPriceable(net, fees, terms) ==
  /\ OwnerVariable(net, fees, terms) >= 0
  /\ OwnerFixed(fees, terms) >= fees.minDistributionOwner.fixed

\* The amounts for the wallets of the distribution, the pool and the product.
DistributionPart(net, fees, terms) ==
  fees.distribution.fixed + OwnerVariable(net, fees, terms) + Commission(net, terms)

PoolPart(net, fees) ==
  net + FeeAmount(fees.pool, net) + FeeAmount(fees.bundle, net)

ProductPart(net, fees) == FeeAmount(fees.product, net)

CalculatePremium(net, fees, terms) ==
  [net          |-> net,
   premium      |-> FullPremium(net, fees) - Discount(net, fees, terms),
   product      |-> ProductPart(net, fees),
   pool         |-> PoolPart(net, fees),
   distribution |-> DistributionPart(net, fees, terms),
   distributionFixed |-> fees.distribution.fixed,
   ownerFixed   |-> OwnerFixed(fees, terms),
   ownerVariable |-> OwnerVariable(net, fees, terms),
   commission   |-> Commission(net, terms),
   discount     |-> Discount(net, fees, terms)]

NoPremiumInfo ==
  [net |-> 0, premium |-> 0, product |-> 0, pool |-> 0, distribution |-> 0,
   distributionFixed |-> 0, ownerFixed |-> 0, ownerVariable |-> 0, commission |-> 0, discount |-> 0]
=============================================================================
