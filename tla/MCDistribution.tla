--------------------------- MODULE MCDistribution ---------------------------
(***************************************************************************)
(* Values for the constants of Distribution that a cfg cannot write.  A    *)
(* net premium of 10 with a distribution fee of 1 and 40 percent makes a   *)
(* full premium of 18, with 30 percent one of 17.                          *)
(***************************************************************************)
EXTENDS Distribution

Fee(fixed, fractional) == [fixed |-> fixed, fractional |-> fractional]

OtherFees == [product |-> Fee(1, 0), pool |-> Fee(0, 10), bundle |-> Fee(1, 0)]

GenerousFees == [distribution |-> Fee(1, 40), minDistributionOwner |-> Fee(0, 0)]

\* The minimum fee of the owner has a larger fixed part than the fee it is taken from,
\* and the variable fee holds the discount beside the smaller commission only.
ExcessiveFees == [distribution |-> Fee(1, 30), minDistributionOwner |-> Fee(2, 0)]

ChangingFees == {GenerousFees, ExcessiveFees}

TypeInfo(maxDiscount, commission, maxReferralCount) ==
  [minDiscount |-> 0, maxDiscount |-> maxDiscount, commission |-> commission,
   maxReferralCount |-> maxReferralCount, maxReferralLifetime |-> 1]

TwoTypes == {TypeInfo(20, 10, 2), TypeInfo(20, 20, 1)}
=============================================================================
