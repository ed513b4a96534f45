\* Two sales compete for the referral codes of two distributors while the
\* fees and the types of the distributors change and time passes.  One of the
\* fees has a minimum for the owner that is more than the fee it is taken from.
CONSTANTS
  MaxTypes = 2
  MaxDistributors = 2
  MaxReferralCodes = 2
  MaxSales = 2
  MaxTime = 2
  ComponentFees <- OtherFees
  DistributionFees <- ChangingFees
  TypeInfos <- TwoTypes
  DiscountPercentages = {10}
  ReferralLimits = {1, 2}
  NetPremiums = {10}
  WithdrawAmounts = {}
SPECIFICATION Spec
INVARIANTS
  TypeOK
  CommissionsAreCovered
  WalletCoversBooks
  DiscountsAreCounted
