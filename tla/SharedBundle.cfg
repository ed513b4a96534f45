\* Two policies, one claim each, share a bundle that earns fees.
CONSTANTS
  MaxBundles = 1
  MaxTime = 2
  BundleLifetimes = {2}
  StakeAmounts = {2}
  MaxBalanceAmounts = {4}
  StakingFee <- NoFee
  ProcessingFee <- NoFee
  CollateralizationLevel = 100
  RetentionLevel = 100
  IsExternallyManaged = FALSE
  MaxWallet = 4
  MaxPolicies = 2
  MaxClaims = 1
  MaxPayouts = 1
  MaxRisks = 1
  SumInsuredAmounts = {1}
  PolicyLifetimes = {1}
  ActivationTimes = {1}
  ClaimAmounts = {1}
  PayoutAmounts = {1}
  Premiums <- BundleFeePremium
  ActivatesOnlyCollateralized = TRUE
SPECIFICATION Spec
INVARIANTS
  CollateralBacksPolicies
  TvlIsLockedCollateral
  BundlesSolvent
  BooksMatchWallets
  LinkedPoliciesAreInForce
PROPERTIES
  ImplementsCoverPromise
