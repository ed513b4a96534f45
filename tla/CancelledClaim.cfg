\* A confirmed claim is cancelled.
CONSTANTS
  MaxBundles = 1
  MaxTime = 3
  BundleLifetimes = {2}
  StakeAmounts = {2}
  MaxBalanceAmounts = {4}
  StakingFee <- NoFee
  ProcessingFee <- NoFee
  CollateralizationLevel = 100
  RetentionLevel = 100
  IsExternallyManaged = FALSE
  MaxWallet = 4
  MaxPolicies = 1
  MaxClaims = 2
  MaxPayouts = 2
  MaxRisks = 1
  SumInsuredAmounts = {2}
  PolicyLifetimes = {2}
  ActivationTimes = {1}
  ClaimAmounts = {1, 2}
  PayoutAmounts = {1, 2}
  Premiums <- NetPremium
  ActivatesOnlyCollateralized = TRUE
SPECIFICATION Spec
INVARIANTS
  ClaimAmountSumsConfirmedClaims
