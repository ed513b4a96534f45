\* A pool that locks one and a half times the sum insured.
CONSTANTS
  MaxBundles = 1
  MaxTime = 2
  BundleLifetimes = {2}
  StakeAmounts = {3}
  MaxBalanceAmounts = {4}
  StakingFee <- NoFee
  ProcessingFee <- NoFee
  CollateralizationLevel = 150
  RetentionLevel = 100
  IsExternallyManaged = FALSE
  MaxWallet = 4
  MaxPolicies = 2
  MaxClaims = 1
  MaxPayouts = 1
  MaxRisks = 1
  SumInsuredAmounts = {2}
  PolicyLifetimes = {1}
  ActivationTimes = {1}
  ClaimAmounts = {1}
  PayoutAmounts = {1}
  Premiums <- NetPremium
  ActivatesOnlyCollateralized = TRUE
SPECIFICATION Spec
INVARIANTS
  NoPoliciesNothingLocked
