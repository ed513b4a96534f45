\* Two bundles of an externally managed pool that holds half the cover itself,
\* with staking fee, premium fees and processing fee.
CONSTANTS
  MaxBundles = 2
  MaxTime = 1
  BundleLifetimes = {1}
  StakeAmounts = {3}
  MaxBalanceAmounts = {6}
  StakingFee <- FixedFee
  ProcessingFee <- HalfFee
  CollateralizationLevel = 100
  RetentionLevel = 50
  IsExternallyManaged = TRUE
  MaxWallet = 3
  MaxPolicies = 1
  MaxClaims = 1
  MaxPayouts = 2
  MaxRisks = 1
  SumInsuredAmounts = {4}
  PolicyLifetimes = {1}
  ActivationTimes = {1}
  ClaimAmounts = {4}
  PayoutAmounts = {2}
  Premiums <- BundleFeePremium
  ActivatesOnlyCollateralized = TRUE
SPECIFICATION Spec
INVARIANTS
  TypeOK
  BooksMatchWallets
