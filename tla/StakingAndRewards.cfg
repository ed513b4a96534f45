\* Two stakers, two targets; three changes of parameters, reserves, value locked.
CONSTANTS
  MaxTargets = 2
  MaxTokens = 1
  MaxAmount = 16
  MaxUpdates = 2
  MaxChanges = 3
  InitialSupport <- AtDeployment
  Supports <- NewSupports
  DefaultLockingPeriod = 1
  DefaultRewardRate = 50
  LockingPeriods = {2}
  RewardRates = {0}
  StakingRates = {100}
  Limits = {4}
  InitialTriggers <- SecondUpdate
  Triggers <- EveryUpdate
  ReserveAmounts = {2}
  TvlAmounts = {4}
  Stakers = {alice, bob}
  MaxStakes = 2
  MaxTime = 3
  Year = 2
  Endowment = 4
  StakeAmounts = {4}
SYMMETRY AlikeStakers
SPECIFICATION Spec
INVARIANTS
  TypeOK
  TargetsSumTheirStakes
  StakingWalletIsStakesAndReserves
  RewardsAreEarned
PROPERTIES
  LimitIsRespected
  LimitFollowsValueLocked
  ImplementsStakePromise
