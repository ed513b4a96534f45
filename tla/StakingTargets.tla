--------------------------- MODULE StakingTargets ---------------------------
(***************************************************************************)
(* The targets of staking: support parameters per type of target, rates,   *)
(* locking periods, limits and reward reserves of the targets, and the     *)
(* total value locked from which the limits follow (Staking, StakingStore  *)
(* and TargetHandler, called by stakers, target owners and other services).*)
(* Target 1 is the protocol, the other targets are instances.              *)
(***************************************************************************)
EXTENDS Accounting, Sums

CONSTANTS
  MaxTargets,      \* targets ever registered
  MaxTokens,       \* tokens ever used by products
  MaxAmount,       \* the largest Amount
  MaxUpdates,      \* the largest value of updatesCounter
  MaxChanges,      \* changes made by other parties than stakers
  InitialSupport,  \* support parameters at deployment, per type
  Supports,        \* arguments of setSupportInfo
  DefaultLockingPeriod, DefaultRewardRate,   \* of a new target
  LockingPeriods, RewardRates, StakingRates, \* arguments of the setters
  Limits,          \* arguments of setMaxStakedAmount and setTargetLimits
  InitialTriggers, Triggers, \* update triggers at deployment, and new ones
  ReserveAmounts,  \* amounts refilled or withdrawn
  TvlAmounts       \* amounts by which the value locked changes

Types == {"PROTOCOL", "INSTANCE"}

SupportInfo ==
  [isSupported : BOOLEAN, allowNewTargets : BOOLEAN, minLockingPeriod : Nat,
   maxLockingPeriod : Nat, minRewardRate : Nat, maxRewardRate : Nat]

\* Trigger values: the number of updates, and a ratio in parts of Unit.
TriggerType == [updates : Nat, ratio : Nat]

ASSUME StakingTargetsAssumption ==
  /\ MaxTargets \in Nat \ {0}
  /\ MaxTokens \in Nat
  /\ MaxAmount \in Nat
  /\ MaxUpdates \in Nat
  /\ MaxChanges \in Nat
  /\ InitialSupport \in [Types -> SupportInfo]
  /\ Supports \subseteq SupportInfo
  /\ DefaultLockingPeriod \in Nat
  /\ DefaultRewardRate \in Nat
  /\ LockingPeriods \subseteq Nat
  /\ RewardRates \subseteq Nat
  /\ StakingRates \subseteq Nat
  /\ Limits \subseteq 0..MaxAmount
  /\ InitialTriggers \in TriggerType
  /\ Triggers \subseteq TriggerType
  /\ ReserveAmounts \subseteq Nat
  /\ TvlAmounts \subseteq Nat

VARIABLES
  support,        \* SupportInfo per type of target
  target,         \* TargetInfo and LimitInfo of every target
  stakingRate,    \* TokenInfo: staking rate of every known token
  tvl,            \* TvlInfo of every target and token
  triggers,       \* the update triggers of the target handler
  stakingWallet,  \* DIP held by the staking contract
  changes         \* number of changes made (bound)

targetVars == <<support, target, stakingRate, tvl, triggers, stakingWallet, changes>>

Targets == 1..MaxTargets
Tokens == 1..MaxTokens
Protocol == 1
TypeOf(t) == IF t = Protocol THEN "PROTOCOL" ELSE "INSTANCE"

\* The limits start as the largest amount and half of it.
NewTarget ==
  [staked |-> 0, reward |-> 0, reserve |-> 0, limit |-> MaxAmount,
   margin |-> MaxAmount \div 2, hardLimit |-> MaxAmount,
   lockingPeriod |-> DefaultLockingPeriod, rewardRate |-> DefaultRewardRate,
   tokens |-> {}]

NoTarget == [tokens |-> {}]
IsTarget(t) == target[t] # NoTarget

NoTvl == [amount |-> 0, baseline |-> 0, updates |-> 0]

\* -1 is "token not known".
Unknown == -1
IsKnown(k) == stakingRate[k] # Unknown

TargetsInit ==
  /\ support = InitialSupport
  /\ target = [t \in Targets |-> IF t = Protocol THEN NewTarget ELSE NoTarget]
  /\ stakingRate = [k \in Tokens |-> Unknown]
  /\ tvl = [t \in Targets |-> [k \in Tokens |-> NoTvl]]
  /\ triggers = InitialTriggers
  /\ stakingWallet = 0
  /\ changes = 0

Change == changes < MaxChanges /\ changes' = changes + 1   \* bound

----------------------------------------------------------------------------
(* Parameters of targets                                                   *)

IsLockingPeriod(t, period) ==
  period \in support[TypeOf(t)].minLockingPeriod..support[TypeOf(t)].maxLockingPeriod

IsRewardRate(t, rate) ==
  rate \in support[TypeOf(t)].minRewardRate..support[TypeOf(t)].maxRewardRate

SetSupportInfo(type, info) ==
  /\ Change
  /\ info.minLockingPeriod <= info.maxLockingPeriod
  /\ info.minRewardRate <= info.maxRewardRate
  /\ support' = [support EXCEPT ![type] = info]
  /\ UNCHANGED <<target, stakingRate, tvl, triggers, stakingWallet>>

\* A new instance becomes a target, with the default parameters.
RegisterTarget(t) ==
  /\ t # Protocol
  /\ ~IsTarget(t)
  /\ \A u \in 1..(t - 1) : IsTarget(u)
  /\ support["INSTANCE"].isSupported
  /\ support["INSTANCE"].allowNewTargets
  /\ IsLockingPeriod(t, DefaultLockingPeriod)
  /\ IsRewardRate(t, DefaultRewardRate)
  /\ target' = [target EXCEPT ![t] = NewTarget]
  /\ UNCHANGED <<support, stakingRate, tvl, triggers, stakingWallet, changes>>

SetTarget(t, info) ==
  /\ Change
  /\ target' = [target EXCEPT ![t] = info]
  /\ UNCHANGED <<support, stakingRate, tvl, triggers>>

SetLockingPeriod(t, period) ==
  /\ IsTarget(t)
  /\ IsLockingPeriod(t, period)
  /\ SetTarget(t, [target[t] EXCEPT !.lockingPeriod = period])
  /\ UNCHANGED stakingWallet

SetRewardRate(t, rate) ==
  /\ IsTarget(t)
  /\ IsRewardRate(t, rate)
  /\ SetTarget(t, [target[t] EXCEPT !.rewardRate = rate])
  /\ UNCHANGED stakingWallet

\* Only through an instance.
SetMaxStakedAmount(t, amount) ==
  /\ t # Protocol
  /\ IsTarget(t)
  /\ SetTarget(t, [target[t] EXCEPT !.limit = amount])
  /\ UNCHANGED stakingWallet

\* The limit itself stays as it is until it is updated.
SetTargetLimits(t, marginAmount, hardLimitAmount) ==
  /\ IsTarget(t)
  /\ SetTarget(t, [target[t] EXCEPT !.margin = marginAmount, !.hardLimit = hardLimitAmount])
  /\ UNCHANGED stakingWallet

RefillRewardReserves(t, amount) ==
  /\ IsTarget(t)
  /\ SetTarget(t, [target[t] EXCEPT !.reserve = @ + amount])
  /\ stakingWallet' = stakingWallet + amount

\* Mutant: the check of the reserves is left out.
WithdrawRewardReservesM(t, amount) ==
  /\ IsTarget(t)
  /\ amount <= stakingWallet
  /\ SetTarget(t, [target[t] EXCEPT !.reserve = @ - amount])
  /\ stakingWallet' = stakingWallet - amount

WithdrawRewardReserves(t, amount) ==
  /\ IsTarget(t)
  /\ amount <= target[t].reserve
  /\ amount <= stakingWallet
  /\ SetTarget(t, [target[t] EXCEPT !.reserve = @ - amount])
  /\ stakingWallet' = stakingWallet - amount

----------------------------------------------------------------------------
(* Total value locked and limits                                           *)

\* DIP required by the value locked, rounded per token.
RequiredStakeBalance(t, balances) ==
  SumUpTo([k \in Tokens |->
    IF k \in target[t].tokens
    THEN RoundHalfUp(balances[k].amount * stakingRate[k], Unit) ELSE 0], MaxTokens)

\* The sum of the required amount and the margin must be an Amount.
UpdatedLimit(t, balances) ==
  LET margined == RequiredStakeBalance(t, balances) + target[t].margin
  IN  IF margined < target[t].hardLimit THEN margined ELSE target[t].hardLimit

LimitIsComputable(t, balances) ==
  RequiredStakeBalance(t, balances) + target[t].margin <= MaxAmount

\* TargetHandler.isLimitUpdateRequired.  The ratio is larger to smaller amount;
\* with one of the two zero an update is required, with both zero it is not.
IsLimitUpdateRequired(balance) ==
  LET larger == IF balance.amount > balance.baseline THEN balance.amount ELSE balance.baseline
      smaller == IF balance.amount > balance.baseline THEN balance.baseline ELSE balance.amount
  IN  /\ balance.updates >= triggers.updates
      /\ larger # 0
      /\ larger * Unit >= triggers.ratio * smaller

\* Mutant: the limit follows from the balances before the change.
SetTotalValueLockedM(t, k, amount) ==
  LET counted == [tvl[t][k] EXCEPT !.amount = amount, !.updates = @ + 1]
  IN  /\ Change
      /\ counted.updates <= MaxUpdates
      /\ IF IsLimitUpdateRequired(counted)
         THEN /\ tvl' = [tvl EXCEPT ![t][k] =
                   [amount |-> amount, baseline |-> amount, updates |-> 0]]
              /\ LimitIsComputable(t, tvl[t])
              /\ target' = [target EXCEPT ![t].limit = UpdatedLimit(t, tvl[t])]
         ELSE /\ tvl' = [tvl EXCEPT ![t][k] = counted]
              /\ UNCHANGED target
      /\ UNCHANGED <<support, stakingRate, triggers, stakingWallet>>

\* Every change is counted; the counter is a uint16 and reverts when it is full.
SetTotalValueLocked(t, k, amount) ==
  LET counted == [tvl[t][k] EXCEPT !.amount = amount, !.updates = @ + 1]
  IN  /\ Change
      /\ counted.updates <= MaxUpdates
      /\ IF IsLimitUpdateRequired(counted)
         THEN /\ tvl' = [tvl EXCEPT ![t][k] =
                   [amount |-> amount, baseline |-> amount, updates |-> 0]]
              /\ LimitIsComputable(t, tvl'[t])
              /\ target' = [target EXCEPT ![t].limit = UpdatedLimit(t, tvl'[t])]
         ELSE /\ tvl' = [tvl EXCEPT ![t][k] = counted]
              /\ UNCHANGED target
      /\ UNCHANGED <<support, stakingRate, triggers, stakingWallet>>

IncreaseTotalValueLocked(t, k, amount) ==
  /\ k \in target[t].tokens
  /\ tvl[t][k].amount + amount <= MaxAmount
  /\ SetTotalValueLocked(t, k, tvl[t][k].amount + amount)

DecreaseTotalValueLocked(t, k, amount) ==
  /\ k \in target[t].tokens
  /\ amount <= tvl[t][k].amount
  /\ SetTotalValueLocked(t, k, tvl[t][k].amount - amount)

\* Callable by anybody.  Counter and baseline stay as they are.
UpdateTargetLimit(t) ==
  /\ IsTarget(t)
  /\ LimitIsComputable(t, tvl[t])
  /\ SetTarget(t, [target[t] EXCEPT !.limit = UpdatedLimit(t, tvl[t])])
  /\ UNCHANGED stakingWallet

SetUpdateTriggers(values) ==
  /\ Change
  /\ triggers' = values
  /\ UNCHANGED <<support, target, stakingRate, tvl, stakingWallet>>

----------------------------------------------------------------------------
(* Tokens                                                                  *)

AddToken(k) ==
  /\ Change
  /\ ~IsKnown(k)
  /\ stakingRate' = [stakingRate EXCEPT ![k] = 0]
  /\ UNCHANGED <<support, target, tvl, triggers, stakingWallet>>

SetStakingRate(k, rate) ==
  /\ Change
  /\ IsKnown(k)
  /\ stakingRate' = [stakingRate EXCEPT ![k] = rate]
  /\ UNCHANGED <<support, target, tvl, triggers, stakingWallet>>

\* A product with this token is registered with the instance.
AddTargetToken(t, k) ==
  /\ t # Protocol
  /\ IsTarget(t)
  /\ stakingRate' = [stakingRate EXCEPT ![k] = IF IsKnown(k) THEN @ ELSE 0]
  /\ target' = [target EXCEPT ![t].tokens = @ \union {k}]
  /\ UNCHANGED <<support, tvl, triggers, stakingWallet, changes>>

----------------------------------------------------------------------------

ParametersNext ==
  \/ \E type \in Types, info \in Supports : SetSupportInfo(type, info)
  \/ \E t \in Targets : RegisterTarget(t)
  \/ \E t \in Targets, period \in LockingPeriods : SetLockingPeriod(t, period)
  \/ \E t \in Targets, rate \in RewardRates : SetRewardRate(t, rate)
  \/ \E t \in Targets, amount \in Limits : SetMaxStakedAmount(t, amount)
  \/ \E t \in Targets, margin, hard \in Limits : SetTargetLimits(t, margin, hard)

ReservesNext ==
  \E t \in Targets, amount \in ReserveAmounts :
    RefillRewardReserves(t, amount) \/ WithdrawRewardReserves(t, amount)

ValueLockedNext ==
  \/ \E t \in Targets, k \in Tokens, amount \in TvlAmounts :
       IncreaseTotalValueLocked(t, k, amount) \/ DecreaseTotalValueLocked(t, k, amount)
  \/ \E t \in Targets : UpdateTargetLimit(t)
  \/ \E values \in Triggers : SetUpdateTriggers(values)
  \/ \E k \in Tokens : AddToken(k)
  \/ \E k \in Tokens, rate \in StakingRates : SetStakingRate(k, rate)
  \/ \E t \in Targets, k \in Tokens : AddTargetToken(t, k)

TargetsNext == ParametersNext \/ ReservesNext \/ ValueLockedNext
=============================================================================
