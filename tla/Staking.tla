------------------------------ MODULE Staking ------------------------------
(***************************************************************************)
(* Stakes of DIP to the targets of StakingTargets: creating, increasing,   *)
(* unstaking and restaking stakes, rewards that are computed when a stake  *)
(* is touched and paid from the target's reserves (Staking, StakingStore,  *)
(* StakingLib).                                                            *)
(***************************************************************************)
EXTENDS StakingTargets

CONSTANTS
  Stakers,        \* accounts that stake
  MaxStakes,      \* stake NFTs ever minted
  MaxTime,        \* last block time
  Year,           \* length of a year
  Endowment,      \* DIP a staker has at first
  StakeAmounts    \* amounts staked

ASSUME StakingAssumption ==
  /\ MaxStakes \in Nat
  /\ MaxTime \in Nat \ {0}
  /\ Year \in Nat \ {0}
  /\ Endowment \in Nat
  /\ StakeAmounts \subseteq Nat
  /\ \E r \in RewardRates \union {DefaultRewardRate} :
       \A q \in RewardRates \union {DefaultRewardRate} : q <= r   \* rates are bounded

VARIABLES
  now,       \* block.timestamp
  stake,     \* StakeInfo of every stake NFT, and its owner
  wallet,    \* DIP held by every staker
  earnable   \* history: what a staker's stakes can have earned at most

stakeVars == <<stake, wallet>>
vars == <<targetVars, stakeVars, now, earnable>>

Stakes == 1..MaxStakes

NoStake == [staked |-> 0, reward |-> 0]
IsStake(s) == stake[s] # NoStake

Init ==
  /\ TargetsInit
  /\ now = 1
  /\ stake = [s \in Stakes |-> NoStake]
  /\ wallet = [o \in Stakers |-> Endowment]
  /\ earnable = [o \in Stakers |-> 0]

----------------------------------------------------------------------------
(* Steps of the store on a position: a stake together with its target      *)

Position(s) == [stake |-> stake[s], target |-> target[stake[s].target]]

NewPosition(o, t, info) ==
  [stake |-> [owner |-> o, target |-> t, staked |-> 0, reward |-> 0,
              lockedUntil |-> now, lastUpdateAt |-> now],
   target |-> info]

\* The code also rounds the fraction of the year, at the 15th digit.
RewardAmount(rate, duration, amount) == RoundHalfUp(amount * duration * rate, Unit * Year)

\* Mutant: the time of the update is not remembered.
UpdatedRewardsM(p) ==
  LET increase == RewardAmount(p.target.rewardRate, now - p.stake.lastUpdateAt, p.stake.staked)
  IN  [stake |-> [p.stake EXCEPT !.reward = @ + increase],
       target |-> [p.target EXCEPT !.reward = @ + increase]]

\* With a reward rate of zero the time of the update stays as it was.
UpdatedRewards(p) ==
  LET increase == RewardAmount(p.target.rewardRate, now - p.stake.lastUpdateAt, p.stake.staked)
  IN  IF p.target.rewardRate = 0 THEN p
      ELSE [stake |-> [p.stake EXCEPT !.reward = @ + increase, !.lastUpdateAt = now],
            target |-> [p.target EXCEPT !.reward = @ + increase]]

\* Mutant: what is added is not counted.
MayAddM(p, amount) == p.target.staked <= p.target.limit

MayAdd(p, amount) == p.target.staked + amount <= p.target.limit

MayRestakeRewards(p) ==
  p.stake.reward # 0 => MayAdd(p, p.stake.reward) /\ p.stake.reward <= p.target.reserve

\* Mutant: the reserves are not used up.
RestakedRewardsM(p) ==
  LET reward == p.stake.reward
  IN  IF reward = 0 THEN p
      ELSE [stake |-> [p.stake EXCEPT !.staked = @ + reward, !.reward = 0, !.lastUpdateAt = now],
            target |-> [p.target EXCEPT !.staked = @ + reward, !.reward = @ - reward]]

RestakedRewards(p) ==
  LET reward == p.stake.reward
  IN  IF reward = 0 THEN p
      ELSE [stake |-> [p.stake EXCEPT !.staked = @ + reward, !.reward = 0, !.lastUpdateAt = now],
            target |-> [p.target EXCEPT !.staked = @ + reward, !.reward = @ - reward,
                                        !.reserve = @ - reward]]

\* The locking period is added to the end of the lock, wherever that is.
WithStake(p, amount) ==
  IF amount = 0 THEN p
  ELSE [stake |-> [p.stake EXCEPT !.staked = @ + amount, !.lastUpdateAt = now,
                                  !.lockedUntil = @ + p.target.lockingPeriod],
        target |-> [p.target EXCEPT !.staked = @ + amount]]

MayUnstake(p) == p.stake.staked # 0 => p.stake.lockedUntil <= now

Unstaked(p) ==
  IF p.stake.staked = 0 THEN p
  ELSE [stake |-> [p.stake EXCEPT !.staked = 0, !.lastUpdateAt = now],
        target |-> [p.target EXCEPT !.staked = @ - p.stake.staked]]

\* What stake, unstake and restake do first.
Updated(s) == RestakedRewards(UpdatedRewards(Position(s)))
MayUpdate(s) == MayRestakeRewards(UpdatedRewards(Position(s)))

----------------------------------------------------------------------------

Store(s, p) ==
  /\ stake' = [stake EXCEPT ![s] = p.stake]
  /\ target' = [target EXCEPT ![p.stake.target] = p.target]

\* Transfers between a staker and the staking contract.
PullDip(o, amount) ==
  /\ amount <= wallet[o]
  /\ wallet' = [wallet EXCEPT ![o] = @ - amount]
  /\ stakingWallet' = stakingWallet + amount

PushDip(o, amount) ==
  /\ amount <= stakingWallet
  /\ wallet' = [wallet EXCEPT ![o] = @ + amount]
  /\ stakingWallet' = stakingWallet - amount

IsNext(s) == ~IsStake(s) /\ \A i \in 1..(s - 1) : IsStake(i)

\* Anybody may create a stake for an owner, who pays for it.
CreateStake(s, t, o, amount) ==
  LET p == NewPosition(o, t, target[t])
  IN  /\ IsNext(s)
      /\ IsTarget(t)
      /\ MayAdd(p, amount)
      /\ Store(s, WithStake(p, amount))
      /\ PullDip(o, amount)

Stake(s, amount) ==
  /\ IsStake(s)
  /\ MayUpdate(s)
  /\ amount # 0 => MayAdd(Updated(s), amount)
  /\ Store(s, WithStake(Updated(s), amount))
  /\ PullDip(stake[s].owner, amount)

Unstake(s) ==
  /\ IsStake(s)
  /\ MayUpdate(s)
  /\ MayUnstake(Updated(s))
  /\ Store(s, Unstaked(Updated(s)))
  /\ PushDip(stake[s].owner, Updated(s).stake.staked)

\* Mutant: the lock of the stake is not checked.
RestakeM(s, new, t) ==
  /\ IsStake(s)
  /\ IsNext(new)
  /\ IsTarget(t)
  /\ MayUpdate(s)
  /\ LET old == Unstaked(Updated(s))
         amount == Updated(s).stake.staked
         left == [target EXCEPT ![stake[s].target] = old.target]
         fresh == NewPosition(stake[s].owner, t, left[t])
         p == WithStake(fresh, amount)
     IN  /\ MayAdd(fresh, amount)
         /\ stake' = [stake EXCEPT ![s] = old.stake, ![new] = p.stake]
         /\ target' = [left EXCEPT ![t] = p.target]
  /\ UNCHANGED <<wallet, stakingWallet>>

\* All of a stake moves to a new stake, perhaps of the same target.
Restake(s, new, t) ==
  /\ IsStake(s)
  /\ IsNext(new)
  /\ IsTarget(t)
  /\ MayUpdate(s)
  /\ MayUnstake(Updated(s))
  /\ LET old == Unstaked(Updated(s))
         amount == Updated(s).stake.staked
         left == [target EXCEPT ![stake[s].target] = old.target]
         fresh == NewPosition(stake[s].owner, t, left[t])
         p == WithStake(fresh, amount)
     IN  /\ MayAdd(fresh, amount)
         /\ stake' = [stake EXCEPT ![s] = old.stake, ![new] = p.stake]
         /\ target' = [left EXCEPT ![t] = p.target]
  /\ UNCHANGED <<wallet, stakingWallet>>

UpdateRewards(s) ==
  /\ IsStake(s)
  /\ Store(s, UpdatedRewards(Position(s)))
  /\ UNCHANGED <<wallet, stakingWallet>>

\* Mutant: the target's sum of rewards is forgotten.
ClaimRewardsM(s) ==
  LET p == UpdatedRewards(Position(s))
      amount == p.stake.reward
  IN  /\ IsStake(s)
      /\ amount <= p.target.reserve
      /\ Store(s, [stake |-> [p.stake EXCEPT !.reward = 0],
                   target |-> [p.target EXCEPT !.reserve = @ - amount]])
      /\ PushDip(stake[s].owner, amount)

ClaimRewards(s) ==
  LET p == UpdatedRewards(Position(s))
      amount == p.stake.reward
  IN  /\ IsStake(s)
      /\ amount <= p.target.reserve
      /\ Store(s, [stake |-> [p.stake EXCEPT !.reward = 0,
                                !.lastUpdateAt = IF amount = 0 THEN @ ELSE now],
                   target |-> [p.target EXCEPT !.reward = @ - amount,
                                               !.reserve = @ - amount]])
      /\ PushDip(stake[s].owner, amount)

----------------------------------------------------------------------------

StakeNext ==
  \/ \E s \in Stakes, t \in Targets, o \in Stakers, a \in StakeAmounts : CreateStake(s, t, o, a)
  \/ \E s \in Stakes, a \in StakeAmounts \union {0} : Stake(s, a)
  \/ \E s \in Stakes : Unstake(s) \/ UpdateRewards(s) \/ ClaimRewards(s)
  \/ \E s, new \in Stakes, t \in Targets : Restake(s, new, t)

StakesOf(o) == {s \in Stakes : IsStake(s) /\ stake[s].owner = o}

\* A sum over the stakes of an owner.
SumOver(o, a) ==
  SumUpTo([s \in Stakes |-> IF s \in StakesOf(o) THEN a[s] ELSE 0], MaxStakes)

HighestRate == CHOOSE r \in RewardRates \union {DefaultRewardRate} :
  \A q \in RewardRates \union {DefaultRewardRate} : q <= r

\* History: in a unit of time a stake earns its part of a year at the highest
\* rate, and up to one half by rounding (in units of 1 / (2 * Unit * Year)).
Tick ==
  /\ now < MaxTime   \* bound
  /\ now' = now + 1
  /\ earnable' = [o \in Stakers |-> earnable[o] +
       SumOver(o, [s \in Stakes |-> 2 * HighestRate * stake[s].staked + Unit * Year])]
  /\ UNCHANGED <<targetVars, stakeVars>>

Next ==
  \/ TargetsNext /\ UNCHANGED <<stakeVars, now, earnable>>
  \/ StakeNext /\ UNCHANGED <<support, stakingRate, tvl, triggers, changes, now, earnable>>
  \/ Tick

Spec == Init /\ [][Next]_vars

----------------------------------------------------------------------------
(* Properties                                                              *)

TargetInfo ==
  [staked : Nat, reward : Nat, reserve : Nat, limit : 0..MaxAmount,
   margin : 0..MaxAmount, hardLimit : 0..MaxAmount, lockingPeriod : Nat,
   rewardRate : Nat, tokens : SUBSET Tokens]

StakeInfo ==
  [owner : Stakers, target : Targets, staked : Nat, reward : Nat,
   lockedUntil : Nat, lastUpdateAt : 1..MaxTime]

\* Amounts are naturals, so no subtraction of the store ever reverts except where
\* the code says so; stakes refer to targets that exist, and to the past.
TypeOK ==
  /\ support \in [Types -> SupportInfo]
  /\ target \in [Targets -> TargetInfo \union {NoTarget}]
  /\ stakingRate \in [Tokens -> Nat \union {Unknown}]
  /\ tvl \in [Targets -> [Tokens ->
       [amount : 0..MaxAmount, baseline : 0..MaxAmount, updates : 0..MaxUpdates]]]
  /\ triggers \in TriggerType
  /\ stakingWallet \in Nat
  /\ changes \in 0..MaxChanges
  /\ now \in 1..MaxTime
  /\ stake \in [Stakes -> StakeInfo \union {NoStake}]
  /\ wallet \in [Stakers -> Nat]
  /\ earnable \in [Stakers -> Nat]
  /\ \A s \in Stakes : IsStake(s) =>
       IsTarget(stake[s].target) /\ stake[s].lastUpdateAt <= now

SumAtTarget(t, a) ==
  SumUpTo([s \in Stakes |-> IF IsStake(s) /\ stake[s].target = t THEN a[s] ELSE 0], MaxStakes)

\* A target's staked and reward amounts are the sums of those of its stakes,
\* through restaking from target to target and partial failure of neither
\* (StakingStore updates both records in every function).
TargetsSumTheirStakes ==
  \A t \in Targets : IsTarget(t) =>
    /\ target[t].staked = SumAtTarget(t, [s \in Stakes |-> stake[s].staked])
    /\ target[t].reward = SumAtTarget(t, [s \in Stakes |-> stake[s].reward])

\* The staking contract holds exactly what is staked and what is reserved:
\* restaking rewards moves no tokens, only reserves become stakes.
StakingWalletIsStakesAndReserves ==
  stakingWallet = SumUpTo([t \in Targets |->
    IF IsTarget(t) THEN target[t].staked + target[t].reserve ELSE 0], MaxTargets)

\* What a staker has gained, paid out or not, was earned by capital that was
\* staked for the time: no time is paid for twice, and no capital for the time
\* before it was staked (_updateRewards before every change of a stake).
RewardsAreEarned ==
  \A o \in Stakers :
    2 * Unit * Year *
      (wallet[o] + SumOver(o, [s \in Stakes |-> stake[s].staked + stake[s].reward]) - Endowment)
    <= earnable[o]

\* No step takes the stakes of a target over its limit; they can only be above it
\* when the limit has been lowered (_checkMaxStakedAmount in every function).
LimitIsRespected ==
  [][\A t \in Targets : IsTarget(t) /\ target'[t].staked > target[t].staked =>
       target'[t].staked <= target[t].limit]_vars

\* When the value locked changes, the limit follows from the new value of all
\* tokens, or it is one of the changes before the trigger, or the value is still
\* close to the baseline (_checkAndUpdateTargetLimit).
LimitFollowsValueLocked ==
  [][\A t \in Targets, k \in Tokens : tvl'[t][k].amount # tvl[t][k].amount =>
       \/ target'[t].limit = UpdatedLimit(t, tvl[t])'
       \/ tvl[t][k].updates + 1 < triggers.updates
       \/ tvl'[t][k].amount = 0 /\ tvl[t][k].baseline = 0
       \/ /\ tvl'[t][k].amount * Unit < triggers.ratio * tvl[t][k].baseline
          /\ tvl[t][k].baseline * Unit < triggers.ratio * tvl'[t][k].amount]_vars

Nobody == "nobody"

StakePromise == INSTANCE StakePromise WITH
  owner <- [s \in Stakes |-> IF IsStake(s) THEN stake[s].owner ELSE Nobody],
  staked <- [s \in Stakes |-> stake[s].staked],
  reserve <- [t \in Targets |-> IF IsTarget(t) THEN target[t].reserve ELSE 0],
  isLocked <- [s \in Stakes |-> IsStake(s) /\ stake[s].lockedUntil > now]

\* Staking keeps its promise to every staker.
ImplementsStakePromise == StakePromise!Spec
=============================================================================
