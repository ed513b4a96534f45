--------------------------- MODULE StakingProofs ---------------------------
(***************************************************************************)
(* Theorems about Staking for any number of stakes, targets and stakers:   *)
(* the amounts of targets are those of their stakes, the staking contract  *)
(* holds what it owes, limits are respected, nobody is paid for capital or *)
(* time that was not staked, and stakers are promised no less.             *)
(***************************************************************************)
EXTENDS Staking, AccountingProofs

Rates == RewardRates \union {DefaultRewardRate}

StakeRecords == [Stakes -> StakeInfo \union {NoStake}]
TargetRecords == [Targets -> TargetInfo \union {NoTarget}]

\* What one of the amounts of a target's stakes sums to.
StakesAt(st, t, field) ==
  [s \in Stakes |-> IF st[s] # NoStake /\ st[s].target = t THEN st[s][field] ELSE 0]

\* Records of stakes and of targets that agree with each other.
Ledger(st, tg) ==
  /\ st \in StakeRecords
  /\ tg \in TargetRecords
  /\ \A s \in Stakes : st[s] # NoStake =>
       tg[st[s].target] # NoTarget /\ st[s].lastUpdateAt <= now
  /\ \A t \in Targets : tg[t] # NoTarget =>
       /\ tg[t].staked = SumUpTo(StakesAt(st, t, "staked"), MaxStakes)
       /\ tg[t].reward = SumUpTo(StakesAt(st, t, "reward"), MaxStakes)

\* Reward rates are set by the setter, and products register their tokens.
TermsAreKnown(tg) ==
  \A t \in Targets : tg[t] # NoTarget =>
    tg[t].rewardRate \in Rates /\ \A k \in tg[t].tokens : IsKnown(k)

\* What the staking contract owes to the stakers and reserves of each target.
OwedTo(tg) == [t \in Targets |->
  IF tg[t] # NoTarget THEN tg[t].staked + tg[t].reserve ELSE 0]

Owed(tg) == SumUpTo(OwedTo(tg), MaxTargets)

OthersAreTyped ==
  /\ support \in [Types -> SupportInfo]
  /\ stakingRate \in [Tokens -> Nat \union {Unknown}]
  /\ tvl \in [Targets -> [Tokens ->
       [amount : 0..MaxAmount, baseline : 0..MaxAmount, updates : 0..MaxUpdates]]]
  /\ triggers \in TriggerType
  /\ changes \in 0..MaxChanges
  /\ now \in 1..MaxTime
  /\ wallet \in [Stakers -> Nat]
  /\ earnable \in [Stakers -> Nat]

StakingIsSound ==
  /\ OthersAreTyped
  /\ Ledger(stake, target)
  /\ TermsAreKnown(target)
  /\ stakingWallet = Owed(target)

----------------------------------------------------------------------------
(* Records                                                                 *)

LEMMA RecordsAreDistinct ==
  /\ \A x \in StakeInfo : x # NoStake
  /\ \A y \in TargetInfo : y # NoTarget
<1>1. ASSUME NEW x \in StakeInfo
      PROVE  x # NoStake
  <2>1. "owner" \in DOMAIN x /\ "owner" \notin DOMAIN NoStake  BY DEF StakeInfo, NoStake
  <2> QED  BY <2>1
<1>2. ASSUME NEW y \in TargetInfo
      PROVE  y # NoTarget
  <2>1. "staked" \in DOMAIN y /\ "staked" \notin DOMAIN NoTarget  BY DEF TargetInfo, NoTarget
  <2> QED  BY <2>1
<1> QED  BY <1>1, <1>2

LEMMA StakeParts ==
  ASSUME NEW x \in StakeInfo
  PROVE  /\ x.owner \in Stakers /\ x.target \in Targets
         /\ x.staked \in Nat /\ x.reward \in Nat
         /\ x.lockedUntil \in Nat /\ x.lastUpdateAt \in 1..MaxTime
BY DEF StakeInfo

LEMMA TargetParts ==
  ASSUME NEW y \in TargetInfo
  PROVE  /\ y.staked \in Nat /\ y.reward \in Nat /\ y.reserve \in Nat
         /\ y.limit \in 0..MaxAmount /\ y.margin \in 0..MaxAmount
         /\ y.hardLimit \in 0..MaxAmount /\ y.lockingPeriod \in Nat
         /\ y.rewardRate \in Nat /\ y.tokens \in SUBSET Tokens
BY DEF TargetInfo

\* The amounts of every stake are naturals, those of no stake are zero.
LEMMA StakeAmountsAreNatural ==
  ASSUME NEW st \in StakeRecords, NEW s \in Stakes
  PROVE  /\ st[s].staked \in Nat /\ st[s].reward \in Nat
         /\ st[s] # NoStake => st[s] \in StakeInfo
         /\ st[s] = NoStake => st[s].staked = 0 /\ st[s].reward = 0
BY StakeParts DEF StakeRecords, NoStake

LEMMA StakesAtAreNatural ==
  ASSUME NEW st \in StakeRecords, NEW t, NEW field \in {"staked", "reward"}
  PROVE  \A s \in Stakes : StakesAt(st, t, field)[s] \in Nat
BY StakeAmountsAreNatural DEF StakesAt

----------------------------------------------------------------------------
(* Ledgers                                                                 *)

\* A stake changes its amount, and its target by as much.
LEMMA SumAfterStore ==
  ASSUME NEW st \in StakeRecords, NEW s \in Stakes, NEW x \in StakeInfo,
         NEW field \in {"staked", "reward"}, NEW t \in Targets,
         st[s] # NoStake => st[s].target = x.target,
         MaxStakes \in Nat
  PROVE  SumUpTo(StakesAt([st EXCEPT ![s] = x], t, field), MaxStakes) =
           SumUpTo(StakesAt(st, t, field), MaxStakes) +
             IF t = x.target THEN x[field] - st[s][field] ELSE 0
<1> DEFINE new == [st EXCEPT ![s] = x]
           a == StakesAt(st, t, field)
           b == StakesAt(new, t, field)
<1>1. new \in StakeRecords  BY DEF StakeRecords
<1>2. \A i \in Stakes : a[i] \in Nat /\ b[i] \in Nat  BY <1>1, StakesAtAreNatural
<1>3. \A i \in Stakes : i # s => new[i] = st[i]  BY DEF StakeRecords
<1>4. \A i \in Stakes : i # s => b[i] = a[i]  BY <1>3 DEF StakesAt
<1>5. new[s] = x /\ x # NoStake  BY RecordsAreDistinct DEF StakeRecords
<1>6. b[s] = IF x.target = t THEN x[field] ELSE 0  BY <1>5 DEF StakesAt
<1>7. a[s] = IF x.target = t THEN st[s][field] ELSE 0
  <2>1. CASE st[s] = NoStake
    BY <2>1 DEF StakesAt, NoStake
  <2>2. CASE st[s] # NoStake
    BY <2>2 DEF StakesAt
  <2> QED  BY <2>1, <2>2
<1>8. st[s][field] \in Nat /\ x[field] \in Nat
  BY StakeAmountsAreNatural, StakeParts
<1> HIDE DEF new, a, b
<1>9. s \in 1..MaxStakes /\ \A i \in 1..MaxStakes : a[i] \in Int /\ b[i] \in Int
  BY <1>2 DEF Stakes
<1>10. \A i \in 1..MaxStakes : i # s => b[i] = a[i]  BY <1>4 DEF Stakes
<1>11. SumUpTo(b, MaxStakes) = SumUpTo(a, MaxStakes) + (b[s] - a[s])
  BY <1>9, <1>10, SumOfUpdated
<1>12. SumUpTo(a, MaxStakes) \in Int  BY <1>9, SumIsInteger
<1>13. SumUpTo(b, MaxStakes) = SumUpTo(a, MaxStakes) +
         IF t = x.target THEN x[field] - st[s][field] ELSE 0
  BY <1>6, <1>7, <1>8, <1>11, <1>12
<1> QED  BY <1>13 DEF new, a, b

LEMMA LedgerAfterStore ==
  ASSUME NEW st, NEW tg, Ledger(st, tg), NEW s \in Stakes, NEW x \in StakeInfo,
         NEW y \in TargetInfo, tg[x.target] # NoTarget,
         st[s] # NoStake => st[s].target = x.target,
         x.lastUpdateAt <= now,
         y.staked - tg[x.target].staked = x.staked - st[s].staked,
         y.reward - tg[x.target].reward = x.reward - st[s].reward
  PROVE  Ledger([st EXCEPT ![s] = x], [tg EXCEPT ![x.target] = y])
<1> DEFINE new == [st EXCEPT ![s] = x]
           next == [tg EXCEPT ![x.target] = y]
<1>1. /\ st \in StakeRecords /\ tg \in TargetRecords
      /\ \A i \in Stakes : st[i] # NoStake =>
           tg[st[i].target] # NoTarget /\ st[i].lastUpdateAt <= now
      /\ \A t \in Targets : tg[t] # NoTarget =>
           /\ tg[t].staked = SumUpTo(StakesAt(st, t, "staked"), MaxStakes)
           /\ tg[t].reward = SumUpTo(StakesAt(st, t, "reward"), MaxStakes)
  BY DEF Ledger
<1>2. x.target \in Targets /\ y # NoTarget  BY StakeParts, RecordsAreDistinct
<1>3. /\ new \in StakeRecords /\ next \in TargetRecords
      /\ new[s] = x /\ \A i \in Stakes : i # s => new[i] = st[i]
      /\ next[x.target] = y /\ \A t \in Targets : t # x.target => next[t] = tg[t]
  BY <1>1, <1>2 DEF StakeRecords, TargetRecords
<1>4. ASSUME NEW i \in Stakes, new[i] # NoStake
      PROVE  next[new[i].target] # NoTarget /\ new[i].lastUpdateAt <= now
  <2>1. CASE i = s
    BY <2>1, <1>2, <1>3
  <2>2. CASE i # s
    <3>1. new[i] = st[i] /\ st[i].target \in Targets
      BY <2>2, <1>1, <1>3, <1>4, StakeAmountsAreNatural, StakeParts
    <3> QED  BY <3>1, <1>1, <1>2, <1>3, <1>4
  <2> QED  BY <2>1, <2>2
<1>5. ASSUME NEW t \in Targets, next[t] # NoTarget
      PROVE  /\ next[t].staked = SumUpTo(StakesAt(new, t, "staked"), MaxStakes)
             /\ next[t].reward = SumUpTo(StakesAt(new, t, "reward"), MaxStakes)
  <2>0. MaxStakes \in Nat  BY StakingAssumption
  <2>1. /\ SumUpTo(StakesAt(new, t, "staked"), MaxStakes) =
             SumUpTo(StakesAt(st, t, "staked"), MaxStakes) +
               IF t = x.target THEN x.staked - st[s].staked ELSE 0
        /\ SumUpTo(StakesAt(new, t, "reward"), MaxStakes) =
             SumUpTo(StakesAt(st, t, "reward"), MaxStakes) +
               IF t = x.target THEN x.reward - st[s].reward ELSE 0
    BY <1>1, <2>0, SumAfterStore
  <2>2. tg[t] # NoTarget  BY <1>3, <1>5
  <2>3. tg[t] \in TargetInfo  BY <1>1, <2>2 DEF TargetRecords
  <2>4. tg[t].staked \in Nat /\ tg[t].reward \in Nat /\ y.staked \in Nat /\ y.reward \in Nat
    BY <2>3, TargetParts
  <2>5. /\ tg[t].staked = SumUpTo(StakesAt(st, t, "staked"), MaxStakes)
        /\ tg[t].reward = SumUpTo(StakesAt(st, t, "reward"), MaxStakes)
    BY <1>1, <2>2
  <2>6. x.staked \in Nat /\ x.reward \in Nat /\ st[s].staked \in Nat /\ st[s].reward \in Nat
    BY <1>1, StakeParts, StakeAmountsAreNatural
  <2>7. next[t] = IF t = x.target THEN y ELSE tg[t]  BY <1>3
  <2> HIDE DEF new, next
  <2>8. CASE t = x.target
    BY <2>1, <2>4, <2>5, <2>6, <2>7, <2>8
  <2>9. CASE t # x.target
    BY <2>1, <2>4, <2>5, <2>7, <2>9
  <2> QED  BY <2>8, <2>9
<1> HIDE DEF new, next
<1>6. Ledger(new, next)  BY <1>3, <1>4, <1>5 DEF Ledger
<1> QED  BY <1>6 DEF new, next

\* A target changes without its stakes.
LEMMA LedgerAfterTerms ==
  ASSUME NEW st, NEW tg, Ledger(st, tg), NEW t \in Targets, NEW y \in TargetInfo,
         IF tg[t] = NoTarget THEN y.staked = 0 /\ y.reward = 0
         ELSE y.staked = tg[t].staked /\ y.reward = tg[t].reward
  PROVE  Ledger(st, [tg EXCEPT ![t] = y])
<1> DEFINE next == [tg EXCEPT ![t] = y]
<1>1. /\ st \in StakeRecords /\ tg \in TargetRecords
      /\ \A i \in Stakes : st[i] # NoStake =>
           tg[st[i].target] # NoTarget /\ st[i].lastUpdateAt <= now
      /\ \A u \in Targets : tg[u] # NoTarget =>
           /\ tg[u].staked = SumUpTo(StakesAt(st, u, "staked"), MaxStakes)
           /\ tg[u].reward = SumUpTo(StakesAt(st, u, "reward"), MaxStakes)
  BY DEF Ledger
<1>2. y # NoTarget  BY RecordsAreDistinct
<1>3. /\ next \in TargetRecords
      /\ next[t] = y /\ \A u \in Targets : u # t => next[u] = tg[u]
  BY <1>1 DEF TargetRecords
<1>4. ASSUME NEW i \in Stakes, st[i] # NoStake
      PROVE  next[st[i].target] # NoTarget /\ st[i].lastUpdateAt <= now
  <2>1. st[i].target \in Targets  BY <1>1, <1>4, StakeAmountsAreNatural, StakeParts
  <2> QED  BY <2>1, <1>1, <1>2, <1>3, <1>4
<1>5. ASSUME NEW u \in Targets, next[u] # NoTarget
      PROVE  /\ next[u].staked = SumUpTo(StakesAt(st, u, "staked"), MaxStakes)
             /\ next[u].reward = SumUpTo(StakesAt(st, u, "reward"), MaxStakes)
  <2>1. CASE tg[u] # NoTarget
    BY <2>1, <1>1, <1>3
  <2>2. CASE tg[u] = NoTarget
    <3>1. u = t /\ next[u].staked = 0 /\ next[u].reward = 0  BY <2>2, <1>3, <1>5
    <3>2. \A i \in Stakes : ~(st[i] # NoStake /\ st[i].target = u)  BY <2>2, <1>1
    <3>3. /\ \A i \in 1..MaxStakes : StakesAt(st, u, "staked")[i] = 0
          /\ \A i \in 1..MaxStakes : StakesAt(st, u, "reward")[i] = 0
      BY <3>2 DEF StakesAt, Stakes
    <3>4. MaxStakes \in Nat  BY StakingAssumption
    <3> QED  BY <3>1, <3>3, <3>4, SumOfZeros
  <2> QED  BY <2>1, <2>2
<1> HIDE DEF next
<1>6. Ledger(st, next)  BY <1>1, <1>3, <1>4, <1>5 DEF Ledger
<1> QED  BY <1>6 DEF next

LEMMA OwedIsNatural ==
  ASSUME NEW tg \in TargetRecords
  PROVE  /\ \A u \in 1..MaxTargets : OwedTo(tg)[u] \in Nat
         /\ Owed(tg) \in Nat
<1>1. ASSUME NEW u \in Targets
      PROVE  OwedTo(tg)[u] \in Nat
  <2>1. CASE tg[u] = NoTarget
    BY <2>1 DEF OwedTo
  <2>2. CASE tg[u] # NoTarget
    <3>1. tg[u].staked \in Nat /\ tg[u].reserve \in Nat
      BY <2>2, TargetParts DEF TargetRecords
    <3> QED  BY <2>2, <3>1 DEF OwedTo
  <2> QED  BY <2>1, <2>2
<1>2. \A u \in 1..MaxTargets : OwedTo(tg)[u] \in Nat  BY <1>1 DEF Targets
<1>3. MaxTargets \in Nat  BY StakingTargetsAssumption
<1> QED  BY <1>2, <1>3, SumIsNatural DEF Owed

LEMMA OwedAfterStore ==
  ASSUME NEW tg \in TargetRecords, NEW t \in Targets, NEW y \in TargetInfo
  PROVE  /\ Owed(tg) \in Nat
         /\ Owed([tg EXCEPT ![t] = y]) = Owed(tg) + (y.staked + y.reserve) -
              IF tg[t] # NoTarget THEN tg[t].staked + tg[t].reserve ELSE 0
<1> DEFINE next == [tg EXCEPT ![t] = y]
           a == OwedTo(tg)
           b == OwedTo(next)
<1>1. next \in TargetRecords /\ y # NoTarget
      /\ next[t] = y /\ \A u \in Targets : u # t => next[u] = tg[u]
  BY RecordsAreDistinct DEF TargetRecords
<1>3. \A u \in 1..MaxTargets : a[u] \in Nat /\ b[u] \in Nat /\ a[u] \in Int /\ b[u] \in Int
  BY <1>1, OwedIsNatural
<1>4. \A u \in 1..MaxTargets : u # t => b[u] = a[u]  BY <1>1 DEF OwedTo, Targets
<1>5. /\ b[t] = y.staked + y.reserve
      /\ a[t] = IF tg[t] # NoTarget THEN tg[t].staked + tg[t].reserve ELSE 0
  BY <1>1 DEF OwedTo
<1>6. MaxTargets \in Nat /\ t \in 1..MaxTargets  BY StakingTargetsAssumption DEF Targets
<1> HIDE DEF next, a, b
<1>7. SumUpTo(b, MaxTargets) = SumUpTo(a, MaxTargets) + (b[t] - a[t])
  BY <1>3, <1>4, <1>6, SumOfUpdated
<1>8. SumUpTo(a, MaxTargets) \in Nat  BY <1>3, <1>6, SumIsNatural
<1>9. a[t] \in Nat /\ b[t] \in Nat  BY <1>3, <1>6
<1>10. SumUpTo(b, MaxTargets) = SumUpTo(a, MaxTargets) + (y.staked + y.reserve) - a[t]
  BY <1>5, <1>7, <1>8, <1>9
<1> QED  BY <1>5, <1>8, <1>10 DEF Owed, a, b, next

----------------------------------------------------------------------------
(* Positions                                                               *)

Positions ==
  {p \in [stake : StakeInfo, target : TargetInfo] :
    /\ p.stake.staked <= p.target.staked
    /\ p.stake.reward <= p.target.reward
    /\ p.stake.lastUpdateAt <= now}

\* A position after a step of the store: stake and target change by the same
\* amounts, and the terms of both stay as they are.
Follows(p, q) ==
  /\ q.stake.owner = p.stake.owner
  /\ q.stake.target = p.stake.target
  /\ q.target.rewardRate = p.target.rewardRate
  /\ q.target.tokens = p.target.tokens
  /\ q.target.limit = p.target.limit
  /\ q.target.staked - p.target.staked = q.stake.staked - p.stake.staked
  /\ q.target.reward - p.target.reward = q.stake.reward - p.stake.reward

LEMMA PositionParts ==
  ASSUME NEW p \in Positions
  PROVE  /\ p.stake \in StakeInfo /\ p.target \in TargetInfo
         /\ p.stake.staked \in Nat /\ p.stake.reward \in Nat
         /\ p.stake.lockedUntil \in Nat /\ p.stake.lastUpdateAt \in 1..MaxTime
         /\ p.stake.owner \in Stakers /\ p.stake.target \in Targets
         /\ p.target.staked \in Nat /\ p.target.reward \in Nat
         /\ p.target.reserve \in Nat /\ p.target.lockingPeriod \in Nat
         /\ p.target.rewardRate \in Nat /\ p.target.limit \in Nat
         /\ p.stake.staked <= p.target.staked
         /\ p.stake.reward <= p.target.reward
         /\ p.stake.lastUpdateAt <= now
<1>1. p.stake \in StakeInfo /\ p.target \in TargetInfo  BY DEF Positions
<1>2. p.target.limit \in Nat
  BY <1>1, TargetParts, StakingTargetsAssumption
<1> QED  BY <1>1, <1>2, StakeParts, TargetParts DEF Positions

LEMMA FollowsIsTransitive ==
  ASSUME NEW p \in Positions, NEW q \in Positions, NEW r \in Positions,
         Follows(p, q), Follows(q, r)
  PROVE  Follows(p, r)
<1>1. /\ r.stake.owner = p.stake.owner
      /\ r.stake.target = p.stake.target
      /\ r.target.rewardRate = p.target.rewardRate
      /\ r.target.tokens = p.target.tokens
      /\ r.target.limit = p.target.limit
  BY DEF Follows
<1>2. r.target.staked - p.target.staked = r.stake.staked - p.stake.staked
  BY PositionParts DEF Follows
<1>3. r.target.reward - p.target.reward = r.stake.reward - p.stake.reward
  BY PositionParts DEF Follows
<1> QED  BY <1>1, <1>2, <1>3 DEF Follows

LEMMA FollowsItself ==
  ASSUME NEW p \in Positions
  PROVE  Follows(p, p)
BY PositionParts DEF Follows

LEMMA RewardAmountType ==
  ASSUME NEW rate \in Nat, NEW duration \in Nat, NEW amount \in Nat
  PROVE  RewardAmount(rate, duration, amount) \in Nat
<1>1. amount * duration \in Nat  BY ProductType
<1>2. amount * duration * rate \in Nat  BY <1>1, ProductType
<1>3. Unit * Year \in Nat \ {0}
  BY StakingAssumption DEF Unit
<1> QED  BY <1>2, <1>3, RoundHalfUpType DEF RewardAmount

LEMMA UpdatedRewardsFollow ==
  ASSUME NEW p \in Positions, now \in 1..MaxTime
  PROVE  /\ UpdatedRewards(p) \in Positions
         /\ Follows(p, UpdatedRewards(p))
         /\ UpdatedRewards(p).stake.staked = p.stake.staked
         /\ UpdatedRewards(p).target.reserve = p.target.reserve
         /\ UpdatedRewards(p).stake.lockedUntil = p.stake.lockedUntil
<1> DEFINE increase == RewardAmount(p.target.rewardRate, now - p.stake.lastUpdateAt,
                                    p.stake.staked)
           q == [stake |-> [p.stake EXCEPT !.reward = @ + increase, !.lastUpdateAt = now],
                 target |-> [p.target EXCEPT !.reward = @ + increase]]
<1>1. CASE p.target.rewardRate = 0
  BY <1>1, FollowsItself DEF UpdatedRewards
<1>2. CASE p.target.rewardRate # 0
  <2>1. UpdatedRewards(p) = q  BY <1>2 DEF UpdatedRewards
  <2>2. increase \in Nat
    <3>1. now - p.stake.lastUpdateAt \in Nat  BY PositionParts
    <3> QED  BY <3>1, PositionParts, RewardAmountType
  <2> HIDE DEF increase
  <2>3. p.stake \in StakeInfo /\ p.target \in TargetInfo  BY PositionParts
  <2>4. /\ q.stake.owner = p.stake.owner /\ q.stake.target = p.stake.target
        /\ q.stake.staked = p.stake.staked /\ q.stake.reward = p.stake.reward + increase
        /\ q.stake.lockedUntil = p.stake.lockedUntil /\ q.stake.lastUpdateAt = now
        /\ q.target.staked = p.target.staked /\ q.target.reward = p.target.reward + increase
        /\ q.target.reserve = p.target.reserve /\ q.target.limit = p.target.limit
        /\ q.target.rewardRate = p.target.rewardRate /\ q.target.tokens = p.target.tokens
    BY <2>3 DEF StakeInfo, TargetInfo
  <2>5. q.stake \in StakeInfo /\ q.target \in TargetInfo
    <3>1. p.stake.reward + increase \in Nat /\ p.target.reward + increase \in Nat
      BY <2>2, PositionParts
    <3> QED  BY <2>3, <3>1 DEF StakeInfo, TargetInfo
  <2>6. q \in [stake : StakeInfo, target : TargetInfo]  BY <2>5
  <2> HIDE DEF q
  <2>7. q \in Positions  BY <2>2, <2>4, <2>6, PositionParts DEF Positions
  <2>8. Follows(p, q)  BY <2>2, <2>4, PositionParts DEF Follows
  <2> QED  BY <2>1, <2>4, <2>7, <2>8
<1> QED  BY <1>1, <1>2

LEMMA RestakedRewardsFollow ==
  ASSUME NEW p \in Positions, now \in 1..MaxTime, MayRestakeRewards(p)
  PROVE  /\ RestakedRewards(p) \in Positions
         /\ Follows(p, RestakedRewards(p))
         /\ RestakedRewards(p).stake.staked = p.stake.staked + p.stake.reward
         /\ RestakedRewards(p).stake.reward = 0
         /\ RestakedRewards(p).target.staked + RestakedRewards(p).target.reserve =
              p.target.staked + p.target.reserve
         /\ RestakedRewards(p).stake.lockedUntil = p.stake.lockedUntil
<1> DEFINE reward == p.stake.reward
           q == [stake |-> [p.stake EXCEPT !.staked = @ + reward, !.reward = 0,
                                           !.lastUpdateAt = now],
                 target |-> [p.target EXCEPT !.staked = @ + reward, !.reward = @ - reward,
                                             !.reserve = @ - reward]]
<1>1. CASE reward = 0
  <2>1. RestakedRewards(p) = p  BY <1>1 DEF RestakedRewards
  <2> QED  BY <1>1, <2>1, FollowsItself, PositionParts
<1>2. CASE reward # 0
  <2>1. RestakedRewards(p) = q  BY <1>2 DEF RestakedRewards
  <2>2. reward <= p.target.reserve  BY <1>2 DEF MayRestakeRewards
  <2>3. p.stake \in StakeInfo /\ p.target \in TargetInfo  BY PositionParts
  <2>4. /\ q.stake.owner = p.stake.owner /\ q.stake.target = p.stake.target
        /\ q.stake.staked = p.stake.staked + reward /\ q.stake.reward = 0
        /\ q.stake.lockedUntil = p.stake.lockedUntil /\ q.stake.lastUpdateAt = now
        /\ q.target.staked = p.target.staked + reward
        /\ q.target.reward = p.target.reward - reward
        /\ q.target.reserve = p.target.reserve - reward /\ q.target.limit = p.target.limit
        /\ q.target.rewardRate = p.target.rewardRate /\ q.target.tokens = p.target.tokens
    BY <2>3 DEF StakeInfo, TargetInfo
  <2>5. q.stake \in StakeInfo /\ q.target \in TargetInfo
    <3>1. /\ p.stake.staked + reward \in Nat /\ p.target.staked + reward \in Nat
          /\ p.target.reward - reward \in Nat /\ p.target.reserve - reward \in Nat
      BY <2>2, PositionParts
    <3> HIDE DEF reward
    <3> QED  BY <2>3, <3>1 DEF StakeInfo, TargetInfo
  <2>6. q \in [stake : StakeInfo, target : TargetInfo]  BY <2>5
  <2> HIDE DEF q
  <2>7. q \in Positions  BY <2>4, <2>6, PositionParts DEF Positions
  <2>8. Follows(p, q)  BY <2>4, PositionParts DEF Follows
  <2>9. q.target.staked + q.target.reserve = p.target.staked + p.target.reserve
    BY <2>4, PositionParts
  <2> QED  BY <2>1, <2>4, <2>7, <2>8, <2>9
<1> QED  BY <1>1, <1>2

LEMMA WithStakeFollows ==
  ASSUME NEW p \in Positions, now \in 1..MaxTime, NEW amount \in Nat
  PROVE  /\ WithStake(p, amount) \in Positions
         /\ Follows(p, WithStake(p, amount))
         /\ WithStake(p, amount).stake.staked = p.stake.staked + amount
         /\ WithStake(p, amount).stake.reward = p.stake.reward
         /\ WithStake(p, amount).target.reserve = p.target.reserve
<1> DEFINE q == [stake |-> [p.stake EXCEPT !.staked = @ + amount, !.lastUpdateAt = now,
                                           !.lockedUntil = @ + p.target.lockingPeriod],
                 target |-> [p.target EXCEPT !.staked = @ + amount]]
<1>1. CASE amount = 0
  <2>1. WithStake(p, amount) = p  BY <1>1 DEF WithStake
  <2> QED  BY <1>1, <2>1, FollowsItself, PositionParts
<1>2. CASE amount # 0
  <2>1. WithStake(p, amount) = q  BY <1>2 DEF WithStake
  <2>3. p.stake \in StakeInfo /\ p.target \in TargetInfo  BY PositionParts
  <2>4. /\ q.stake.owner = p.stake.owner /\ q.stake.target = p.stake.target
        /\ q.stake.staked = p.stake.staked + amount /\ q.stake.reward = p.stake.reward
        /\ q.stake.lastUpdateAt = now
        /\ q.target.staked = p.target.staked + amount
        /\ q.target.reward = p.target.reward
        /\ q.target.reserve = p.target.reserve /\ q.target.limit = p.target.limit
        /\ q.target.rewardRate = p.target.rewardRate /\ q.target.tokens = p.target.tokens
    BY <2>3 DEF StakeInfo, TargetInfo
  <2>5. q.stake \in StakeInfo /\ q.target \in TargetInfo
    <3>1. /\ p.stake.staked + amount \in Nat /\ p.target.staked + amount \in Nat
          /\ p.stake.lockedUntil + p.target.lockingPeriod \in Nat
      BY PositionParts
    <3> QED  BY <2>3, <3>1 DEF StakeInfo, TargetInfo
  <2>6. q \in [stake : StakeInfo, target : TargetInfo]  BY <2>5
  <2> HIDE DEF q
  <2>7. q \in Positions  BY <2>4, <2>6, PositionParts DEF Positions
  <2>8. Follows(p, q)  BY <2>4, PositionParts DEF Follows
  <2> QED  BY <2>1, <2>4, <2>7, <2>8
<1> QED  BY <1>1, <1>2

LEMMA UnstakedFollows ==
  ASSUME NEW p \in Positions, now \in 1..MaxTime
  PROVE  /\ Unstaked(p) \in Positions
         /\ Follows(p, Unstaked(p))
         /\ Unstaked(p).stake.staked = 0
         /\ Unstaked(p).stake.reward = p.stake.reward
         /\ Unstaked(p).target.reserve = p.target.reserve
<1> DEFINE q == [stake |-> [p.stake EXCEPT !.staked = 0, !.lastUpdateAt = now],
                 target |-> [p.target EXCEPT !.staked = @ - p.stake.staked]]
<1>1. CASE p.stake.staked = 0
  <2>1. Unstaked(p) = p  BY <1>1 DEF Unstaked
  <2> QED  BY <1>1, <2>1, FollowsItself, PositionParts
<1>2. CASE p.stake.staked # 0
  <2>1. Unstaked(p) = q  BY <1>2 DEF Unstaked
  <2>3. p.stake \in StakeInfo /\ p.target \in TargetInfo  BY PositionParts
  <2>4. /\ q.stake.owner = p.stake.owner /\ q.stake.target = p.stake.target
        /\ q.stake.staked = 0 /\ q.stake.reward = p.stake.reward
        /\ q.stake.lastUpdateAt = now
        /\ q.target.staked = p.target.staked - p.stake.staked
        /\ q.target.reward = p.target.reward
        /\ q.target.reserve = p.target.reserve /\ q.target.limit = p.target.limit
        /\ q.target.rewardRate = p.target.rewardRate /\ q.target.tokens = p.target.tokens
    BY <2>3 DEF StakeInfo, TargetInfo
  <2>5. q.stake \in StakeInfo /\ q.target \in TargetInfo
    <3>1. p.target.staked - p.stake.staked \in Nat  BY PositionParts
    <3> QED  BY <2>3, <3>1 DEF StakeInfo, TargetInfo
  <2>6. q \in [stake : StakeInfo, target : TargetInfo]  BY <2>5
  <2> HIDE DEF q
  <2>7. q \in Positions  BY <2>4, <2>6, PositionParts DEF Positions
  <2>8. Follows(p, q)  BY <2>4, PositionParts DEF Follows
  <2> QED  BY <2>1, <2>4, <2>7, <2>8
<1> QED  BY <1>1, <1>2

\* A position that a step of the store starts with: that of a stake, or a new one.
Starts(st, tg, s, p) ==
  /\ p \in Positions
  /\ p.target = tg[p.stake.target]
  /\ p.target # NoTarget
  /\ IF st[s] = NoStake THEN p.stake.staked = 0 /\ p.stake.reward = 0
     ELSE p.stake = st[s]

\* What the contract owes because of the target of a position.
Debt(p) == p.target.staked + p.target.reserve

OwedFollows(tg, new, p, q) == Owed(new) = Owed(tg) + (Debt(q) - Debt(p))

LEMMA PositionStarts ==
  ASSUME Ledger(stake, target), NEW s \in Stakes, IsStake(s)
  PROVE  Starts(stake, target, s, Position(s))
<1> DEFINE x == stake[s]
           y == target[x.target]
<1>1. Position(s) = [stake |-> x, target |-> y]  BY DEF Position
<1>2. /\ stake \in StakeRecords /\ target \in TargetRecords
      /\ x # NoStake /\ y # NoTarget /\ x.lastUpdateAt <= now
  BY DEF Ledger, IsStake
<1>3. x \in StakeInfo  BY <1>2, StakeAmountsAreNatural
<1>4. x.target \in Targets /\ x.staked \in Nat /\ x.reward \in Nat  BY <1>3, StakeParts
<1>5. y \in TargetInfo  BY <1>2, <1>4 DEF TargetRecords
<1>6. /\ y.staked = SumUpTo(StakesAt(stake, x.target, "staked"), MaxStakes)
      /\ y.reward = SumUpTo(StakesAt(stake, x.target, "reward"), MaxStakes)
  BY <1>2, <1>4 DEF Ledger
<1>7. MaxStakes \in Nat /\ s \in 1..MaxStakes  BY StakingAssumption DEF Stakes
<1>8. x.staked <= y.staked
  <2> DEFINE a == StakesAt(stake, x.target, "staked")
  <2>1. a[s] = x.staked  BY <1>2 DEF StakesAt
  <2>2. \A i \in 1..MaxStakes : a[i] \in Nat  BY <1>2, StakesAtAreNatural DEF Stakes
  <2>3. a[s] <= SumUpTo(a, MaxStakes)
    <3> HIDE DEF a
    <3> QED  BY <1>7, <2>2, SummandBelowSum
  <2> QED  BY <1>6, <2>1, <2>3
<1>9. x.reward <= y.reward
  <2> DEFINE a == StakesAt(stake, x.target, "reward")
  <2>1. a[s] = x.reward  BY <1>2 DEF StakesAt
  <2>2. \A i \in 1..MaxStakes : a[i] \in Nat  BY <1>2, StakesAtAreNatural DEF Stakes
  <2>3. a[s] <= SumUpTo(a, MaxStakes)
    <3> HIDE DEF a
    <3> QED  BY <1>7, <2>2, SummandBelowSum
  <2> QED  BY <1>6, <2>1, <2>3
<1> HIDE DEF x, y
<1>10. Position(s) \in Positions  BY <1>1, <1>2, <1>3, <1>5, <1>8, <1>9 DEF Positions
<1> QED  BY <1>1, <1>2, <1>10 DEF Starts, x, y

LEMMA NewPositionStarts ==
  ASSUME NEW st, NEW tg, Ledger(st, tg), now \in 1..MaxTime, NEW o \in Stakers,
         NEW t \in Targets, NEW s \in Stakes, tg[t] # NoTarget, st[s] = NoStake
  PROVE  Starts(st, tg, s, NewPosition(o, t, tg[t]))
<1> DEFINE p == NewPosition(o, t, tg[t])
<1>1. p = [stake |-> [owner |-> o, target |-> t, staked |-> 0, reward |-> 0,
                      lockedUntil |-> now, lastUpdateAt |-> now], target |-> tg[t]]
  BY DEF NewPosition
<1>2. tg[t] \in TargetInfo  BY DEF Ledger, TargetRecords
<1>3. p.stake \in StakeInfo  BY <1>1 DEF StakeInfo
<1>4. /\ p.stake.target = t /\ p.stake.staked = 0 /\ p.stake.reward = 0
      /\ p.stake.lastUpdateAt = now /\ p.target = tg[t]
      /\ p \in [stake : StakeInfo, target : TargetInfo]
  BY <1>1, <1>2, <1>3
<1> HIDE DEF p
<1>5. p \in Positions
  BY <1>2, <1>4, TargetParts DEF Positions
<1>6. Starts(st, tg, s, p)  BY <1>4, <1>5 DEF Starts
<1> QED  BY <1>6 DEF p

\* What a step of the store leaves: the books agree, the terms are as before, and
\* the contract owes more by what was staked or reserved.
LEMMA PositionStored ==
  ASSUME NEW st, NEW tg, Ledger(st, tg), TermsAreKnown(tg), NEW s \in Stakes,
         NEW p, NEW q \in Positions, Starts(st, tg, s, p), Follows(p, q)
  PROVE  /\ Ledger([st EXCEPT ![s] = q.stake], [tg EXCEPT ![q.stake.target] = q.target])
         /\ TermsAreKnown([tg EXCEPT ![q.stake.target] = q.target])
         /\ OwedFollows(tg, [tg EXCEPT ![q.stake.target] = q.target], p, q)
<1> DEFINE x == q.stake
           y == q.target
           t == x.target
<1>1. /\ p \in Positions
      /\ p.target = tg[p.stake.target] /\ p.target # NoTarget
      /\ IF st[s] = NoStake THEN p.stake.staked = 0 /\ p.stake.reward = 0
         ELSE p.stake = st[s]
  BY DEF Starts
<1>2. /\ t = p.stake.target
      /\ y.rewardRate = p.target.rewardRate /\ y.tokens = p.target.tokens
      /\ y.staked - p.target.staked = x.staked - p.stake.staked
      /\ y.reward - p.target.reward = x.reward - p.stake.reward
  BY DEF Follows
<1>3. x \in StakeInfo /\ y \in TargetInfo /\ x.lastUpdateAt <= now /\ t \in Targets
  BY PositionParts
<1>4. tg[t] = p.target /\ tg[t] # NoTarget  BY <1>1, <1>2
<1>5. st \in StakeRecords /\ tg \in TargetRecords  BY DEF Ledger
<1>6. p.stake.staked = st[s].staked /\ p.stake.reward = st[s].reward
  BY <1>1, <1>5, StakeAmountsAreNatural
<1>7. st[s] # NoStake => st[s].target = t  BY <1>1, <1>2
<1>8. /\ y.staked - tg[t].staked = x.staked - st[s].staked
      /\ y.reward - tg[t].reward = x.reward - st[s].reward
  BY <1>2, <1>4, <1>6
<1> HIDE DEF x, y
<1>9. Ledger([st EXCEPT ![s] = x], [tg EXCEPT ![t] = y])
  BY <1>3, <1>4, <1>7, <1>8, LedgerAfterStore
<1>10. TermsAreKnown([tg EXCEPT ![t] = y])
  <2>1. ASSUME NEW u \in Targets, [tg EXCEPT ![t] = y][u] # NoTarget
        PROVE  LET z == [tg EXCEPT ![t] = y][u]
               IN  z.rewardRate \in Rates /\ \A k \in z.tokens : IsKnown(k)
    <3>1. CASE u = t
      <4>1. [tg EXCEPT ![t] = y][u] = y  BY <3>1, <1>3, <1>5 DEF TargetRecords
      <4>2. tg[t].rewardRate \in Rates /\ \A k \in tg[t].tokens : IsKnown(k)
        BY <1>3, <1>4 DEF TermsAreKnown
      <4> QED  BY <4>1, <4>2, <1>2, <1>4
    <3>2. CASE u # t
      <4>1. [tg EXCEPT ![t] = y][u] = tg[u]  BY <3>2, <1>3, <1>5 DEF TargetRecords
      <4> QED  BY <4>1, <2>1 DEF TermsAreKnown
    <3> QED  BY <3>1, <3>2
  <2> QED  BY <2>1 DEF TermsAreKnown
<1>11. /\ Owed([tg EXCEPT ![t] = y]) = Owed(tg) + (Debt(q) - Debt(p))
       /\ Owed(tg) \in Nat
  <2>1. /\ Owed([tg EXCEPT ![t] = y]) = Owed(tg) + (y.staked + y.reserve) -
             (p.target.staked + p.target.reserve)
        /\ Owed(tg) \in Nat
    BY <1>3, <1>4, <1>5, OwedAfterStore
  <2>2. y.staked + y.reserve \in Nat /\ p.target.staked + p.target.reserve \in Nat
    BY <1>1, <1>3, TargetParts, PositionParts
  <2>3. Debt(q) = y.staked + y.reserve /\ Debt(p) = p.target.staked + p.target.reserve
    BY DEF Debt, y
  <2> QED  BY <2>1, <2>2, <2>3
<1> QED  BY <1>9, <1>10, <1>11 DEF x, y, OwedFollows

----------------------------------------------------------------------------
(* Actions of stakers                                                      *)

\* What no action of a staker touches.
OthersUnchanged == UNCHANGED <<support, stakingRate, tvl, triggers, changes, now, earnable>>

LEMMA SoundParts ==
  ASSUME StakingIsSound
  PROVE  /\ OthersAreTyped
         /\ now \in 1..MaxTime
         /\ wallet \in [Stakers -> Nat]
         /\ Ledger(stake, target)
         /\ stake \in StakeRecords /\ target \in TargetRecords
         /\ TermsAreKnown(target)
         /\ stakingWallet = Owed(target)
         /\ stakingWallet \in Nat
BY OwedIsNatural DEF StakingIsSound, OthersAreTyped, Ledger

LEMMA BooksKeepSound ==
  ASSUME StakingIsSound, OthersUnchanged, wallet' \in [Stakers -> Nat],
         Ledger(stake', target'), TermsAreKnown(target'), stakingWallet' = Owed(target')
  PROVE  StakingIsSound'
<1>1. OthersAreTyped'  BY SoundParts DEF OthersAreTyped, OthersUnchanged
<1>2. now' = now /\ stakingRate' = stakingRate  BY DEF OthersUnchanged
<1>3. Ledger(stake, target)'  BY <1>2 DEF Ledger
<1>4. TermsAreKnown(target)'  BY <1>2 DEF TermsAreKnown, IsKnown
<1> QED  BY <1>1, <1>3, <1>4 DEF StakingIsSound, Owed, OwedTo

LEMMA StoreKeepsSound ==
  ASSUME StakingIsSound, OthersUnchanged, wallet' \in [Stakers -> Nat],
         NEW s \in Stakes, NEW p, NEW q \in Positions,
         Starts(stake, target, s, p), Follows(p, q), Store(s, q),
         stakingWallet' = stakingWallet + (Debt(q) - Debt(p))
  PROVE  StakingIsSound'
<1>1. /\ stake' = [stake EXCEPT ![s] = q.stake]
      /\ target' = [target EXCEPT ![q.stake.target] = q.target]
  BY DEF Store
<1>2. Ledger(stake', target') /\ TermsAreKnown(target')
  BY <1>1, SoundParts, PositionStored
<1>3. stakingWallet' = Owed(target')
  <2> DEFINE new == [target EXCEPT ![q.stake.target] = q.target]
  <2>1. OwedFollows(target, new, p, q)
    <3>1. Ledger(stake, target) /\ TermsAreKnown(target)  BY SoundParts
    <3> QED  BY <3>1, PositionStored
  <2>2. target' = new  BY <1>1
  <2>3. stakingWallet = Owed(target)  BY SoundParts
  <2> HIDE DEF new
  <2> QED  BY <2>1, <2>2, <2>3 DEF OwedFollows
<1> QED  BY <1>2, <1>3, BooksKeepSound

LEMMA UpdatedFollows ==
  ASSUME StakingIsSound, NEW s \in Stakes, IsStake(s), MayUpdate(s)
  PROVE  /\ Position(s) \in Positions
         /\ Starts(stake, target, s, Position(s))
         /\ Updated(s) \in Positions
         /\ Follows(Position(s), Updated(s))
         /\ Updated(s).stake.reward = 0
         /\ Debt(Updated(s)) = Debt(Position(s))
         /\ Updated(s).stake.staked >= Position(s).stake.staked
         /\ Updated(s).stake.lockedUntil = Position(s).stake.lockedUntil
<1> DEFINE p == Position(s)
           q == UpdatedRewards(p)
           r == RestakedRewards(q)
<1>1. Starts(stake, target, s, p) /\ now \in 1..MaxTime  BY SoundParts, PositionStarts
<1>2. p \in Positions  BY <1>1 DEF Starts
<1>3. Updated(s) = r /\ MayRestakeRewards(q)  BY DEF Updated, MayUpdate
<1> HIDE DEF p
<1>4. /\ q \in Positions /\ Follows(p, q)
      /\ q.stake.staked = p.stake.staked /\ q.target.reserve = p.target.reserve
      /\ q.stake.lockedUntil = p.stake.lockedUntil
  BY <1>1, <1>2, UpdatedRewardsFollow
<1> HIDE DEF q
<1>5. /\ r \in Positions /\ Follows(q, r)
      /\ r.stake.staked = q.stake.staked + q.stake.reward /\ r.stake.reward = 0
      /\ r.target.staked + r.target.reserve = q.target.staked + q.target.reserve
      /\ r.stake.lockedUntil = q.stake.lockedUntil
  BY <1>1, <1>3, <1>4, RestakedRewardsFollow
<1> HIDE DEF r
<1>6. Follows(p, r)  BY <1>2, <1>4, <1>5, FollowsIsTransitive
<1>7. q.target.staked = p.target.staked
  BY <1>2, <1>4, PositionParts DEF Follows
<1>8. r.stake.staked >= p.stake.staked
  BY <1>2, <1>4, <1>5, PositionParts
<1> QED  BY <1>1, <1>2, <1>3, <1>4, <1>5, <1>6, <1>7, <1>8 DEF p, Debt

LEMMA PullDipParts ==
  ASSUME wallet \in [Stakers -> Nat], NEW o \in Stakers, NEW amount \in Nat, PullDip(o, amount)
  PROVE  wallet' \in [Stakers -> Nat] /\ stakingWallet' = stakingWallet + amount
BY DEF PullDip

LEMMA PushDipParts ==
  ASSUME wallet \in [Stakers -> Nat], NEW o \in Stakers, NEW amount \in Nat, PushDip(o, amount)
  PROVE  wallet' \in [Stakers -> Nat] /\ stakingWallet' = stakingWallet - amount
BY DEF PushDip

LEMMA CreateStakeKeepsSound ==
  ASSUME StakingIsSound, OthersUnchanged, NEW s \in Stakes, NEW t \in Targets,
         NEW o \in Stakers, NEW amount \in StakeAmounts, CreateStake(s, t, o, amount)
  PROVE  StakingIsSound'
<1> DEFINE p == NewPosition(o, t, target[t])
           q == WithStake(p, amount)
<1>1. /\ stake[s] = NoStake /\ target[t] # NoTarget
      /\ Store(s, q) /\ PullDip(o, amount)
  BY DEF CreateStake, IsNext, IsStake, IsTarget
<1>2. amount \in Nat  BY StakingAssumption
<1>3. Starts(stake, target, s, p)  BY <1>1, SoundParts, NewPositionStarts
<1>4. p \in Positions  BY <1>3 DEF Starts
<1> HIDE DEF p
<1>5. /\ q \in Positions /\ Follows(p, q)
      /\ q.stake.staked = p.stake.staked + amount
      /\ q.target.reserve = p.target.reserve
  BY <1>2, <1>4, SoundParts, WithStakeFollows
<1> HIDE DEF q
<1>6. Debt(q) - Debt(p) = amount
  BY <1>2, <1>4, <1>5, PositionParts DEF Follows, Debt
<1>7. wallet' \in [Stakers -> Nat] /\ stakingWallet' = stakingWallet + amount
  BY <1>1, <1>2, SoundParts, PullDipParts
<1>8. stakingWallet' = stakingWallet + (Debt(q) - Debt(p))  BY <1>6, <1>7
<1> QED  BY <1>1, <1>3, <1>5, <1>7, <1>8, StoreKeepsSound

LEMMA StakeKeepsSound ==
  ASSUME StakingIsSound, OthersUnchanged, NEW s \in Stakes,
         NEW amount \in StakeAmounts \union {0}, Stake(s, amount)
  PROVE  StakingIsSound'
<1> DEFINE p == Position(s)
           u == Updated(s)
           q == WithStake(u, amount)
           o == stake[s].owner
<1>1. /\ IsStake(s) /\ MayUpdate(s)
      /\ Store(s, q) /\ PullDip(o, amount)
  BY DEF Stake
<1>2. amount \in Nat  BY StakingAssumption
<1>3. o \in Stakers  BY <1>1, SoundParts, StakeAmountsAreNatural, StakeParts DEF IsStake
<1>4. /\ p \in Positions /\ Starts(stake, target, s, p)
      /\ u \in Positions /\ Follows(p, u) /\ Debt(u) = Debt(p)
  BY <1>1, UpdatedFollows
<1> HIDE DEF p, u, o
<1>5. /\ q \in Positions /\ Follows(u, q)
      /\ q.stake.staked = u.stake.staked + amount
      /\ q.target.reserve = u.target.reserve
  BY <1>2, <1>4, SoundParts, WithStakeFollows
<1> HIDE DEF q
<1>6. Follows(p, q)  BY <1>4, <1>5, FollowsIsTransitive
<1>7. Debt(q) - Debt(u) = amount
  BY <1>2, <1>4, <1>5, PositionParts DEF Follows, Debt
<1>8. wallet' \in [Stakers -> Nat] /\ stakingWallet' = stakingWallet + amount
  BY <1>1, <1>2, <1>3, SoundParts, PullDipParts
<1>9. stakingWallet' = stakingWallet + (Debt(q) - Debt(p))  BY <1>4, <1>7, <1>8
<1> QED  BY <1>1, <1>4, <1>5, <1>6, <1>8, <1>9, StoreKeepsSound

LEMMA UnstakeKeepsSound ==
  ASSUME StakingIsSound, OthersUnchanged, NEW s \in Stakes, Unstake(s)
  PROVE  StakingIsSound'
<1> DEFINE p == Position(s)
           u == Updated(s)
           q == Unstaked(u)
           o == stake[s].owner
           amount == u.stake.staked
<1>1. /\ IsStake(s) /\ MayUpdate(s)
      /\ Store(s, q) /\ PushDip(o, amount)
  BY DEF Unstake
<1>3. o \in Stakers  BY <1>1, SoundParts, StakeAmountsAreNatural, StakeParts DEF IsStake
<1>4. /\ p \in Positions /\ Starts(stake, target, s, p)
      /\ u \in Positions /\ Follows(p, u) /\ Debt(u) = Debt(p)
  BY <1>1, UpdatedFollows
<1> HIDE DEF p, u, o
<1>2. amount \in Nat  BY <1>4, PositionParts
<1>5. /\ q \in Positions /\ Follows(u, q)
      /\ q.stake.staked = 0
      /\ q.target.reserve = u.target.reserve
  BY <1>4, SoundParts, UnstakedFollows
<1> HIDE DEF q
<1>6. Follows(p, q)  BY <1>4, <1>5, FollowsIsTransitive
<1>7. Debt(q) = Debt(u) - amount /\ Debt(u) \in Nat
  <2>1. /\ u.target.staked \in Nat /\ u.target.reserve \in Nat
        /\ q.target.staked \in Nat /\ u.stake.staked \in Nat
    BY <1>4, <1>5, PositionParts
  <2>2. q.target.staked - u.target.staked = q.stake.staked - u.stake.staked
    BY <1>5 DEF Follows
  <2>3. q.target.staked = u.target.staked - u.stake.staked  BY <1>5, <2>1, <2>2
  <2> QED  BY <1>5, <2>1, <2>3 DEF Debt
<1> HIDE DEF amount
<1>8. wallet' \in [Stakers -> Nat] /\ stakingWallet' = stakingWallet - amount
  BY <1>1, <1>2, <1>3, SoundParts, PushDipParts
<1>9. stakingWallet' = stakingWallet + (Debt(q) - Debt(p))
  <2>1. stakingWallet \in Nat  BY SoundParts
  <2> QED  BY <1>2, <1>4, <1>7, <1>8, <2>1
<1> QED  BY <1>1, <1>4, <1>5, <1>6, <1>8, <1>9, StoreKeepsSound

LEMMA UpdateRewardsKeepsSound ==
  ASSUME StakingIsSound, OthersUnchanged, NEW s \in Stakes, UpdateRewards(s)
  PROVE  StakingIsSound'
<1> DEFINE p == Position(s)
           q == UpdatedRewards(p)
<1>1. /\ IsStake(s) /\ Store(s, q)
      /\ wallet' = wallet /\ stakingWallet' = stakingWallet
  BY DEF UpdateRewards
<1>2. Starts(stake, target, s, p)  BY <1>1, SoundParts, PositionStarts
<1>3. p \in Positions  BY <1>2 DEF Starts
<1> HIDE DEF p
<1>4. /\ q \in Positions /\ Follows(p, q)
      /\ q.stake.staked = p.stake.staked
      /\ q.target.reserve = p.target.reserve
  BY <1>3, SoundParts, UpdatedRewardsFollow
<1> HIDE DEF q
<1>5. Debt(q) = Debt(p) /\ Debt(p) \in Nat
  BY <1>3, <1>4, PositionParts DEF Follows, Debt
<1>6. stakingWallet' = stakingWallet + (Debt(q) - Debt(p)) /\ wallet' \in [Stakers -> Nat]
  BY <1>1, <1>5, SoundParts
<1> QED  BY <1>1, <1>2, <1>4, <1>6, StoreKeepsSound

\* A position whose rewards have been paid out of the reserves.
Claimed(p) ==
  [stake |-> [p.stake EXCEPT !.reward = 0,
                !.lastUpdateAt = IF p.stake.reward = 0 THEN @ ELSE now],
   target |-> [p.target EXCEPT !.reward = @ - p.stake.reward,
                               !.reserve = @ - p.stake.reward]]

LEMMA ClaimedFollows ==
  ASSUME NEW p \in Positions, now \in 1..MaxTime, p.stake.reward <= p.target.reserve
  PROVE  /\ Claimed(p) \in Positions
         /\ Follows(p, Claimed(p))
         /\ Claimed(p).stake.staked = p.stake.staked
         /\ Claimed(p).stake.reward = 0
         /\ Claimed(p).stake.lockedUntil = p.stake.lockedUntil
         /\ Claimed(p).target.reserve = p.target.reserve - p.stake.reward
         /\ Claimed(p).stake.lastUpdateAt =
              IF p.stake.reward = 0 THEN p.stake.lastUpdateAt ELSE now
<1> DEFINE q == Claimed(p)
           reward == p.stake.reward
<1>1. p.stake \in StakeInfo /\ p.target \in TargetInfo  BY PositionParts
<1>2. /\ q.stake.owner = p.stake.owner /\ q.stake.target = p.stake.target
      /\ q.stake.staked = p.stake.staked /\ q.stake.reward = 0
      /\ q.stake.lockedUntil = p.stake.lockedUntil
      /\ q.stake.lastUpdateAt = IF p.stake.reward = 0 THEN p.stake.lastUpdateAt ELSE now
      /\ q.target.staked = p.target.staked /\ q.target.reward = p.target.reward - reward
      /\ q.target.reserve = p.target.reserve - reward /\ q.target.limit = p.target.limit
      /\ q.target.rewardRate = p.target.rewardRate /\ q.target.tokens = p.target.tokens
  BY <1>1 DEF StakeInfo, TargetInfo, Claimed
<1>3. q.stake \in StakeInfo /\ q.target \in TargetInfo
  <2>1. p.target.reward - reward \in Nat /\ p.target.reserve - reward \in Nat
    BY PositionParts
  <2>2. (IF reward = 0 THEN p.stake.lastUpdateAt ELSE now) \in 1..MaxTime
    BY PositionParts
  <2> QED  BY <1>1, <2>1, <2>2 DEF StakeInfo, TargetInfo, Claimed
<1>4. q \in [stake : StakeInfo, target : TargetInfo]  BY <1>3 DEF Claimed
<1> HIDE DEF q
<1>5. q \in Positions  BY <1>2, <1>4, PositionParts DEF Positions
<1>6. Follows(p, q)  BY <1>2, PositionParts DEF Follows
<1> QED  BY <1>2, <1>5, <1>6 DEF q

LEMMA ClaimRewardsKeepsSound ==
  ASSUME StakingIsSound, OthersUnchanged, NEW s \in Stakes, ClaimRewards(s)
  PROVE  StakingIsSound'
<1> DEFINE p == Position(s)
           u == UpdatedRewards(p)
           q == Claimed(u)
           o == stake[s].owner
           amount == u.stake.reward
<1>1. /\ IsStake(s) /\ amount <= u.target.reserve
      /\ Store(s, q) /\ PushDip(o, amount)
  BY DEF ClaimRewards, Claimed
<1>2. Starts(stake, target, s, p)  BY <1>1, SoundParts, PositionStarts
<1>3. p \in Positions  BY <1>2 DEF Starts
<1>4. o \in Stakers  BY <1>1, SoundParts, StakeAmountsAreNatural, StakeParts DEF IsStake
<1> HIDE DEF p, o
<1>5. /\ u \in Positions /\ Follows(p, u)
      /\ u.stake.staked = p.stake.staked
      /\ u.target.reserve = p.target.reserve
  BY <1>3, SoundParts, UpdatedRewardsFollow
<1> HIDE DEF u
<1>6. /\ q \in Positions /\ Follows(u, q)
      /\ q.stake.staked = u.stake.staked
      /\ q.target.reserve = u.target.reserve - amount
  BY <1>1, <1>5, SoundParts, ClaimedFollows
<1> HIDE DEF q
<1>7. Follows(p, q)  BY <1>3, <1>5, <1>6, FollowsIsTransitive
<1>8. amount \in Nat /\ Debt(q) = Debt(p) - amount /\ Debt(p) \in Nat
  <2>1. /\ p.target.staked \in Nat /\ p.target.reserve \in Nat /\ amount \in Nat
        /\ u.target.staked \in Nat /\ q.target.staked \in Nat /\ p.stake.staked \in Nat
    BY <1>3, <1>5, <1>6, PositionParts
  <2>2. /\ u.target.staked - p.target.staked = u.stake.staked - p.stake.staked
        /\ q.target.staked - u.target.staked = q.stake.staked - u.stake.staked
    BY <1>5, <1>6 DEF Follows
  <2>3. q.target.staked = p.target.staked
    <3>1. u.stake.staked - p.stake.staked = 0 /\ q.stake.staked - u.stake.staked = 0
      BY <1>5, <1>6, <2>1
    <3>2. u.target.staked - p.target.staked = 0 /\ q.target.staked - u.target.staked = 0
      BY <2>2, <3>1
    <3> QED  BY <2>1, <3>2
  <2>4. q.target.reserve = p.target.reserve - amount  BY <1>5, <1>6
  <2> HIDE DEF amount
  <2> QED  BY <2>1, <2>3, <2>4 DEF Debt
<1> HIDE DEF amount
<1>9. wallet' \in [Stakers -> Nat] /\ stakingWallet' = stakingWallet - amount
  BY <1>1, <1>4, <1>8, SoundParts, PushDipParts
<1>10. stakingWallet' = stakingWallet + (Debt(q) - Debt(p))
  <2>1. stakingWallet \in Nat  BY SoundParts
  <2> QED  BY <1>8, <1>9, <2>1
<1> QED  BY <1>1, <1>2, <1>6, <1>7, <1>9, <1>10, StoreKeepsSound

LEMMA RestakeKeepsSound ==
  ASSUME StakingIsSound, OthersUnchanged, NEW s \in Stakes, NEW new \in Stakes,
         NEW t \in Targets, Restake(s, new, t)
  PROVE  StakingIsSound'
<1> DEFINE p == Position(s)
           u == Updated(s)
           old == Unstaked(u)
           amount == u.stake.staked
           o == stake[s].owner
           emptied == [stake EXCEPT ![s] = old.stake]
           left == [target EXCEPT ![stake[s].target] = old.target]
           fresh == NewPosition(o, t, left[t])
           q == WithStake(fresh, amount)
<1>1. /\ IsStake(s) /\ ~IsStake(new) /\ IsTarget(t) /\ MayUpdate(s)
      /\ stake' = [stake EXCEPT ![s] = old.stake, ![new] = q.stake]
      /\ target' = [left EXCEPT ![t] = q.target]
      /\ wallet' = wallet /\ stakingWallet' = stakingWallet
  BY DEF Restake, IsNext
<1>2. /\ now \in 1..MaxTime /\ stake \in StakeRecords /\ target \in TargetRecords
      /\ Ledger(stake, target) /\ TermsAreKnown(target) /\ stakingWallet = Owed(target)
      /\ stakingWallet \in Nat /\ wallet \in [Stakers -> Nat]
  BY SoundParts
<1>3. o \in Stakers  BY <1>1, <1>2, StakeAmountsAreNatural, StakeParts DEF IsStake
<1>4. /\ p \in Positions /\ Starts(stake, target, s, p)
      /\ u \in Positions /\ Follows(p, u) /\ Debt(u) = Debt(p)
  BY <1>1, UpdatedFollows
<1>5. p.stake.target = stake[s].target  BY DEF Position
<1> HIDE DEF p, u, o
<1>6. /\ old \in Positions /\ Follows(u, old)
      /\ old.stake.staked = 0 /\ old.target.reserve = u.target.reserve
  BY <1>2, <1>4, UnstakedFollows
<1>7. amount \in Nat  BY <1>4, PositionParts
<1> HIDE DEF old
<1>8. Follows(p, old) /\ old.stake.target = stake[s].target
  BY <1>4, <1>5, <1>6, FollowsIsTransitive DEF Follows
<1>9. Debt(old) = Debt(p) - amount /\ Debt(p) \in Nat
  BY <1>4, <1>6, PositionParts DEF Follows, Debt
<1>10. Ledger(emptied, left) /\ TermsAreKnown(left) /\ OwedFollows(target, left, p, old)
  BY <1>2, <1>4, <1>6, <1>8, PositionStored
<1>11. left[t] # NoTarget /\ emptied[new] = NoStake /\ s # new
  <2>1. old.target # NoTarget  BY <1>6, PositionParts, RecordsAreDistinct
  <2>2. stake[new] = NoStake /\ stake[s] # NoStake /\ target[t] # NoTarget
    BY <1>1 DEF IsStake, IsTarget
  <2> QED  BY <1>2, <2>1, <2>2 DEF StakeRecords, TargetRecords
<1>12. stake' = [emptied EXCEPT ![new] = q.stake]
  BY <1>1, <1>11
<1> HIDE DEF emptied, left
<1>13. Starts(emptied, left, new, fresh)
  BY <1>2, <1>3, <1>10, <1>11, NewPositionStarts
<1>14. fresh \in Positions /\ fresh.stake.target = t
  BY <1>13 DEF Starts, NewPosition
<1> HIDE DEF fresh, amount
<1>15. /\ q \in Positions /\ Follows(fresh, q)
       /\ q.stake.staked = fresh.stake.staked + amount
       /\ q.target.reserve = fresh.target.reserve
  BY <1>2, <1>7, <1>14, WithStakeFollows
<1> HIDE DEF q
<1>16. q.stake.target = t  BY <1>14, <1>15 DEF Follows
<1>17. Debt(q) = Debt(fresh) + amount /\ Debt(fresh) \in Nat
  BY <1>7, <1>14, <1>15, PositionParts DEF Follows, Debt
<1>18. Ledger(stake', target') /\ TermsAreKnown(target')
       /\ OwedFollows(left, target', fresh, q)
  <2>1. target' = [left EXCEPT ![q.stake.target] = q.target]  BY <1>1, <1>16
  <2> QED  BY <1>10, <1>12, <1>13, <1>15, <2>1, PositionStored
<1>19. stakingWallet' = Owed(target')
  <2>1. Owed(left) = Owed(target) - amount
    BY <1>2, <1>7, <1>9, <1>10 DEF OwedFollows
  <2>2. Owed(target') = Owed(left) + amount
    <3>1. Debt(q) - Debt(fresh) = amount  BY <1>7, <1>17
    <3> QED  BY <1>18, <3>1 DEF OwedFollows
  <2> QED  BY <1>1, <1>2, <1>7, <2>1, <2>2
<1> QED  BY <1>1, <1>2, <1>18, <1>19, BooksKeepSound

LEMMA StakeNextKeepsSound ==
  ASSUME StakingIsSound, StakeNext, OthersUnchanged
  PROVE  StakingIsSound'
BY CreateStakeKeepsSound, StakeKeepsSound, UnstakeKeepsSound, UpdateRewardsKeepsSound,
   ClaimRewardsKeepsSound, RestakeKeepsSound DEF StakeNext

----------------------------------------------------------------------------
(* Actions on targets                                                      *)

StakersUnchanged == UNCHANGED <<stakeVars, now, earnable>>

\* No token is forgotten.
TokensStayKnown == \A k \in Tokens : IsKnown(k) => IsKnown(k)'

Reserved(y) == IF y = NoTarget THEN 0 ELSE y.reserve

LEMMA TargetTypes ==
  ASSUME StakingIsSound, NEW t \in Targets, IsTarget(t)
  PROVE  /\ target \in TargetRecords /\ target[t] \in TargetInfo
         /\ target[t].rewardRate \in Rates
         /\ \A k \in target[t].tokens : k \in Tokens /\ IsKnown(k)
<1>1. target \in TargetRecords /\ TermsAreKnown(target)  BY SoundParts
<1>2. target[t] \in TargetInfo  BY <1>1 DEF TargetRecords, IsTarget
<1>3. target[t].tokens \in SUBSET Tokens  BY <1>2, TargetParts
<1> QED  BY <1>1, <1>2, <1>3 DEF TermsAreKnown, IsTarget

\* One target changes what does not depend on its stakes.
LEMMA TargetStepKeepsSound ==
  ASSUME StakingIsSound, StakersUnchanged, OthersAreTyped', TokensStayKnown,
         NEW t \in Targets, NEW y \in TargetInfo, target' = [target EXCEPT ![t] = y],
         IF target[t] = NoTarget THEN y.staked = 0 /\ y.reward = 0
         ELSE y.staked = target[t].staked /\ y.reward = target[t].reward,
         y.rewardRate \in Rates, \A k \in y.tokens : IsKnown(k)',
         stakingWallet' = stakingWallet + (y.reserve - Reserved(target[t]))
  PROVE  StakingIsSound'
<1>1. Ledger(stake, target) /\ target \in TargetRecords /\ TermsAreKnown(target)
      /\ stakingWallet = Owed(target)
  BY SoundParts
<1>2. now' = now /\ stake' = stake  BY DEF StakersUnchanged, stakeVars
<1>3. Ledger(stake, target)'
  <2>1. Ledger(stake, target')  BY <1>1, LedgerAfterTerms
  <2> QED  BY <1>2, <2>1 DEF Ledger
<1>4. TermsAreKnown(target)'
  <2>1. ASSUME NEW u \in Targets, target'[u] # NoTarget
        PROVE  target'[u].rewardRate \in Rates /\ \A k \in target'[u].tokens : IsKnown(k)'
    <3>1. CASE u = t
      <4>1. target'[u] = y  BY <3>1, <1>1 DEF TargetRecords
      <4> QED  BY <4>1
    <3>2. CASE u # t
      <4>1. target'[u] = target[u] /\ target[u] \in TargetInfo
        BY <3>2, <1>1, <2>1 DEF TargetRecords
      <4>2. target[u].tokens \in SUBSET Tokens  BY <4>1, TargetParts
      <4> QED  BY <4>1, <4>2, <1>1, <2>1 DEF TermsAreKnown, TokensStayKnown
    <3> QED  BY <3>1, <3>2
  <2> QED  BY <2>1 DEF TermsAreKnown
<1>5. stakingWallet' = Owed(target')
  <2> DEFINE x == target[t]
             debt == IF x # NoTarget THEN x.staked + x.reserve ELSE 0
  <2>1. Owed(target') = Owed(target) + (y.staked + y.reserve) - debt /\ Owed(target) \in Nat
    BY <1>1, OwedAfterStore
  <2>2. y.staked \in Nat /\ y.reserve \in Nat  BY TargetParts
  <2>3. CASE x = NoTarget
    BY <2>1, <2>2, <2>3, <1>1 DEF Reserved
  <2>4. CASE x # NoTarget
    <3>1. x.staked \in Nat /\ x.reserve \in Nat  BY <2>4, <1>1, TargetParts DEF TargetRecords
    <3>2. y.staked = x.staked /\ Reserved(x) = x.reserve  BY <2>4 DEF Reserved
    <3>3. debt = x.staked + x.reserve  BY <2>4
    <3> HIDE DEF x, debt
    <3>4. Owed(target') = Owed(target) + (y.reserve - x.reserve)
      BY <2>1, <2>2, <3>1, <3>2, <3>3
    <3> QED  BY <3>2, <3>4, <1>1 DEF x
  <2> QED  BY <2>3, <2>4
<1> QED  BY <1>3, <1>4, <1>5 DEF StakingIsSound, Owed, OwedTo

LEMMA QuietStepKeepsSound ==
  ASSUME StakingIsSound, StakersUnchanged, OthersAreTyped', TokensStayKnown,
         target' = target, stakingWallet' = stakingWallet
  PROVE  StakingIsSound'
<1>1. now' = now /\ stake' = stake  BY DEF StakersUnchanged, stakeVars
<1>2. Ledger(stake, target)'  BY <1>1, SoundParts DEF Ledger
<1>3. TermsAreKnown(target)'
  <2>1. ASSUME NEW u \in Targets, target[u] # NoTarget
        PROVE  target[u].rewardRate \in Rates /\ \A k \in target[u].tokens : IsKnown(k)'
    BY <2>1, TargetTypes DEF TokensStayKnown, IsTarget
  <2> QED  BY <2>1 DEF TermsAreKnown
<1> QED  BY <1>2, <1>3, SoundParts DEF StakingIsSound, Owed, OwedTo

LEMMA LimitType ==
  ASSUME StakingIsSound, NEW t \in Targets, IsTarget(t),
         NEW balances \in [Tokens -> [amount : 0..MaxAmount, baseline : 0..MaxAmount,
                                      updates : 0..MaxUpdates]]
  PROVE  UpdatedLimit(t, balances) \in 0..MaxAmount
<1> DEFINE a == [k \in Tokens |->
                  IF k \in target[t].tokens
                  THEN RoundHalfUp(balances[k].amount * stakingRate[k], Unit) ELSE 0]
<1>1. ASSUME NEW k \in Tokens
      PROVE  a[k] \in Nat
  <2>1. CASE k \in target[t].tokens
    <3>1. stakingRate[k] \in Nat
      <4>1. stakingRate[k] # Unknown  BY <2>1, TargetTypes DEF IsKnown
      <4> QED  BY <4>1, SoundParts DEF OthersAreTyped
    <3>2. balances[k].amount \in Nat  BY StakingTargetsAssumption
    <3>3. balances[k].amount * stakingRate[k] \in Nat  BY <3>1, <3>2, ProductType
    <3>4. Unit \in Nat \ {0}  BY DEF Unit
    <3> QED  BY <3>3, <3>4, <2>1, RoundHalfUpType
  <2>2. CASE k \notin target[t].tokens
    BY <2>2
  <2> QED  BY <2>1, <2>2
<1>2. MaxTokens \in Nat /\ \A k \in 1..MaxTokens : a[k] \in Nat
  BY <1>1, StakingTargetsAssumption DEF Tokens
<1>3. RequiredStakeBalance(t, balances) = SumUpTo(a, MaxTokens)
  BY DEF RequiredStakeBalance
<1> HIDE DEF a
<1>4. RequiredStakeBalance(t, balances) \in Nat  BY <1>2, <1>3, SumIsNatural
<1>5. target[t].margin \in 0..MaxAmount /\ target[t].hardLimit \in 0..MaxAmount
  BY TargetTypes, TargetParts
<1> QED  BY <1>4, <1>5, StakingTargetsAssumption DEF UpdatedLimit

\* The setters of the terms of a target.
LEMMA SetTargetKeepsSound ==
  ASSUME StakingIsSound, StakersUnchanged, NEW t \in Targets, IsTarget(t),
         NEW y \in TargetInfo, SetTarget(t, y),
         y.staked = target[t].staked, y.reward = target[t].reward,
         y.tokens = target[t].tokens, y.rewardRate \in Rates,
         stakingWallet' = stakingWallet + (y.reserve - target[t].reserve)
  PROVE  StakingIsSound'
<1>1. /\ changes < MaxChanges /\ changes' = changes + 1
      /\ target' = [target EXCEPT ![t] = y]
      /\ UNCHANGED <<support, stakingRate, tvl, triggers>>
  BY DEF SetTarget, Change
<1>2. OthersAreTyped'
  BY <1>1, SoundParts, StakingTargetsAssumption DEF OthersAreTyped, StakersUnchanged, stakeVars
<1>3. TokensStayKnown  BY <1>1 DEF TokensStayKnown, IsKnown
<1>4. \A k \in y.tokens : IsKnown(k)'
  BY <1>1, TargetTypes DEF IsKnown
<1>5. target[t] # NoTarget /\ Reserved(target[t]) = target[t].reserve
  BY DEF IsTarget, Reserved
<1> QED  BY <1>1, <1>2, <1>3, <1>4, <1>5, TargetStepKeepsSound

LEMMA SetterKeepsSound ==
  ASSUME StakingIsSound, StakersUnchanged, NEW t \in Targets, IsTarget(t),
         NEW y \in TargetInfo, SetTarget(t, y), stakingWallet' = stakingWallet,
         y.staked = target[t].staked, y.reward = target[t].reward,
         y.tokens = target[t].tokens, y.rewardRate \in Rates,
         y.reserve = target[t].reserve
  PROVE  StakingIsSound'
<1>1. stakingWallet' = stakingWallet + (y.reserve - target[t].reserve)
  <2>1. target[t].reserve \in Nat /\ stakingWallet \in Nat
    BY TargetTypes, TargetParts, SoundParts
  <2> QED  BY <2>1
<1> QED  BY <1>1, SetTargetKeepsSound

LEMMA ParametersKeepSound ==
  ASSUME StakingIsSound, StakersUnchanged, ParametersNext
  PROVE  StakingIsSound'
<1>1. ASSUME NEW type \in Types, NEW info \in Supports, SetSupportInfo(type, info)
      PROVE  StakingIsSound'
  <2>1. OthersAreTyped'
    BY <1>1, SoundParts, StakingTargetsAssumption
       DEF SetSupportInfo, Change, OthersAreTyped, StakersUnchanged, stakeVars
  <2>2. TokensStayKnown /\ target' = target /\ stakingWallet' = stakingWallet
    BY <1>1 DEF SetSupportInfo, TokensStayKnown, IsKnown
  <2> QED  BY <2>1, <2>2, QuietStepKeepsSound
<1>2. ASSUME NEW t \in Targets, RegisterTarget(t)
      PROVE  StakingIsSound'
  <2>1. /\ target[t] = NoTarget
        /\ target' = [target EXCEPT ![t] = NewTarget]
        /\ UNCHANGED <<support, stakingRate, tvl, triggers, stakingWallet, changes>>
    BY <1>2 DEF RegisterTarget, IsTarget
  <2>2. NewTarget \in TargetInfo
    <3>1. MaxAmount \in Nat /\ MaxAmount \div 2 \in 0..MaxAmount
      BY StakingTargetsAssumption
    <3> QED  BY <3>1, StakingTargetsAssumption DEF NewTarget, TargetInfo
  <2>3. OthersAreTyped'
    BY <2>1, SoundParts DEF OthersAreTyped, StakersUnchanged, stakeVars
  <2>4. TokensStayKnown  BY <2>1 DEF TokensStayKnown, IsKnown
  <2>5. /\ NewTarget.staked = 0 /\ NewTarget.reward = 0
        /\ NewTarget.reserve = 0 /\ NewTarget.rewardRate \in Rates
        /\ \A k \in NewTarget.tokens : IsKnown(k)'
    BY DEF NewTarget, Rates
  <2>6. stakingWallet' = stakingWallet + (NewTarget.reserve - Reserved(target[t]))
    BY <2>1, <2>5, SoundParts DEF Reserved
  <2> HIDE DEF NewTarget
  <2> QED  BY <2>1, <2>2, <2>3, <2>4, <2>5, <2>6, TargetStepKeepsSound
<1>3. ASSUME NEW t \in Targets, NEW period \in LockingPeriods, SetLockingPeriod(t, period)
      PROVE  StakingIsSound'
  <2> DEFINE y == [target[t] EXCEPT !.lockingPeriod = period]
  <2>1. IsTarget(t) /\ SetTarget(t, y) /\ stakingWallet' = stakingWallet
    BY <1>3 DEF SetLockingPeriod
  <2>2. target[t] \in TargetInfo /\ target[t].rewardRate \in Rates  BY <2>1, TargetTypes
  <2>3. y \in TargetInfo  BY <2>2, StakingTargetsAssumption DEF TargetInfo
  <2>4. /\ y.staked = target[t].staked /\ y.reward = target[t].reward
        /\ y.tokens = target[t].tokens /\ y.rewardRate = target[t].rewardRate
        /\ y.reserve = target[t].reserve
    BY <2>2 DEF TargetInfo
  <2> HIDE DEF y
  <2> QED  BY <2>1, <2>2, <2>3, <2>4, SetterKeepsSound
<1>4. ASSUME NEW t \in Targets, NEW rate \in RewardRates, SetRewardRate(t, rate)
      PROVE  StakingIsSound'
  <2> DEFINE y == [target[t] EXCEPT !.rewardRate = rate]
  <2>1. IsTarget(t) /\ SetTarget(t, y) /\ stakingWallet' = stakingWallet
    BY <1>4 DEF SetRewardRate
  <2>2. target[t] \in TargetInfo /\ rate \in Rates  BY <2>1, TargetTypes DEF Rates
  <2>3. y \in TargetInfo  BY <2>2, StakingTargetsAssumption DEF TargetInfo
  <2>4. /\ y.staked = target[t].staked /\ y.reward = target[t].reward
        /\ y.tokens = target[t].tokens /\ y.rewardRate = rate
        /\ y.reserve = target[t].reserve
    BY <2>2 DEF TargetInfo
  <2> HIDE DEF y
  <2> QED  BY <2>1, <2>2, <2>3, <2>4, SetterKeepsSound
<1>5. ASSUME NEW t \in Targets, NEW amount \in Limits, SetMaxStakedAmount(t, amount)
      PROVE  StakingIsSound'
  <2> DEFINE y == [target[t] EXCEPT !.limit = amount]
  <2>1. IsTarget(t) /\ SetTarget(t, y) /\ stakingWallet' = stakingWallet
    BY <1>5 DEF SetMaxStakedAmount
  <2>2. target[t] \in TargetInfo /\ target[t].rewardRate \in Rates  BY <2>1, TargetTypes
  <2>3. y \in TargetInfo  BY <2>2, StakingTargetsAssumption DEF TargetInfo
  <2>4. /\ y.staked = target[t].staked /\ y.reward = target[t].reward
        /\ y.tokens = target[t].tokens /\ y.rewardRate = target[t].rewardRate
        /\ y.reserve = target[t].reserve
    BY <2>2 DEF TargetInfo
  <2> HIDE DEF y
  <2> QED  BY <2>1, <2>2, <2>3, <2>4, SetterKeepsSound
<1>6. ASSUME NEW t \in Targets, NEW margin \in Limits, NEW hard \in Limits,
             SetTargetLimits(t, margin, hard)
      PROVE  StakingIsSound'
  <2> DEFINE y == [target[t] EXCEPT !.margin = margin, !.hardLimit = hard]
  <2>1. IsTarget(t) /\ SetTarget(t, y) /\ stakingWallet' = stakingWallet
    BY <1>6 DEF SetTargetLimits
  <2>2. target[t] \in TargetInfo /\ target[t].rewardRate \in Rates  BY <2>1, TargetTypes
  <2>3. y \in TargetInfo  BY <2>2, StakingTargetsAssumption DEF TargetInfo
  <2>4. /\ y.staked = target[t].staked /\ y.reward = target[t].reward
        /\ y.tokens = target[t].tokens /\ y.rewardRate = target[t].rewardRate
        /\ y.reserve = target[t].reserve
    BY <2>2 DEF TargetInfo
  <2> HIDE DEF y
  <2> QED  BY <2>1, <2>2, <2>3, <2>4, SetterKeepsSound
<1> QED  BY <1>1, <1>2, <1>3, <1>4, <1>5, <1>6 DEF ParametersNext

LEMMA ReservesKeepSound ==
  ASSUME StakingIsSound, StakersUnchanged, ReservesNext
  PROVE  StakingIsSound'
<1> PICK t \in Targets, amount \in ReserveAmounts :
      RefillRewardReserves(t, amount) \/ WithdrawRewardReserves(t, amount)
  BY DEF ReservesNext
<1>1. amount \in Nat  BY StakingTargetsAssumption
<1>2. IsTarget(t)  BY DEF RefillRewardReserves, WithdrawRewardReserves
<1>3. /\ target[t] \in TargetInfo /\ target[t].rewardRate \in Rates
      /\ target[t].reserve \in Nat
  BY <1>2, TargetTypes, TargetParts
<1>4. ASSUME NEW reserve \in Nat, SetTarget(t, [target[t] EXCEPT !.reserve = reserve]),
             stakingWallet' = stakingWallet + (reserve - target[t].reserve)
      PROVE  StakingIsSound'
  <2> DEFINE y == [target[t] EXCEPT !.reserve = reserve]
  <2>1. y \in TargetInfo  BY <1>3 DEF TargetInfo
  <2>2. /\ y.staked = target[t].staked /\ y.reward = target[t].reward
        /\ y.tokens = target[t].tokens /\ y.rewardRate = target[t].rewardRate
        /\ y.reserve = reserve
    BY <1>3 DEF TargetInfo
  <2>3. SetTarget(t, y)  BY <1>4
  <2> HIDE DEF y
  <2> QED  BY <1>2, <1>3, <1>4, <2>1, <2>2, <2>3, SetTargetKeepsSound
<1>5. stakingWallet \in Nat  BY SoundParts
<1>6. CASE RefillRewardReserves(t, amount)
  <2> DEFINE reserve == target[t].reserve + amount
  <2>1. SetTarget(t, [target[t] EXCEPT !.reserve = reserve])  BY <1>6 DEF RefillRewardReserves
  <2>2. stakingWallet' = stakingWallet + (reserve - target[t].reserve)
    BY <1>1, <1>3, <1>5, <1>6 DEF RefillRewardReserves
  <2>3. reserve \in Nat  BY <1>1, <1>3
  <2> HIDE DEF reserve
  <2> QED  BY <1>4, <2>1, <2>2, <2>3
<1>7. CASE WithdrawRewardReserves(t, amount)
  <2> DEFINE reserve == target[t].reserve - amount
  <2>1. SetTarget(t, [target[t] EXCEPT !.reserve = reserve])
    BY <1>7 DEF WithdrawRewardReserves
  <2>2. stakingWallet' = stakingWallet + (reserve - target[t].reserve)
    BY <1>1, <1>3, <1>5, <1>7 DEF WithdrawRewardReserves
  <2>3. reserve \in Nat  BY <1>1, <1>3, <1>7 DEF WithdrawRewardReserves
  <2> HIDE DEF reserve
  <2> QED  BY <1>4, <2>1, <2>2, <2>3
<1> QED  BY <1>6, <1>7

Balances == [amount : 0..MaxAmount, baseline : 0..MaxAmount, updates : 0..MaxUpdates]

LEMMA TokenIsOfTarget ==
  ASSUME StakingIsSound, NEW t \in Targets, NEW k \in target[t].tokens
  PROVE  IsTarget(t)
BY DEF IsTarget, NoTarget

LEMMA SetTotalValueLockedKeepsSound ==
  ASSUME StakingIsSound, StakersUnchanged, NEW t \in Targets, IsTarget(t), NEW k \in Tokens,
         NEW amount \in 0..MaxAmount, SetTotalValueLocked(t, k, amount)
  PROVE  StakingIsSound'
<1> DEFINE counted == [tvl[t][k] EXCEPT !.amount = amount, !.updates = @ + 1]
           reset == [amount |-> amount, baseline |-> amount, updates |-> 0]
<1>1. /\ changes < MaxChanges /\ changes' = changes + 1
      /\ counted.updates <= MaxUpdates
      /\ UNCHANGED <<support, stakingRate, triggers, stakingWallet>>
      /\ IF IsLimitUpdateRequired(counted)
         THEN /\ tvl' = [tvl EXCEPT ![t][k] = reset]
              /\ target' = [target EXCEPT ![t].limit = UpdatedLimit(t, tvl'[t])]
         ELSE tvl' = [tvl EXCEPT ![t][k] = counted] /\ target' = target
  BY DEF SetTotalValueLocked, Change
<1>2. tvl \in [Targets -> [Tokens -> Balances]]
  BY SoundParts DEF OthersAreTyped, Balances
<1>3. counted \in Balances
  <2>1. tvl[t][k] \in Balances  BY <1>2
  <2> DEFINE old == tvl[t][k]
  <2>2. counted = [old EXCEPT !.amount = amount, !.updates = @ + 1]  OBVIOUS
  <2>3. old \in Balances  BY <2>1
  <2> HIDE DEF old, counted
  <2>4. /\ counted.amount = amount /\ counted.baseline = old.baseline
        /\ counted.updates = old.updates + 1
        /\ counted = [amount |-> amount, baseline |-> old.baseline,
                      updates |-> old.updates + 1]
    BY <2>2, <2>3 DEF Balances
  <2>5. old.updates + 1 \in 0..MaxUpdates /\ old.baseline \in 0..MaxAmount
    BY <1>1, <2>3, <2>4, StakingTargetsAssumption DEF Balances
  <2> QED  BY <2>4, <2>5 DEF Balances
<1>4. reset \in Balances  BY StakingTargetsAssumption DEF Balances
<1> HIDE DEF counted, reset
<1>5. tvl' \in [Targets -> [Tokens -> Balances]]
  <2>1. CASE tvl' = [tvl EXCEPT ![t][k] = reset]
    BY <2>1, <1>2, <1>4
  <2>2. CASE tvl' = [tvl EXCEPT ![t][k] = counted]
    BY <2>2, <1>2, <1>3
  <2> QED  BY <1>1, <2>1, <2>2
<1>6. OthersAreTyped'
  BY <1>1, <1>5, SoundParts, StakingTargetsAssumption
     DEF OthersAreTyped, StakersUnchanged, stakeVars, Balances
<1>7. TokensStayKnown  BY <1>1 DEF TokensStayKnown, IsKnown
<1>8. CASE target' = target
  BY <1>1, <1>6, <1>7, <1>8, QuietStepKeepsSound
<1>9. CASE target' = [target EXCEPT ![t].limit = UpdatedLimit(t, tvl'[t])]
  <2> DEFINE limit == UpdatedLimit(t, tvl'[t])
             y == [target[t] EXCEPT !.limit = limit]
  <2>1. limit \in 0..MaxAmount
    <3>1. tvl'[t] \in [Tokens -> Balances]  BY <1>5
    <3> QED  BY <3>1, LimitType DEF Balances
  <2> HIDE DEF limit
  <2>2. /\ target \in TargetRecords /\ target[t] \in TargetInfo
        /\ target[t].rewardRate \in Rates
        /\ \A i \in target[t].tokens : i \in Tokens /\ IsKnown(i)
    BY TargetTypes
  <2>3. y \in TargetInfo  BY <2>1, <2>2 DEF TargetInfo
  <2>4. /\ y.staked = target[t].staked /\ y.reward = target[t].reward
        /\ y.tokens = target[t].tokens /\ y.rewardRate = target[t].rewardRate
        /\ y.reserve = target[t].reserve
    BY <2>2 DEF TargetInfo
  <2>5. target' = [target EXCEPT ![t] = y]  BY <1>9, <2>2 DEF TargetRecords, limit
  <2> HIDE DEF y
  <2>6. \A i \in y.tokens : IsKnown(i)'  BY <1>7, <2>2, <2>4 DEF TokensStayKnown
  <2>7. stakingWallet' = stakingWallet + (y.reserve - Reserved(target[t]))
    <3>1. Reserved(target[t]) = y.reserve  BY <2>4 DEF Reserved, IsTarget
    <3>2. stakingWallet \in Nat /\ y.reserve \in Nat  BY <2>3, TargetParts, SoundParts
    <3> QED  BY <1>1, <3>1, <3>2
  <2> QED  BY <1>6, <1>7, <2>2, <2>3, <2>4, <2>5, <2>6, <2>7, TargetStepKeepsSound DEF IsTarget
<1> QED  BY <1>1, <1>8, <1>9

LEMMA UpdateTargetLimitKeepsSound ==
  ASSUME StakingIsSound, StakersUnchanged, NEW t \in Targets, UpdateTargetLimit(t)
  PROVE  StakingIsSound'
<1> DEFINE limit == UpdatedLimit(t, tvl[t])
           y == [target[t] EXCEPT !.limit = limit]
<1>1. IsTarget(t) /\ SetTarget(t, y) /\ stakingWallet' = stakingWallet
  BY DEF UpdateTargetLimit
<1>2. limit \in 0..MaxAmount
  <2>1. tvl[t] \in [Tokens -> Balances]  BY SoundParts DEF OthersAreTyped, Balances
  <2> QED  BY <1>1, <2>1, LimitType DEF Balances
<1> HIDE DEF limit
<1>3. target[t] \in TargetInfo /\ target[t].rewardRate \in Rates  BY <1>1, TargetTypes
<1>4. y \in TargetInfo  BY <1>2, <1>3 DEF TargetInfo
<1>5. /\ y.staked = target[t].staked /\ y.reward = target[t].reward
      /\ y.tokens = target[t].tokens /\ y.rewardRate = target[t].rewardRate
      /\ y.reserve = target[t].reserve
  BY <1>3 DEF TargetInfo
<1> HIDE DEF y
<1> QED  BY <1>1, <1>3, <1>4, <1>5, SetterKeepsSound

LEMMA AddTargetTokenKeepsSound ==
  ASSUME StakingIsSound, StakersUnchanged, NEW t \in Targets, NEW k \in Tokens,
         AddTargetToken(t, k)
  PROVE  StakingIsSound'
<1> DEFINE y == [target[t] EXCEPT !.tokens = @ \union {k}]
<1>1. /\ IsTarget(t)
      /\ stakingRate' = [stakingRate EXCEPT ![k] = IF IsKnown(k) THEN @ ELSE 0]
      /\ target' = [target EXCEPT ![t].tokens = @ \union {k}]
      /\ UNCHANGED <<support, tvl, triggers, stakingWallet, changes>>
  BY DEF AddTargetToken
<1>2. /\ target \in TargetRecords /\ target[t] \in TargetInfo
      /\ target[t].rewardRate \in Rates
      /\ \A i \in target[t].tokens : i \in Tokens /\ IsKnown(i)
  BY <1>1, TargetTypes
<1>3. y \in TargetInfo
  <2>1. target[t].tokens \union {k} \in SUBSET Tokens  BY <1>2
  <2> QED  BY <1>2, <2>1 DEF TargetInfo
<1>4. /\ y.staked = target[t].staked /\ y.reward = target[t].reward
      /\ y.tokens = target[t].tokens \union {k} /\ y.rewardRate = target[t].rewardRate
      /\ y.reserve = target[t].reserve
  BY <1>2 DEF TargetInfo
<1>5. target' = [target EXCEPT ![t] = y]  BY <1>1, <1>2 DEF TargetRecords
<1> HIDE DEF y
<1>6. stakingRate \in [Tokens -> Nat \union {Unknown}]  BY SoundParts DEF OthersAreTyped
<1>7. /\ stakingRate' \in [Tokens -> Nat \union {Unknown}]
      /\ \A i \in Tokens : i # k => stakingRate'[i] = stakingRate[i]
      /\ stakingRate'[k] # Unknown
  BY <1>1, <1>6 DEF IsKnown, Unknown
<1>8. OthersAreTyped'
  BY <1>1, <1>7, SoundParts DEF OthersAreTyped, StakersUnchanged, stakeVars
<1>9. TokensStayKnown  BY <1>7 DEF TokensStayKnown, IsKnown
<1>10. \A i \in y.tokens : IsKnown(i)'
  BY <1>2, <1>4, <1>7, <1>9 DEF TokensStayKnown, IsKnown
<1>11. stakingWallet' = stakingWallet + (y.reserve - Reserved(target[t]))
  <2>1. Reserved(target[t]) = y.reserve  BY <1>1, <1>4 DEF Reserved, IsTarget
  <2>2. stakingWallet \in Nat /\ y.reserve \in Nat  BY <1>3, TargetParts, SoundParts
  <2> QED  BY <1>1, <2>1, <2>2
<1> QED
  BY <1>1, <1>2, <1>3, <1>4, <1>5, <1>8, <1>9, <1>10, <1>11, TargetStepKeepsSound DEF IsTarget

LEMMA ValueLockedKeepsSound ==
  ASSUME StakingIsSound, StakersUnchanged, ValueLockedNext
  PROVE  StakingIsSound'
<1>0. tvl \in [Targets -> [Tokens -> Balances]]  BY SoundParts DEF OthersAreTyped, Balances
<1>1. ASSUME NEW t \in Targets, NEW k \in Tokens, NEW amount \in TvlAmounts,
             IncreaseTotalValueLocked(t, k, amount)
      PROVE  StakingIsSound'
  <2>1. /\ k \in target[t].tokens
        /\ tvl[t][k].amount + amount <= MaxAmount
        /\ SetTotalValueLocked(t, k, tvl[t][k].amount + amount)
    BY <1>1 DEF IncreaseTotalValueLocked
  <2>2. tvl[t][k].amount + amount \in 0..MaxAmount
    <3>1. tvl[t][k].amount \in 0..MaxAmount /\ amount \in Nat
      BY <1>0, StakingTargetsAssumption DEF Balances
    <3> QED  BY <2>1, <3>1, StakingTargetsAssumption
  <2> QED  BY <2>1, <2>2, TokenIsOfTarget, SetTotalValueLockedKeepsSound
<1>2. ASSUME NEW t \in Targets, NEW k \in Tokens, NEW amount \in TvlAmounts,
             DecreaseTotalValueLocked(t, k, amount)
      PROVE  StakingIsSound'
  <2>1. /\ k \in target[t].tokens
        /\ amount <= tvl[t][k].amount
        /\ SetTotalValueLocked(t, k, tvl[t][k].amount - amount)
    BY <1>2 DEF DecreaseTotalValueLocked
  <2>2. tvl[t][k].amount - amount \in 0..MaxAmount
    <3>1. tvl[t][k].amount \in 0..MaxAmount /\ amount \in Nat
      BY <1>0, StakingTargetsAssumption DEF Balances
    <3> QED  BY <2>1, <3>1, StakingTargetsAssumption
  <2> QED  BY <2>1, <2>2, TokenIsOfTarget, SetTotalValueLockedKeepsSound
<1>3. ASSUME NEW values \in Triggers, SetUpdateTriggers(values)
      PROVE  StakingIsSound'
  <2>1. OthersAreTyped'
    BY <1>3, SoundParts, StakingTargetsAssumption
       DEF SetUpdateTriggers, Change, OthersAreTyped, StakersUnchanged, stakeVars
  <2>2. TokensStayKnown /\ target' = target /\ stakingWallet' = stakingWallet
    BY <1>3 DEF SetUpdateTriggers, TokensStayKnown, IsKnown
  <2> QED  BY <2>1, <2>2, QuietStepKeepsSound
<1>4. ASSUME NEW k \in Tokens, NEW rate \in Nat, changes < MaxChanges, changes' = changes + 1,
             stakingRate' = [stakingRate EXCEPT ![k] = rate],
             UNCHANGED <<support, target, tvl, triggers, stakingWallet>>
      PROVE  StakingIsSound'
  <2>1. stakingRate \in [Tokens -> Nat \union {Unknown}]  BY SoundParts DEF OthersAreTyped
  <2>2. /\ stakingRate' \in [Tokens -> Nat \union {Unknown}]
        /\ \A i \in Tokens : i # k => stakingRate'[i] = stakingRate[i]
        /\ stakingRate'[k] # Unknown
    BY <1>4, <2>1 DEF Unknown
  <2>3. OthersAreTyped'
    BY <1>4, <2>2, SoundParts, StakingTargetsAssumption
       DEF OthersAreTyped, StakersUnchanged, stakeVars
  <2>4. TokensStayKnown  BY <2>2 DEF TokensStayKnown, IsKnown
  <2> QED  BY <1>4, <2>3, <2>4, QuietStepKeepsSound
<1>5. ASSUME NEW k \in Tokens, AddToken(k)
      PROVE  StakingIsSound'
  BY <1>4, <1>5 DEF AddToken, Change
<1>6. ASSUME NEW k \in Tokens, NEW rate \in StakingRates, SetStakingRate(k, rate)
      PROVE  StakingIsSound'
  BY <1>4, <1>6, StakingTargetsAssumption DEF SetStakingRate, Change
<1> QED
  BY <1>1, <1>2, <1>3, <1>5, <1>6, UpdateTargetLimitKeepsSound, AddTargetTokenKeepsSound
     DEF ValueLockedNext

----------------------------------------------------------------------------
(* The invariant                                                           *)

LEMMA InitIsSound ==
  ASSUME Init
  PROVE  StakingIsSound
<1>1. /\ stake = [s \in Stakes |-> NoStake]
      /\ target = [t \in Targets |-> IF t = Protocol THEN NewTarget ELSE NoTarget]
      /\ stakingWallet = 0
  BY DEF Init, TargetsInit
<1>2. NewTarget \in TargetInfo
  <2>1. MaxAmount \in Nat /\ MaxAmount \div 2 \in 0..MaxAmount
    BY StakingTargetsAssumption
  <2> QED  BY <2>1, StakingTargetsAssumption DEF NewTarget, TargetInfo
<1>3. /\ NewTarget.staked = 0 /\ NewTarget.reward = 0 /\ NewTarget.reserve = 0
      /\ NewTarget.rewardRate \in Rates /\ NewTarget.tokens = {}
  BY DEF NewTarget, Rates
<1>4. OthersAreTyped
  <2>1. NoTvl \in Balances  BY StakingTargetsAssumption DEF NoTvl, Balances
  <2>2. tvl \in [Targets -> [Tokens -> Balances]]  BY <2>1 DEF Init, TargetsInit
  <2> QED  BY <2>2, StakingTargetsAssumption, StakingAssumption
           DEF Init, TargetsInit, OthersAreTyped, Balances, Unknown
<1> HIDE DEF NewTarget
<1>5. stake \in StakeRecords /\ target \in TargetRecords
      /\ \A s \in Stakes : stake[s] = NoStake
  BY <1>1, <1>2 DEF StakeRecords, TargetRecords
<1>6. \A t \in Targets : target[t] # NoTarget => target[t] = NewTarget  BY <1>1
<1>7. ASSUME NEW t \in Targets, NEW field
      PROVE  SumUpTo(StakesAt(stake, t, field), MaxStakes) = 0
  <2>1. \A i \in 1..MaxStakes : StakesAt(stake, t, field)[i] = 0
    BY <1>5 DEF StakesAt, Stakes
  <2>2. MaxStakes \in Nat  BY StakingAssumption
  <2> QED  BY <2>1, <2>2, SumOfZeros
<1>8. Ledger(stake, target)
  BY <1>3, <1>5, <1>6, <1>7 DEF Ledger
<1>9. TermsAreKnown(target)  BY <1>3, <1>6 DEF TermsAreKnown
<1>10. stakingWallet = Owed(target)
  <2>1. \A t \in Targets : OwedTo(target)[t] = 0  BY <1>3, <1>6 DEF OwedTo
  <2>2. MaxTargets \in Nat /\ \A t \in 1..MaxTargets : OwedTo(target)[t] = 0
    BY <2>1, StakingTargetsAssumption DEF Targets
  <2> QED  BY <1>1, <2>2, SumOfZeros DEF Owed
<1> QED  BY <1>4, <1>8, <1>9, <1>10 DEF StakingIsSound

LEMMA HighestRateParts ==
  /\ HighestRate \in Nat
  /\ \A r \in Rates : r \in Nat /\ r <= HighestRate
<1>1. \E r \in Rates : \A q \in Rates : q <= r  BY StakingAssumption DEF Rates
<1>2. HighestRate = CHOOSE r \in Rates : \A q \in Rates : q <= r  BY DEF HighestRate, Rates
<1>3. HighestRate \in Rates /\ \A q \in Rates : q <= HighestRate  BY <1>1, <1>2
<1>4. \A r \in Rates : r \in Nat  BY StakingTargetsAssumption DEF Rates
<1> QED  BY <1>3, <1>4

LEMMA SumOverIsNatural ==
  ASSUME NEW o, NEW a, \A s \in Stakes : a[s] \in Nat
  PROVE  SumOver(o, a) \in Nat
<1> DEFINE b == [s \in Stakes |-> IF s \in StakesOf(o) THEN a[s] ELSE 0]
<1>1. MaxStakes \in Nat /\ \A s \in 1..MaxStakes : b[s] \in Nat
  BY StakingAssumption DEF Stakes
<1> HIDE DEF b
<1>2. SumUpTo(b, MaxStakes) \in Nat  BY <1>1, SumIsNatural
<1> QED  BY <1>2 DEF SumOver, b

\* What a stake can earn in a unit of time.
PerUnit(x) == 2 * HighestRate * x.staked + Unit * Year

LEMMA PerUnitType ==
  ASSUME NEW x, x.staked \in Nat
  PROVE  PerUnit(x) \in Nat
<1>1. 2 * HighestRate \in Nat  BY HighestRateParts
<1>2. 2 * HighestRate * x.staked \in Nat  BY <1>1, ProductType
<1>3. Unit * Year \in Nat  BY StakingAssumption DEF Unit
<1> QED  BY <1>2, <1>3 DEF PerUnit

LEMMA TickKeepsSound ==
  ASSUME StakingIsSound, Tick
  PROVE  StakingIsSound'
<1>1. /\ now < MaxTime /\ now' = now + 1
      /\ earnable' = [o \in Stakers |-> earnable[o] +
           SumOver(o, [s \in Stakes |-> PerUnit(stake[s])])]
      /\ UNCHANGED <<support, target, stakingRate, tvl, triggers, stakingWallet, changes>>
      /\ UNCHANGED <<stake, wallet>>
  BY DEF Tick, targetVars, stakeVars, PerUnit
<1>2. now' \in 1..MaxTime  BY <1>1, SoundParts, StakingAssumption
<1>3. ASSUME NEW o \in Stakers
      PROVE  earnable'[o] \in Nat
  <2> DEFINE a == [s \in Stakes |-> PerUnit(stake[s])]
  <2>1. \A s \in Stakes : a[s] \in Nat
    BY SoundParts, StakeAmountsAreNatural, PerUnitType
  <2> HIDE DEF a
  <2>2. SumOver(o, a) \in Nat  BY <2>1, SumOverIsNatural
  <2>3. earnable[o] \in Nat  BY SoundParts DEF OthersAreTyped
  <2>4. earnable'[o] = earnable[o] + SumOver(o, a)  BY <1>1 DEF a
  <2> QED  BY <2>2, <2>3, <2>4
<1>4. earnable' \in [Stakers -> Nat]  BY <1>1, <1>3
<1>5. OthersAreTyped'  BY <1>1, <1>2, <1>4, SoundParts DEF OthersAreTyped
<1>6. Ledger(stake, target)'
  <2>1. ASSUME NEW s \in Stakes, stake[s] # NoStake
        PROVE  stake[s].lastUpdateAt <= now'
    <3>1. stake[s].lastUpdateAt <= now  BY <2>1, SoundParts DEF Ledger
    <3>2. stake[s].lastUpdateAt \in Int /\ now \in Int
      BY <2>1, SoundParts, StakeAmountsAreNatural, StakeParts
    <3> QED  BY <1>1, <3>1, <3>2
  <2> QED  BY <1>1, <2>1, SoundParts DEF Ledger
<1>7. TermsAreKnown(target)'  BY <1>1, SoundParts DEF TermsAreKnown, IsKnown
<1>8. (stakingWallet = Owed(target))'  BY <1>1, SoundParts DEF Owed, OwedTo
<1> QED  BY <1>5, <1>6, <1>7, <1>8 DEF StakingIsSound

LEMMA StepKeepsSound ==
  ASSUME StakingIsSound, [Next]_vars
  PROVE  StakingIsSound'
<1>1. CASE TargetsNext /\ UNCHANGED <<stakeVars, now, earnable>>
  BY <1>1, ParametersKeepSound, ReservesKeepSound, ValueLockedKeepsSound
     DEF TargetsNext, StakersUnchanged
<1>2. CASE StakeNext /\ UNCHANGED <<support, stakingRate, tvl, triggers, changes, now, earnable>>
  BY <1>2, StakeNextKeepsSound DEF OthersUnchanged
<1>3. CASE Tick
  BY <1>3, TickKeepsSound
<1>4. CASE UNCHANGED vars
  <2>1. /\ UNCHANGED <<support, target, stakingRate, tvl, triggers, stakingWallet, changes>>
        /\ UNCHANGED <<stake, wallet, now, earnable>>
    BY <1>4 DEF vars, targetVars, stakeVars
  <2>2. OthersAreTyped'  BY <2>1, SoundParts DEF OthersAreTyped
  <2>3. Ledger(stake, target)'  BY <2>1, SoundParts DEF Ledger
  <2>4. TermsAreKnown(target)'  BY <2>1, SoundParts DEF TermsAreKnown, IsKnown
  <2>5. (stakingWallet = Owed(target))'  BY <2>1, SoundParts DEF Owed, OwedTo
  <2> QED  BY <2>2, <2>3, <2>4, <2>5 DEF StakingIsSound
<1> QED  BY <1>1, <1>2, <1>3, <1>4 DEF Next

\* Stakes and targets agree, all amounts are naturals, and the staking contract holds
\* what it owes, after every sequence of calls of stakers, target owners and products.
THEOREM StakingStaysSound == Spec => []StakingIsSound
<1>1. Init => StakingIsSound  BY InitIsSound
<1>2. StakingIsSound /\ [Next]_vars => StakingIsSound'  BY StepKeepsSound
<1> QED  BY <1>1, <1>2, PTL DEF Spec

LEMMA SoundIsTyped ==
  ASSUME StakingIsSound
  PROVE  TypeOK
<1>1. /\ OthersAreTyped
      /\ target \in [Targets -> TargetInfo \union {NoTarget}]
      /\ stake \in [Stakes -> StakeInfo \union {NoStake}]
      /\ stakingWallet \in Nat
  BY SoundParts DEF TargetRecords, StakeRecords
<1>2. \A s \in Stakes : IsStake(s) =>
        IsTarget(stake[s].target) /\ stake[s].lastUpdateAt <= now
  BY SoundParts DEF Ledger, IsStake, IsTarget
<1> QED  BY <1>1, <1>2 DEF TypeOK, OthersAreTyped

\* No amount of a stake, a target or a wallet ever goes below zero, although the store
\* only checks some of them, and every stake is of a target that exists.
THEOREM StakingTypeCorrect == Spec => []TypeOK
<1>1. StakingIsSound => TypeOK  BY SoundIsTyped
<1> QED  BY <1>1, StakingStaysSound, PTL

LEMMA SoundTargetsSum ==
  ASSUME StakingIsSound
  PROVE  TargetsSumTheirStakes
<1>1. ASSUME NEW t \in Targets, IsTarget(t)
      PROVE  /\ target[t].staked = SumAtTarget(t, [s \in Stakes |-> stake[s].staked])
             /\ target[t].reward = SumAtTarget(t, [s \in Stakes |-> stake[s].reward])
  <2>1. /\ target[t].staked = SumUpTo(StakesAt(stake, t, "staked"), MaxStakes)
        /\ target[t].reward = SumUpTo(StakesAt(stake, t, "reward"), MaxStakes)
    BY <1>1, SoundParts DEF Ledger, IsTarget
  <2>2. /\ StakesAt(stake, t, "staked") = [s \in Stakes |->
             IF IsStake(s) /\ stake[s].target = t
             THEN [i \in Stakes |-> stake[i].staked][s] ELSE 0]
        /\ StakesAt(stake, t, "reward") = [s \in Stakes |->
             IF IsStake(s) /\ stake[s].target = t
             THEN [i \in Stakes |-> stake[i].reward][s] ELSE 0]
    BY DEF StakesAt, IsStake
  <2> QED  BY <2>1, <2>2 DEF SumAtTarget
<1> QED  BY <1>1 DEF TargetsSumTheirStakes

\* The amounts a target keeps of its stakes are the sums of those of the stakes, which
\* StakingStore writes in other records (_updateRewards, _restakeRewards, _stake...).
THEOREM TargetsStaySummed == Spec => []TargetsSumTheirStakes
<1>1. StakingIsSound => TargetsSumTheirStakes  BY SoundTargetsSum
<1> QED  BY <1>1, StakingStaysSound, PTL

LEMMA SoundWallet ==
  ASSUME StakingIsSound
  PROVE  StakingWalletIsStakesAndReserves
BY SoundParts DEF StakingWalletIsStakesAndReserves, Owed, OwedTo, IsTarget

\* The staking contract can always pay what it owes: it holds the stakes and reserves
\* of all targets, to the last token.
THEOREM StakingWalletStaysExact == Spec => []StakingWalletIsStakesAndReserves
<1>1. StakingIsSound => StakingWalletIsStakesAndReserves  BY SoundWallet
<1> QED  BY <1>1, StakingStaysSound, PTL

----------------------------------------------------------------------------
(* Rewards                                                                 *)

\* Amounts are compared in units of 1 / (2 * Unit * Year).
Capital == 2 * Unit * Year

\* What a stake has, with what it may still earn for the time since its last update.
WorthOf(x) == Capital * (x.staked + x.reward) + (now - x.lastUpdateAt) * PerUnit(x)

WorthTo(st, o) ==
  [s \in Stakes |-> IF st[s] # NoStake /\ st[s].owner = o THEN WorthOf(st[s]) ELSE 0]

\* Stakers have not gained more than was earnable, whatever is updated now.
GainsAreEarned(st, w) ==
  \A o \in Stakers :
    Capital * (w[o] - Endowment) + SumUpTo(WorthTo(st, o), MaxStakes) <= earnable[o]

EveryGainIsEarned == GainsAreEarned(stake, wallet)

LEMMA ProductIsMonotone ==
  ASSUME NEW m \in Nat, NEW n \in Nat, NEW k \in Nat, m <= n
  PROVE  m * k <= n * k
<1>1. n - m \in Nat  OBVIOUS
<1>2. (n - m) * k \in Nat  BY <1>1, ProductType
<1>3. n * k = m * k + (n - m) * k  OBVIOUS
<1>4. m * k \in Nat /\ n * k \in Nat  BY ProductType
<1> QED  BY <1>2, <1>3, <1>4

\* Rounding adds one half at most.
LEMMA RoundHalfUpBound ==
  ASSUME NEW num \in Nat, NEW den \in Nat \ {0}
  PROVE  2 * den * RoundHalfUp(num, den) <= 2 * num + den
<1> DEFINE a == 2 * num + den
           b == 2 * den
<1>1. a \in Nat /\ b \in Nat \ {0}  OBVIOUS
<1>2. \A x \in Nat, y \in Nat \ {0} : y * (x \div y) <= x  OBVIOUS
<1> HIDE DEF a, b
<1>3. b * (a \div b) <= a  BY <1>1, <1>2
<1> QED  BY <1>3 DEF a, b, RoundHalfUp

LEMMA CapitalType == Capital \in Nat \ {0} /\ Capital = 2 * (Unit * Year)
                     /\ Unit * Year \in Nat \ {0}
BY StakingAssumption DEF Capital, Unit

\* A reward is not more than what the stake earns at the highest rate, and a half for
\* every unit of time.
LEMMA RewardIsEarned ==
  ASSUME NEW rate \in Rates, NEW duration \in Nat, NEW x, x.staked \in Nat
  PROVE  /\ Capital * RewardAmount(rate, duration, x.staked) <= duration * PerUnit(x)
         /\ RewardAmount(rate, duration, x.staked) \in Nat
<1> DEFINE a == x.staked
           h == HighestRate
           den == Unit * Year
           num == a * duration * rate
           inc == RewardAmount(rate, duration, a)
<1>1. rate \in Nat /\ rate <= h /\ h \in Nat  BY HighestRateParts
<1>2. den \in Nat \ {0} /\ Capital = 2 * den  BY CapitalType
<1>3. a \in Nat /\ a * duration \in Nat  BY ProductType
<1>4. num \in Nat  BY <1>1, <1>3, ProductType
<1>5. inc = RoundHalfUp(num, den)  BY DEF RewardAmount
<1>6. inc \in Nat  BY <1>2, <1>4, <1>5, RoundHalfUpType
<1>7. PerUnit(x) = 2 * h * a + den  BY DEF PerUnit
<1>8. Capital * inc <= 2 * num + den
  BY <1>2, <1>4, <1>5, RoundHalfUpBound
<1>9. CASE duration = 0
  <2>1. num = 0  BY <1>1, <1>3, <1>9
  <2>2. inc = 0
    <3>1. \A d \in Nat \ {0} : (2 * 0 + d) \div (2 * d) = 0  OBVIOUS
    <3> HIDE DEF den
    <3> QED  BY <1>2, <1>5, <2>1, <3>1 DEF RoundHalfUp
  <2>3. PerUnit(x) \in Nat  BY PerUnitType
  <2> QED  BY <1>2, <1>9, <2>2, <2>3
<1>10. CASE duration # 0
  <2>1. num <= (a * duration) * h
    <3>1. rate * (a * duration) <= h * (a * duration)
      BY <1>1, <1>3, ProductIsMonotone
    <3>2. num = rate * (a * duration) /\ (a * duration) * h = h * (a * duration)
      BY <1>1, <1>3
    <3> QED  BY <3>1, <3>2
  <2>2. den <= duration * den
    <3>1. 1 <= duration /\ 1 \in Nat /\ den \in Nat  BY <1>2, <1>10
    <3>2. 1 * den <= duration * den  BY <3>1, ProductIsMonotone
    <3> QED  BY <3>1, <3>2
  <2>3. duration * (2 * h * a + den) = 2 * ((a * duration) * h) + duration * den
    <3> HIDE DEF a, h, den
    <3> QED  BY <1>1, <1>2, <1>3
  <2>4. /\ (a * duration) * h \in Nat /\ duration * den \in Nat
        /\ Capital * inc \in Nat
    BY <1>1, <1>2, <1>3, <1>6, ProductType
  <2> HIDE DEF a, h, den, num, inc
  <2>5. 2 * num + den <= 2 * ((a * duration) * h) + duration * den
    BY <1>2, <1>4, <2>1, <2>2, <2>4
  <2>6. Capital * inc <= duration * PerUnit(x)
    BY <1>2, <1>4, <1>7, <1>8, <2>3, <2>4, <2>5
  <2> QED  BY <1>6, <2>6 DEF inc, a
<1> QED  BY <1>6, <1>9, <1>10

LEMMA WorthType ==
  ASSUME NEW x \in StakeInfo, x.lastUpdateAt <= now, now \in 1..MaxTime
  PROVE  /\ WorthOf(x) \in Nat
         /\ Capital * (x.staked + x.reward) \in Nat
         /\ (now - x.lastUpdateAt) * PerUnit(x) \in Nat
         /\ now - x.lastUpdateAt \in Nat
<1>1. x.staked + x.reward \in Nat /\ now - x.lastUpdateAt \in Nat /\ x.staked \in Nat
  BY StakeParts
<1>2. Capital * (x.staked + x.reward) \in Nat  BY <1>1, CapitalType, ProductType
<1>3. (now - x.lastUpdateAt) * PerUnit(x) \in Nat  BY <1>1, PerUnitType, ProductType
<1> QED  BY <1>1, <1>2, <1>3 DEF WorthOf

\* The worth of a stake that is up to date is what it has.
LEMMA WorthOfUpdated ==
  ASSUME NEW x \in StakeInfo, x.lastUpdateAt = now, now \in 1..MaxTime
  PROVE  WorthOf(x) = Capital * (x.staked + x.reward)
<1>1. PerUnit(x) \in Nat  BY StakeParts, PerUnitType
<1>2. (now - x.lastUpdateAt) * PerUnit(x) = 0  BY <1>1
<1>3. Capital * (x.staked + x.reward) \in Nat  BY WorthType
<1> QED  BY <1>2, <1>3 DEF WorthOf

LEMMA WorthOfUpdatedRewards ==
  ASSUME NEW p \in Positions, now \in 1..MaxTime, p.target.rewardRate \in Rates
  PROVE  WorthOf(UpdatedRewards(p).stake) <= WorthOf(p.stake)
<1> DEFINE x == p.stake
           duration == now - x.lastUpdateAt
           increase == RewardAmount(p.target.rewardRate, duration, x.staked)
           y == [x EXCEPT !.reward = @ + increase, !.lastUpdateAt = now]
<1>1. x \in StakeInfo /\ x.lastUpdateAt <= now  BY PositionParts
<1>2. CASE p.target.rewardRate = 0
  <2>1. UpdatedRewards(p).stake = x  BY <1>2 DEF UpdatedRewards
  <2>2. WorthOf(x) \in Nat  BY <1>1, WorthType
  <2> QED  BY <2>1, <2>2
<1>3. CASE p.target.rewardRate # 0
  <2>1. UpdatedRewards(p).stake = y  BY <1>3 DEF UpdatedRewards
  <2>2. UpdatedRewards(p) \in Positions  BY UpdatedRewardsFollow
  <2>3. y \in StakeInfo  BY <2>1, <2>2, PositionParts
  <2>4. y.staked = x.staked /\ y.reward = x.reward + increase /\ y.lastUpdateAt = now
    BY <1>1 DEF StakeInfo
  <2>5. duration \in Nat /\ x.staked \in Nat /\ x.reward \in Nat
    BY <1>1, WorthType, StakeParts
  <2>6. Capital * increase <= duration * PerUnit(x) /\ increase \in Nat
    BY <2>5, RewardIsEarned
  <2>7. WorthOf(y) = Capital * (y.staked + y.reward)  BY <2>3, <2>4, WorthOfUpdated
  <2>8. WorthOf(x) = Capital * (x.staked + x.reward) + duration * PerUnit(x)  BY DEF WorthOf
  <2>9. duration * PerUnit(x) \in Nat  BY <1>1, WorthType
  <2> HIDE DEF x, duration, increase, y
  <2>10. Capital * (y.staked + y.reward) = Capital * (x.staked + x.reward) + Capital * increase
    BY <2>4, <2>5, <2>6, CapitalType
  <2>11. Capital * (x.staked + x.reward) \in Nat /\ Capital * increase \in Nat
    BY <2>5, <2>6, CapitalType, ProductType
  <2>12. WorthOf(y) <= WorthOf(x)  BY <2>6, <2>7, <2>8, <2>9, <2>10, <2>11
  <2> QED  BY <2>1, <2>12 DEF x
<1> QED  BY <1>2, <1>3

\* A stake whose amounts change by d and which is then up to date.
LEMMA WorthOfChanged ==
  ASSUME NEW x \in StakeInfo, NEW y \in StakeInfo, NEW d \in Int, now \in 1..MaxTime,
         x.lastUpdateAt <= now, y.lastUpdateAt = now,
         y.staked + y.reward = x.staked + x.reward + d
  PROVE  WorthOf(y) <= WorthOf(x) + Capital * d
<1>1. /\ x.staked \in Nat /\ x.reward \in Nat /\ y.staked \in Nat /\ y.reward \in Nat
  BY StakeParts
<1>2. WorthOf(y) = Capital * (y.staked + y.reward)  BY WorthOfUpdated
<1>3. WorthOf(x) = Capital * (x.staked + x.reward) + (now - x.lastUpdateAt) * PerUnit(x)
  BY DEF WorthOf
<1>4. (now - x.lastUpdateAt) * PerUnit(x) \in Nat /\ Capital * (x.staked + x.reward) \in Nat
  BY WorthType
<1>5. Capital * (y.staked + y.reward) = Capital * (x.staked + x.reward) + Capital * d
  BY <1>1, CapitalType
<1>6. Capital * d \in Int  BY CapitalType
<1> QED  BY <1>2, <1>3, <1>4, <1>5, <1>6

LEMMA WorthOfRestakedRewards ==
  ASSUME NEW p \in Positions, now \in 1..MaxTime, MayRestakeRewards(p)
  PROVE  WorthOf(RestakedRewards(p).stake) <= WorthOf(p.stake)
<1> DEFINE x == p.stake
           q == RestakedRewards(p)
           y == q.stake
<1>1. x \in StakeInfo /\ x.lastUpdateAt <= now /\ x.staked \in Nat /\ x.reward \in Nat
      /\ WorthOf(x) \in Nat
  BY PositionParts, WorthType
<1>2. CASE x.reward = 0
  <2>1. y = x  BY <1>2 DEF RestakedRewards
  <2> QED  BY <1>1, <2>1
<1>3. CASE x.reward # 0
  <2>1. y = [x EXCEPT !.staked = @ + x.reward, !.reward = 0, !.lastUpdateAt = now]
    BY <1>3 DEF RestakedRewards
  <2>2. y \in StakeInfo  BY RestakedRewardsFollow, PositionParts
  <2>3. y.staked = x.staked + x.reward /\ y.reward = 0 /\ y.lastUpdateAt = now
    BY <1>1, <2>1 DEF StakeInfo
  <2> HIDE DEF x, y
  <2>4. y.staked + y.reward = x.staked + x.reward + 0  BY <1>1, <2>3
  <2>5. WorthOf(y) <= WorthOf(x) + Capital * 0  BY <1>1, <2>2, <2>3, <2>4, WorthOfChanged
  <2>6. WorthOf(y) <= WorthOf(x)  BY <1>1, <2>5, CapitalType
  <2> QED  BY <2>6 DEF x, y, q
<1> QED  BY <1>2, <1>3

LEMMA WorthOfWithStake ==
  ASSUME NEW p \in Positions, now \in 1..MaxTime, NEW amount \in Nat
  PROVE  WorthOf(WithStake(p, amount).stake) <= WorthOf(p.stake) + Capital * amount
<1> DEFINE x == p.stake
           y == WithStake(p, amount).stake
<1>1. x \in StakeInfo /\ x.lastUpdateAt <= now /\ x.staked \in Nat /\ x.reward \in Nat
      /\ WorthOf(x) \in Nat
  BY PositionParts, WorthType
<1>2. CASE amount = 0
  <2>1. y = x  BY <1>2 DEF WithStake
  <2> QED  BY <1>1, <1>2, <2>1, CapitalType
<1>3. CASE amount # 0
  <2>1. y = [x EXCEPT !.staked = @ + amount, !.lastUpdateAt = now,
                      !.lockedUntil = @ + p.target.lockingPeriod]
    BY <1>3 DEF WithStake
  <2>2. y \in StakeInfo  BY WithStakeFollows, PositionParts
  <2>3. y.staked = x.staked + amount /\ y.reward = x.reward /\ y.lastUpdateAt = now
    BY <1>1, <2>1 DEF StakeInfo
  <2> HIDE DEF x, y
  <2>4. y.staked + y.reward = x.staked + x.reward + amount  BY <1>1, <2>3
  <2>5. WorthOf(y) <= WorthOf(x) + Capital * amount
    BY <1>1, <2>2, <2>3, <2>4, WorthOfChanged
  <2> QED  BY <2>5 DEF x, y
<1> QED  BY <1>2, <1>3

LEMMA WorthOfUnstaked ==
  ASSUME NEW p \in Positions, now \in 1..MaxTime
  PROVE  WorthOf(Unstaked(p).stake) <= WorthOf(p.stake) + Capital * (-p.stake.staked)
<1> DEFINE x == p.stake
           y == Unstaked(p).stake
<1>1. x \in StakeInfo /\ x.lastUpdateAt <= now /\ x.staked \in Nat /\ x.reward \in Nat
      /\ WorthOf(x) \in Nat
  BY PositionParts, WorthType
<1>2. CASE x.staked = 0
  <2>1. y = x  BY <1>2 DEF Unstaked
  <2> QED  BY <1>1, <1>2, <2>1, CapitalType
<1>3. CASE x.staked # 0
  <2>1. y = [x EXCEPT !.staked = 0, !.lastUpdateAt = now]
    BY <1>3 DEF Unstaked
  <2>2. y \in StakeInfo  BY UnstakedFollows, PositionParts
  <2>3. y.staked = 0 /\ y.reward = x.reward /\ y.lastUpdateAt = now
    BY <1>1, <2>1 DEF StakeInfo
  <2>4. -x.staked \in Int  BY <1>1
  <2> HIDE DEF x, y
  <2>5. y.staked + y.reward = x.staked + x.reward + (-x.staked)  BY <1>1, <2>3
  <2>6. WorthOf(y) <= WorthOf(x) + Capital * (-x.staked)
    BY <1>1, <2>2, <2>3, <2>4, <2>5, WorthOfChanged
  <2> QED  BY <2>6 DEF x, y
<1> QED  BY <1>2, <1>3

LEMMA WorthOfClaimed ==
  ASSUME NEW p \in Positions, now \in 1..MaxTime, p.stake.reward <= p.target.reserve
  PROVE  WorthOf(Claimed(p).stake) <= WorthOf(p.stake) + Capital * (-p.stake.reward)
<1> DEFINE x == p.stake
           y == Claimed(p).stake
<1>1. x \in StakeInfo /\ x.lastUpdateAt <= now /\ x.staked \in Nat /\ x.reward \in Nat
      /\ WorthOf(x) \in Nat
  BY PositionParts, WorthType
<1>2. /\ y \in StakeInfo /\ y.staked = x.staked /\ y.reward = 0
      /\ y.lastUpdateAt = IF x.reward = 0 THEN x.lastUpdateAt ELSE now
  BY ClaimedFollows, PositionParts
<1>3. -x.reward \in Int  BY <1>1
<1>4. CASE x.reward = 0
  <2>1. y.staked + y.reward = x.staked + x.reward /\ y.lastUpdateAt = x.lastUpdateAt
    BY <1>1, <1>2, <1>4
  <2>2. WorthOf(y) = WorthOf(x)
    <3>1. y.staked = x.staked /\ y.reward = x.reward /\ y.lastUpdateAt = x.lastUpdateAt
      BY <1>2, <1>4
    <3> HIDE DEF x, y
    <3> QED  BY <3>1 DEF WorthOf, PerUnit
  <2> QED  BY <1>1, <1>4, <2>2, CapitalType
<1>5. CASE x.reward # 0
  <2> HIDE DEF x, y
  <2>1. y.staked + y.reward = x.staked + x.reward + (-x.reward) /\ y.lastUpdateAt = now
    BY <1>1, <1>2, <1>5
  <2>2. WorthOf(y) <= WorthOf(x) + Capital * (-x.reward)
    BY <1>1, <1>2, <1>3, <2>1, WorthOfChanged
  <2> QED  BY <2>2 DEF x, y
<1> QED  BY <1>4, <1>5

LEMMA WorthToIsNatural ==
  ASSUME NEW st \in StakeRecords, NEW o, now \in 1..MaxTime,
         \A s \in Stakes : st[s] # NoStake => st[s].lastUpdateAt <= now
  PROVE  \A s \in 1..MaxStakes : WorthTo(st, o)[s] \in Nat
BY StakeAmountsAreNatural, WorthType DEF WorthTo, Stakes

\* A stake changes and its owner is paid d tokens (or pays them, when d is negative),
\* for which the stake loses at least as much worth.
LEMMA GainsAfter ==
  ASSUME NEW st, NEW tg, Ledger(st, tg), now \in 1..MaxTime, NEW w \in [Stakers -> Int],
         earnable \in [Stakers -> Nat],
         GainsAreEarned(st, w), NEW s \in Stakes, NEW x \in StakeInfo, NEW d \in Int,
         x.lastUpdateAt <= now,
         st[s] # NoStake => st[s].owner = x.owner,
         WorthOf(x) + Capital * d <= IF st[s] = NoStake THEN 0 ELSE WorthOf(st[s])
  PROVE  GainsAreEarned([st EXCEPT ![s] = x], [w EXCEPT ![x.owner] = @ + d])
<1> DEFINE new == [st EXCEPT ![s] = x]
           paid == [w EXCEPT ![x.owner] = @ + d]
<1>1. /\ st \in StakeRecords
      /\ \A i \in Stakes : st[i] # NoStake => st[i].lastUpdateAt <= now
  BY DEF Ledger
<1>2. x # NoStake /\ x.owner \in Stakers  BY RecordsAreDistinct, StakeParts
<1>3. /\ new \in StakeRecords
      /\ new[s] = x /\ \A i \in Stakes : i # s => new[i] = st[i]
  BY <1>1 DEF StakeRecords
<1>4. \A i \in Stakes : new[i] # NoStake => new[i].lastUpdateAt <= now
  BY <1>1, <1>3
<1>5. ASSUME NEW o \in Stakers
      PROVE  Capital * (paid[o] - Endowment) + SumUpTo(WorthTo(new, o), MaxStakes)
               <= earnable[o]
  <2> DEFINE a == WorthTo(st, o)
             b == WorthTo(new, o)
  <2>1. \A i \in 1..MaxStakes : a[i] \in Nat /\ b[i] \in Nat /\ a[i] \in Int /\ b[i] \in Int
    <3>1. \A i \in 1..MaxStakes : WorthTo(st, o)[i] \in Nat
      BY <1>1, WorthToIsNatural
    <3>2. \A i \in 1..MaxStakes : WorthTo(new, o)[i] \in Nat
      <4> HIDE DEF new
      <4> QED  BY <1>3, <1>4, WorthToIsNatural
    <3> HIDE DEF new
    <3> QED  BY <3>1, <3>2
  <2>2. \A i \in 1..MaxStakes : i # s => b[i] = a[i]
    BY <1>3 DEF WorthTo, Stakes
  <2>3. b[s] = IF x.owner = o THEN WorthOf(x) ELSE 0
    BY <1>2, <1>3 DEF WorthTo
  <2>4. a[s] = IF st[s] # NoStake /\ x.owner = o THEN WorthOf(st[s]) ELSE 0
    BY DEF WorthTo
  <2>5. MaxStakes \in Nat /\ s \in 1..MaxStakes  BY StakingAssumption DEF Stakes
  <2>6. Capital * (w[o] - Endowment) + SumUpTo(a, MaxStakes) <= earnable[o]
    BY DEF GainsAreEarned
  <2> HIDE DEF a, b, new
  <2>7. SumUpTo(b, MaxStakes) = SumUpTo(a, MaxStakes) + (b[s] - a[s])
    BY <2>1, <2>2, <2>5, SumOfUpdated
  <2>8. SumUpTo(a, MaxStakes) \in Nat  BY <2>1, <2>5, SumIsNatural
  <2>9. w[o] \in Int /\ Endowment \in Nat /\ Capital \in Nat /\ earnable[o] \in Nat
    BY StakingAssumption, CapitalType
  <2>10. CASE o # x.owner
    <3>1. b[s] = 0 /\ a[s] = 0 /\ paid[o] = w[o]  BY <2>3, <2>4, <2>10
    <3>2. SumUpTo(b, MaxStakes) = SumUpTo(a, MaxStakes)  BY <2>7, <2>8, <3>1
    <3> QED  BY <2>6, <3>1, <3>2 DEF b
  <2>11. CASE o = x.owner
    <3>1. b[s] + Capital * d <= a[s]  BY <2>3, <2>4, <2>11
    <3>2. paid[o] = w[o] + d  BY <2>11
    <3>3. Capital * (paid[o] - Endowment) = Capital * (w[o] - Endowment) + Capital * d
      BY <2>9, <3>2
    <3>4. Capital * (w[o] - Endowment) \in Int /\ Capital * d \in Int
      BY <2>9
    <3>5. a[s] \in Nat /\ b[s] \in Nat  BY <2>1, <2>5
    <3>6. Capital * (paid[o] - Endowment) + SumUpTo(b, MaxStakes) <= earnable[o]
      <4> DEFINE before == Capital * (w[o] - Endowment)
                 after == Capital * (paid[o] - Endowment)
                 gain == Capital * d
                 sum == SumUpTo(a, MaxStakes)
      <4>1. after = before + gain /\ before \in Int /\ gain \in Int  BY <3>3, <3>4
      <4>2. before + sum <= earnable[o] /\ sum \in Nat  BY <2>6, <2>8
      <4>3. b[s] + gain <= a[s]  BY <3>1
      <4>4. SumUpTo(b, MaxStakes) = sum + (b[s] - a[s])  BY <2>7
      <4> HIDE DEF before, after, gain, sum
      <4>5. after + SumUpTo(b, MaxStakes) <= earnable[o]
        BY <4>1, <4>2, <4>3, <4>4, <3>5, <2>9
      <4> QED  BY <4>5 DEF after
    <3> QED  BY <3>6 DEF b
  <2> QED  BY <2>10, <2>11
<1> QED  BY <1>5 DEF GainsAreEarned, new, paid

LEMMA StoreKeepsGains ==
  ASSUME StakingIsSound, EveryGainIsEarned, OthersUnchanged, NEW s \in Stakes,
         NEW p, NEW q \in Positions, Starts(stake, target, s, p), Follows(p, q),
         stake' = [stake EXCEPT ![s] = q.stake], NEW d \in Int,
         wallet' = [wallet EXCEPT ![q.stake.owner] = @ + d],
         stake[s] = NoStake => p.stake.lastUpdateAt = now,
         WorthOf(q.stake) + Capital * d <= WorthOf(p.stake)
  PROVE  EveryGainIsEarned'
<1> DEFINE x == q.stake
<1>1. x \in StakeInfo /\ x.lastUpdateAt <= now  BY PositionParts
<1>2. p \in Positions /\ x.owner = p.stake.owner
  BY DEF Starts, Follows
<1>3. stake[s] # NoStake => stake[s] = p.stake  BY DEF Starts
<1>4. now \in 1..MaxTime /\ Ledger(stake, target) /\ wallet \in [Stakers -> Int]
      /\ earnable \in [Stakers -> Nat]
  BY SoundParts DEF OthersAreTyped
<1>5. stake[s] = NoStake => WorthOf(p.stake) = 0
  <2>1. stake[s] = NoStake => p.stake.staked = 0 /\ p.stake.reward = 0  BY DEF Starts
  <2>2. p.stake \in StakeInfo  BY <1>2, PositionParts
  <2> QED  BY <1>4, <2>1, <2>2, WorthOfUpdated, CapitalType
<1>6. WorthOf(x) + Capital * d <= IF stake[s] = NoStake THEN 0 ELSE WorthOf(stake[s])
  BY <1>3, <1>5
<1>7. GainsAreEarned(stake, wallet)  BY DEF EveryGainIsEarned
<1>8. stake[s] # NoStake => stake[s].owner = x.owner  BY <1>2, <1>3
<1> HIDE DEF x
<1>9. GainsAreEarned([stake EXCEPT ![s] = x], [wallet EXCEPT ![x.owner] = @ + d])
  BY <1>1, <1>4, <1>6, <1>7, <1>8, GainsAfter
<1>10. GainsAreEarned(stake', wallet')  BY <1>9 DEF x
<1>11. now' = now /\ earnable' = earnable  BY DEF OthersUnchanged
<1> QED  BY <1>10, <1>11 DEF EveryGainIsEarned, GainsAreEarned, WorthTo, WorthOf

LEMMA PulledWallet ==
  ASSUME wallet \in [Stakers -> Nat], NEW o \in Stakers, NEW amount \in Nat, PullDip(o, amount)
  PROVE  wallet' = [wallet EXCEPT ![o] = @ + (-amount)]
<1>1. wallet' = [wallet EXCEPT ![o] = @ - amount]  BY DEF PullDip
<1>2. wallet[o] - amount = wallet[o] + (-amount)  OBVIOUS
<1> QED  BY <1>1, <1>2

LEMMA UpdatedWorth ==
  ASSUME StakingIsSound, NEW s \in Stakes, IsStake(s), MayUpdate(s)
  PROVE  WorthOf(Updated(s).stake) <= WorthOf(Position(s).stake)
<1> DEFINE p == Position(s)
           q == UpdatedRewards(p)
<1>1. Starts(stake, target, s, p) /\ now \in 1..MaxTime  BY SoundParts, PositionStarts
<1>2. p \in Positions  BY <1>1 DEF Starts
<1>3. p.target.rewardRate \in Rates
  <2>1. p.target = target[stake[s].target]  BY DEF Position
  <2>2. stake[s].target \in Targets /\ IsTarget(stake[s].target)
    BY SoundParts, StakeAmountsAreNatural, StakeParts DEF Ledger, IsStake, IsTarget
  <2> QED  BY <2>1, <2>2, TargetTypes
<1>4. Updated(s) = RestakedRewards(q) /\ MayRestakeRewards(q)
  BY DEF Updated, MayUpdate
<1> HIDE DEF p
<1>5. q \in Positions /\ WorthOf(q.stake) <= WorthOf(p.stake)
  BY <1>1, <1>2, <1>3, UpdatedRewardsFollow, WorthOfUpdatedRewards
<1> HIDE DEF q
<1> DEFINE r == RestakedRewards(q)
<1>6. r \in Positions /\ WorthOf(r.stake) <= WorthOf(q.stake)
  BY <1>1, <1>4, <1>5, RestakedRewardsFollow, WorthOfRestakedRewards
<1> HIDE DEF r
<1>7. WorthOf(p.stake) \in Nat /\ WorthOf(q.stake) \in Nat /\ WorthOf(r.stake) \in Nat
  BY <1>1, <1>2, <1>5, <1>6, PositionParts, WorthType
<1>8. WorthOf(r.stake) <= WorthOf(p.stake)  BY <1>5, <1>6, <1>7
<1> QED  BY <1>4, <1>8 DEF r, p

LEMMA PositionWorth ==
  ASSUME NEW p \in Positions, now \in 1..MaxTime
  PROVE  WorthOf(p.stake) \in Nat
BY PositionParts, WorthType

\* A position of a staker changes by d and the wallet by -d.
LEMMA Moved ==
  ASSUME NEW a \in Nat, NEW b \in Nat, NEW c \in Nat, NEW d \in Int,
         b <= a, c <= b + Capital * d
  PROVE  c + Capital * (-d) <= a
<1>1. Capital * (-d) = -(Capital * d) /\ Capital * d \in Int  BY CapitalType
<1> DEFINE m == Capital * d
           n == Capital * (-d)
<1>2. n = -m /\ m \in Int /\ c <= b + m  BY <1>1
<1> HIDE DEF m, n
<1>3. c + n <= a  BY <1>2
<1> QED  BY <1>3 DEF n

LEMMA CreateStakeKeepsGains ==
  ASSUME StakingIsSound, EveryGainIsEarned, OthersUnchanged, NEW s \in Stakes,
         NEW t \in Targets, NEW o \in Stakers, NEW amount \in StakeAmounts,
         CreateStake(s, t, o, amount)
  PROVE  EveryGainIsEarned'
<1> DEFINE p == NewPosition(o, t, target[t])
           q == WithStake(p, amount)
<1>1. /\ stake[s] = NoStake /\ target[t] # NoTarget
      /\ Store(s, q) /\ PullDip(o, amount)
  BY DEF CreateStake, IsNext, IsStake, IsTarget
<1>2. amount \in Nat /\ now \in 1..MaxTime  BY StakingAssumption, SoundParts
<1>3. Starts(stake, target, s, p)  BY <1>1, SoundParts, NewPositionStarts
<1>4. p \in Positions /\ p.stake.lastUpdateAt = now /\ p.stake.owner = o
  BY <1>3 DEF Starts, NewPosition
<1> HIDE DEF p
<1>5. q \in Positions /\ Follows(p, q)
  BY <1>2, <1>4, WithStakeFollows
<1>6. WorthOf(q.stake) <= WorthOf(p.stake) + Capital * amount
  BY <1>2, <1>4, WorthOfWithStake
<1>7. stake' = [stake EXCEPT ![s] = q.stake]  BY <1>1 DEF Store
<1> HIDE DEF q
<1>8. q.stake.owner = o  BY <1>4, <1>5 DEF Follows
<1>9. wallet' = [wallet EXCEPT ![q.stake.owner] = @ + (-amount)]
  BY <1>1, <1>2, <1>8, SoundParts, PulledWallet
<1>10. WorthOf(q.stake) + Capital * (-amount) <= WorthOf(p.stake)
  <2>1. WorthOf(q.stake) \in Nat /\ WorthOf(p.stake) \in Nat
    BY <1>2, <1>4, <1>5, PositionWorth
  <2> QED  BY <1>2, <1>6, <2>1, Moved
<1>11. -amount \in Int  BY <1>2
<1> QED  BY <1>3, <1>4, <1>5, <1>7, <1>9, <1>10, <1>11, StoreKeepsGains

LEMMA StakeKeepsGains ==
  ASSUME StakingIsSound, EveryGainIsEarned, OthersUnchanged, NEW s \in Stakes,
         NEW amount \in StakeAmounts \union {0}, Stake(s, amount)
  PROVE  EveryGainIsEarned'
<1> DEFINE p == Position(s)
           u == Updated(s)
           q == WithStake(u, amount)
           o == stake[s].owner
<1>1. /\ IsStake(s) /\ MayUpdate(s) /\ stake[s] # NoStake
      /\ Store(s, q) /\ PullDip(o, amount)
  BY DEF Stake, IsStake
<1>2. amount \in Nat /\ now \in 1..MaxTime  BY StakingAssumption, SoundParts
<1>3. o \in Stakers  BY <1>1, SoundParts, StakeAmountsAreNatural, StakeParts DEF IsStake
<1>4. /\ p \in Positions /\ Starts(stake, target, s, p)
      /\ u \in Positions /\ Follows(p, u)
      /\ WorthOf(u.stake) <= WorthOf(p.stake)
  BY <1>1, UpdatedFollows, UpdatedWorth
<1>5. p.stake.owner = o  BY DEF Position
<1> HIDE DEF p, u, o
<1>6. q \in Positions /\ Follows(u, q)
  BY <1>2, <1>4, WithStakeFollows
<1>7. WorthOf(q.stake) <= WorthOf(u.stake) + Capital * amount
  BY <1>2, <1>4, WorthOfWithStake
<1>8. stake' = [stake EXCEPT ![s] = q.stake]  BY <1>1 DEF Store
<1> HIDE DEF q
<1>9. Follows(p, q)  BY <1>4, <1>6, FollowsIsTransitive
<1>10. q.stake.owner = o  BY <1>5, <1>9 DEF Follows
<1>11. wallet' = [wallet EXCEPT ![q.stake.owner] = @ + (-amount)]
  BY <1>1, <1>2, <1>3, <1>10, SoundParts, PulledWallet
<1>12. WorthOf(q.stake) + Capital * (-amount) <= WorthOf(p.stake)
  <2>1. WorthOf(q.stake) \in Nat /\ WorthOf(p.stake) \in Nat /\ WorthOf(u.stake) \in Nat
    BY <1>2, <1>4, <1>6, PositionWorth
  <2> QED  BY <1>2, <1>4, <1>7, <2>1, Moved
<1>13. -amount \in Int  BY <1>2
<1> QED  BY <1>1, <1>4, <1>6, <1>8, <1>9, <1>11, <1>12, <1>13, StoreKeepsGains

LEMMA UnstakeKeepsGains ==
  ASSUME StakingIsSound, EveryGainIsEarned, OthersUnchanged, NEW s \in Stakes, Unstake(s)
  PROVE  EveryGainIsEarned'
<1> DEFINE p == Position(s)
           u == Updated(s)
           q == Unstaked(u)
           o == stake[s].owner
           amount == u.stake.staked
<1>1. /\ IsStake(s) /\ MayUpdate(s) /\ stake[s] # NoStake
      /\ Store(s, q) /\ wallet' = [wallet EXCEPT ![o] = @ + amount]
  BY DEF Unstake, IsStake, PushDip
<1>2. now \in 1..MaxTime  BY SoundParts
<1>4. /\ p \in Positions /\ Starts(stake, target, s, p)
      /\ u \in Positions /\ Follows(p, u)
      /\ WorthOf(u.stake) <= WorthOf(p.stake)
  BY <1>1, UpdatedFollows, UpdatedWorth
<1>5. p.stake.owner = o  BY DEF Position
<1> HIDE DEF p, u, o
<1>3. amount \in Nat  BY <1>4, PositionParts
<1>6. q \in Positions /\ Follows(u, q)
  BY <1>2, <1>4, UnstakedFollows
<1>7. WorthOf(q.stake) <= WorthOf(u.stake) + Capital * (-amount)
  BY <1>2, <1>4, WorthOfUnstaked
<1>8. stake' = [stake EXCEPT ![s] = q.stake]  BY <1>1 DEF Store
<1> HIDE DEF q, amount
<1>9. Follows(p, q)  BY <1>4, <1>6, FollowsIsTransitive
<1>10. q.stake.owner = o  BY <1>5, <1>9 DEF Follows
<1>11. wallet' = [wallet EXCEPT ![q.stake.owner] = @ + amount]  BY <1>1, <1>10
<1>12. WorthOf(q.stake) + Capital * amount <= WorthOf(p.stake)
  <2>1. WorthOf(q.stake) \in Nat /\ WorthOf(p.stake) \in Nat /\ WorthOf(u.stake) \in Nat
    BY <1>2, <1>4, <1>6, PositionWorth
  <2>2. -amount \in Int /\ -(-amount) = amount  BY <1>3
  <2>3. WorthOf(q.stake) + Capital * (-(-amount)) <= WorthOf(p.stake)
    BY <1>4, <1>7, <2>1, <2>2, Moved
  <2> QED  BY <2>2, <2>3
<1>13. amount \in Int /\ stake[s] # NoStake  BY <1>1, <1>3
<1> QED  BY <1>4, <1>6, <1>8, <1>9, <1>11, <1>12, <1>13, StoreKeepsGains

LEMMA RateOfPosition ==
  ASSUME StakingIsSound, NEW s \in Stakes, IsStake(s)
  PROVE  Position(s).target.rewardRate \in Rates
<1>1. Position(s).target = target[stake[s].target]  BY DEF Position
<1>2. stake[s].target \in Targets /\ IsTarget(stake[s].target)
  BY SoundParts, StakeAmountsAreNatural, StakeParts DEF Ledger, IsStake, IsTarget
<1> QED  BY <1>1, <1>2, TargetTypes

LEMMA UpdateRewardsKeepsGains ==
  ASSUME StakingIsSound, EveryGainIsEarned, OthersUnchanged, NEW s \in Stakes, UpdateRewards(s)
  PROVE  EveryGainIsEarned'
<1> DEFINE p == Position(s)
           q == UpdatedRewards(p)
<1>1. /\ IsStake(s) /\ stake[s] # NoStake /\ wallet' = wallet
      /\ stake' = [stake EXCEPT ![s] = q.stake]
  BY DEF UpdateRewards, Store, IsStake
<1>2. now \in 1..MaxTime /\ wallet \in [Stakers -> Nat]  BY SoundParts
<1>3. Starts(stake, target, s, p)  BY <1>1, SoundParts, PositionStarts
<1>4. p \in Positions /\ p.target.rewardRate \in Rates
  BY <1>1, <1>3, RateOfPosition DEF Starts
<1> HIDE DEF p
<1>5. q \in Positions /\ Follows(p, q) /\ WorthOf(q.stake) <= WorthOf(p.stake)
  BY <1>2, <1>4, UpdatedRewardsFollow, WorthOfUpdatedRewards
<1> HIDE DEF q
<1>6. wallet' = [wallet EXCEPT ![q.stake.owner] = @ + 0]
  <2>1. q.stake.owner \in Stakers  BY <1>5, PositionParts, StakeParts
  <2> QED  BY <1>1, <1>2, <2>1
<1>7. WorthOf(q.stake) + Capital * 0 <= WorthOf(p.stake)
  <2>1. WorthOf(q.stake) \in Nat  BY <1>2, <1>5, PositionWorth
  <2> QED  BY <1>5, <2>1, CapitalType
<1>8. 0 \in Int  OBVIOUS
<1> QED  BY <1>1, <1>3, <1>5, <1>6, <1>7, <1>8, StoreKeepsGains

LEMMA ClaimRewardsKeepsGains ==
  ASSUME StakingIsSound, EveryGainIsEarned, OthersUnchanged, NEW s \in Stakes, ClaimRewards(s)
  PROVE  EveryGainIsEarned'
<1> DEFINE p == Position(s)
           u == UpdatedRewards(p)
           q == Claimed(u)
           o == stake[s].owner
           amount == u.stake.reward
<1>1. /\ IsStake(s) /\ stake[s] # NoStake /\ amount <= u.target.reserve
      /\ stake' = [stake EXCEPT ![s] = q.stake]
      /\ wallet' = [wallet EXCEPT ![o] = @ + amount]
  BY DEF ClaimRewards, Claimed, Store, PushDip, IsStake
<1>2. now \in 1..MaxTime  BY SoundParts
<1>3. Starts(stake, target, s, p)  BY <1>1, SoundParts, PositionStarts
<1>4. p \in Positions /\ p.target.rewardRate \in Rates
  BY <1>1, <1>3, RateOfPosition DEF Starts
<1>5. p.stake.owner = o  BY DEF Position
<1> HIDE DEF p, o
<1>6. u \in Positions /\ Follows(p, u) /\ WorthOf(u.stake) <= WorthOf(p.stake)
  BY <1>2, <1>4, UpdatedRewardsFollow, WorthOfUpdatedRewards
<1> HIDE DEF u
<1>7. amount \in Nat  BY <1>6, PositionParts
<1>8. q \in Positions /\ Follows(u, q)
  BY <1>1, <1>2, <1>6, ClaimedFollows
<1>9. WorthOf(q.stake) <= WorthOf(u.stake) + Capital * (-amount)
  BY <1>1, <1>2, <1>6, WorthOfClaimed
<1> HIDE DEF q, amount
<1>10. Follows(p, q)  BY <1>4, <1>6, <1>8, FollowsIsTransitive
<1>11. q.stake.owner = o  BY <1>5, <1>10 DEF Follows
<1>12. wallet' = [wallet EXCEPT ![q.stake.owner] = @ + amount]  BY <1>1, <1>11
<1>13. WorthOf(q.stake) + Capital * amount <= WorthOf(p.stake)
  <2>1. WorthOf(q.stake) \in Nat /\ WorthOf(p.stake) \in Nat /\ WorthOf(u.stake) \in Nat
    BY <1>2, <1>4, <1>6, <1>8, PositionWorth
  <2>2. -amount \in Int /\ -(-amount) = amount  BY <1>7
  <2>3. WorthOf(q.stake) + Capital * (-(-amount)) <= WorthOf(p.stake)
    BY <1>6, <1>9, <2>1, <2>2, Moved
  <2> QED  BY <2>2, <2>3
<1>14. amount \in Int /\ stake[s] # NoStake /\ stake' = [stake EXCEPT ![s] = q.stake]
  BY <1>1, <1>7
<1> QED  BY <1>3, <1>8, <1>10, <1>12, <1>13, <1>14, StoreKeepsGains

LEMMA RestakeKeepsGains ==
  ASSUME StakingIsSound, EveryGainIsEarned, OthersUnchanged, NEW s \in Stakes,
         NEW new \in Stakes, NEW t \in Targets, Restake(s, new, t)
  PROVE  EveryGainIsEarned'
<1> DEFINE p == Position(s)
           u == Updated(s)
           old == Unstaked(u)
           amount == u.stake.staked
           o == stake[s].owner
           emptied == [stake EXCEPT ![s] = old.stake]
           left == [target EXCEPT ![stake[s].target] = old.target]
           fresh == NewPosition(o, t, left[t])
           q == WithStake(fresh, amount)
           paid == [wallet EXCEPT ![o] = @ + amount]
<1>1. /\ IsStake(s) /\ ~IsStake(new) /\ IsTarget(t) /\ MayUpdate(s)
      /\ stake' = [stake EXCEPT ![s] = old.stake, ![new] = q.stake]
      /\ wallet' = wallet
  BY DEF Restake, IsNext
<1>2. /\ now \in 1..MaxTime /\ stake \in StakeRecords /\ target \in TargetRecords
      /\ Ledger(stake, target) /\ TermsAreKnown(target)
      /\ wallet \in [Stakers -> Nat] /\ earnable \in [Stakers -> Nat]
  BY SoundParts DEF OthersAreTyped
<1>3. o \in Stakers  BY <1>1, <1>2, StakeAmountsAreNatural, StakeParts DEF IsStake
<1>4. /\ p \in Positions /\ Starts(stake, target, s, p)
      /\ u \in Positions /\ Follows(p, u)
      /\ WorthOf(u.stake) <= WorthOf(p.stake)
  BY <1>1, UpdatedFollows, UpdatedWorth
<1>5. p.stake = stake[s] /\ p.stake.target = stake[s].target /\ p.stake.owner = o
  BY DEF Position
<1> HIDE DEF p, u, o
<1>6. /\ old \in Positions /\ Follows(u, old)
      /\ WorthOf(old.stake) <= WorthOf(u.stake) + Capital * (-amount)
  BY <1>2, <1>4, UnstakedFollows, WorthOfUnstaked
<1>7. amount \in Nat  BY <1>4, PositionParts
<1> HIDE DEF old, amount
<1>8. Follows(p, old)  BY <1>4, <1>6, FollowsIsTransitive
<1>9. old.stake.owner = o /\ old.stake.target = stake[s].target
  BY <1>5, <1>8 DEF Follows
<1>10. Ledger(emptied, left)  BY <1>2, <1>4, <1>6, <1>8, <1>9, PositionStored
<1>11. left[t] # NoTarget /\ emptied[new] = NoStake /\ s # new
  <2>1. old.target # NoTarget  BY <1>6, PositionParts, RecordsAreDistinct
  <2>2. stake[new] = NoStake /\ stake[s] # NoStake /\ target[t] # NoTarget
    BY <1>1 DEF IsStake, IsTarget
  <2> QED  BY <1>2, <2>1, <2>2 DEF StakeRecords, TargetRecords
<1>12. stake' = [emptied EXCEPT ![new] = q.stake]  BY <1>1, <1>11
\* First the old stake gives its amount to its owner...
<1>13. GainsAreEarned(emptied, paid)
  <2>1. old.stake \in StakeInfo /\ old.stake.lastUpdateAt <= now  BY <1>6, PositionParts
  <2>2. WorthOf(old.stake) + Capital * amount <= WorthOf(p.stake)
    <3>1. WorthOf(old.stake) \in Nat /\ WorthOf(p.stake) \in Nat /\ WorthOf(u.stake) \in Nat
      BY <1>2, <1>4, <1>6, PositionWorth
    <3>2. -amount \in Int /\ -(-amount) = amount  BY <1>7
    <3>3. WorthOf(old.stake) + Capital * (-(-amount)) <= WorthOf(p.stake)
      BY <1>4, <1>6, <3>1, <3>2, Moved
    <3> QED  BY <3>2, <3>3
  <2>3. stake[s] # NoStake /\ stake[s].owner = old.stake.owner
    BY <1>1, <1>5, <1>9 DEF IsStake
  <2>4. GainsAreEarned(stake, wallet)  BY DEF EveryGainIsEarned
  <2>5. amount \in Int /\ wallet \in [Stakers -> Int]  BY <1>2, <1>7
  <2>6. WorthOf(old.stake) + Capital * amount
          <= IF stake[s] = NoStake THEN 0 ELSE WorthOf(stake[s])
    BY <1>5, <2>2, <2>3
  <2> QED  BY <1>2, <1>9, <2>1, <2>3, <2>4, <2>5, <2>6, GainsAfter
<1> HIDE DEF emptied, left
<1>14. Starts(emptied, left, new, fresh)
  BY <1>2, <1>3, <1>10, <1>11, NewPositionStarts
<1>15. fresh \in Positions /\ fresh.stake.owner = o /\ fresh.stake.lastUpdateAt = now
       /\ fresh.stake.staked = 0 /\ fresh.stake.reward = 0
  BY <1>14 DEF Starts, NewPosition
<1> HIDE DEF fresh
<1>16. /\ q \in Positions /\ Follows(fresh, q)
       /\ WorthOf(q.stake) <= WorthOf(fresh.stake) + Capital * amount
  BY <1>2, <1>7, <1>15, WithStakeFollows, WorthOfWithStake
<1> HIDE DEF q
<1>17. q.stake.owner = o  BY <1>15, <1>16 DEF Follows
\* ...and then the owner gives it to the new one.
<1>18. GainsAreEarned(stake', wallet)
  <2>1. q.stake \in StakeInfo /\ q.stake.lastUpdateAt <= now  BY <1>16, PositionParts
  <2>2. WorthOf(q.stake) + Capital * (-amount) <= WorthOf(fresh.stake)
    <3>1. WorthOf(q.stake) \in Nat /\ WorthOf(fresh.stake) \in Nat
      BY <1>2, <1>15, <1>16, PositionWorth
    <3> QED  BY <1>7, <1>16, <3>1, Moved
  <2>3. WorthOf(fresh.stake) = 0
    <3>1. fresh.stake \in StakeInfo  BY <1>15, PositionParts
    <3> QED  BY <1>2, <1>15, <3>1, WorthOfUpdated, CapitalType
  <2>4. -amount \in Int /\ paid \in [Stakers -> Int]
    <3>1. \A i \in Stakers : wallet[i] \in Int /\ wallet[i] + amount \in Int
      BY <1>2, <1>7
    <3>2. paid \in [Stakers -> Int]  BY <1>2, <3>1
    <3>3. -amount \in Int  BY <1>7
    <3> QED  BY <3>2, <3>3
  <2>5. [paid EXCEPT ![q.stake.owner] = @ + (-amount)] = wallet
    <3>1. wallet[o] + amount + (-amount) = wallet[o]  BY <1>2, <1>3, <1>7
    <3> QED  BY <1>2, <1>3, <1>17, <3>1
  <2>6. WorthOf(q.stake) + Capital * (-amount)
          <= IF emptied[new] = NoStake THEN 0 ELSE WorthOf(emptied[new])
    BY <1>11, <2>2, <2>3
  <2> HIDE DEF paid
  <2>7. GainsAreEarned([emptied EXCEPT ![new] = q.stake],
                       [paid EXCEPT ![q.stake.owner] = @ + (-amount)])
    BY <1>2, <1>10, <1>11, <1>13, <2>1, <2>4, <2>6, GainsAfter
  <2> QED  BY <1>12, <2>5, <2>7
<1>19. GainsAreEarned(stake', wallet')  BY <1>1, <1>18
<1>20. now' = now /\ earnable' = earnable  BY DEF OthersUnchanged
<1> QED  BY <1>19, <1>20 DEF EveryGainIsEarned, GainsAreEarned, WorthTo, WorthOf

LEMMA StakeNextKeepsGains ==
  ASSUME StakingIsSound, EveryGainIsEarned, StakeNext, OthersUnchanged
  PROVE  EveryGainIsEarned'
BY CreateStakeKeepsGains, StakeKeepsGains, UnstakeKeepsGains, UpdateRewardsKeepsGains,
   ClaimRewardsKeepsGains, RestakeKeepsGains DEF StakeNext

LEMMA QuietStepKeepsGains ==
  ASSUME EveryGainIsEarned, UNCHANGED <<stake, wallet, now, earnable>>
  PROVE  EveryGainIsEarned'
<1>1. GainsAreEarned(stake, wallet)  BY DEF EveryGainIsEarned
<1>2. GainsAreEarned(stake', wallet')  BY <1>1
<1> QED  BY <1>2 DEF EveryGainIsEarned, GainsAreEarned, WorthTo, WorthOf

LEMMA WorthOfLater ==
  ASSUME NEW x, now' = now + 1
  PROVE  WorthOf(x)' = Capital * (x.staked + x.reward) + ((now + 1) - x.lastUpdateAt) * PerUnit(x)
BY DEF WorthOf

\* When time goes by, the worth of every stake grows by what becomes earnable.
LEMMA TickKeepsGains ==
  ASSUME StakingIsSound, EveryGainIsEarned, Tick
  PROVE  EveryGainIsEarned'
<1>1. /\ now' = now + 1
      /\ earnable' = [o \in Stakers |-> earnable[o] +
           SumOver(o, [s \in Stakes |-> PerUnit(stake[s])])]
      /\ stake' = stake /\ wallet' = wallet
  BY DEF Tick, stakeVars, PerUnit
<1>2. /\ now \in 1..MaxTime /\ stake \in StakeRecords
      /\ wallet \in [Stakers -> Nat] /\ earnable \in [Stakers -> Nat]
      /\ \A s \in Stakes : stake[s] # NoStake => stake[s].lastUpdateAt <= now
  BY SoundParts DEF OthersAreTyped, Ledger
<1>3. ASSUME NEW o \in Stakers
      PROVE  Capital * (wallet[o] - Endowment) + SumUpTo(WorthTo(stake, o)', MaxStakes)
               <= earnable'[o]
  <2> DEFINE mine(s) == stake[s] # NoStake /\ stake[s].owner = o
             a == WorthTo(stake, o)
             b == [s \in Stakes |->
                    IF s \in StakesOf(o) THEN [i \in Stakes |-> PerUnit(stake[i])][s] ELSE 0]
             c == WorthTo(stake, o)'
  <2>1. SumOver(o, [s \in Stakes |-> PerUnit(stake[s])]) = SumUpTo(b, MaxStakes)
    BY DEF SumOver
  <2>2. \A s \in 1..MaxStakes : a[s] \in Int /\ b[s] \in Int /\ c[s] = a[s] + b[s]
    <3>1. ASSUME NEW s \in Stakes
          PROVE  a[s] \in Int /\ b[s] \in Int /\ c[s] = a[s] + b[s]
      <4>0. PICK x : x = stake[s]  OBVIOUS
      <4>1. /\ a[s] = IF mine(s) THEN WorthOf(x) ELSE 0
            /\ b[s] = IF mine(s) THEN PerUnit(x) ELSE 0
            /\ c[s] = IF mine(s) THEN WorthOf(x)' ELSE 0
        <5>1. stake'[s] = x /\ stake[s] = x  BY <1>1, <4>0
        <5>2. c[s] = IF mine(s) THEN WorthOf(x)' ELSE 0
          BY <5>1 DEF WorthTo, WorthOf, PerUnit
        <5> QED  BY <4>0, <5>2 DEF WorthTo, StakesOf, IsStake
      <4>2. CASE mine(s)
        <5>1. x \in StakeInfo /\ x.lastUpdateAt <= now /\ x.staked \in Nat
          BY <1>2, <4>0, <4>2, StakeAmountsAreNatural, StakeParts
        <5>2. PerUnit(x) \in Nat  BY <5>1, PerUnitType
        <5>3. /\ Capital * (x.staked + x.reward) \in Nat
              /\ now - x.lastUpdateAt \in Nat /\ WorthOf(x) \in Nat
          BY <1>2, <5>1, WorthType
        <5>4. /\ WorthOf(x) = Capital * (x.staked + x.reward)
                                + (now - x.lastUpdateAt) * PerUnit(x)
              /\ WorthOf(x)' = Capital * (x.staked + x.reward)
                                 + ((now + 1) - x.lastUpdateAt) * PerUnit(x)
          BY <1>1, WorthOfLater DEF WorthOf
        <5>5. now \in Int /\ x.lastUpdateAt \in Int  BY <1>2, <5>1, StakeParts
        <5> DEFINE r == now - x.lastUpdateAt
                   k == PerUnit(x)
        <5>6. (now + 1) - x.lastUpdateAt = r + 1 /\ r \in Nat /\ k \in Nat
          BY <5>2, <5>3, <5>5
        <5> HIDE DEF r, k
        <5>7. (r + 1) * k = r * k + k /\ r * k \in Nat  BY <5>6, ProductType
        <5>8. WorthOf(x)' = WorthOf(x) + k
          BY <5>3, <5>4, <5>6, <5>7 DEF r, k
        <5> QED  BY <4>1, <4>2, <5>2, <5>3, <5>8 DEF k
      <4>3. CASE ~mine(s)  BY <4>1, <4>3
      <4> QED  BY <4>2, <4>3
    <3> HIDE DEF a, b, c
    <3> QED  BY <3>1 DEF Stakes
  <2>3. Capital * (wallet[o] - Endowment) + SumUpTo(a, MaxStakes) <= earnable[o]
    BY DEF EveryGainIsEarned, GainsAreEarned
  <2>4. earnable'[o] = earnable[o] + SumUpTo(b, MaxStakes)
    <3> HIDE DEF b
    <3> QED  BY <1>1, <2>1
  <2>5. MaxStakes \in Nat  BY StakingAssumption
  <2> HIDE DEF a, b, c
  <2>6. SumUpTo(c, MaxStakes) = SumUpTo(a, MaxStakes) + SumUpTo(b, MaxStakes)
    BY <2>2, <2>5, SumOfSums
  <2>7. SumUpTo(a, MaxStakes) \in Int /\ SumUpTo(b, MaxStakes) \in Int
    BY <2>2, <2>5, SumIsInteger
  <2>8. Capital * (wallet[o] - Endowment) \in Int /\ earnable[o] \in Nat
    BY <1>2, CapitalType, StakingAssumption
  <2>9. Capital * (wallet[o] - Endowment) + SumUpTo(c, MaxStakes) <= earnable'[o]
    BY <2>3, <2>4, <2>6, <2>7, <2>8
  <2> QED  BY <2>9 DEF c
<1> QED  BY <1>1, <1>3 DEF EveryGainIsEarned, GainsAreEarned

LEMMA StepKeepsGains ==
  ASSUME StakingIsSound, EveryGainIsEarned, [Next]_vars
  PROVE  EveryGainIsEarned'
<1>1. CASE TargetsNext /\ UNCHANGED <<stakeVars, now, earnable>>
  BY <1>1, QuietStepKeepsGains DEF stakeVars
<1>2. CASE StakeNext /\ UNCHANGED <<support, stakingRate, tvl, triggers, changes, now, earnable>>
  BY <1>2, StakeNextKeepsGains DEF OthersUnchanged
<1>3. CASE Tick
  BY <1>3, TickKeepsGains
<1>4. CASE UNCHANGED vars
  BY <1>4, QuietStepKeepsGains DEF vars, stakeVars
<1> QED  BY <1>1, <1>2, <1>3, <1>4 DEF Next

LEMMA InitGainsAreEarned ==
  ASSUME Init
  PROVE  EveryGainIsEarned
<1>1. /\ stake = [s \in Stakes |-> NoStake] /\ wallet = [o \in Stakers |-> Endowment]
      /\ earnable = [o \in Stakers |-> 0]
  BY DEF Init
<1>2. ASSUME NEW o \in Stakers
      PROVE  Capital * (wallet[o] - Endowment) + SumUpTo(WorthTo(stake, o), MaxStakes)
               <= earnable[o]
  <2>1. \A s \in 1..MaxStakes : WorthTo(stake, o)[s] = 0  BY <1>1 DEF WorthTo, Stakes
  <2>2. MaxStakes \in Nat /\ Endowment \in Nat  BY StakingAssumption
  <2>3. SumUpTo(WorthTo(stake, o), MaxStakes) = 0  BY <2>1, <2>2, SumOfZeros
  <2>4. wallet[o] - Endowment = 0  BY <1>1, <2>2
  <2> QED  BY <1>1, <2>3, <2>4, CapitalType
<1> QED  BY <1>2 DEF EveryGainIsEarned, GainsAreEarned

\* The inductive form of RewardsAreEarned: it also counts what a stake may still be
\* given for the time since its last update, however late that is.
THEOREM GainsStayEarned == Spec => []EveryGainIsEarned
<1>1. Init => EveryGainIsEarned  BY InitGainsAreEarned
<1>2. StakingIsSound /\ EveryGainIsEarned /\ [Next]_vars => EveryGainIsEarned'
  BY StepKeepsGains
<1> QED  BY <1>1, <1>2, StakingStaysSound, PTL DEF Spec

LEMMA EarnedRewards ==
  ASSUME StakingIsSound, EveryGainIsEarned
  PROVE  RewardsAreEarned
<1>1. /\ now \in 1..MaxTime /\ stake \in StakeRecords
      /\ wallet \in [Stakers -> Nat] /\ earnable \in [Stakers -> Nat]
      /\ \A s \in Stakes : stake[s] # NoStake => stake[s].lastUpdateAt <= now
  BY SoundParts DEF OthersAreTyped, Ledger
<1>2. ASSUME NEW o \in Stakers
      PROVE  Capital * (wallet[o] + SumOver(o, [s \in Stakes |-> stake[s].staked + stake[s].reward])
                          - Endowment) <= earnable[o]
  <2> DEFINE mine(s) == stake[s] # NoStake /\ stake[s].owner = o
             a == [s \in Stakes |-> IF s \in StakesOf(o)
                    THEN [i \in Stakes |-> stake[i].staked + stake[i].reward][s] ELSE 0]
             b == [s \in Stakes |-> Capital * a[s]]
             c == WorthTo(stake, o)
  <2>1. \A s \in 1..MaxStakes : a[s] \in Int /\ b[s] = Capital * a[s] /\ b[s] \in Int
                                /\ c[s] \in Int /\ b[s] <= c[s]
    <3>1. ASSUME NEW s \in Stakes
          PROVE  a[s] \in Int /\ b[s] = Capital * a[s] /\ b[s] \in Int
                 /\ c[s] \in Int /\ b[s] <= c[s]
      <4>1. /\ a[s] = IF mine(s) THEN stake[s].staked + stake[s].reward ELSE 0
            /\ c[s] = IF mine(s) THEN WorthOf(stake[s]) ELSE 0
            /\ b[s] = Capital * a[s]
        BY DEF WorthTo, StakesOf, IsStake
      <4>2. CASE mine(s)
        <5> DEFINE x == stake[s]
        <5>1. x \in StakeInfo /\ x.lastUpdateAt <= now
              /\ x.staked \in Nat /\ x.reward \in Nat
          BY <1>1, <4>2, StakeAmountsAreNatural, StakeParts
        <5>2. /\ Capital * (x.staked + x.reward) \in Nat
              /\ (now - x.lastUpdateAt) * PerUnit(x) \in Nat /\ WorthOf(x) \in Nat
              /\ WorthOf(x) = Capital * (x.staked + x.reward)
                                + (now - x.lastUpdateAt) * PerUnit(x)
          BY <1>1, <5>1, WorthType DEF WorthOf
        <5>3. Capital * (x.staked + x.reward) <= WorthOf(x)  BY <5>2
        <5>4. a[s] = x.staked + x.reward /\ c[s] = WorthOf(x) /\ b[s] = Capital * a[s]
          BY <4>1, <4>2
        <5> HIDE DEF x, a, b, c
        <5> QED  BY <5>1, <5>2, <5>3, <5>4
      <4>3. CASE ~mine(s)
        <5>1. a[s] = 0 /\ c[s] = 0 /\ b[s] = Capital * 0  BY <4>1, <4>3
        <5> HIDE DEF a, b, c
        <5> QED  BY <5>1, CapitalType
      <4> QED  BY <4>2, <4>3
    <3> HIDE DEF a, b, c
    <3> QED  BY <3>1 DEF Stakes
  <2>2. SumOver(o, [s \in Stakes |-> stake[s].staked + stake[s].reward]) = SumUpTo(a, MaxStakes)
    BY DEF SumOver
  <2>3. MaxStakes \in Nat /\ Capital \in Int /\ Endowment \in Nat
    BY StakingAssumption, CapitalType
  <2>4. Capital * (wallet[o] - Endowment) + SumUpTo(c, MaxStakes) <= earnable[o]
    BY DEF EveryGainIsEarned, GainsAreEarned
  <2> HIDE DEF a, b, c
  <2>5. SumUpTo(b, MaxStakes) = Capital * SumUpTo(a, MaxStakes)
    BY <2>1, <2>3, SumOfMultiples
  <2>6. SumUpTo(b, MaxStakes) <= SumUpTo(c, MaxStakes)  BY <2>1, <2>3, SumIsMonotone
  <2>7. /\ SumUpTo(a, MaxStakes) \in Int /\ SumUpTo(b, MaxStakes) \in Int
        /\ SumUpTo(c, MaxStakes) \in Int
    BY <2>1, <2>3, SumIsInteger
  <2> DEFINE sum == SumUpTo(a, MaxStakes)
             gain == wallet[o] - Endowment
  <2>8. wallet[o] + sum - Endowment = gain + sum /\ gain \in Int /\ sum \in Int
    BY <1>1, <2>3, <2>7
  <2>9. earnable[o] \in Nat  BY <1>1
  <2> HIDE DEF sum, gain
  <2>10. Capital * (gain + sum) = Capital * gain + Capital * sum /\ Capital * gain \in Int
    BY <2>3, <2>8
  <2>11. Capital * (gain + sum) <= earnable[o]
    BY <2>4, <2>5, <2>6, <2>7, <2>9, <2>10 DEF sum, gain
  <2> QED  BY <2>2, <2>8, <2>11 DEF sum
<1>3. Capital = 2 * Unit * Year  BY DEF Capital
<1> QED  BY <1>2, <1>3 DEF RewardsAreEarned

\* Whatever a staker creates, increases, restakes and claims in whatever order, all that
\* is gained was earned by capital that was staked at the time, at the highest rate there
\* is, up to one half for every unit of time by rounding.
THEOREM RewardsStayEarned == Spec => []RewardsAreEarned
<1>1. StakingIsSound /\ EveryGainIsEarned => RewardsAreEarned  BY EarnedRewards
<1> QED  BY <1>1, StakingStaysSound, GainsStayEarned, PTL

----------------------------------------------------------------------------
(* Limits                                                                  *)

\* Stakes only get over the limit of a target when they already were.
Respects(p, q) ==
  q.target.staked > p.target.staked => q.target.staked <= p.target.limit

LEMMA RespectsIsTransitive ==
  ASSUME NEW p \in Positions, NEW q \in Positions, NEW r \in Positions,
         Follows(p, q), Respects(p, q), Respects(q, r)
  PROVE  Respects(p, r)
<1>1. q.target.limit = p.target.limit  BY DEF Follows
<1>2. /\ p.target.staked \in Nat /\ q.target.staked \in Nat /\ r.target.staked \in Nat
      /\ p.target.limit \in Nat
  BY PositionParts
<1> QED  BY <1>1, <1>2 DEF Respects

LEMMA UpdatedRespects ==
  ASSUME StakingIsSound, NEW s \in Stakes, IsStake(s), MayUpdate(s)
  PROVE  Respects(Position(s), Updated(s))
<1> DEFINE p == Position(s)
           q == UpdatedRewards(p)
           r == RestakedRewards(q)
<1>1. now \in 1..MaxTime /\ Starts(stake, target, s, p)  BY SoundParts, PositionStarts
<1>2. p \in Positions  BY <1>1 DEF Starts
<1>3. Updated(s) = r /\ MayRestakeRewards(q)  BY DEF Updated, MayUpdate
<1> HIDE DEF p
<1>4. q \in Positions /\ Follows(p, q) /\ q.stake.staked = p.stake.staked
  BY <1>1, <1>2, UpdatedRewardsFollow
<1>5. q.target.staked = p.target.staked
  BY <1>2, <1>4, PositionParts DEF Follows
<1> HIDE DEF q
<1>6. Respects(p, q)
  <2>1. p.target.staked \in Nat  BY <1>2, PositionParts
  <2> QED  BY <1>5, <2>1 DEF Respects
<1>7. r \in Positions  BY <1>1, <1>3, <1>4, RestakedRewardsFollow
<1>8. Respects(q, r)
  <2>1. q.target \in TargetInfo /\ q.target.staked \in Nat  BY <1>4, PositionParts
  <2>2. CASE q.stake.reward = 0
    <3>1. r = q  BY <2>2 DEF RestakedRewards
    <3> QED  BY <2>1, <3>1 DEF Respects
  <2>3. CASE q.stake.reward # 0
    <3>1. r.target = [q.target EXCEPT !.staked = @ + q.stake.reward,
                        !.reward = @ - q.stake.reward, !.reserve = @ - q.stake.reward]
      BY <2>3 DEF RestakedRewards
    <3>2. r.target.staked = q.target.staked + q.stake.reward
      BY <2>1, <3>1 DEF TargetInfo
    <3>3. q.target.staked + q.stake.reward <= q.target.limit
      BY <1>3, <2>3 DEF MayRestakeRewards, MayAdd
    <3> QED  BY <3>2, <3>3 DEF Respects
  <2> QED  BY <2>2, <2>3
<1> HIDE DEF r
<1>9. Respects(p, r)  BY <1>2, <1>4, <1>6, <1>7, <1>8, RespectsIsTransitive
<1> QED  BY <1>3, <1>9 DEF p

LEMMA WithStakeRespects ==
  ASSUME NEW p \in Positions, NEW amount \in Nat, amount # 0 => MayAdd(p, amount)
  PROVE  Respects(p, WithStake(p, amount))
<1>1. p.target \in TargetInfo /\ p.target.staked \in Nat  BY PositionParts
<1>2. CASE amount = 0
  BY <1>1, <1>2 DEF WithStake, Respects
<1>3. CASE amount # 0
  <2>1. WithStake(p, amount).target = [p.target EXCEPT !.staked = @ + amount]
    BY <1>3 DEF WithStake
  <2>2. WithStake(p, amount).target.staked = p.target.staked + amount
    BY <1>1, <2>1 DEF TargetInfo
  <2> QED  BY <1>3, <2>2 DEF Respects, MayAdd
<1> QED  BY <1>2, <1>3

LEMMA UnstakedRespects ==
  ASSUME NEW p \in Positions, now \in 1..MaxTime
  PROVE  Respects(p, Unstaked(p))
<1> DEFINE q == Unstaked(p)
<1>1. q \in Positions /\ Follows(p, q) /\ q.stake.staked = 0  BY UnstakedFollows
<1> HIDE DEF q
<1>2. /\ p.target.staked \in Nat /\ q.target.staked \in Nat /\ p.stake.staked \in Nat
      /\ q.target.staked - p.target.staked = q.stake.staked - p.stake.staked
  BY <1>1, PositionParts DEF Follows
<1>3. q.target.staked <= p.target.staked  BY <1>1, <1>2
<1>4. Respects(p, q)  BY <1>2, <1>3 DEF Respects
<1> QED  BY <1>4 DEF q

LEMMA SteadyRespects ==
  ASSUME NEW p \in Positions, NEW q \in Positions, Follows(p, q),
         q.stake.staked = p.stake.staked
  PROVE  Respects(p, q)
<1>1. /\ p.target.staked \in Nat /\ q.target.staked \in Nat /\ p.stake.staked \in Nat
      /\ q.target.staked - p.target.staked = q.stake.staked - p.stake.staked
  BY PositionParts DEF Follows
<1>2. q.target.staked = p.target.staked  BY <1>1
<1> QED  BY <1>1, <1>2 DEF Respects

LimitsHold ==
  \A t \in Targets : IsTarget(t) /\ target'[t].staked > target[t].staked =>
    target'[t].staked <= target[t].limit

LEMMA StoreRespectsLimits ==
  ASSUME StakingIsSound, NEW s \in Stakes, NEW p, NEW q \in Positions,
         Starts(stake, target, s, p), Follows(p, q), Respects(p, q), Store(s, q)
  PROVE  LimitsHold
<1> DEFINE u == q.stake.target
<1>1. target \in TargetRecords /\ target' = [target EXCEPT ![u] = q.target]
  BY SoundParts DEF Store
<1>2. p.target = target[u] /\ u \in Targets
  BY PositionParts DEF Starts, Follows
<1> HIDE DEF u
<1>3. target'[u] = q.target /\ \A t \in Targets : t # u => target'[t] = target[t]
  BY <1>1, <1>2 DEF TargetRecords
<1>4. \A t \in Targets : IsTarget(t) => target[t].staked \in Nat
  BY TargetTypes, TargetParts
<1> QED  BY <1>2, <1>3, <1>4 DEF LimitsHold, Respects

LEMMA StakeNextRespectsLimits ==
  ASSUME StakingIsSound, StakeNext
  PROVE  LimitsHold
<1>0. now \in 1..MaxTime  BY SoundParts
<1>1. ASSUME NEW s \in Stakes, NEW t \in Targets, NEW o \in Stakers,
             NEW amount \in StakeAmounts, CreateStake(s, t, o, amount)
      PROVE  LimitsHold
  <2> DEFINE p == NewPosition(o, t, target[t])
             q == WithStake(p, amount)
  <2>1. /\ stake[s] = NoStake /\ target[t] # NoTarget
        /\ MayAdd(p, amount) /\ Store(s, q)
    BY <1>1 DEF CreateStake, IsNext, IsStake, IsTarget
  <2>2. amount \in Nat  BY StakingAssumption
  <2>3. Starts(stake, target, s, p)  BY <2>1, SoundParts, NewPositionStarts
  <2>4. p \in Positions  BY <2>3 DEF Starts
  <2> HIDE DEF p
  <2>5. q \in Positions /\ Follows(p, q) /\ Respects(p, q)
    BY <1>0, <2>1, <2>2, <2>4, WithStakeFollows, WithStakeRespects
  <2> HIDE DEF q
  <2> QED  BY <2>1, <2>3, <2>5, StoreRespectsLimits
<1>2. ASSUME NEW s \in Stakes, NEW amount \in StakeAmounts \union {0}, Stake(s, amount)
      PROVE  LimitsHold
  <2> DEFINE p == Position(s)
             u == Updated(s)
             q == WithStake(u, amount)
  <2>1. /\ IsStake(s) /\ MayUpdate(s) /\ Store(s, q)
        /\ amount # 0 => MayAdd(u, amount)
    BY <1>2 DEF Stake
  <2>2. amount \in Nat  BY StakingAssumption
  <2>3. /\ p \in Positions /\ Starts(stake, target, s, p)
        /\ u \in Positions /\ Follows(p, u) /\ Respects(p, u)
    BY <2>1, UpdatedFollows, UpdatedRespects
  <2> HIDE DEF p, u
  <2>4. q \in Positions /\ Follows(u, q) /\ Respects(u, q)
    BY <1>0, <2>1, <2>2, <2>3, WithStakeFollows, WithStakeRespects
  <2> HIDE DEF q
  <2>5. Follows(p, q) /\ Respects(p, q)
    BY <2>3, <2>4, FollowsIsTransitive, RespectsIsTransitive
  <2> QED  BY <2>1, <2>3, <2>4, <2>5, StoreRespectsLimits
<1>3. ASSUME NEW s \in Stakes, Unstake(s)
      PROVE  LimitsHold
  <2> DEFINE p == Position(s)
             u == Updated(s)
             q == Unstaked(u)
  <2>1. IsStake(s) /\ MayUpdate(s) /\ Store(s, q)  BY <1>3 DEF Unstake
  <2>2. /\ p \in Positions /\ Starts(stake, target, s, p)
        /\ u \in Positions /\ Follows(p, u) /\ Respects(p, u)
    BY <2>1, UpdatedFollows, UpdatedRespects
  <2> HIDE DEF p, u
  <2>3. q \in Positions /\ Follows(u, q) /\ Respects(u, q)
    BY <1>0, <2>2, UnstakedFollows, UnstakedRespects
  <2> HIDE DEF q
  <2>4. Follows(p, q) /\ Respects(p, q)
    BY <2>2, <2>3, FollowsIsTransitive, RespectsIsTransitive
  <2> QED  BY <2>1, <2>2, <2>3, <2>4, StoreRespectsLimits
<1>4. ASSUME NEW s \in Stakes, UpdateRewards(s)
      PROVE  LimitsHold
  <2> DEFINE p == Position(s)
             q == UpdatedRewards(p)
  <2>1. IsStake(s) /\ Store(s, q)  BY <1>4 DEF UpdateRewards
  <2>2. Starts(stake, target, s, p) /\ p \in Positions
    BY <2>1, SoundParts, PositionStarts DEF Starts
  <2> HIDE DEF p
  <2>3. q \in Positions /\ Follows(p, q) /\ q.stake.staked = p.stake.staked
    BY <1>0, <2>2, UpdatedRewardsFollow
  <2> HIDE DEF q
  <2> QED  BY <2>1, <2>2, <2>3, SteadyRespects, StoreRespectsLimits
<1>5. ASSUME NEW s \in Stakes, ClaimRewards(s)
      PROVE  LimitsHold
  <2> DEFINE p == Position(s)
             u == UpdatedRewards(p)
             q == Claimed(u)
  <2>1. IsStake(s) /\ Store(s, q) /\ u.stake.reward <= u.target.reserve
    BY <1>5 DEF ClaimRewards, Claimed
  <2>2. Starts(stake, target, s, p) /\ p \in Positions
    BY <2>1, SoundParts, PositionStarts DEF Starts
  <2> HIDE DEF p
  <2>3. u \in Positions /\ Follows(p, u) /\ u.stake.staked = p.stake.staked
    BY <1>0, <2>2, UpdatedRewardsFollow
  <2> HIDE DEF u
  <2>4. q \in Positions /\ Follows(u, q) /\ q.stake.staked = u.stake.staked
    BY <1>0, <2>1, <2>3, ClaimedFollows
  <2> HIDE DEF q
  <2>5. Follows(p, q)  BY <2>2, <2>3, <2>4, FollowsIsTransitive
  <2>6. Respects(p, q)  BY <2>2, <2>3, <2>4, <2>5, SteadyRespects
  <2> QED  BY <2>1, <2>2, <2>4, <2>5, <2>6, StoreRespectsLimits
<1>6. ASSUME NEW s \in Stakes, NEW new \in Stakes, NEW t \in Targets, Restake(s, new, t)
      PROVE  LimitsHold
  <2> DEFINE p == Position(s)
             u == Updated(s)
             old == Unstaked(u)
             amount == u.stake.staked
             o == stake[s].owner
             v == stake[s].target
             left == [target EXCEPT ![v] = old.target]
             fresh == NewPosition(o, t, left[t])
             q == WithStake(fresh, amount)
  <2>1. /\ IsStake(s) /\ MayUpdate(s) /\ IsTarget(t)
        /\ MayAdd(fresh, amount)
        /\ target' = [left EXCEPT ![t] = q.target]
    BY <1>6 DEF Restake
  <2>2. /\ p \in Positions /\ u \in Positions /\ Follows(p, u) /\ Respects(p, u)
    BY <2>1, UpdatedFollows, UpdatedRespects
  <2>3. p.target = target[v] /\ p.stake.target = v  BY DEF Position
  <2>4. target \in TargetRecords  BY SoundParts
  <2> HIDE DEF p, u
  <2>5. old \in Positions /\ Follows(u, old) /\ Respects(u, old)
    BY <1>0, <2>2, UnstakedFollows, UnstakedRespects
  <2> HIDE DEF old
  <2>6. Follows(p, old) /\ Respects(p, old)
    BY <2>2, <2>5, FollowsIsTransitive, RespectsIsTransitive
  <2>7. v \in Targets  BY <2>2, <2>3, PositionParts
  <2>8. /\ target[v].limit = old.target.limit
        /\ old.target.staked > target[v].staked => old.target.staked <= target[v].limit
        /\ old.target \in TargetInfo
    BY <2>3, <2>5, <2>6, PositionParts DEF Follows, Respects
  <2> HIDE DEF v
  <2>9. /\ left[v] = old.target
        /\ \A w \in Targets : w # v => left[w] = target[w]
        /\ left[t] \in TargetInfo
    BY <2>1, <2>4, <2>7, <2>8 DEF TargetRecords, IsTarget
  <2>10. amount \in Nat  BY <2>2, PositionParts
  <2>11. fresh.target = left[t]  BY DEF NewPosition
  <2> HIDE DEF amount, left, fresh
  <2>12. q.target.staked = left[t].staked + amount
    <3>1. q.target = IF amount = 0 THEN left[t] ELSE [left[t] EXCEPT !.staked = @ + amount]
      BY <2>11 DEF WithStake
    <3>2. left[t].staked \in Nat  BY <2>9, TargetParts
    <3> QED  BY <2>9, <2>10, <3>1, <3>2 DEF TargetInfo
  <2>13. left[t].staked + amount <= left[t].limit  BY <2>1, <2>11 DEF MayAdd
  <2> HIDE DEF q
  <2>14. target'[t] = q.target /\ \A w \in Targets : w # t => target'[w] = left[w]
    <3>1. left \in [Targets -> TargetInfo \union {NoTarget}]
      BY <2>4, <2>8 DEF TargetRecords, left
    <3> QED  BY <2>1, <3>1
  <2>15. ASSUME NEW w \in Targets, IsTarget(w), target'[w].staked > target[w].staked
         PROVE  target'[w].staked <= target[w].limit
    <3>1. target[w].staked \in Nat /\ target[w].limit = left[w].limit
      BY <2>8, <2>9, <2>15, TargetTypes, TargetParts
    <3>2. CASE w = t
      BY <2>12, <2>13, <2>14, <3>1, <3>2
    <3>3. CASE w # t /\ w = v
      BY <2>8, <2>9, <2>14, <2>15, <3>3
    <3>4. CASE w # t /\ w # v
      BY <2>9, <2>14, <2>15, <3>1, <3>4
    <3> QED  BY <3>2, <3>3, <3>4
  <2> QED  BY <2>15 DEF LimitsHold
<1> QED  BY <1>1, <1>2, <1>3, <1>4, <1>5, <1>6 DEF StakeNext

\* Only stakers change what is staked with a target.
LEMMA TargetsNextKeepsStaked ==
  ASSUME StakingIsSound, TargetsNext, NEW u \in Targets, IsTarget(u)
  PROVE  target'[u].staked = target[u].staked
<1>1. target \in TargetRecords /\ target[u] \in TargetInfo  BY TargetTypes
<1>2. ASSUME NEW t \in Targets, NEW y, target' = [target EXCEPT ![t] = y],
             t = u => y.staked = target[u].staked
      PROVE  target'[u].staked = target[u].staked
  <2>1. target'[u] = IF t = u THEN y ELSE target[u]  BY <1>1, <1>2 DEF TargetRecords
  <2> QED  BY <1>2, <2>1
<1>3. ASSUME ParametersNext
      PROVE  target'[u].staked = target[u].staked
  <2>1. ASSUME NEW type, NEW info, SetSupportInfo(type, info)
        PROVE  target'[u].staked = target[u].staked
    BY <2>1 DEF SetSupportInfo
  <2>2. ASSUME NEW t \in Targets, RegisterTarget(t)
        PROVE  target'[u].staked = target[u].staked
    BY <1>2, <2>2 DEF RegisterTarget, IsTarget
  <2>3. ASSUME NEW t \in Targets, NEW period, SetLockingPeriod(t, period)
        PROVE  target'[u].staked = target[u].staked
    BY <1>1, <1>2, <2>3 DEF SetLockingPeriod, SetTarget, TargetInfo
  <2>4. ASSUME NEW t \in Targets, NEW rate, SetRewardRate(t, rate)
        PROVE  target'[u].staked = target[u].staked
    BY <1>1, <1>2, <2>4 DEF SetRewardRate, SetTarget, TargetInfo
  <2>5. ASSUME NEW t \in Targets, NEW amount, SetMaxStakedAmount(t, amount)
        PROVE  target'[u].staked = target[u].staked
    BY <1>1, <1>2, <2>5 DEF SetMaxStakedAmount, SetTarget, TargetInfo
  <2>6. ASSUME NEW t \in Targets, NEW margin, NEW hard, SetTargetLimits(t, margin, hard)
        PROVE  target'[u].staked = target[u].staked
    BY <1>1, <1>2, <2>6 DEF SetTargetLimits, SetTarget, TargetInfo
  <2> QED  BY <1>3, <2>1, <2>2, <2>3, <2>4, <2>5, <2>6 DEF ParametersNext
<1>4. ASSUME ReservesNext
      PROVE  target'[u].staked = target[u].staked
  BY <1>1, <1>2, <1>4
     DEF ReservesNext, RefillRewardReserves, WithdrawRewardReserves, SetTarget, TargetInfo
<1>5. ASSUME ValueLockedNext
      PROVE  target'[u].staked = target[u].staked
  <2>1. ASSUME NEW t \in Targets, NEW k, NEW amount, SetTotalValueLocked(t, k, amount)
        PROVE  target'[u].staked = target[u].staked
    <3>1. \/ target' = target
          \/ \E limit : target' = [target EXCEPT ![t].limit = limit]
      BY <2>1 DEF SetTotalValueLocked
    <3> QED  BY <1>1, <1>2, <3>1 DEF TargetInfo
  <2>2. ASSUME NEW t \in Targets, UpdateTargetLimit(t)
        PROVE  target'[u].staked = target[u].staked
    BY <1>1, <1>2, <2>2 DEF UpdateTargetLimit, SetTarget, TargetInfo
  <2>3. ASSUME NEW values, SetUpdateTriggers(values)
        PROVE  target'[u].staked = target[u].staked
    BY <2>3 DEF SetUpdateTriggers
  <2>4. ASSUME NEW k, NEW rate, AddToken(k) \/ SetStakingRate(k, rate)
        PROVE  target'[u].staked = target[u].staked
    BY <2>4 DEF AddToken, SetStakingRate
  <2>5. ASSUME NEW t \in Targets, NEW k, AddTargetToken(t, k)
        PROVE  target'[u].staked = target[u].staked
    BY <1>1, <1>2, <2>5 DEF AddTargetToken, TargetInfo
  <2> QED
    BY <1>5, <2>1, <2>2, <2>3, <2>4, <2>5
       DEF ValueLockedNext, IncreaseTotalValueLocked, DecreaseTotalValueLocked
<1> QED  BY <1>3, <1>4, <1>5 DEF TargetsNext

LEMMA StepRespectsLimits ==
  ASSUME StakingIsSound, [Next]_vars
  PROVE  LimitsHold
<1>0. \A t \in Targets : IsTarget(t) => target[t].staked \in Nat
  BY TargetTypes, TargetParts
<1>1. CASE TargetsNext
  BY <1>0, <1>1, TargetsNextKeepsStaked DEF LimitsHold
<1>2. CASE StakeNext
  BY <1>2, StakeNextRespectsLimits
<1>3. CASE target' = target
  BY <1>0, <1>3 DEF LimitsHold
<1> QED  BY <1>1, <1>2, <1>3 DEF Next, Tick, vars, targetVars

\* No sequence of stakes, restakes and restaked rewards gets the stakes of a target over
\* its limit: only lowering the limit does.
THEOREM LimitsStayRespected == Spec => LimitIsRespected
<1>1. StakingIsSound /\ [Next]_vars =>
        [\A t \in Targets : IsTarget(t) /\ target'[t].staked > target[t].staked =>
           target'[t].staked <= target[t].limit]_vars
  BY StepRespectsLimits DEF LimitsHold
<1> QED  BY <1>1, StakingStaysSound, PTL DEF Spec, LimitIsRespected

LimitFollows(t, k) ==
  \/ target'[t].limit = UpdatedLimit(t, tvl[t])'
  \/ tvl[t][k].updates + 1 < triggers.updates
  \/ tvl'[t][k].amount = 0 /\ tvl[t][k].baseline = 0
  \/ /\ tvl'[t][k].amount * Unit < triggers.ratio * tvl[t][k].baseline
     /\ tvl[t][k].baseline * Unit < triggers.ratio * tvl'[t][k].amount

LimitsFollow ==
  \A t \in Targets, k \in Tokens : tvl'[t][k].amount # tvl[t][k].amount => LimitFollows(t, k)

\* A balance that needs no new limit is close to the baseline.
LEMMA BalanceIsClose ==
  ASSUME NEW balance \in Balances, triggers \in TriggerType,
         ~IsLimitUpdateRequired(balance)
  PROVE  \/ balance.updates < triggers.updates
         \/ balance.amount = 0 /\ balance.baseline = 0
         \/ /\ balance.amount * Unit < triggers.ratio * balance.baseline
            /\ balance.baseline * Unit < triggers.ratio * balance.amount
<1> DEFINE larger == IF balance.amount > balance.baseline THEN balance.amount ELSE balance.baseline
           smaller == IF balance.amount > balance.baseline THEN balance.baseline ELSE balance.amount
           ratio == triggers.ratio
<1>1. /\ balance.amount \in Nat /\ balance.baseline \in Nat /\ balance.updates \in Nat
      /\ triggers.updates \in Nat /\ ratio \in Nat /\ Unit \in Nat
  BY StakingTargetsAssumption DEF Balances, TriggerType, Unit
<1>2. ~(balance.updates >= triggers.updates /\ larger # 0 /\ larger * Unit >= ratio * smaller)
  BY DEF IsLimitUpdateRequired
<1>3. /\ larger \in Nat /\ smaller \in Nat /\ smaller <= larger
      /\ balance.amount <= larger /\ balance.baseline <= larger
      /\ smaller <= balance.amount /\ smaller <= balance.baseline
  BY <1>1
<1> HIDE DEF larger, smaller, ratio
<1>4. CASE larger = 0
  BY <1>1, <1>3, <1>4
<1>5. CASE ~(larger * Unit >= ratio * smaller)
  <2>1. ASSUME NEW a \in Nat, NEW b \in Nat, a <= larger, smaller <= b
        PROVE  a * Unit < ratio * b
    <3>1. a * Unit <= larger * Unit  BY <1>1, <1>3, <2>1, ProductIsMonotone
    <3>2. smaller * ratio <= b * ratio  BY <1>1, <1>3, <2>1, ProductIsMonotone
    <3>3. ratio * smaller = smaller * ratio /\ ratio * b = b * ratio  BY <1>1, <1>3
    <3>4. /\ a * Unit \in Nat /\ larger * Unit \in Nat
          /\ smaller * ratio \in Nat /\ b * ratio \in Nat
      BY <1>1, <1>3, ProductType
    <3> HIDE DEF Unit
    <3> QED  BY <1>5, <3>1, <3>2, <3>3, <3>4
  <2> QED  BY <1>1, <1>3, <2>1 DEF ratio
<1> QED  BY <1>1, <1>2, <1>4, <1>5

LEMMA ValueChangeSetsLimit ==
  ASSUME StakingIsSound, NEW t \in Targets, IsTarget(t), NEW k \in Tokens,
         NEW amount \in 0..MaxAmount, SetTotalValueLocked(t, k, amount)
  PROVE  LimitsFollow
<1> DEFINE old == tvl[t][k]
           counted == [old EXCEPT !.amount = amount, !.updates = @ + 1]
           reset == [amount |-> amount, baseline |-> amount, updates |-> 0]
<1>1. /\ counted.updates <= MaxUpdates
      /\ UNCHANGED <<support, stakingRate, triggers, stakingWallet>>
      /\ IF IsLimitUpdateRequired(counted)
         THEN /\ tvl' = [tvl EXCEPT ![t][k] = reset]
              /\ target' = [target EXCEPT ![t].limit = UpdatedLimit(t, tvl'[t])]
         ELSE tvl' = [tvl EXCEPT ![t][k] = counted] /\ target' = target
  BY DEF SetTotalValueLocked
<1>2. tvl \in [Targets -> [Tokens -> Balances]] /\ triggers \in TriggerType
  BY SoundParts DEF OthersAreTyped, Balances
<1>3. old \in Balances  BY <1>2
<1> HIDE DEF old
<1>4. /\ counted.amount = amount /\ counted.baseline = old.baseline
      /\ counted.updates = old.updates + 1
      /\ counted = [amount |-> amount, baseline |-> old.baseline, updates |-> old.updates + 1]
  <2>1. counted = [old EXCEPT !.amount = amount, !.updates = @ + 1]  OBVIOUS
  <2> HIDE DEF counted
  <2> QED  BY <1>3, <2>1 DEF Balances
<1>5. counted \in Balances
  <2>1. old.updates + 1 \in 0..MaxUpdates /\ old.baseline \in 0..MaxAmount
    BY <1>1, <1>3, <1>4, StakingTargetsAssumption DEF Balances
  <2> QED  BY <1>4, <2>1 DEF Balances
<1> HIDE DEF counted
<1>6. ASSUME NEW u \in Targets, NEW i \in Tokens, ~(u = t /\ i = k)
      PROVE  tvl'[u][i] = tvl[u][i]
  BY <1>1, <1>2, <1>6
<1>7. ASSUME IsLimitUpdateRequired(counted)
      PROVE  target'[t].limit = UpdatedLimit(t, tvl[t])'
  <2> DEFINE limit == UpdatedLimit(t, tvl'[t])
  <2>1. target' = [target EXCEPT ![t].limit = limit]  BY <1>1, <1>7
  <2>2. target \in TargetRecords /\ target[t] \in TargetInfo  BY TargetTypes
  <2> HIDE DEF limit
  <2>3. /\ target'[t].limit = limit /\ target'[t].tokens = target[t].tokens
        /\ target'[t].margin = target[t].margin /\ target'[t].hardLimit = target[t].hardLimit
    BY <2>1, <2>2 DEF TargetRecords, TargetInfo
  <2>4. stakingRate' = stakingRate  BY <1>1
  <2>5. RequiredStakeBalance(t, tvl'[t]) = RequiredStakeBalance(t, tvl[t])'
    BY <2>3, <2>4 DEF RequiredStakeBalance
  <2>6. limit = UpdatedLimit(t, tvl[t])'
    BY <2>3, <2>5 DEF UpdatedLimit, limit
  <2> QED  BY <2>3, <2>6
<1>8. ASSUME ~IsLimitUpdateRequired(counted)
      PROVE  LimitFollows(t, k)
  <2>1. tvl'[t][k] = counted  BY <1>1, <1>2, <1>8
  <2>2. \/ counted.updates < triggers.updates
        \/ counted.amount = 0 /\ counted.baseline = 0
        \/ /\ counted.amount * Unit < triggers.ratio * counted.baseline
           /\ counted.baseline * Unit < triggers.ratio * counted.amount
    BY <1>2, <1>5, <1>8, BalanceIsClose
  <2> QED  BY <1>4, <2>1, <2>2 DEF LimitFollows, old
<1> QED  BY <1>6, <1>7, <1>8 DEF LimitsFollow, LimitFollows

LEMMA StepLimitsFollow ==
  ASSUME StakingIsSound, [Next]_vars
  PROVE  LimitsFollow
<1>0. tvl \in [Targets -> [Tokens -> Balances]]  BY SoundParts DEF OthersAreTyped, Balances
<1>1. ASSUME NEW t \in Targets, NEW k \in Tokens, NEW amount \in TvlAmounts,
             IncreaseTotalValueLocked(t, k, amount) \/ DecreaseTotalValueLocked(t, k, amount)
      PROVE  LimitsFollow
  <2>1. tvl[t][k].amount \in 0..MaxAmount /\ amount \in Nat
    BY <1>0, StakingTargetsAssumption DEF Balances
  <2>2. k \in target[t].tokens
    BY <1>1 DEF IncreaseTotalValueLocked, DecreaseTotalValueLocked
  <2>3. IsTarget(t)  BY <2>2, TokenIsOfTarget
  <2>4. CASE IncreaseTotalValueLocked(t, k, amount)
    <3>1. /\ tvl[t][k].amount + amount <= MaxAmount
          /\ SetTotalValueLocked(t, k, tvl[t][k].amount + amount)
      BY <2>4 DEF IncreaseTotalValueLocked
    <3>2. tvl[t][k].amount + amount \in 0..MaxAmount
      BY <2>1, <3>1, StakingTargetsAssumption
    <3> QED  BY <2>3, <3>1, <3>2, ValueChangeSetsLimit
  <2>5. CASE DecreaseTotalValueLocked(t, k, amount)
    <3>1. /\ amount <= tvl[t][k].amount
          /\ SetTotalValueLocked(t, k, tvl[t][k].amount - amount)
      BY <2>5 DEF DecreaseTotalValueLocked
    <3>2. tvl[t][k].amount - amount \in 0..MaxAmount
      BY <2>1, <3>1, StakingTargetsAssumption
    <3> QED  BY <2>3, <3>1, <3>2, ValueChangeSetsLimit
  <2> QED  BY <1>1, <2>4, <2>5
<1>2. CASE tvl' = tvl
  BY <1>2 DEF LimitsFollow
<1>3. CASE TargetsNext
  <2>1. ParametersNext => tvl' = tvl
    BY DEF ParametersNext, SetSupportInfo, RegisterTarget, SetLockingPeriod, SetRewardRate,
           SetMaxStakedAmount, SetTargetLimits, SetTarget
  <2>2. ReservesNext => tvl' = tvl
    BY DEF ReservesNext, RefillRewardReserves, WithdrawRewardReserves, SetTarget
  <2>3. ValueLockedNext =>
          \/ tvl' = tvl
          \/ \E t \in Targets, k \in Tokens, amount \in TvlAmounts :
               IncreaseTotalValueLocked(t, k, amount) \/ DecreaseTotalValueLocked(t, k, amount)
    BY DEF ValueLockedNext, UpdateTargetLimit, SetTarget, SetUpdateTriggers, AddToken,
           SetStakingRate, AddTargetToken
  <2> QED  BY <1>1, <1>2, <1>3, <2>1, <2>2, <2>3 DEF TargetsNext
<1> QED  BY <1>2, <1>3 DEF Next, Tick, vars, targetVars

\* Whenever the value locked changes, the limit follows from it at once, unless it is one
\* of the changes before the trigger or the value is still close to the baseline.
THEOREM LimitsStayUpToDate == Spec => LimitFollowsValueLocked
<1>1. StakingIsSound /\ [Next]_vars =>
        [\A t \in Targets, k \in Tokens : tvl'[t][k].amount # tvl[t][k].amount =>
           \/ target'[t].limit = UpdatedLimit(t, tvl[t])'
           \/ tvl[t][k].updates + 1 < triggers.updates
           \/ tvl'[t][k].amount = 0 /\ tvl[t][k].baseline = 0
           \/ /\ tvl'[t][k].amount * Unit < triggers.ratio * tvl[t][k].baseline
              /\ tvl[t][k].baseline * Unit < triggers.ratio * tvl'[t][k].amount]_vars
  BY StepLimitsFollow DEF LimitsFollow, LimitFollows
<1> QED  BY <1>1, StakingStaysSound, PTL DEF Spec, LimitFollowsValueLocked

----------------------------------------------------------------------------
(* The promise to stakers                                                  *)

Owners(st) == [s \in Stakes |-> IF st[s] # NoStake THEN st[s].owner ELSE Nobody]

HeldBy(st, o) == [s \in Stakes |-> IF Owners(st)[s] = o THEN st[s].staked ELSE 0]

Reserves(tg) == [t \in Targets |-> IF tg[t] # NoTarget THEN tg[t].reserve ELSE 0]

WealthOf(w, st, o) == w[o] + SumUpTo(HeldBy(st, o), MaxStakes)

\* What a step of staker o on target t may do to the stakes.
KeepsStakes(st, new, o) ==
  \A s \in Stakes :
    /\ Owners(new)[s] = Owners(st)[s] \/ (Owners(st)[s] = Nobody /\ Owners(new)[s] = o)
    /\ Owners(new)[s] # o => new[s].staked = st[s].staked
    /\ st[s] # NoStake /\ st[s].lockedUntil > now => new[s].staked >= st[s].staked

\* ...and to the wallets and the reserves.
PaysFromReserves(o, t) ==
  /\ \A p \in Stakers \ {o} : wallet'[p] = wallet[p]
  /\ \A u \in Targets \ {t} : Reserves(target')[u] = Reserves(target)[u]
  /\ Reserves(target)[t] - Reserves(target')[t] >= 0
  /\ WealthOf(wallet', stake', o) - WealthOf(wallet, stake, o) =
       Reserves(target)[t] - Reserves(target')[t]

LEMMA SameSums ==
  ASSUME NEW a, NEW n
  PROVE  StakePromise!SumUpTo(a, n) = SumUpTo(a, n)
BY DEF StakePromise!SumUpTo, StakePromise!PartialSums, SumUpTo, PartialSums

LEMMA WealthIsPromised ==
  ASSUME NEW o
  PROVE  StakePromise!Wealth(o) = WealthOf(wallet, stake, o)
<1> DEFINE a == [s \in Stakes |->
                  IF [i \in Stakes |-> IF IsStake(i) THEN stake[i].owner ELSE Nobody][s] = o
                  THEN [i \in Stakes |-> stake[i].staked][s] ELSE 0]
<1>1. StakePromise!Wealth(o) = wallet[o] + StakePromise!SumUpTo(a, MaxStakes)
  BY DEF StakePromise!Wealth, StakePromise!Stakes, Stakes
<1>2. a = HeldBy(stake, o)  BY DEF HeldBy, Owners, IsStake
<1> HIDE DEF a
<1> QED  BY <1>1, <1>2, SameSums DEF WealthOf

LEMMA WealthIsPromisedNext ==
  ASSUME NEW o
  PROVE  StakePromise!Wealth(o)' = WealthOf(wallet', stake', o)
<1> DEFINE a == [s \in Stakes |->
                  IF [i \in Stakes |-> IF IsStake(i)' THEN stake'[i].owner ELSE Nobody][s] = o
                  THEN [i \in Stakes |-> stake'[i].staked][s] ELSE 0]
<1>1. StakePromise!Wealth(o)' = wallet'[o] + StakePromise!SumUpTo(a, MaxStakes)
  BY DEF StakePromise!Wealth, StakePromise!Stakes, Stakes
<1>2. a = HeldBy(stake', o)  BY DEF HeldBy, Owners, IsStake
<1> HIDE DEF a
<1> QED  BY <1>1, <1>2, SameSums DEF WealthOf

LEMMA StakerActsIsPromised ==
  ASSUME NEW o \in Stakers, NEW t \in Targets,
         KeepsStakes(stake, stake', o), PaysFromReserves(o, t)
  PROVE  StakePromise!StakerActs(o)
<1>1. \A u \in Targets :
        /\ [i \in Targets |-> IF IsTarget(i) THEN target[i].reserve ELSE 0][u]
             = Reserves(target)[u]
        /\ [i \in Targets |-> IF IsTarget(i) THEN target[i].reserve ELSE 0]'[u]
             = Reserves(target')[u]
  BY DEF Reserves, IsTarget
<1>2. \A s \in Stakes :
        /\ [i \in Stakes |-> IF IsStake(i) THEN stake[i].owner ELSE Nobody][s] = Owners(stake)[s]
        /\ [i \in Stakes |-> IF IsStake(i) THEN stake[i].owner ELSE Nobody]'[s] = Owners(stake')[s]
  BY DEF Owners, IsStake
<1>3. /\ \A p \in Stakers \ {o} : wallet'[p] = wallet[p]
      /\ \A u \in Targets \ {t} : Reserves(target')[u] = Reserves(target)[u]
      /\ Reserves(target)[t] - Reserves(target')[t] >= 0
      /\ StakePromise!Wealth(o)' - StakePromise!Wealth(o) =
           Reserves(target)[t] - Reserves(target')[t]
  BY WealthIsPromised, WealthIsPromisedNext DEF PaysFromReserves
<1>4. \A s \in Stakes :
        /\ Owners(stake')[s] = Owners(stake)[s]
             \/ (Owners(stake)[s] = Nobody /\ Owners(stake')[s] = o)
        /\ Owners(stake')[s] # o => stake'[s].staked = stake[s].staked
        /\ stake[s] # NoStake /\ stake[s].lockedUntil > now => stake'[s].staked >= stake[s].staked
  BY DEF KeepsStakes
<1>5. StakePromise!Stakes = Stakes  BY DEF StakePromise!Stakes, Stakes
<1> QED  BY <1>1, <1>2, <1>3, <1>4, <1>5 DEF StakePromise!StakerActs, IsStake

LEMMA HeldIsNatural ==
  ASSUME NEW st \in StakeRecords, NEW o
  PROVE  /\ \A i \in 1..MaxStakes : HeldBy(st, o)[i] \in Nat
         /\ SumUpTo(HeldBy(st, o), MaxStakes) \in Nat
<1>1. \A i \in 1..MaxStakes : HeldBy(st, o)[i] \in Nat
  BY StakeAmountsAreNatural DEF HeldBy, Stakes
<1>2. MaxStakes \in Nat  BY StakingAssumption
<1> QED  BY <1>1, <1>2, SumIsNatural

\* What an owner holds changes with the stake that changes.
LEMMA HeldAfter ==
  ASSUME NEW st \in StakeRecords, NEW s \in Stakes, NEW x \in StakeInfo,
         st[s] # NoStake => st[s].owner = x.owner
  PROVE  SumUpTo(HeldBy([st EXCEPT ![s] = x], x.owner), MaxStakes) =
           SumUpTo(HeldBy(st, x.owner), MaxStakes) + (x.staked - st[s].staked)
<1> DEFINE new == [st EXCEPT ![s] = x]
           a == HeldBy(st, x.owner)
           b == HeldBy(new, x.owner)
<1>1. x # NoStake  BY RecordsAreDistinct
<1>2. new \in StakeRecords /\ new[s] = x /\ \A i \in Stakes : i # s => new[i] = st[i]
  BY DEF StakeRecords
<1> HIDE DEF new
<1>3. \A i \in 1..MaxStakes : a[i] \in Int /\ b[i] \in Int
  <2>1. \A i \in 1..MaxStakes : a[i] \in Nat /\ b[i] \in Nat  BY <1>2, HeldIsNatural
  <2> QED  BY <2>1
<1>4. \A i \in 1..MaxStakes : i # s => b[i] = a[i]
  BY <1>2 DEF HeldBy, Owners, Stakes
<1>5. b[s] = x.staked  BY <1>1, <1>2 DEF HeldBy, Owners
<1>6. a[s] = st[s].staked
  <2>1. CASE st[s] = NoStake
    BY <2>1 DEF HeldBy, Owners, NoStake
  <2>2. CASE st[s] # NoStake
    BY <2>2 DEF HeldBy, Owners
  <2> QED  BY <2>1, <2>2
<1>7. MaxStakes \in Nat /\ s \in 1..MaxStakes  BY StakingAssumption DEF Stakes
<1> HIDE DEF a, b
<1>8. SumUpTo(b, MaxStakes) = SumUpTo(a, MaxStakes) + (b[s] - a[s])
  BY <1>3, <1>4, <1>7, SumOfUpdated
<1> QED  BY <1>5, <1>6, <1>8 DEF a, b, new

\* One position changes: what its owner gains is what the reserves lose.
LEMMA StoreIsPromised ==
  ASSUME StakingIsSound, NEW s \in Stakes, NEW p, NEW q \in Positions,
         Starts(stake, target, s, p), Follows(p, q), Store(s, q), NEW d \in Int,
         wallet' = [wallet EXCEPT ![q.stake.owner] = @ + d],
         q.target.reserve <= p.target.reserve,
         (q.stake.staked - p.stake.staked) + d = p.target.reserve - q.target.reserve,
         stake[s] # NoStake /\ stake[s].lockedUntil > now => q.stake.staked >= p.stake.staked
  PROVE  \E o \in Stakers : StakePromise!StakerActs(o)
<1> DEFINE x == q.stake
           o == x.owner
           t == x.target
<1>1. /\ stake \in StakeRecords /\ target \in TargetRecords /\ wallet \in [Stakers -> Nat]
  BY SoundParts
<1>2. /\ stake' = [stake EXCEPT ![s] = x] /\ target' = [target EXCEPT ![t] = q.target]
      /\ wallet' = [wallet EXCEPT ![o] = @ + d]
  BY DEF Store
<1>3. /\ x \in StakeInfo /\ q.target \in TargetInfo /\ o \in Stakers /\ t \in Targets
      /\ x # NoStake /\ q.target # NoTarget
  BY PositionParts, RecordsAreDistinct
<1>4. p \in Positions /\ target[t] = p.target /\ p.target # NoTarget /\ o = p.stake.owner
  BY DEF Starts, Follows
<1>5. /\ stake[s] # NoStake => stake[s] = p.stake /\ stake[s].owner = o
      /\ stake[s].staked = p.stake.staked
  BY <1>4 DEF Starts, NoStake
<1>6. /\ p.stake.staked \in Nat /\ x.staked \in Nat
      /\ p.target.reserve \in Nat /\ q.target.reserve \in Nat
  BY <1>4, PositionParts
<1>7. KeepsStakes(stake, stake', o)
  <2>1. ASSUME NEW i \in Stakes
        PROVE  /\ Owners(stake')[i] = Owners(stake)[i]
                    \/ (Owners(stake)[i] = Nobody /\ Owners(stake')[i] = o)
               /\ Owners(stake')[i] # o => stake'[i].staked = stake[i].staked
               /\ stake[i] # NoStake /\ stake[i].lockedUntil > now =>
                    stake'[i].staked >= stake[i].staked
    <3>1. CASE i = s
      <4>1. stake'[i] = x  BY <1>1, <1>2, <3>1 DEF StakeRecords
      <4>2. Owners(stake')[i] = o  BY <1>3, <4>1 DEF Owners
      <4>3. Owners(stake)[i] = IF stake[s] # NoStake THEN o ELSE Nobody
        BY <1>5, <3>1 DEF Owners
      <4> HIDE DEF x
      <4> QED  BY <1>5, <3>1, <4>1, <4>2, <4>3 DEF x
    <3>2. CASE i # s
      <4>1. stake'[i] = stake[i]  BY <1>1, <1>2, <3>2 DEF StakeRecords
      <4>2. Owners(stake')[i] = Owners(stake)[i]  BY <4>1 DEF Owners
      <4>3. stake[i].staked \in Nat  BY <1>1, StakeAmountsAreNatural
      <4> QED  BY <4>1, <4>2, <4>3
    <3> QED  BY <3>1, <3>2
  <2> QED  BY <2>1 DEF KeepsStakes
<1>8. PaysFromReserves(o, t)
  <2>1. \A i \in Stakers \ {o} : wallet'[i] = wallet[i]  BY <1>1, <1>2
  <2>2. /\ Reserves(target)[t] = p.target.reserve
        /\ Reserves(target')[t] = q.target.reserve
        /\ \A u \in Targets \ {t} : Reserves(target')[u] = Reserves(target)[u]
    <3> HIDE DEF t
    <3>1. target'[t] = q.target /\ \A u \in Targets : u # t => target'[u] = target[u]
      BY <1>1, <1>2, <1>3 DEF TargetRecords
    <3> QED  BY <1>3, <1>4, <3>1 DEF Reserves
  <2>3. SumUpTo(HeldBy(stake', o), MaxStakes) =
          SumUpTo(HeldBy(stake, o), MaxStakes) + (x.staked - p.stake.staked)
    <3> HIDE DEF x
    <3>1. SumUpTo(HeldBy([stake EXCEPT ![s] = x], x.owner), MaxStakes) =
            SumUpTo(HeldBy(stake, x.owner), MaxStakes) + (x.staked - stake[s].staked)
      BY <1>1, <1>3, <1>5, HeldAfter
    <3> QED  BY <1>2, <1>5, <3>1
  <2>4. SumUpTo(HeldBy(stake, o), MaxStakes) \in Nat  BY <1>1, HeldIsNatural
  <2>5. wallet'[o] = wallet[o] + d /\ wallet[o] \in Nat  BY <1>1, <1>2, <1>3
  <2>6. (x.staked - p.stake.staked) + d = p.target.reserve - q.target.reserve  OBVIOUS
  <2> DEFINE held == SumUpTo(HeldBy(stake, o), MaxStakes)
             now_held == SumUpTo(HeldBy(stake', o), MaxStakes)
  <2>7. WealthOf(wallet', stake', o) - WealthOf(wallet, stake, o) =
          p.target.reserve - q.target.reserve
    <3>1. WealthOf(wallet', stake', o) = wallet'[o] + now_held
          /\ WealthOf(wallet, stake, o) = wallet[o] + held
      BY DEF WealthOf
    <3>2. now_held = held + (x.staked - p.stake.staked) /\ held \in Nat  BY <2>3, <2>4
    <3> HIDE DEF held, now_held, x, o
    <3> QED  BY <1>6, <2>5, <2>6, <3>1, <3>2
  <2>8. Reserves(target)[t] - Reserves(target')[t] >= 0  BY <1>6, <2>2
  <2> HIDE DEF o, t
  <2> QED  BY <2>1, <2>2, <2>7, <2>8 DEF PaysFromReserves
<1> HIDE DEF o, t
<1> QED  BY <1>3, <1>7, <1>8, StakerActsIsPromised

\* What updating a position pays comes out of the reserves.
LEMMA UpdatedPays ==
  ASSUME StakingIsSound, NEW s \in Stakes, IsStake(s), MayUpdate(s)
  PROVE  /\ Updated(s).target.reserve <= Position(s).target.reserve
         /\ Updated(s).stake.staked - Position(s).stake.staked =
              Position(s).target.reserve - Updated(s).target.reserve
<1> DEFINE p == Position(s)
           u == Updated(s)
<1>1. /\ p \in Positions /\ u \in Positions /\ Follows(p, u)
      /\ Debt(u) = Debt(p) /\ u.stake.staked >= p.stake.staked
  BY UpdatedFollows
<1> HIDE DEF p, u
<1>2. u.target.staked - p.target.staked = u.stake.staked - p.stake.staked
  BY <1>1 DEF Follows
<1>3. u.target.staked + u.target.reserve = p.target.staked + p.target.reserve
  BY <1>1 DEF Debt
<1>4. /\ u.target.staked \in Nat /\ p.target.staked \in Nat
      /\ u.target.reserve \in Nat /\ p.target.reserve \in Nat
      /\ u.stake.staked \in Nat /\ p.stake.staked \in Nat
  BY <1>1, PositionParts
<1>5. /\ u.target.reserve <= p.target.reserve
      /\ u.stake.staked - p.stake.staked = p.target.reserve - u.target.reserve
  BY <1>1, <1>2, <1>3, <1>4
<1> QED  BY <1>5 DEF p, u

Promised == \E o \in Stakers : StakePromise!StakerActs(o)

LEMMA CreateStakeIsPromised ==
  ASSUME StakingIsSound, NEW s \in Stakes, NEW t \in Targets, NEW o \in Stakers,
         NEW amount \in StakeAmounts, CreateStake(s, t, o, amount)
  PROVE  Promised
<1> DEFINE p == NewPosition(o, t, target[t])
           q == WithStake(p, amount)
<1>1. /\ stake[s] = NoStake /\ target[t] # NoTarget
      /\ Store(s, q) /\ PullDip(o, amount)
  BY DEF CreateStake, IsNext, IsStake, IsTarget
<1>2. amount \in Nat /\ now \in 1..MaxTime  BY StakingAssumption, SoundParts
<1>3. Starts(stake, target, s, p)  BY <1>1, SoundParts, NewPositionStarts
<1>4. p \in Positions /\ p.stake.owner = o
  BY <1>3 DEF Starts, NewPosition
<1> HIDE DEF p
<1>5. /\ q \in Positions /\ Follows(p, q)
      /\ q.stake.staked = p.stake.staked + amount /\ q.target.reserve = p.target.reserve
  BY <1>2, <1>4, WithStakeFollows
<1> HIDE DEF q
<1>6. q.stake.owner = o  BY <1>4, <1>5 DEF Follows
<1>7. wallet' = [wallet EXCEPT ![q.stake.owner] = @ + (-amount)]
  BY <1>1, <1>2, <1>6, SoundParts, PulledWallet
<1>8. /\ q.target.reserve <= p.target.reserve
      /\ (q.stake.staked - p.stake.staked) + (-amount) = p.target.reserve - q.target.reserve
  <2>1. p.stake.staked \in Nat /\ p.target.reserve \in Nat  BY <1>4, PositionParts
  <2> QED  BY <1>2, <1>5, <2>1
<1>9. -amount \in Int  BY <1>2
<1> QED  BY <1>1, <1>3, <1>5, <1>7, <1>8, <1>9, StoreIsPromised DEF Promised

LEMMA StakeIsPromised ==
  ASSUME StakingIsSound, NEW s \in Stakes, NEW amount \in StakeAmounts \union {0},
         Stake(s, amount)
  PROVE  Promised
<1> DEFINE p == Position(s)
           u == Updated(s)
           q == WithStake(u, amount)
           o == stake[s].owner
<1>1. IsStake(s) /\ MayUpdate(s) /\ Store(s, q) /\ PullDip(o, amount)
  BY DEF Stake
<1>2. amount \in Nat /\ now \in 1..MaxTime  BY StakingAssumption, SoundParts
<1>3. o \in Stakers  BY <1>1, SoundParts, StakeAmountsAreNatural, StakeParts DEF IsStake
<1>4. /\ p \in Positions /\ Starts(stake, target, s, p)
      /\ u \in Positions /\ Follows(p, u) /\ u.stake.staked >= p.stake.staked
      /\ u.target.reserve <= p.target.reserve
      /\ u.stake.staked - p.stake.staked = p.target.reserve - u.target.reserve
  BY <1>1, UpdatedFollows, UpdatedPays
<1>5. p.stake.owner = o  BY DEF Position
<1> HIDE DEF p, u, o
<1>6. /\ q \in Positions /\ Follows(u, q)
      /\ q.stake.staked = u.stake.staked + amount /\ q.target.reserve = u.target.reserve
  BY <1>2, <1>4, WithStakeFollows
<1> HIDE DEF q
<1>7. Follows(p, q)  BY <1>4, <1>6, FollowsIsTransitive
<1>8. q.stake.owner = o  BY <1>5, <1>7 DEF Follows
<1>9. wallet' = [wallet EXCEPT ![q.stake.owner] = @ + (-amount)]
  BY <1>1, <1>2, <1>3, <1>8, SoundParts, PulledWallet
<1>10. /\ q.target.reserve <= p.target.reserve /\ q.stake.staked >= p.stake.staked
       /\ (q.stake.staked - p.stake.staked) + (-amount) = p.target.reserve - q.target.reserve
  <2>1. p.stake.staked \in Nat /\ u.stake.staked \in Nat
        /\ p.target.reserve \in Nat /\ u.target.reserve \in Nat
    BY <1>4, PositionParts
  <2> QED  BY <1>2, <1>4, <1>6, <2>1
<1>11. -amount \in Int  BY <1>2
<1> QED  BY <1>1, <1>4, <1>6, <1>7, <1>9, <1>10, <1>11, StoreIsPromised DEF Promised

LEMMA UnstakeIsPromised ==
  ASSUME StakingIsSound, NEW s \in Stakes, Unstake(s)
  PROVE  Promised
<1> DEFINE p == Position(s)
           u == Updated(s)
           q == Unstaked(u)
           o == stake[s].owner
           amount == u.stake.staked
<1>1. /\ IsStake(s) /\ MayUpdate(s) /\ MayUnstake(u)
      /\ Store(s, q) /\ wallet' = [wallet EXCEPT ![o] = @ + amount]
  BY DEF Unstake, PushDip
<1>2. now \in 1..MaxTime  BY SoundParts
<1>3. /\ p \in Positions /\ Starts(stake, target, s, p)
      /\ u \in Positions /\ Follows(p, u) /\ u.stake.staked >= p.stake.staked
      /\ u.stake.lockedUntil = p.stake.lockedUntil
      /\ u.target.reserve <= p.target.reserve
      /\ u.stake.staked - p.stake.staked = p.target.reserve - u.target.reserve
  BY <1>1, UpdatedFollows, UpdatedPays
<1>4. p.stake = stake[s] /\ p.stake.owner = o  BY DEF Position
<1> HIDE DEF p, u, o
<1>5. /\ q \in Positions /\ Follows(u, q)
      /\ q.stake.staked = 0 /\ q.target.reserve = u.target.reserve
  BY <1>2, <1>3, UnstakedFollows
<1> HIDE DEF q
<1>6. Follows(p, q)  BY <1>3, <1>5, FollowsIsTransitive
<1>7. q.stake.owner = o  BY <1>4, <1>6 DEF Follows
<1>8. wallet' = [wallet EXCEPT ![q.stake.owner] = @ + amount]  BY <1>1, <1>7
<1>9. /\ p.stake.staked \in Nat /\ u.stake.staked \in Nat
      /\ p.target.reserve \in Nat /\ u.target.reserve \in Nat
      /\ p.stake.lockedUntil \in Nat /\ now \in Nat
  BY <1>2, <1>3, PositionParts
<1>10. /\ q.target.reserve <= p.target.reserve
       /\ (q.stake.staked - p.stake.staked) + amount = p.target.reserve - q.target.reserve
  BY <1>3, <1>5, <1>9
<1>11. stake[s].lockedUntil > now => q.stake.staked >= p.stake.staked
  <2>1. stake[s].lockedUntil > now => u.stake.staked = 0
    BY <1>1, <1>3, <1>4, <1>9 DEF MayUnstake
  <2> QED  BY <1>3, <1>5, <1>9, <2>1
<1>12. amount \in Int  BY <1>9
<1>13. Store(s, q)  BY <1>1
<1> HIDE DEF amount
<1> QED  BY <1>3, <1>5, <1>6, <1>8, <1>10, <1>11, <1>12, <1>13, StoreIsPromised DEF Promised

LEMMA UpdateRewardsIsPromised ==
  ASSUME StakingIsSound, NEW s \in Stakes, UpdateRewards(s)
  PROVE  Promised
<1> DEFINE p == Position(s)
           q == UpdatedRewards(p)
<1>1. IsStake(s) /\ Store(s, q) /\ wallet' = wallet  BY DEF UpdateRewards
<1>2. now \in 1..MaxTime /\ wallet \in [Stakers -> Nat]  BY SoundParts
<1>3. Starts(stake, target, s, p) /\ p \in Positions
  BY <1>1, SoundParts, PositionStarts DEF Starts
<1> HIDE DEF p
<1>4. /\ q \in Positions /\ Follows(p, q)
      /\ q.stake.staked = p.stake.staked /\ q.target.reserve = p.target.reserve
  BY <1>2, <1>3, UpdatedRewardsFollow
<1> HIDE DEF q
<1>5. wallet' = [wallet EXCEPT ![q.stake.owner] = @ + 0]
  <2>1. q.stake.owner \in Stakers  BY <1>4, PositionParts
  <2> QED  BY <1>1, <1>2, <2>1
<1>6. p.stake.staked \in Nat /\ p.target.reserve \in Nat  BY <1>3, PositionParts
<1>7. /\ q.target.reserve <= p.target.reserve /\ q.stake.staked >= p.stake.staked
      /\ (q.stake.staked - p.stake.staked) + 0 = p.target.reserve - q.target.reserve
  BY <1>4, <1>6
<1>8. 0 \in Int  OBVIOUS
<1> QED  BY <1>1, <1>3, <1>4, <1>5, <1>7, <1>8, StoreIsPromised DEF Promised

LEMMA ClaimRewardsIsPromised ==
  ASSUME StakingIsSound, NEW s \in Stakes, ClaimRewards(s)
  PROVE  Promised
<1> DEFINE p == Position(s)
           u == UpdatedRewards(p)
           q == Claimed(u)
           o == stake[s].owner
           amount == u.stake.reward
<1>1. /\ IsStake(s) /\ amount <= u.target.reserve
      /\ Store(s, q) /\ wallet' = [wallet EXCEPT ![o] = @ + amount]
  BY DEF ClaimRewards, Claimed, PushDip
<1>2. now \in 1..MaxTime  BY SoundParts
<1>3. Starts(stake, target, s, p) /\ p \in Positions
  BY <1>1, SoundParts, PositionStarts DEF Starts
<1>4. p.stake.owner = o  BY DEF Position
<1> HIDE DEF p, o
<1>5. /\ u \in Positions /\ Follows(p, u)
      /\ u.stake.staked = p.stake.staked /\ u.target.reserve = p.target.reserve
  BY <1>2, <1>3, UpdatedRewardsFollow
<1> HIDE DEF u
<1>6. /\ q \in Positions /\ Follows(u, q)
      /\ q.stake.staked = u.stake.staked /\ q.target.reserve = u.target.reserve - amount
  BY <1>1, <1>2, <1>5, ClaimedFollows
<1> HIDE DEF q
<1>7. Follows(p, q)  BY <1>3, <1>5, <1>6, FollowsIsTransitive
<1>8. q.stake.owner = o  BY <1>4, <1>7 DEF Follows
<1>9. wallet' = [wallet EXCEPT ![q.stake.owner] = @ + amount]  BY <1>1, <1>8
<1>10. p.stake.staked \in Nat /\ p.target.reserve \in Nat /\ amount \in Nat
  BY <1>3, <1>5, PositionParts
<1>11. Store(s, q)  BY <1>1
<1> HIDE DEF amount
<1>12. /\ q.target.reserve <= p.target.reserve /\ q.stake.staked >= p.stake.staked
       /\ (q.stake.staked - p.stake.staked) + amount = p.target.reserve - q.target.reserve
       /\ amount \in Int
  BY <1>5, <1>6, <1>10
<1> QED  BY <1>3, <1>6, <1>7, <1>9, <1>11, <1>12, StoreIsPromised DEF Promised

LEMMA RestakeIsPromised ==
  ASSUME StakingIsSound, NEW s \in Stakes, NEW new \in Stakes, NEW t \in Targets,
         Restake(s, new, t)
  PROVE  Promised
<1> DEFINE p == Position(s)
           u == Updated(s)
           old == Unstaked(u)
           amount == u.stake.staked
           o == stake[s].owner
           v == stake[s].target
           emptied == [stake EXCEPT ![s] = old.stake]
           left == [target EXCEPT ![v] = old.target]
           fresh == NewPosition(o, t, left[t])
           q == WithStake(fresh, amount)
<1>1. /\ IsStake(s) /\ ~IsStake(new) /\ IsTarget(t) /\ MayUpdate(s) /\ MayUnstake(u)
      /\ stake' = [stake EXCEPT ![s] = old.stake, ![new] = q.stake]
      /\ target' = [left EXCEPT ![t] = q.target]
      /\ wallet' = wallet
  BY DEF Restake, IsNext
<1>2. /\ now \in 1..MaxTime /\ stake \in StakeRecords /\ target \in TargetRecords
      /\ Ledger(stake, target) /\ TermsAreKnown(target) /\ wallet \in [Stakers -> Nat]
  BY SoundParts
<1>3. o \in Stakers /\ v \in Targets
  BY <1>1, <1>2, StakeAmountsAreNatural, StakeParts DEF IsStake
<1>4. /\ p \in Positions /\ Starts(stake, target, s, p)
      /\ u \in Positions /\ Follows(p, u) /\ u.stake.staked >= p.stake.staked
      /\ u.stake.lockedUntil = p.stake.lockedUntil
      /\ u.target.reserve <= p.target.reserve
      /\ u.stake.staked - p.stake.staked = p.target.reserve - u.target.reserve
  BY <1>1, UpdatedFollows, UpdatedPays
<1>5. p.stake = stake[s] /\ p.target = target[v]  BY DEF Position
<1>6. p.stake.owner = o /\ p.stake.target = v  BY <1>5
<1> HIDE DEF p, u, o, v
<1>7. /\ old \in Positions /\ Follows(u, old)
      /\ old.stake.staked = 0 /\ old.target.reserve = u.target.reserve
  BY <1>2, <1>4, UnstakedFollows
<1>8. /\ amount \in Nat /\ p.stake.staked \in Nat
      /\ p.target.reserve \in Nat /\ u.target.reserve \in Nat
      /\ p.stake.lockedUntil \in Nat /\ now \in Nat
  BY <1>2, <1>4, PositionParts
<1>9. stake[s].lockedUntil > now => amount = 0
  BY <1>1, <1>4, <1>5, <1>8 DEF MayUnstake
<1>10. amount - p.stake.staked = p.target.reserve - u.target.reserve /\ p.stake.staked <= amount
  BY <1>4
<1> HIDE DEF old, amount
<1>11. Follows(p, old)  BY <1>4, <1>7, FollowsIsTransitive
<1>12. old.stake.owner = o /\ old.stake.target = v
  BY <1>6, <1>11 DEF Follows
<1>13. Ledger(emptied, left)
  BY <1>2, <1>4, <1>7, <1>11, <1>12, PositionStored
<1>14. /\ old.stake \in StakeInfo /\ old.stake # NoStake
       /\ old.target \in TargetInfo /\ old.target # NoTarget
  BY <1>7, PositionParts, RecordsAreDistinct
<1>15. /\ s # new /\ stake[s] # NoStake /\ stake[new] = NoStake /\ target[t] # NoTarget
  BY <1>1 DEF IsStake, IsTarget
<1>16. /\ emptied \in StakeRecords /\ left \in TargetRecords
       /\ emptied[s] = old.stake /\ \A i \in Stakes : i # s => emptied[i] = stake[i]
       /\ left[v] = old.target /\ \A i \in Targets : i # v => left[i] = target[i]
  <2>1. emptied \in StakeRecords /\ left \in TargetRecords  BY <1>13 DEF Ledger
  <2> QED  BY <1>2, <1>3, <2>1 DEF StakeRecords, TargetRecords
<1>17. left[t] # NoTarget /\ emptied[new] = NoStake  BY <1>14, <1>15, <1>16
<1>18. stake' = [emptied EXCEPT ![new] = q.stake]  BY <1>1, <1>15
<1>19. SumUpTo(HeldBy(emptied, o), MaxStakes) =
         SumUpTo(HeldBy(stake, o), MaxStakes) + (0 - p.stake.staked)
  <2> DEFINE x == old.stake
  <2>1. x \in StakeInfo /\ x.owner = o /\ x.staked = 0 /\ stake[s].owner = x.owner
    BY <1>5, <1>6, <1>7, <1>12, <1>14
  <2> HIDE DEF x
  <2>2. SumUpTo(HeldBy([stake EXCEPT ![s] = x], x.owner), MaxStakes) =
          SumUpTo(HeldBy(stake, x.owner), MaxStakes) + (x.staked - stake[s].staked)
    BY <1>2, <2>1, HeldAfter
  <2> QED  BY <1>5, <2>1, <2>2 DEF x
<1> HIDE DEF emptied, left
<1>20. Starts(emptied, left, new, fresh)
  BY <1>2, <1>3, <1>13, <1>17, NewPositionStarts
<1>21. /\ fresh \in Positions /\ fresh.stake.owner = o /\ fresh.target = left[t]
       /\ fresh.stake.staked = 0
  BY <1>20 DEF Starts, NewPosition
<1> HIDE DEF fresh
<1>22. /\ q \in Positions /\ Follows(fresh, q)
       /\ q.stake.staked = fresh.stake.staked + amount
       /\ q.target.reserve = fresh.target.reserve
  BY <1>2, <1>8, <1>21, WithStakeFollows
<1>23. q.stake.owner = o  BY <1>21, <1>22 DEF Follows
<1>24. q.stake.staked = amount /\ q.target.reserve = left[t].reserve  BY <1>8, <1>21, <1>22
<1>25. /\ q.stake \in StakeInfo /\ q.stake # NoStake
       /\ q.target \in TargetInfo /\ q.target # NoTarget
  BY <1>22, PositionParts, RecordsAreDistinct
<1> HIDE DEF q
<1>26. SumUpTo(HeldBy(stake', o), MaxStakes) =
         SumUpTo(HeldBy(emptied, o), MaxStakes) + (amount - 0)
  <2> DEFINE x == q.stake
  <2>1. x \in StakeInfo /\ x.owner = o /\ x.staked = amount
    BY <1>23, <1>24, <1>25
  <2>2. emptied[new].staked = 0  BY <1>17 DEF NoStake
  <2>3. stake' = [emptied EXCEPT ![new] = x]  BY <1>18
  <2> HIDE DEF x
  <2>4. SumUpTo(HeldBy([emptied EXCEPT ![new] = x], x.owner), MaxStakes) =
          SumUpTo(HeldBy(emptied, x.owner), MaxStakes) + (x.staked - emptied[new].staked)
    BY <1>16, <1>17, <2>1, HeldAfter
  <2> QED  BY <2>1, <2>2, <2>3, <2>4
<1>27. /\ stake'[new] = q.stake /\ stake'[s] = old.stake
       /\ \A i \in Stakes : i # s /\ i # new => stake'[i] = stake[i]
  BY <1>15, <1>16, <1>18 DEF StakeRecords
<1>28. KeepsStakes(stake, stake', o)
  <2>1. ASSUME NEW i \in Stakes
        PROVE  /\ Owners(stake')[i] = Owners(stake)[i]
                    \/ (Owners(stake)[i] = Nobody /\ Owners(stake')[i] = o)
               /\ Owners(stake')[i] # o => stake'[i].staked = stake[i].staked
               /\ stake[i] # NoStake /\ stake[i].lockedUntil > now =>
                    stake'[i].staked >= stake[i].staked
    <3>1. CASE i = s
      <4>1. Owners(stake')[i] = o /\ Owners(stake)[i] = o
        BY <1>5, <1>6, <1>12, <1>14, <1>15, <1>27, <3>1 DEF Owners
      <4>2. stake'[i].staked = 0 /\ stake[i].staked = p.stake.staked
        BY <1>5, <1>7, <1>27, <3>1
      <4>3. stake[i].lockedUntil > now => p.stake.staked = 0
        BY <1>8, <1>9, <1>10, <3>1
      <4> QED  BY <4>1, <4>2, <4>3
    <3>2. CASE i = new
      <4>1. Owners(stake')[i] = o /\ Owners(stake)[i] = Nobody
        BY <1>15, <1>23, <1>25, <1>27, <3>2 DEF Owners
      <4> QED  BY <1>15, <3>2, <4>1
    <3>3. CASE i # s /\ i # new
      <4>1. stake'[i] = stake[i]  BY <1>27, <3>3
      <4>2. Owners(stake')[i] = Owners(stake)[i]  BY <4>1 DEF Owners
      <4>3. stake[i].staked \in Nat  BY <1>2, StakeAmountsAreNatural
      <4> QED  BY <4>1, <4>2, <4>3
    <3> QED  BY <3>1, <3>2, <3>3
  <2> QED  BY <2>1 DEF KeepsStakes
<1>29. PaysFromReserves(o, v)
  <2>1. \A i \in Targets : Reserves(target')[i] = Reserves(left)[i]
    <3>1. target'[t] = q.target /\ \A i \in Targets : i # t => target'[i] = left[i]
      BY <1>1, <1>16 DEF TargetRecords
    <3> QED  BY <1>17, <1>24, <1>25, <3>1 DEF Reserves
  <2>2. /\ Reserves(left)[v] = u.target.reserve
        /\ \A i \in Targets : i # v => Reserves(left)[i] = Reserves(target)[i]
    BY <1>3, <1>7, <1>14, <1>16 DEF Reserves
  <2>3. Reserves(target)[v] = p.target.reserve
    <3>1. target[v] # NoTarget  BY <1>4, <1>5 DEF Starts
    <3> QED  BY <1>3, <1>5, <3>1 DEF Reserves
  <2> DEFINE held == SumUpTo(HeldBy(stake, o), MaxStakes)
             next == SumUpTo(HeldBy(stake', o), MaxStakes)
             between == SumUpTo(HeldBy(emptied, o), MaxStakes)
  <2>4. held \in Nat /\ between \in Nat  BY <1>2, <1>16, HeldIsNatural
  <2>5. between = held + (0 - p.stake.staked) /\ next = between + (amount - 0)
    BY <1>19, <1>26
  <2>6. WealthOf(wallet', stake', o) = wallet[o] + next
        /\ WealthOf(wallet, stake, o) = wallet[o] + held /\ wallet[o] \in Nat
    BY <1>1, <1>2, <1>3 DEF WealthOf
  <2> HIDE DEF held, next, between
  <2>7. WealthOf(wallet', stake', o) - WealthOf(wallet, stake, o) = amount - p.stake.staked
    BY <1>8, <2>4, <2>5, <2>6
  <2>8. p.target.reserve - u.target.reserve >= 0  BY <1>8, <1>10
  <2> QED
    BY <1>1, <1>3, <1>10, <2>1, <2>2, <2>3, <2>7, <2>8 DEF PaysFromReserves
<1> QED  BY <1>3, <1>28, <1>29, StakerActsIsPromised DEF Promised

LEMMA StepIsPromised ==
  ASSUME StakingIsSound, [Next]_vars
  PROVE  [StakePromise!OthersAct \/ \E o \in Stakers : StakePromise!StakerActs(o)]_(StakePromise!vars)
<1>1. ASSUME stake' = stake, wallet' = wallet
      PROVE  StakePromise!OthersAct
  BY <1>1 DEF StakePromise!OthersAct, IsStake
<1>2. CASE TargetsNext /\ UNCHANGED <<stakeVars, now, earnable>>
  BY <1>1, <1>2 DEF stakeVars
<1>3. CASE StakeNext
  <2>1. Promised
    BY <1>3, CreateStakeIsPromised, StakeIsPromised, UnstakeIsPromised,
       UpdateRewardsIsPromised, ClaimRewardsIsPromised, RestakeIsPromised DEF StakeNext
  <2> QED  BY <2>1 DEF Promised
<1>4. CASE Tick
  BY <1>1, <1>4 DEF Tick, stakeVars
<1>5. CASE UNCHANGED vars
  BY <1>1, <1>5 DEF vars, stakeVars
<1> QED  BY <1>2, <1>3, <1>4, <1>5 DEF Next

LEMMA InitIsPromised ==
  ASSUME Init
  PROVE  StakePromise!Init
<1>1. /\ stake = [s \in Stakes |-> NoStake] /\ wallet = [o \in Stakers |-> Endowment]
      /\ target = [t \in Targets |-> IF t = Protocol THEN NewTarget ELSE NoTarget]
  BY DEF Init, TargetsInit
<1>2. wallet \in [Stakers -> Nat]  BY <1>1, StakingAssumption
<1>3. \A s \in Stakes : ~IsStake(s) /\ stake[s].staked = 0  BY <1>1 DEF IsStake, NoStake
<1>4. \A t \in Targets : IsTarget(t) => target[t].reserve = 0
  BY <1>1 DEF IsTarget, NewTarget
<1>5. StakePromise!Stakes = Stakes  BY DEF StakePromise!Stakes, Stakes
<1> QED  BY <1>2, <1>3, <1>4, <1>5 DEF StakePromise!Init

\* Staking implements its promise: for every number of stakes and targets, what a staker
\* owns changes only by what reserves pay, nobody else touches it, and nothing leaves a
\* stake that is locked.
THEOREM StakingKeepsPromise == Spec => ImplementsStakePromise
<1>1. Init => StakePromise!Init  BY InitIsPromised
<1>2. StakingIsSound /\ [Next]_vars =>
        [StakePromise!OthersAct \/ \E o \in Stakers : StakePromise!StakerActs(o)]_(StakePromise!vars)
  BY StepIsPromised
<1> QED
  BY <1>1, <1>2, StakingStaysSound, PTL DEF Spec, ImplementsStakePromise, StakePromise!Spec
=============================================================================
