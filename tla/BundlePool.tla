----------------------------- MODULE BundlePool -----------------------------
(***************************************************************************)
(* A pool component and its bundles: PoolService, BundleService, PoolLib,  *)
(* BundleSet, the balance store books of pool, bundles and product, and    *)
(* the pool's and product's token wallets.  Investors stake tokens into a  *)
(* bundle; policies lock bundle capital as collateral.                     *)
(*                                                                         *)
(* The actions up to Tick are transactions of their own (called by the     *)
(* owners of pool, bundle and product).  The operators after it are the    *)
(* calls the policy and claim services make within their transactions;     *)
(* module PolicyFlow puts them into whole handlers.  A transaction that    *)
(* reverts changes nothing, so a revert is a guard that is not satisfied.  *)
(***************************************************************************)
EXTENDS ObjectLifecycle, Accounting, FiniteSets

CONSTANTS
  MaxBundles,              \* bundle NFTs that are ever minted
  MaxTime,                 \* last block time of a behaviour
  BundleLifetimes,         \* lifetimes and lifetime extensions of bundles
  StakeAmounts,            \* amounts staked and unstaked
  MaxBalanceAmounts,       \* limits the pool owner sets (PoolInfo.maxBalanceAmount)
  StakingFee,              \* FeeInfo.stakingFee  [fixed, fractional]
  ProcessingFee,           \* FeeInfo.processingFee
  CollateralizationLevel,  \* PoolInfo.collateralizationLevel, parts of Unit
  RetentionLevel,          \* PoolInfo.retentionLevel, parts of Unit
  IsExternallyManaged,     \* PoolInfo.isExternallyManaged
  MaxWallet                \* bound on externally provided tokens

ASSUME BundlePoolAssumption ==
  /\ MaxBundles \in Nat
  /\ MaxTime \in Nat
  /\ BundleLifetimes \subseteq Nat
  /\ StakeAmounts \subseteq Nat
  /\ MaxBalanceAmounts \subseteq Nat
  /\ StakingFee \in Fees
  /\ ProcessingFee \in Fees
  /\ CollateralizationLevel \in Nat
  /\ RetentionLevel \in Nat
  /\ IsExternallyManaged \in BOOLEAN
  /\ MaxWallet \in Nat

VARIABLES
  now,             \* block.timestamp
  bundle,          \* BundleInfo and state of every bundle NFT
  activeBundles,   \* BundleSet's active set of the pool: the unlocked bundles
  bundlePolicies,  \* BundleSet._activePolicies: policies linked to a bundle
  bundleBook,      \* BalanceStore entries of the bundles
  poolBook,        \* BalanceStore entry of the pool
  productBook,     \* BalanceStore entry of the product
  maxBalance,      \* PoolInfo.maxBalanceAmount
  poolWallet,      \* tokens held by the pool's wallet
  productWallet,   \* tokens held by the product's wallet
  tvl              \* StakingStore: total value locked of the instance

poolVars == <<bundle, activeBundles, bundlePolicies, bundleBook, poolBook,
              productBook, maxBalance, poolWallet, productWallet, tvl>>

Bundles == 1..MaxBundles

PoolInit ==
  /\ now = 1
  /\ bundle = [b \in Bundles |-> [state |-> NONE, expiredAt |-> 0]]
  /\ activeBundles = {}
  /\ bundlePolicies = [b \in Bundles |-> {}]
  /\ bundleBook = [b \in Bundles |-> EmptyBook]
  /\ poolBook = EmptyBook
  /\ productBook = EmptyBook
  /\ maxBalance \in MaxBalanceAmounts
  /\ poolWallet = 0
  /\ productWallet = 0
  /\ tvl = 0

----------------------------------------------------------------------------
(* Transactions of bundle owners and pool owner.                           *)

\* NFTs are minted with increasing ids.
CreateBundle(b, lifetime) ==
  /\ bundle[b].state = NONE
  /\ \A c \in 1..(b - 1) : bundle[c].state # NONE
  /\ bundle' = [bundle EXCEPT ![b] = [state |-> "ACTIVE", expiredAt |-> now + lifetime]]
  /\ activeBundles' = activeBundles \union {b}
  /\ UNCHANGED <<now, bundlePolicies, bundleBook, poolBook, productBook,
                 maxBalance, poolWallet, productWallet, tvl>>

\* The check of BundleService.stake, extend and lockCollateral.  stake also
\* looks at closedAt, which no service ever sets, and accepts state PAUSED,
\* which no bundle ever has.
BundleIsOpen(b) ==
  /\ bundle[b].state = "ACTIVE"
  /\ bundle[b].expiredAt >= now

\* PoolService.stake and BundleService.stake.
Stake(b, amount) ==
  LET fee == FeeAmount(StakingFee, amount)
  IN  /\ poolBook.balance + amount <= maxBalance
      /\ fee <= amount
      /\ BundleIsOpen(b)
      /\ poolBook' = Increase(poolBook, amount - fee, fee)
      /\ bundleBook' = [bundleBook EXCEPT ![b] = Increase(@, amount - fee, 0)]
      /\ \/ IsExternallyManaged /\ UNCHANGED poolWallet
         \/ ~IsExternallyManaged /\ amount > 0 /\ poolWallet' = poolWallet + amount
      /\ UNCHANGED <<now, bundle, activeBundles, bundlePolicies, productBook,
                     maxBalance, productWallet, tvl>>

\* BundleService.unstake: only capital that is neither locked nor fees.
CanUnstake(book, amount) ==
  /\ Available(book) >= 0
  /\ amount <= Available(book)
  /\ CanDecrease(book, amount, 0)

\* The amount may also be "max", which unstakes all that is available.
Unstake(b, amount) ==
  /\ bundle[b].state # NONE
  /\ CanUnstake(bundleBook[b], amount)
  /\ CanDecrease(poolBook, amount, 0)
  /\ bundleBook' = [bundleBook EXCEPT ![b] = Decrease(@, amount, 0)]
  /\ poolBook' = Decrease(poolBook, amount, 0)
  /\ \/ IsExternallyManaged /\ UNCHANGED poolWallet
     \/ /\ ~IsExternallyManaged
        /\ amount \in 1..poolWallet
        /\ poolWallet' = poolWallet - amount
  /\ UNCHANGED <<now, bundle, activeBundles, bundlePolicies, productBook,
                 maxBalance, productWallet, tvl>>

ExtendBundle(b, extension) ==
  /\ BundleIsOpen(b)
  /\ extension > 0
  /\ bundle[b].expiredAt + extension <= MaxTime  \* bound
  /\ bundle' = [bundle EXCEPT ![b].expiredAt = @ + extension]
  /\ UNCHANGED <<now, activeBundles, bundlePolicies, bundleBook, poolBook,
                 productBook, maxBalance, poolWallet, productWallet, tvl>>

\* BundleService.setLocked(bundle, true): removing a key that is not in the
\* active set reverts.
LockBundle(b) ==
  /\ bundle[b].state # NONE
  /\ b \in activeBundles
  /\ activeBundles' = activeBundles \ {b}
  /\ UNCHANGED <<now, bundle, bundlePolicies, bundleBook, poolBook,
                 productBook, maxBalance, poolWallet, productWallet, tvl>>

\* BundleService.setLocked(bundle, false): adding a key that is already in
\* the active set reverts.  The bundle's state is not consulted.
UnlockBundle(b) ==
  /\ bundle[b].state # NONE
  /\ b \notin activeBundles
  /\ activeBundles' = activeBundles \union {b}
  /\ UNCHANGED <<now, bundle, bundlePolicies, bundleBook, poolBook,
                 productBook, maxBalance, poolWallet, productWallet, tvl>>

\* Mutant: a bundle that still covers policies can be closed.
BundleIsCloseableM(b) == <<bundle[b].state, "CLOSED">> \in BundleTransitions

\* BundleService.close: no policies linked, state change, removal from the
\* active set (a locked bundle is not in it and cannot be closed).
BundleIsCloseable(b) ==
  /\ bundlePolicies[b] = {}
  /\ <<bundle[b].state, "CLOSED">> \in BundleTransitions
  /\ b \in activeBundles

\* PoolService.closeBundle and BundleService.close.  Balance and fees are
\* paid out to the bundle owner, also when the pool is externally managed.
CloseBundle(b) ==
  LET book     == bundleBook[b]
      unstaked == book.balance - book.fees
      paidOut  == unstaked + book.fees
  IN  /\ BundleIsCloseable(b)
      /\ unstaked >= 0
      /\ CanDecrease(poolBook, paidOut, 0)
      /\ paidOut <= poolWallet
      /\ bundle' = [bundle EXCEPT ![b].state = "CLOSED"]
      /\ activeBundles' = activeBundles \ {b}
      /\ bundleBook' = [bundleBook EXCEPT ![b] = Decrease(@, unstaked, @.fees)]
      /\ poolBook' = Decrease(poolBook, paidOut, 0)
      /\ poolWallet' = poolWallet - paidOut
      /\ UNCHANGED <<now, bundlePolicies, productBook, maxBalance,
                     productWallet, tvl>>

\* Mutant: the pool's balance is not decreased with the bundle's.
WithdrawBundleFeesM(b, amount) ==
  /\ bundle[b].state # NONE
  /\ amount \in 1..poolWallet
  /\ CanDecrease(bundleBook[b], 0, amount)
  /\ bundleBook' = [bundleBook EXCEPT ![b] = Decrease(@, 0, amount)]
  /\ poolWallet' = poolWallet - amount
  /\ UNCHANGED <<now, bundle, activeBundles, bundlePolicies, poolBook,
                 productBook, maxBalance, productWallet, tvl>>

WithdrawBundleFees(b, amount) ==
  /\ bundle[b].state # NONE
  /\ amount <= bundleBook[b].fees
  /\ CanDecrease(bundleBook[b], 0, amount)
  /\ CanDecrease(poolBook, amount, 0)
  /\ amount \in 1..poolWallet
  /\ bundleBook' = [bundleBook EXCEPT ![b] = Decrease(@, 0, amount)]
  /\ poolBook' = Decrease(poolBook, amount, 0)
  /\ poolWallet' = poolWallet - amount
  /\ UNCHANGED <<now, bundle, activeBundles, bundlePolicies, productBook,
                 maxBalance, productWallet, tvl>>

\* ComponentService.withdrawFees called by the pool.
WithdrawPoolFees(amount) ==
  /\ amount > 0
  /\ amount <= poolBook.fees
  /\ CanDecrease(poolBook, 0, amount)
  /\ amount <= poolWallet
  /\ poolBook' = Decrease(poolBook, 0, amount)
  /\ poolWallet' = poolWallet - amount
  /\ UNCHANGED <<now, bundle, activeBundles, bundlePolicies, bundleBook,
                 productBook, maxBalance, productWallet, tvl>>

\* ComponentService.withdrawFees called by the product.
WithdrawProductFees(amount) ==
  /\ amount > 0
  /\ amount <= productBook.fees
  /\ CanDecrease(productBook, 0, amount)
  /\ amount <= productWallet
  /\ productBook' = Decrease(productBook, 0, amount)
  /\ productWallet' = productWallet - amount
  /\ UNCHANGED <<now, bundle, activeBundles, bundlePolicies, bundleBook,
                 poolBook, maxBalance, poolWallet, tvl>>

SetMaxBalanceAmount(amount) ==
  /\ maxBalance' = amount
  /\ UNCHANGED <<now, bundle, activeBundles, bundlePolicies, bundleBook,
                 poolBook, productBook, poolWallet, productWallet, tvl>>

FundPoolWallet(amount) ==
  /\ IsExternallyManaged
  /\ amount > 0
  /\ poolWallet + amount <= MaxWallet  \* bound
  /\ poolWallet' = poolWallet + amount
  /\ UNCHANGED <<now, bundle, activeBundles, bundlePolicies, bundleBook,
                 poolBook, productBook, maxBalance, productWallet, tvl>>

DefundPoolWallet(amount) ==
  /\ IsExternallyManaged
  /\ amount \in 1..poolWallet
  /\ poolWallet' = poolWallet - amount
  /\ UNCHANGED <<now, bundle, activeBundles, bundlePolicies, bundleBook,
                 poolBook, productBook, maxBalance, productWallet, tvl>>

Tick ==
  /\ now < MaxTime
  /\ now' = now + 1
  /\ UNCHANGED poolVars

PoolNext ==
  \/ \E b \in Bundles, d \in BundleLifetimes : CreateBundle(b, d) \/ ExtendBundle(b, d)
  \/ \E b \in Bundles, a \in StakeAmounts : Stake(b, a)
  \/ \E b \in Bundles : \E a \in StakeAmounts \union {Available(bundleBook[b])} : Unstake(b, a)
  \/ \E b \in Bundles : LockBundle(b) \/ UnlockBundle(b) \/ CloseBundle(b)
  \/ \E b \in Bundles : \E a \in 1..bundleBook[b].fees : WithdrawBundleFees(b, a)
  \/ \E a \in 1..poolBook.fees : WithdrawPoolFees(a)
  \/ \E a \in 1..productBook.fees : WithdrawProductFees(a)
  \/ \E m \in MaxBalanceAmounts : SetMaxBalanceAmount(m)
  \/ \E a \in StakeAmounts : FundPoolWallet(a) \/ DefundPoolWallet(a)
  \/ Tick

----------------------------------------------------------------------------
(* Calls of the policy and claim services.  Each is a part of a handler    *)
(* and says how it changes the variables named in its comment.             *)

\* Mutant: capital that is already locked or reserved for fees counts.
CanLockM(book, local) == book.balance >= local

\* BundleService.lockCollateral: only unencumbered capital can be locked.
CanLock(book, local) == Available(book) >= 0 /\ Available(book) >= local

\* PoolService.lockCollateral, BundleService.lockCollateral: bundleBook, tvl.
LockCollateral(b, sumInsured) ==
  LET local == LocalCollateral(CollateralizationLevel, RetentionLevel, sumInsured)
      total == TotalCollateral(CollateralizationLevel, sumInsured)
  IN  /\ BundleIsOpen(b)
      /\ CanLock(bundleBook[b], local)
      /\ bundleBook' = [bundleBook EXCEPT ![b].locked = @ + local]
      /\ tvl' = tvl + total

\* Mutant: the staking service is not told about the release.
ReleaseCollateralM(b, amount) ==
  /\ amount >= 0
  /\ amount <= bundleBook[b].locked
  /\ bundleBook' = [bundleBook EXCEPT ![b].locked = @ - amount]
  /\ tvl' = tvl

\* PoolService.releaseCollateral, BundleService.releaseCollateral:
\* bundleBook, tvl.
ReleaseCollateral(b, amount) ==
  /\ amount >= 0
  /\ amount <= bundleBook[b].locked
  /\ amount <= tvl
  /\ bundleBook' = [bundleBook EXCEPT ![b].locked = @ - amount]
  /\ tvl' = tvl - amount

\* PoolService.processSale: poolBook, bundleBook.
ProcessSale(b, premium) ==
  /\ poolBook' = Increase(poolBook, premium.net + premium.bundleFee, premium.poolFee)
  /\ bundleBook' = [bundleBook EXCEPT ![b] = Increase(@, premium.net, premium.bundleFee)]

\* Mutant: the locked amount is decreased without the underflow check.
CanPayOutM(b, amount) ==
  CanDecrease(poolBook, amount, 0) /\ CanDecrease(bundleBook[b], amount, 0) /\ amount <= tvl

\* The decreases of a payout do not underflow: balances of pool and bundle,
\* the bundle's locked amount, the total value locked.
CanPayOut(b, amount) ==
  /\ CanDecrease(poolBook, amount, 0)
  /\ CanDecrease(bundleBook[b], amount, 0)
  /\ amount <= bundleBook[b].locked
  /\ amount <= tvl

\* Mutant: the fee is moved but not booked to the product's balance.
BookPayoutFeeM(fee) == productBook' = [productBook EXCEPT !.fees = @ + fee]

\* PoolService.processPayout, last step: the processing fee is the product's.
BookPayoutFee(fee) == productBook' = Increase(productBook, 0, fee)

\* PoolService.processPayout: poolBook, bundleBook, tvl, poolWallet,
\* productBook, productWallet.  The processing fee is moved from the pool
\* wallet to the product wallet.  A net payout of zero reverts.
ProcessPoolPayout(b, amount) ==
  LET fee == FeeAmount(ProcessingFee, amount)
  IN  /\ CanPayOut(b, amount)
      /\ fee < amount
      /\ amount <= poolWallet
      /\ poolBook' = Decrease(poolBook, amount, 0)
      /\ bundleBook' = [bundleBook EXCEPT ![b] =
           [Decrease(bundleBook[b], amount, 0) EXCEPT !.locked = @ - amount]]
      /\ tvl' = tvl - amount
      /\ poolWallet' = poolWallet - amount
      /\ BookPayoutFee(fee)
      /\ productWallet' = productWallet + fee
=============================================================================
