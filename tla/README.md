# Verification of the Generic Insurance Framework (gif-next)

The framework is a set of Solidity contracts. An *instance* holds the state of
insurance products; *services* are the only contracts that change it; *components*
(product, pool, distribution, oracle) are written by users of the framework and call
the services. This directory models the services and the registry of releases in TLA+, checks the models with TLC
on small instances and proves theorems about them with TLAPS. The contracts are brought
to a chain by TypeScript scripts, which are modelled too. Paths below are relative to
`src/contracts/`, those that start with `scripts/` to `src/`.

A transaction is atomic: a revert undoes all of it. So one external service function
is one action, a `revert` (including Solidity's checked subtraction) is a guard that
does not hold, and the interleavings that matter are those of whole transactions sent
by different actors: policy holders, product, pool and bundle owners, time.

## Inventory

| Part | State | Operations | What is hard about it |
|---|---|---|---|
| Object lifecycles (`instance/base/ObjectLifecycle.sol`, `shared/Lifecycle.sol`) | state of every object | `checkTransition` in every store update | states that handlers forget to check |
| Accounting (`accounting/AccountingService.sol`, `instance/base/BalanceStore.sol`, `type/Fee.sol`, `type/UFixed.sol`) | balance, fees, locked of pool, bundles, product, distributors | increase, decrease | several books and wallets that must agree; rounding; checked subtraction |
| Pool and bundles (`pool/`) | bundle info, books, wallet, maximum balance | stake, unstake, extend, lock, close, withdraw fees, fund, defund; lock, use and release collateral | investors act between the transactions of policies |
| Policies (`product/ApplicationService.sol`, `PolicyService.sol`, `PolicyServiceLib.sol`, `RiskService.sol`) | policy and premium info and state, links to risk and bundle | apply, revoke, decline, create, collect premium, activate, adjust, expire, close | every order of the calls; block time at the boundaries |
| Claims and payouts (`product/ClaimService.sol`) | claim and payout info and state, counters in policy and claim | submit, confirm, decline, revoke, cancel, create/process/cancel payout | three levels of sums and counters |
| Sets (`instance/BundleSet.sol`, `RiskSet.sol`, `instance/base/ObjectSet.sol`, `type/Key32Set.sol`) | active objects, policies linked to bundles and risks | add, lock, unlock, link, unlink | separate stores that must agree with the states |
| Pricing (`product/PricingService.sol`) | none | calculatePremium | parts that must add up; percentages of different amounts |
| Distribution (`distribution/`) | distributor types, distributors, referrals, balances | create, processReferral, processSale, withdrawCommission | a referral judged three times: at application, at pricing, at payment |
| Staking (`staking/`) | stakes, rewards, reserves, limits, total value locked | stake, unstake, restake, claim, refill, rates, limits | rewards computed late, reserves that run out, stale limits, restaking across targets |
| Oracle (`oracle/`) | requests | request, respond, resend, cancel | callbacks that call back |
| Registry and releases (`registry/`) | releases with state, authorization, lock, services; counters; roles; table of objects | create, prepare, register service, activate, pause, resume | a lifecycle spread over many calls of two actors, that may be abandoned half way; state and lock in two contracts |
| Deployment scripts (`scripts/deploy_*.ts`, `scripts/libs/`) | `deployment_state.json`: hash and address of every contract and transaction; the chain | deploy, execute, wait, resume | stopped anywhere and started again while transactions are pending, dropped or reverted |
| Other scripts, parser (`scripts/find_*.ts`, `antlr/generated/`) | | | none: generated code and printed lists |
| Authorization, instances, proxies (`authorization/`, `instance/Instance*.sol`, `upgradeability/`) | roles, contracts | grants, deployment | |

The scripts create the contracts, drive a release through its lifecycle in the release
registry, and create the first instance and the example products. From then on a
product calls application, policy, claim and risk service. The policy
service calls the pool service (lock, sale, release), which calls the bundle service
and the staking contract (total value locked); the claim service calls the pool
service for payouts and the policy service when a claim uses up the sum insured. All
of them write books through the accounting service and move tokens through the token
handlers of the components. `PROJECT.json` lists for each hazard the line where it
bites and the properties that would show it going wrong.

## Modules

| Module | Models | State and actions |
|---|---|---|
| `ObjectLifecycle` | `ObjectLifecycle.sol` | states and transition tables |
| `Accounting` | `AccountingService`, `BalanceStore`, `FeeLib`, `UFixedLib` rounding, `PoolLib` collateral | operators on books `[balance, fees, locked]` |
| `Sums` | (helper) | sums over ids, as a recursive function |
| `BundlePool` | `PoolService`, `BundleService`, `BundleSet`, `ComponentService.withdrawFees`, the value-locked counter of `StakingStore` | one action per owner's transaction, from `CreateBundle` to `DefundPoolWallet`, and `Tick` for block time; the operators after them are the calls made inside other handlers |
| `PolicyFlow` | `ApplicationService`, `PolicyService`, `PolicyServiceLib`, `ClaimService`, `RiskService`, `RiskSet` | EXTENDS BundlePool; one action per service function; `Next` composes everything |
| `Pricing` | `PricingService.calculatePremium` | operators from net premium, fees and referral terms to a premium and its parts |
| `Distribution` | `DistributionService`, `setDistributionFees` and `withdrawFees` of `ComponentService`, the referral check of `ApplicationService.create`, the distribution's part of `PolicyService.createPolicy` and `collectPremium` | one action per service function; `Sale` ids are policies, `EXPECTED` and `PAID` the state of their premium |
| `CoverPromise` | abstract: what a pool promises policy holders | capital of bundles, backer and reserve of policies |
| `Oracle` | `OracleService`, the request part of `InstanceStore` | a service function in two steps, before and after the call of a component (`Respond`, then `RequesterAccepts` or `RequesterReverts`), with the stack of functions under way |
| `RequestPromise` | abstract: what becomes of a request in a transaction | state and number of accepted responses |
| `StakingTargets` | targets, support parameters, limits, reserves and value locked in `StakingStore`; `TargetHandler`, `TargetManagerLib`; what target owners and other services do | one action per function; records `target` (TargetInfo and LimitInfo), `tvl`, `support` |
| `Staking` | stakes in `StakingStore`, `Staking`, `StakingLib`, `StakingService` | EXTENDS StakingTargets; a step of the store is an operator on a *position* (stake and target), a function of `Staking` an action that composes them |
| `StakePromise` | abstract: what staking promises a staker | wallets, stakes and their owners, reserves, locks |
| `ReleaseRegistry` | `ReleaseRegistry.sol`, `ReleaseLifecycle.sol`, the lock of `ReleaseAdmin`, the services of `Registry`, the roles `RegistryAdmin` grants | one action per function; a variable per state variable of the contract |
| `Deployment` | `scripts/libs/deployment.ts`, `transaction.ts`, `deployment_state.ts`, the node and the operator | EXTENDS ReleaseRegistry; `file` is the state file, `chain` the accepted transactions, `pc` and `phase` the place of the running script; a script action is what happens between two awaits |
| `DeploymentPlan` | the steps of `scripts/deploy_all.ts` and the functions it calls | one definition per function, a sequence of steps |
| `PlanPromise` | abstract: what a resumable deployment promises | the transactions that completed steps |
| `MCPolicyFlow`, `MCDistribution`, `MCOracle`, `MCStaking`, `MCReleases`, `MCDeployment` | values for constants | |
| `AccountingProofs` | lemmas on rounding, fees and books, and on sums | |
| `PolicyFlowProofs` | types and links of PolicyFlow | |
| `CoverProofs` | amounts, counters, books and collateral of PolicyFlow, its refinement | |
| `DistributionProofs` | theorems about Pricing and Distribution | |
| `OracleProofs` | theorems about Oracle | |
| `StakingProofs` | theorems about Staking | |
| `ReleaseProofs` | theorems about ReleaseRegistry | |
| `DeploymentProofs` | theorems about Deployment | |

Abstractions. NFT ids, risk ids, claim and payout numbers are handed out
consecutively, so they are `1..Max`. Rates are in hundredths (`Unit`); a premium is a
record of net premium and fees taken from the constant `Premiums`, with
`PolicyInfo` and `PremiumInfo` in one record. Authorization, component state (active)
and token allowances are taken for granted; users have all tokens they need. The
product of `PolicyFlow` has no distribution component; `Distribution` models the sale
of policies by a product that has one and leaves out collateral and claims, which do
not depend on it (the two share the steps `CreateApplication`, `CreatePolicy` and
`CollectPremium`). In these modules the callbacks of the user's contracts change no
state of the framework.

In `Oracle` the callbacks are the point: while the service calls a component, any
component may call the service again. The stack `calls` holds for every function under
way the store at its start, to which a revert goes back, and at its call, to which the
failed callback alone goes back. A component that catches the revert of something it
has called itself leaves the same store as one that has not called it, so this needs
no step of its own.

`Staking` models the targets of one chain: target 1 is the protocol, the others are
instances. Stakes do not change hands, and owners of targets have all the DIP they
refill. The unit of time is an arbitrary part of a year (`Year`). Rewards are rounded
once; the code also rounds the fraction of the year at the 15th digit. `earnable` is a
history variable: what the stakes of an owner can have earned at the highest rate
there is, up to one half per stake and tick for rounding. Tokens of a target are a set.
`MaxUpdates` stands for the largest uint16, `MaxAmount` for the largest uint96.
Two things of the code are visible in the model and stated by no property, because no
document says otherwise: unstaking waits for reserves and limit when there are rewards
to restake, and the locking period is added to the end of a lock that may be over
(`test/staking/` expects the sum), so that what is added late may be unstaked soon.

`ReleaseRegistry` takes a service as what `_verifyService` reads from it: domain,
version and authority. An
authorization is a release and a sequence of domains without repetitions
(`ServiceAuthorization._authorizeServiceDomain` is called once per domain). A version
part is a `uint8`; `toVersionPart` truncates without a check, and `LastRelease <= 255`
keeps the 254th release from running into version 0 and on into used ones.

In `Deployment` the script's `await`s are its only interruptions. Three abstractions
bound the chain. Accounts that sign the steps act one after another, so one nonce order
is enough: transactions are mined in the order in which they were sent. A node forgets
the transaction it accepted last, as long as it is pending, so that no gap stays in
front of others. And a call to a contract without code (a *hollow* contract, recorded
although its creation reverted, `scripts/libs/deployment.ts:169-177`) does nothing and
succeeds, or throws where the script reads an answer (`IsIgnored`, `ReadFails`); when
the release registry itself is hollow, this is so for every call that concerns releases. The
file is indexed by step, which is a lookup by key because the keys of a plan differ
(`DeploymentAssumption`); a service's step has its domain as key where the code has the
proxy's address in the transaction id. What contracts other than the release registry
check of a call is only whether it may be repeated (`once` and `repeat`) and whether
the release must be active.

`setDistributionFees` does not compare the owner's fixed minimum with the fixed
distribution fee. With a larger minimum no policy can be sold without a referral, and
one sold with a referral books the minimum for the owner while the wallet receives only
the fee. `WalletCoversBooks` therefore allows the wallet to lack this excess
(`ExcessMinimums`, summed over the premiums paid) and no more; one of the two fees of
the run has an excess. With a smaller minimum the difference stays in the wallet and is
booked to nobody, although the comment at `product/PricingService.sol:258` gives the
remaining amount to the owner; for this reason the property is an inequality.

`ActivatesOnlyCollateralized` is the one thing assumed of a product: that it follows
the documented rule to activate only underwritten policies. The code does not enforce
it; run `activated_application` shows what happens without it.

## Runs

Bounds: ids from 1 to the `Max...` constants, block time `1..MaxTime`, amounts from the
small sets of the cfg, `MaxWallet` for tokens sent to an externally managed pool
(marked `\* bound` in the actions). One or two of everything is enough for what the
properties speak about: a second claim to share the cover of the first, a second
payout to stay open when the first is paid, a second policy whose collateral could be
used, a second bundle whose balance could be mixed up, a second sale that takes the
last use of a referral code. Three nested calls are a callback in which the request is
answered or resent again and, in the callback of that, cancelled or answered a third
time; two requests let a callback concern another request than the one delivered.
`CHECK_DEADLOCK FALSE` in the runs of `Oracle` allows the end of time and of request ids.

For staking, two stakes are one that restakes to the other, or stakes of two owners at
one target; three changes are what it takes to give a token a rate and move its value
locked twice; all functions of stakers are unbounded but for time and tokens.
`SYMMETRY` is sound there: stakers are interchangeable, and no liveness is checked.

Four releases let one be abandoned in each of its states and an active one be followed
by one that is prepared, with a last one left; two authorizations compete for release 4
and one leaves out the registry service, without which a release cannot be activated.
For the scripts, faults are counted (`faults`): stops, dropped transactions and
transactions out of gas. The whole plan of `deploy_all.ts` (142 steps) is walked without
faults, which checks its order against the release registry's demands; the 57 steps
from the creation of the release to the first instance with one fault at any place; a
release registry and a release of two services with three faults, enough to lose a transaction, to repeat it
and to stop the run that repeats it. `CHECK_DEADLOCK FALSE` there allows a finished
script, and one that waits for ever for a dropped transaction.

| Run | Instance | Shows |
|---|---|---|
| `claims_of_a_policy` | 1 policy, 2 claims with 2 payouts, time to 3 | sums and counters of policy, claims and payouts agree and stay within the cover; a claim paid in full is closed unless a payout of it was cancelled; ended cover stays ended; final policies pay nothing; a policy that is over can be closed |
| `shared_bundle` | 2 policies with a claim each on one bundle, bundle fee | locked capital is the open cover of the linked policies; total value locked; bundles solvent; books and wallets agree; links agree with states; the services implement `CoverPromise` |
| `externally_managed` | 2 bundles, retention level 1/2, staking, bundle and processing fees | no amount ever goes below zero; books of pool, bundles and product agree |
| `selling_with_referrals` | 2 sales, 2 referral codes, 2 distributors, 2 types, 2 fee configurations, one expiry | no part of a premium is ever negative; commissions and owner fees never touch each other; the wallet covers the books up to the excess of a minimum fee; a code gives no more discounts than it has uses |
| `oracle_callbacks` | 2 requests of a product or pool, 2 responses, 3 nested calls, time to 2 | a response is accepted once; failed responses are kept; flag and state of a cancellation agree; every transaction as a whole implements `RequestPromise` |
| `staking_and_rewards` | 2 stakers, 2 stakes, protocol and instance, 1 token, 3 changes by other parties, time to 3, years of 2 | targets sum their stakes; the wallet is stakes and reserves; nothing is earned twice; limits hold and follow the value locked; implements `StakePromise` |
| `releases` | up to 4 releases of 2 or 3 services, 5 authorizations | services of a release are those its authorization names; locked exactly while not active; roles exactly for activated releases; skipping and activating are final |
| `resumed_deployment` | `deploy_all.ts` without faults, its release part with one, a short plan with three | the file fits the chain; no step before its predecessors are settled; a step is repeated only when a stop has lost its hash; a finished deployment is complete; every deployment is finished unless it is spoiled; implements `PlanPromise` |
| `activated_application` | product without the rule | violates `PaidPoliciesAreCollateralized` |
| `cancelled_claim` | as the first run | violates `ClaimAmountSumsConfirmedClaims` |
| `over_collateralized` | collateralization level 1.5 | violates `NoPoliciesNothingLocked` |
| `resent_without_response` | one request, no nested calls | violates `FulfilledRequestsAreAnswered` |

The violations are disagreements of code and documentation, quoted in `PROJECT.json`
under `findings`. Every property of a passing run has a mutant of the code (an operator
with suffix `M` beside the definition it replaces) that violates it.

## Liveness and fairness

In the contracts every step is a transaction some outside party may or may not send.
Nothing schedules them, so no fairness is justified and no liveness stated;
`ClosingIsNeverBlocked` says instead, as an invariant, that closing is possible when it
should be. The scripts are different: they are programs that run to an end.
`Deployment` assumes weak fairness of the script's steps (a process that runs goes on),
of mining (a pending transaction that is next is mined or reverts) and of starting: the
operator starts the script again after it has stopped, which is how `src/README.md:76`
and `:139` tell to use it ("the deployment can be resumed after a failure (or after a
manual stop)"). Faults have no fairness and are bounded.

`EventuallyFinished` does not hold without its second disjunct, `Spoiled`, and this is a
result: the file cannot express these cases, so later runs cannot get over them.

* A transaction in the file has reverted or is gone. `executeTx` finds the hash, waits
  and throws, in every later run (`scripts/libs/transaction.ts:53-69`); the entry must
  be removed by hand. A creation that has reverted is worse: the first run throws, the
  next one finds the creation mined, takes the address from the receipt without a look
  at its status and goes on with a contract that has no code. `FinishedIsComplete`
  therefore excuses the release when there is a hollow contract.
* A transaction took effect but the run stopped before writing its hash. The next run
  sends it again; a service is then registered twice, which reverts, and a repeated
  `createNextRelease` skips the release just created, so that the authorization written
  for it (`prepareNextRelease`) no longer fits.

## Refinement

`ImplementsCoverPromise` maps a bundle's capital to balance minus fees, the backer of a
policy to its bundle while the policy is collateralized, its reserve to sum insured
minus payouts. Under this mapping every step of every handler is a deposit, a
withdrawal of unreserved capital, an underwriting with unreserved capital, a payment
out of the policy's own reserve, a release, or a stutter. This is what matters to a
policy holder: whoever interleaves with whom, the capital for the cover is there.

`ImplementsRequestPromise` maps the requests to the committed store: while functions
are under way it is the store at the start of the outermost one, so that all of a
transaction is one abstract step at the moment it ends. In that step every request
stays or goes on along its lifecycle (for a new request perhaps to the end), and the
requester has accepted a response exactly when the request has become fulfilled. The
service does not guard against re-entry; the order of the callback and the check of
the lifecycle alone makes this hold.

`ImplementsStakePromise` maps a stake to its owner, amount and whether it is locked, a
target to its reserves. Every step then concerns the stakes of one owner at most, takes
nothing out of a locked stake, and changes what the owner has in wallet and stakes
together by exactly what the reserves of one target lose: restaking, to whichever
target, neither makes nor loses tokens.

`ImplementsPlanPromise` maps a deployment to the steps that are settled (a contract with
an address, a transaction that is mined) and the transaction that settled each. Settled
steps are a prefix of the plan together with at most the step being worked on, and no
restart, stop, fault or block changes a settled step or settles two steps with one
transaction.

## Proofs

`PolicyFlowProofs` proves, for every value of the constants that satisfies
`BundlePoolAssumption` and `PolicyFlowAssumption` (amounts are natural numbers),

* `TypeCorrect == Spec => []TypeOK`. Amounts are in `Nat`, so this says that no handler
  ever subtracts more than there is: balances, fees, locked amounts, the total value
  locked, counters of open claims and payouts. `TypeOK` is inductive; there is one
  lemma per handler, and lemmas about the operations on books (`BookOperations`,
  `BundleBookUpdate`), rounding (`RoundHalfUpType`) and the calls shared by handlers.
* `LinksCorrect == Spec => []LinkedPoliciesAreInForce`. Inductive relative to `TypeOK`:
  `LinksKept` says when a step that leaves the links alone preserves it, so that only
  creating and closing a policy, and closing a bundle, need an argument of their own.

`CoverProofs` goes on with what the amounts of `PolicyFlow` add up to. Sums are not out
of reach: `AccountingProofs` proves for `SumUpTo` the two equations of its recursive
function (`SumEquations`) and what follows from them (`SumOfUpdated`: a sum changes by
what its one changed summand does; `SummandBelowSum`, `SumOfSums`, `SumIsMonotone`, ...).
The induction is `SetInduction`, about a set of natural numbers instead of a predicate, so
that no operator has to be passed to a theorem.

* `PoliciesStaySound`: the inductive invariant `PoliciesAreSound` says of a policy, its
  claims and their payouts that the paid amounts are sums of paid payouts, that confirmed
  claims sum to the counters and within the sum insured, and that the counters of open
  claims and payouts count the open ones. `ClaimsStayWithinCover`,
  `OpenCountsStayCorrect` and `PaidClaimsGetClosed` follow. A handler touches one claim of
  one policy at most (`OneClaimStep`), so every handler is reduced to what it does to that
  claim.
* `BooksStayMatched` and `TvlStaysLockedCollateral`: what a handler does to the books is
  stated once per call (`Booked`: by how much balance, fees and locked amount of a bundle
  change, `PoolBooked`, `ProductBooked`); the wallets and the sums over bundles follow by
  `SumOfUpdated`.
* `CollateralStaysSufficient`, `BundlesStaySolvent`, `ClosingStaysPossible`: the locked
  amount of a bundle is the open cover of its linked policies (`LockedIsCover`). They
  assume `ActivatesOnlyCollateralized`, and pools that insure in full with their own
  capital: `FullyCollateralized` is a premise inside the properties, and a hypothesis of
  solvency and of the refinement. Both are needed: without the first a policy that never
  locked collateral takes payouts (run `activated_application`), and with another level a
  pool releases other amounts than it has locked (run `over_collateralized`).
* `OpenBundlesStaySolvent` drops both: whatever the levels and whatever products do, a
  bundle that is not closed is solvent. What full collateralization adds to it is that
  nothing stays locked in a bundle that is closed, and that what is locked is the cover.
* `EndedCoverStaysEnded` and `FinalPoliciesStayFinal` are the action properties, proved
  from the invariant with one case per handler.
* `ServicesKeepPromise == Spec => ImplementsCoverPromise`: with each handler goes the
  abstract step it is (deposit, withdrawal, underwriting, payment, release or none). That
  an abstract withdrawal leaves the reserves covered is where `LockedIsCover` is used
  (`ReservedIsCover`).

`DistributionProofs` proves, under `DistributionAssumption`,

* `PremiumIsSplit`: the parts sent to product, distribution and pool add up to the
  premium, for all fees, discounts and commissions and whatever is rounded. The sanity
  checks of `calculatePremium` can only fail when a subtraction has failed before.
* `DistributionTypeCorrect == Spec => []TypeOK`, where `TypeOK` includes that no
  distributor or referral refers to something that does not exist: the commission in a
  premium is a number only because of that.
* `WalletSolvent == Spec => []WalletCoversBooks`, for all fees. Not inductive by itself: a
  premium is computed in one transaction and booked in a later one, so the invariant also
  says of every premium still expected that it brings at least what it will book, but for
  its excess (`ExpectedPremiumsFit`). `WalletHoldsAllWithFairMinimums` says that nothing is
  missing when no owner asks for more than the fee (`OwnersAskNoMoreThanTheFee`); this is a
  hypothesis of the theorem because no setter enforces it.
* `CommissionsStayCovered == Spec => []CommissionsAreCovered`, for any number of
  distributors, by sums.
* `UsesStayWithinLimit`: the sales with a discount under a code are at most its counted
  uses, and these at most its limit. `DiscountsStayCounted` proves the equality that
  `DiscountsAreCounted` states, and needs `EveryDiscountShows`: a use is counted whether or
  not the discount is more than nothing, but in a premium a discount that was rounded to
  nothing cannot be seen. The constants of the run satisfy it.

`OracleProofs` proves the properties of `Oracle` for any number of requests and any depth
of nested calls. A function that reverts brings an older store back, so the invariant
`StoresAreSound` speaks of the current store and of every store that the stack remembers:
each is sound, and each is an outcome of those below it.

* `OracleTypeCorrect`, `ResponsesAreDeliveredOnce`, `CancellationsStayAgreed` and
  `FailedResponsesStayKept` follow from `StoresStaySound`;
* `OracleKeepsPromise == Spec => ImplementsRequestPromise`: the outcomes of a request are
  closed under going on, so a transaction with all it nests is one abstract step.

`StakingProofs` proves the properties of `Staking`. A function of `Staking` is a
composition of steps of the store on a position (a stake with its target). Every lemma
about such a step says how the position after it follows the one before (`Follows`), and
the actions are put together from these.

* `StakingStaysSound`, with `StakingTypeCorrect`, `TargetsStaySummed` and
  `StakingWalletStaysExact`: stakes and targets form a `Ledger`, and the wallet holds what
  is owed to all of them (`Owed`), which only a transfer of tokens changes.
* `RewardsStayEarned`: `RewardsAreEarned` is not inductive, as it says nothing of rewards
  that are due but not yet computed. `EveryGainIsEarned` (`GainsStayEarned`) adds what
  each stake would be given now at the highest rate. This needs rates that are bounded
  (`StakingAssumption`; the setter checks `maxRewardRate`).
* `LimitsStayRespected` and `LimitsStayUpToDate` are action properties.
* `StakingKeepsPromise == Spec => ImplementsStakePromise`: what an owner holds in stakes
  (`HeldBy`) and wallet together changes by what one target's reserves lose
  (`PaysFromReserves`).

`ReleaseProofs` proves the safety properties of `ReleaseRegistry` under
`ReleaseAssumption` (authorizations name each domain once, releases fit into a `uint8`).
The inductive invariant `ReleaseInv` is the conjunction of the type invariant and two of
them with what they need: only release `next` is being prepared (`OnlyNextIsPrepared`),
releases above it are untouched (`FutureIsUntouched`), the
services of the release in preparation are the first `registeredServices` domains of its
authorization (`PreparedSoFar`), and an authorization is there from preparation on
(`PreparedHasAuthorization`). `DeployedIsComplete` is not inductive without
`PreparedSoFar`: the counters belong to the contract, and only their reset in
`createNextRelease` makes them speak of the new release.

* `ReleaseTypeCorrect`, `ReleasesAreComplete`, `LocksFollowStates`, `OnePreparedRelease`
  follow from `ReleaseInv`;
* `RolesFollowActivation` is an invariant relative to it (`RolesStep`), as services of an
  activated release never change;
* `ReleaseDecisionsAreFinal` is an action property; that `latest` only grows needs that
  it is never above `next` (`LatestWasCreated`).

`DeploymentProofs` proves, for every plan with different keys, every number of faults
and whatever contracts accept (`DeploymentAssumption`),

* `DeploymentTypeCorrect`, `StepsAreRecordedInOrder`: the invariant `DeploymentInv` adds
  that a run has settled every step before the one it is at (`WalkedStepsAreSettled`)
  and that a transaction is sent for a step without entry (`SentIsNew`). Its argument is
  that settled steps stay settled (`SettledStays`), since a mined transaction stays
  mined (`ChainIsKept`);
* `DeploymentKeepsPromise == Spec => ImplementsPlanPromise`: every step of script,
  operator and chain completes one step of the plan or none;
* `RepetitionsNeedStops == Spec => []RepeatedOnlyIfLost`: the transactions without an
  entry are at most as many as faults have happened, by counting: only a stop between
  sending and writing adds one (`OneStopOneLoss`).
* `DeploymentsUseRegistry == Spec => ReleaseSpec`: whatever the scripts do, in however
  many runs, is a history of the release registry, so the theorems of `ReleaseProofs` hold
  in deployments;
* `FinishedDeploymentsAreComplete`: for plans that activate the release their
  authorization is written for (`DeploysInitialRelease`; so do all plans of the run), a
  script that reports success has left the release active, unlocked and complete, unless a
  hollow contract was recorded. The step that matters is that a mined activation has
  activated the initial release for good (`MinedActivationActivates`), although repeated
  transactions may have created later releases: no authorization fits those.

So every safety property and every refinement of the passing runs is stated by a theorem.
Only model-checked: liveness (`EventuallyFinished`) and the four properties that the code
violates. Liveness under fairness and ENABLED are out of the prover's reach. The theorems
with hypotheses (`ActivatesOnlyCollateralized`, `FullyCollateralized`, `EveryDiscountShows`,
`DeploysInitialRelease`) say no more than the runs do about instances that do not meet them.
What `DeploymentPlan` lists is data; that the order of `deploy_all.ts` fits the registry's
demands is only checked by walking it.

## Plan

1. Done: `ObjectLifecycle`, `Accounting`, `BundlePool`, `PolicyFlow`, `CoverPromise`,
   `Pricing`, `Distribution`, `Oracle`, `RequestPromise`, `StakingTargets`, `Staking`,
   `StakePromise`, `ReleaseRegistry`, `Deployment`, `DeploymentPlan`, `PlanPromise`.
2. Done: theorems for the safety properties and refinements of all runs.
3. Theorems that say more than the runs, as `OpenBundlesStaySolvent` does: that the
   sales of a code are never more than its uses when commissions are credited late; the
   reachability of the end of a deployment as an invariant on what a resumed run accepts.
4. `Key32Set` (swap and pop) against a mathematical set.

## Observations without a run

* `PaidClaimsAreClosed` has an exception. Create two payouts of the whole amount of a
  claim, which `arch.adoc:759` forbids and `_createPayout` allows
  (`product/ClaimService.sol:469`), process one and cancel the other: the claim is paid in
  full, stays confirmed, and cannot be helped. `processPayout` and `cancelPayout` need an
  expected payout, another payout exceeds the claim amount, and one of nothing reverts in
  the token handler. Only `cancelConfirmedClaim` is left (`product/ClaimService.sol:210`,
  which does not ask what was paid, though `IClaimService.sol:86` says "before it has been
  fully paid out"), and it leaves the claim counted as open, so its policy can never be
  closed and its bundle neither.
* `closeBundle` and `withdrawBundleFees` pay from the pool's wallet also when the pool is
  externally managed (`pool/PoolService.sol:105`), where staking moves no tokens: a bundle
  without policies may have to wait until the pool owner has funded the wallet, which
  `arch.adoc:1023` makes the owner's responsibility. `BooksMatchWallets` says nothing of
  the wallet of such a pool.
* With an excess of the owner's minimum in the books, the withdrawal that comes last,
  by owner or distributor, reverts for want of tokens.

* A code's last use: `createPolicy` prices the commission in and counts the use,
  `collectPremium` credits the distributor only if the code is still valid
  (`distribution/DistributionService.sol:283`). The commission of the policy that takes
  the last use, or is paid after the code's expiry, stays in the distribution's wallet
  and is booked to nobody.
* The limit on discounts is in percent of the net premium
  (`distribution/DistributionService.sol:93`), the discount in percent of the full
  premium (`product/PricingService.sol:268`): the owner can get less than the minimum
  fee that `instance/module/IPolicy.sol:44` promises.
* A bundle still takes policies in the second in which it expires
  (`pool/BundleService.sol:159`; `IBundle.sol:13` says otherwise), and a locked bundle
  cannot be closed (`pool/BundleService.sol:239`; `IBundleService.sol:77` says it may).
* Confirming the claim that uses up the sum insured expires the policy in the same
  transaction and reverts when the policy is over (`product/ClaimService.sol:142`).
* The scripts call `createInstance` without its first argument
  (`scripts/deploy_fire_components.ts:86`, `scripts/deploy_flightdelay_components.ts:90`);
  the plan has the step as meant.

## Not modelled

Authorization (roles are taken for granted), creation and upgrade of contracts, the
table of objects, token registry and chain NFTs, the example products, multi-chain
registries. Of the scripts: runs without `RESUMEABLE_DEPLOYMENT`, which write the state
file and ignore it; verification on block explorers; the variants for Tenderly;
statistics on gas and balances. `antlr/generated/` is a parser that ANTLR has generated
(some 13,000 of the 18,000 lines of TypeScript in the repository), used by scripts that
print lists of functions: there is no state to model.
