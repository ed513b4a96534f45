----------------------------- MODULE PolicyFlow -----------------------------
(***************************************************************************)
(* A product with one pool and no distribution component: applications,    *)
(* policies, claims and payouts (ApplicationService, PolicyService,        *)
(* PolicyServiceLib, ClaimService, RiskService, RiskSet, ProductStore) on  *)
(* top of the bundles of module BundlePool.  One action per external       *)
(* service function, each with every store update the transaction makes.   *)
(*                                                                         *)
(* The product contract is written by the user of the framework: the       *)
(* services trust it to call them in a sensible order.  The constant       *)
(* ActivatesOnlyCollateralized says whether it follows the one rule that   *)
(* IPolicyService documents for activate and the code does not enforce.    *)
(***************************************************************************)
EXTENDS BundlePool, Sums

CONSTANTS
  MaxPolicies,             \* policy NFTs that are ever minted
  MaxClaims,               \* claims per policy
  MaxPayouts,              \* payouts per claim
  MaxRisks,                \* risks of the product
  SumInsuredAmounts,       \* sum insured of an application
  PolicyLifetimes,         \* lifetime of an application
  ActivationTimes,         \* non-zero activateAt arguments
  ClaimAmounts,            \* claimed and confirmed amounts
  PayoutAmounts,           \* payout amounts
  Premiums,                \* results of PricingService.calculatePremium
  ActivatesOnlyCollateralized

PremiumInfos == [net : Nat, productFee : Nat, poolFee : Nat, bundleFee : Nat]

ASSUME PolicyFlowAssumption ==
  /\ MaxPolicies \in Nat
  /\ MaxClaims \in Nat
  /\ MaxPayouts \in Nat
  /\ MaxRisks \in Nat
  /\ SumInsuredAmounts \subseteq Nat
  /\ PolicyLifetimes \subseteq Nat
  /\ ActivationTimes \subseteq Nat \ {0}
  /\ ClaimAmounts \subseteq Nat
  /\ PayoutAmounts \subseteq Nat
  /\ Premiums \subseteq PremiumInfos
  /\ ActivatesOnlyCollateralized \in BOOLEAN

VARIABLES
  risk,          \* risk states
  activeRisks,   \* RiskSet's active set of the product
  riskPolicies,  \* RiskSet._activePolicies: policies linked to a risk
  policy,        \* PolicyInfo, policy state, PremiumInfo and premium state
  claim,         \* ClaimInfo and claim state, by policy and claim number
  payout         \* PayoutInfo and payout state, by policy, claim and number

productVars == <<risk, activeRisks, riskPolicies, policy, claim, payout>>
vars == <<now, poolVars, productVars>>

Policies  == 1..MaxPolicies
ClaimIds  == 1..MaxClaims
PayoutIds == 1..MaxPayouts
Risks     == 1..MaxRisks

NoPremium == [net |-> 0, productFee |-> 0, poolFee |-> 0, bundleFee |-> 0]

NoPolicy ==
  [state |-> NONE, bundle |-> 0, risk |-> 0, sumInsured |-> 0, lifetime |-> 0,
   activatedAt |-> 0, expiredAt |-> 0, premium |-> NoPremium, premiumState |-> NONE,
   claimsCount |-> 0, openClaimsCount |-> 0, claimAmount |-> 0, payoutAmount |-> 0]

NoClaim ==
  [state |-> NONE, claimAmount |-> 0, paidAmount |-> 0, payoutsCount |-> 0,
   openPayoutsCount |-> 0]

NoPayout == [state |-> NONE, amount |-> 0]

Init ==
  /\ PoolInit
  /\ risk = [r \in Risks |-> NONE]
  /\ activeRisks = {}
  /\ riskPolicies = [r \in Risks |-> {}]
  /\ policy = [p \in Policies |-> NoPolicy]
  /\ claim = [p \in Policies |-> [c \in ClaimIds |-> NoClaim]]
  /\ payout = [p \in Policies |-> [c \in ClaimIds |-> [k \in PayoutIds |-> NoPayout]]]

----------------------------------------------------------------------------
(* RiskService                                                             *)

CreateRisk(r) ==
  /\ risk[r] = NONE
  /\ \A q \in 1..(r - 1) : risk[q] # NONE
  /\ risk' = [risk EXCEPT ![r] = "ACTIVE"]
  /\ activeRisks' = activeRisks \union {r}
  /\ UNCHANGED <<now, poolVars, riskPolicies, policy, claim, payout>>

LockRisk(r) ==
  /\ risk[r] = "ACTIVE"
  /\ r \in activeRisks
  /\ activeRisks' = activeRisks \ {r}
  /\ UNCHANGED <<now, poolVars, risk, riskPolicies, policy, claim, payout>>

UnlockRisk(r) ==
  /\ risk[r] = "ACTIVE"
  /\ r \notin activeRisks
  /\ activeRisks' = activeRisks \union {r}
  /\ UNCHANGED <<now, poolVars, risk, riskPolicies, policy, claim, payout>>

CloseRisk(r) ==
  /\ <<risk[r], "CLOSED">> \in RiskTransitions
  /\ r \notin activeRisks
  /\ risk' = [risk EXCEPT ![r] = "CLOSED"]
  /\ UNCHANGED <<now, poolVars, activeRisks, riskPolicies, policy, claim, payout>>

----------------------------------------------------------------------------
(* ApplicationService                                                      *)

\* Only the sets of active risks and bundles are consulted, not the states.
CreateApplication(p, r, b, sumInsured, lifetime) ==
  /\ policy[p].state = NONE
  /\ \A q \in 1..(p - 1) : policy[q].state # NONE
  /\ r \in activeRisks
  /\ b \in activeBundles
  /\ policy' = [policy EXCEPT ![p] = [NoPolicy EXCEPT
       !.state = "APPLIED", !.bundle = b, !.risk = r,
       !.sumInsured = sumInsured, !.lifetime = lifetime]]
  /\ UNCHANGED <<now, poolVars, risk, activeRisks, riskPolicies, claim, payout>>

RevokeApplication(p) ==
  /\ <<policy[p].state, "REVOKED">> \in PolicyTransitions
  /\ policy' = [policy EXCEPT ![p].state = "REVOKED"]
  /\ UNCHANGED <<now, poolVars, risk, activeRisks, riskPolicies, claim, payout>>

----------------------------------------------------------------------------
(* PolicyService                                                           *)

DeclineApplication(p) ==
  /\ policy[p].state = "APPLIED"
  /\ policy' = [policy EXCEPT ![p].state = "DECLINED"]
  /\ UNCHANGED <<now, poolVars, risk, activeRisks, riskPolicies, claim, payout>>

\* PolicyServiceLib.activate: an activation time is set once.
MayActivate(info, activateAt) == info.activatedAt \in {0, activateAt}

\* Mutant: a second activation starts the lifetime again.
ActivatedM(info, activateAt) ==
  [info EXCEPT !.activatedAt = activateAt, !.expiredAt = activateAt + info.lifetime]

Activated(info, activateAt) ==
  IF info.activatedAt = activateAt
  THEN info
  ELSE [info EXCEPT !.activatedAt = activateAt, !.expiredAt = activateAt + info.lifetime]

\* Locks the collateral, optionally activates, stores the premium and links
\* the policy to risk and bundle.  activateAt = 0: no activation.
CreatePolicy(p, activateAt, premium) ==
  LET info    == policy[p]
      covered == IF activateAt > 0 THEN Activated(info, activateAt) ELSE info
      b       == info.bundle
      r       == info.risk
  IN  /\ info.state = "APPLIED"
      /\ LockCollateral(b, info.sumInsured)
      /\ activateAt > 0 => MayActivate(info, activateAt)
      /\ r \in activeRisks
      /\ b \in activeBundles
      /\ policy' = [policy EXCEPT ![p] = [covered EXCEPT
           !.state = "COLLATERALIZED", !.premium = premium, !.premiumState = "EXPECTED"]]
      /\ riskPolicies' = [riskPolicies EXCEPT ![r] = @ \union {p}]
      /\ bundlePolicies' = [bundlePolicies EXCEPT ![b] = @ \union {p}]
      /\ UNCHANGED <<now, bundle, activeBundles, poolBook, productBook, maxBalance,
                     poolWallet, productWallet, risk, activeRisks, claim, payout>>

PoolPremium(premium) == premium.net + premium.poolFee + premium.bundleFee
PremiumAmount(premium) == premium.productFee + PoolPremium(premium)

\* The premium goes to the product wallet, the pool's share on to the pool
\* wallet.  A premium of zero reverts in the token handler.
CollectPremium(p, activateAt) ==
  LET info    == policy[p]
      premium == info.premium
  IN  /\ info.state = "COLLATERALIZED"
      /\ <<info.premiumState, "PAID">> \in PremiumTransitions
      /\ activateAt > 0 => MayActivate(info, activateAt)
      /\ PremiumAmount(premium) > 0
      /\ productBook' = Increase(productBook, 0, premium.productFee)
      /\ ProcessSale(info.bundle, premium)
      /\ policy' = [policy EXCEPT ![p] =
           [(IF activateAt > 0 THEN Activated(info, activateAt) ELSE info)
              EXCEPT !.premiumState = "PAID"]]
      /\ productWallet' = productWallet + premium.productFee
      /\ poolWallet' = poolWallet + PoolPremium(premium)
      /\ UNCHANGED <<now, bundle, activeBundles, bundlePolicies, maxBalance, tvl,
                     risk, activeRisks, riskPolicies, claim, payout>>

\* The policy state is not consulted: an application can be activated.
Activate(p, activateAt) ==
  /\ policy[p].state # NONE
  /\ ActivatesOnlyCollateralized => policy[p].state = "COLLATERALIZED"
  /\ MayActivate(policy[p], activateAt)
  /\ policy' = [policy EXCEPT ![p] = Activated(@, activateAt)]
  /\ UNCHANGED <<now, poolVars, risk, activeRisks, riskPolicies, claim, payout>>

AdjustActivation(p, newActivateAt) ==
  /\ policy[p].activatedAt > 0
  /\ newActivateAt >= now
  /\ newActivateAt <= policy[p].expiredAt
  /\ policy' = [policy EXCEPT ![p].activatedAt = newActivateAt]
  /\ UNCHANGED <<now, poolVars, risk, activeRisks, riskPolicies, claim, payout>>

\* PolicyServiceLib.checkExpiration and expire; expireAt = 0 means "now".
MayExpire(info, expireAt) ==
  /\ info.state = "COLLATERALIZED"
  /\ info.activatedAt > 0
  /\ now >= info.activatedAt
  /\ expireAt <= info.expiredAt
  /\ expireAt > 0 => expireAt >= now

Expired(info, expireAt) ==
  [info EXCEPT !.expiredAt = IF expireAt > 0 THEN expireAt ELSE now]

Expire(p, expireAt) ==
  /\ MayExpire(policy[p], expireAt)
  /\ policy' = [policy EXCEPT ![p] = Expired(@, expireAt)]
  /\ UNCHANGED <<now, poolVars, risk, activeRisks, riskPolicies, claim, payout>>

\* Mutant: a policy with open claims can be closed.
PolicyIsCloseableM(info) ==
  /\ info.state \notin {NONE, "CLOSED"}
  /\ info.activatedAt > 0
  /\ info.claimAmount = info.sumInsured \/ now >= info.expiredAt

PolicyIsCloseable(info) ==
  /\ info.state \notin {NONE, "CLOSED"}
  /\ info.activatedAt > 0
  /\ info.openClaimsCount = 0
  /\ \/ info.claimAmount = info.sumInsured
     \/ now >= info.expiredAt

\* Mutant: what the payouts have released already is released again.
RemainingCollateralM(info) == info.sumInsured

RemainingCollateral(info) == info.sumInsured - info.claimAmount

\* PolicyService.close and PoolService.releaseCollateral.
ClosePolicy(p) ==
  LET info == policy[p]
      b    == info.bundle
      r    == info.risk
  IN  /\ PolicyIsCloseable(info)
      /\ info.premiumState = "PAID"
      /\ ReleaseCollateral(b, RemainingCollateral(info))
      /\ <<info.state, "CLOSED">> \in PolicyTransitions
      /\ p \in riskPolicies[r]
      /\ p \in bundlePolicies[b]
      /\ policy' = [policy EXCEPT ![p].state = "CLOSED"]
      /\ riskPolicies' = [riskPolicies EXCEPT ![r] = @ \ {p}]
      /\ bundlePolicies' = [bundlePolicies EXCEPT ![b] = @ \ {p}]
      /\ UNCHANGED <<now, bundle, activeBundles, poolBook, productBook, maxBalance,
                     poolWallet, productWallet, risk, activeRisks, claim, payout>>

----------------------------------------------------------------------------
(* ClaimService                                                            *)

\* Mutant: the claims confirmed before are ignored.
ClaimAmountFitsM(info, amount) == amount > 0 /\ amount <= info.sumInsured

\* ClaimService._checkClaimAmount.
ClaimAmountFits(info, amount) ==
  /\ amount > 0
  /\ info.claimAmount + amount <= info.sumInsured

\* Claims are numbered consecutively.  The policy must have been given an
\* activation time and not be expired; neither its state nor whether the
\* activation time has been reached is consulted.
SubmitClaim(p, amount) ==
  LET info == policy[p]
      c    == info.claimsCount + 1
  IN  /\ info.state # NONE
      /\ info.activatedAt > 0
      /\ now < info.expiredAt
      /\ ClaimAmountFits(info, amount)
      /\ c \in ClaimIds  \* bound
      /\ claim' = [claim EXCEPT ![p][c] =
           [NoClaim EXCEPT !.state = "SUBMITTED", !.claimAmount = amount]]
      /\ policy' = [policy EXCEPT ![p].claimsCount = @ + 1, ![p].openClaimsCount = @ + 1]
      /\ UNCHANGED <<now, poolVars, risk, activeRisks, riskPolicies, payout>>

\* When the confirmed claims reach the sum insured the policy is expired
\* within the same transaction; a policy that cannot be expired reverts it.
ConfirmClaim(p, c, amount) ==
  LET info    == policy[p]
      updated == [info EXCEPT !.claimAmount = @ + amount]
      full    == updated.claimAmount >= updated.sumInsured
  IN  /\ ClaimAmountFits(info, amount)
      /\ claim[p][c].state = "SUBMITTED"
      /\ full => MayExpire(updated, now)
      /\ claim' = [claim EXCEPT ![p][c].state = "CONFIRMED", ![p][c].claimAmount = amount]
      /\ policy' = [policy EXCEPT ![p] = IF full THEN Expired(updated, now) ELSE updated]
      /\ UNCHANGED <<now, poolVars, risk, activeRisks, riskPolicies, payout>>

\* Mutant: the declined claim stays counted as open.
DeclineClaimM(p, c) ==
  /\ claim[p][c].state = "SUBMITTED"
  /\ claim' = [claim EXCEPT ![p][c].state = "DECLINED"]
  /\ UNCHANGED <<now, poolVars, risk, activeRisks, riskPolicies, policy, payout>>

DeclineClaim(p, c) ==
  /\ claim[p][c].state = "SUBMITTED"
  /\ policy[p].openClaimsCount > 0
  /\ claim' = [claim EXCEPT ![p][c].state = "DECLINED"]
  /\ policy' = [policy EXCEPT ![p].openClaimsCount = @ - 1]
  /\ UNCHANGED <<now, poolVars, risk, activeRisks, riskPolicies, payout>>

RevokeClaim(p, c) ==
  /\ claim[p][c].state = "SUBMITTED"
  /\ policy[p].openClaimsCount > 0
  /\ claim' = [claim EXCEPT ![p][c].state = "REVOKED"]
  /\ policy' = [policy EXCEPT ![p].openClaimsCount = @ - 1]
  /\ UNCHANGED <<now, poolVars, risk, activeRisks, riskPolicies, payout>>

\* The policy is left alone: neither its open claims count nor its claim
\* amount goes down.
CancelConfirmedClaim(p, c) ==
  /\ claim[p][c].state = "CONFIRMED"
  /\ claim[p][c].openPayoutsCount = 0
  /\ claim' = [claim EXCEPT ![p][c].state = "CANCELLED"]
  /\ UNCHANGED <<now, poolVars, risk, activeRisks, riskPolicies, policy, payout>>

\* createPayout and createPayoutForBeneficiary.  Only what has been paid
\* counts against the claim amount, not the other open payouts.
CreatePayout(p, c, amount) ==
  LET info == claim[p][c]
      k    == info.payoutsCount + 1
  IN  /\ info.state = "CONFIRMED"
      /\ info.paidAmount + amount <= info.claimAmount
      /\ k \in PayoutIds  \* bound
      /\ payout' = [payout EXCEPT ![p][c][k] = [state |-> "EXPECTED", amount |-> amount]]
      /\ claim' = [claim EXCEPT ![p][c].payoutsCount = @ + 1, ![p][c].openPayoutsCount = @ + 1]
      /\ UNCHANGED <<now, poolVars, risk, activeRisks, riskPolicies, policy>>

\* Mutant: looks at the counter of open payouts as it was before this payout.
IsSettledM(info) == info.openPayoutsCount + 1 = 0 /\ info.paidAmount = info.claimAmount

IsSettled(info) == info.openPayoutsCount = 0 /\ info.paidAmount = info.claimAmount

\* Pays the payout and closes the claim with the last payout of a claim
\* that is paid in full.
ProcessPayout(p, c, k) ==
  LET amount  == payout[p][c][k].amount
      info    == claim[p][c]
      updated == [info EXCEPT !.paidAmount = @ + amount, !.openPayoutsCount = @ - 1]
      settled == IsSettled(updated)
  IN  /\ <<payout[p][c][k].state, "PAID">> \in PayoutTransitions
      /\ info.paidAmount + amount <= info.claimAmount
      /\ info.openPayoutsCount > 0
      /\ settled => /\ <<info.state, "CLOSED">> \in ClaimTransitions
                    /\ policy[p].openClaimsCount > 0
      /\ payout' = [payout EXCEPT ![p][c][k].state = "PAID"]
      /\ claim' = [claim EXCEPT ![p][c] =
           IF settled THEN [updated EXCEPT !.state = "CLOSED"] ELSE updated]
      /\ policy' = [policy EXCEPT ![p].payoutAmount = @ + amount,
                                  ![p].openClaimsCount = IF settled THEN @ - 1 ELSE @]
      /\ ProcessPoolPayout(policy[p].bundle, amount)
      /\ UNCHANGED <<now, bundle, activeBundles, bundlePolicies, maxBalance,
                     risk, activeRisks, riskPolicies>>

\* Mutant: the cancelled payout stays counted as open.
CancelPayoutM(p, c, k) ==
  /\ <<payout[p][c][k].state, "CANCELLED">> \in PayoutTransitions
  /\ payout' = [payout EXCEPT ![p][c][k].state = "CANCELLED"]
  /\ UNCHANGED <<now, poolVars, risk, activeRisks, riskPolicies, policy, claim>>

CancelPayout(p, c, k) ==
  /\ <<payout[p][c][k].state, "CANCELLED">> \in PayoutTransitions
  /\ claim[p][c].openPayoutsCount > 0
  /\ payout' = [payout EXCEPT ![p][c][k].state = "CANCELLED"]
  /\ claim' = [claim EXCEPT ![p][c].openPayoutsCount = @ - 1]
  /\ UNCHANGED <<now, poolVars, risk, activeRisks, riskPolicies, policy>>

----------------------------------------------------------------------------
RiskNext ==
  \E r \in Risks : CreateRisk(r) \/ LockRisk(r) \/ UnlockRisk(r) \/ CloseRisk(r)

ApplicationNext ==
  \E p \in Policies :
    \/ \E r \in Risks, b \in Bundles, s \in SumInsuredAmounts, l \in PolicyLifetimes :
         CreateApplication(p, r, b, s, l)
    \/ RevokeApplication(p)
    \/ DeclineApplication(p)

PolicyNext ==
  \E p \in Policies :
    \/ \E t \in ActivationTimes \union {0}, premium \in Premiums : CreatePolicy(p, t, premium)
    \/ \E t \in ActivationTimes \union {0} : CollectPremium(p, t) \/ Activate(p, t)
    \/ \E t \in 1..MaxTime : AdjustActivation(p, t)
    \/ \E t \in 0..MaxTime : Expire(p, t)
    \/ ClosePolicy(p)

ClaimNext ==
  \E p \in Policies :
    \/ \E a \in ClaimAmounts : SubmitClaim(p, a)
    \/ \E c \in ClaimIds :
         \/ \E a \in ClaimAmounts : ConfirmClaim(p, c, a)
         \/ DeclineClaim(p, c)
         \/ RevokeClaim(p, c)
         \/ CancelConfirmedClaim(p, c)
         \/ \E a \in PayoutAmounts : CreatePayout(p, c, a)
         \/ \E k \in PayoutIds : ProcessPayout(p, c, k) \/ CancelPayout(p, c, k)

Next ==
  \/ PoolNext /\ UNCHANGED productVars
  \/ RiskNext
  \/ ApplicationNext
  \/ PolicyNext
  \/ ClaimNext

Spec == Init /\ [][Next]_vars

----------------------------------------------------------------------------
(* Properties                                                              *)

Times == Nat

PolicyType ==
  [state : PolicyStates, bundle : Bundles \union {0}, risk : Risks \union {0},
   sumInsured : Nat, lifetime : Nat, activatedAt : Times, expiredAt : Times,
   premium : PremiumInfos, premiumState : PremiumStates, claimsCount : Nat,
   openClaimsCount : Nat, claimAmount : Nat, payoutAmount : Nat]

ClaimType ==
  [state : ClaimStates, claimAmount : Nat, paidAmount : Nat, payoutsCount : Nat,
   openPayoutsCount : Nat]

PayoutType == [state : PayoutStates, amount : Nat]

PoolTypeOK ==
  /\ now \in Times
  /\ bundle \in [Bundles -> [state : BundleStates, expiredAt : Times]]
  /\ activeBundles \subseteq Bundles
  /\ bundlePolicies \in [Bundles -> SUBSET Policies]
  /\ bundleBook \in [Bundles -> BookType]
  /\ poolBook \in BookType
  /\ productBook \in BookType
  /\ maxBalance \in Nat
  /\ poolWallet \in Nat
  /\ productWallet \in Nat
  /\ tvl \in Nat

ProductTypeOK ==
  /\ risk \in [Risks -> RiskStates]
  /\ activeRisks \subseteq Risks
  /\ riskPolicies \in [Risks -> SUBSET Policies]
  /\ policy \in [Policies -> PolicyType]
  /\ claim \in [Policies -> [ClaimIds -> ClaimType]]
  /\ payout \in [Policies -> [ClaimIds -> [PayoutIds -> PayoutType]]]

\* The type invariant.  Amounts being natural numbers says that no handler
\* of the services ever subtracts more than is there.
TypeOK == PoolTypeOK /\ ProductTypeOK

\* The pool locks exactly what its policies are insured for.
FullyCollateralized == CollateralizationLevel = Unit /\ RetentionLevel = Unit

\* What a policy may still cost the bundle that covers it.
OpenCover(info) == info.sumInsured - info.payoutAmount

\* Whatever mix of sales, claims, payouts and closings happened, the capital
\* a bundle has locked is the open cover of the policies linked to it: no
\* payout eats into the cover of another policy, no closing frees too much
\* or too little (PoolService.lockCollateral, processPayout and
\* releaseCollateral, which release by different amounts).
CollateralBacksPolicies ==
  FullyCollateralized =>
    \A b \in Bundles :
      bundleBook[b].locked =
        SumUpTo([p \in Policies |->
                   IF p \in bundlePolicies[b] THEN OpenCover(policy[p]) ELSE 0], MaxPolicies)

\* The value locked that the staking service sees is the collateral locked
\* in all bundles of the instance.
TvlIsLockedCollateral ==
  FullyCollateralized =>
    tvl = SumUpTo([b \in Bundles |-> bundleBook[b].locked], MaxBundles)

\* A bundle can always cover what it has locked and owes as fees, whatever
\* its owner unstaked or withdrew.
BundlesSolvent == \A b \in Bundles : Available(bundleBook[b]) >= 0

\* The pool's balance is what its bundles hold plus the pool's fees, and
\* the wallets hold exactly what the books say (the accounting service is
\* called separately for pool, bundle and product).
BooksMatchWallets ==
  /\ poolBook.balance =
       SumUpTo([b \in Bundles |-> bundleBook[b].balance], MaxBundles) + poolBook.fees
  /\ ~IsExternallyManaged => poolWallet = poolBook.balance
  /\ productWallet = productBook.balance
  /\ productBook.fees = productBook.balance

WasConfirmed(info) == info.state \in {"CONFIRMED", "CLOSED", "CANCELLED"}

\* The amounts kept with a policy and its claims agree with the claims and
\* payouts they summarize, and cover is never exceeded: payouts stay within
\* the claim, confirmed claims within the sum insured.  A claim is closed only
\* when its full amount has been paid.
ClaimsWithinCover ==
  \A p \in Policies :
    /\ policy[p].claimAmount <= policy[p].sumInsured
    /\ policy[p].claimAmount =
         SumUpTo([c \in ClaimIds |->
                    IF WasConfirmed(claim[p][c]) THEN claim[p][c].claimAmount ELSE 0], MaxClaims)
    /\ policy[p].payoutAmount = SumUpTo([c \in ClaimIds |-> claim[p][c].paidAmount], MaxClaims)
    /\ policy[p].payoutAmount <= policy[p].claimAmount
    /\ \A c \in ClaimIds :
         /\ claim[p][c].paidAmount <= claim[p][c].claimAmount
         /\ claim[p][c].state = "CLOSED" => claim[p][c].paidAmount = claim[p][c].claimAmount
         /\ claim[p][c].paidAmount =
              SumUpTo([k \in PayoutIds |->
                         IF payout[p][c][k].state = "PAID" THEN payout[p][c][k].amount ELSE 0],
                      MaxPayouts)

\* The counters that gate closing a policy and cancelling a claim count what
\* they are named for.  A cancelled claim stays counted as open: that is the
\* code's behaviour, see ClaimAmountSumsConfirmedClaims.
OpenCountsMatch ==
  \A p \in Policies :
    /\ policy[p].openClaimsCount =
         Cardinality({c \in ClaimIds : claim[p][c].state \in {"SUBMITTED", "CONFIRMED", "CANCELLED"}})
    /\ \A c \in ClaimIds :
         claim[p][c].openPayoutsCount =
           Cardinality({k \in PayoutIds : payout[p][c][k].state = "EXPECTED"})

\* A claim that has been paid in full and has no payout to come is closed, with one
\* exception: one of its payouts was cancelled.  _createPayout does not count the
\* payouts that are still expected, so another one may have paid the whole claim, and
\* only processPayout closes claims.  Such a claim stays confirmed: nothing can be paid
\* on it any more, and cancelConfirmedClaim leaves it counted as open.
PaidClaimsAreClosed ==
  \A p \in Policies, c \in ClaimIds :
    LET info == claim[p][c]
    IN  info.state = "CONFIRMED" /\ info.paidAmount = info.claimAmount
          => \/ info.openPayoutsCount > 0
             \/ \E k \in PayoutIds : payout[p][c][k].state = "CANCELLED"

\* The sets of policies linked to bundles and risks are exactly the policies
\* in force, and a closed bundle has none: closing a bundle never strands a
\* policy (BundleSet, RiskSet and the policy state are three separate stores).
LinkedPoliciesAreInForce ==
  /\ \A p \in Policies, b \in Bundles :
       p \in bundlePolicies[b] <=> policy[p].state = "COLLATERALIZED" /\ policy[p].bundle = b
  /\ \A p \in Policies, r \in Risks :
       p \in riskPolicies[r] <=> policy[p].state = "COLLATERALIZED" /\ policy[p].risk = r
  /\ \A b \in Bundles : bundle[b].state = "CLOSED" => bundlePolicies[b] = {}

\* A policy in force that is over (activated, past its end, premium paid,
\* no claim that is still submitted, confirmed or cancelled) can be closed:
\* nothing in the books keeps its collateral locked for ever.
ClosingIsNeverBlocked ==
  FullyCollateralized =>
    \A p \in Policies :
      LET info == policy[p]
      IN  ( /\ info.state = "COLLATERALIZED"
            /\ info.premiumState = "PAID"
            /\ info.activatedAt > 0
            /\ now >= info.expiredAt
            /\ \A c \in ClaimIds : claim[p][c].state \in {NONE, "DECLINED", "REVOKED", "CLOSED"} )
          => ( /\ PolicyIsCloseable(info)
               /\ info.sumInsured - info.claimAmount \in 0..bundleBook[info.bundle].locked
               /\ info.sumInsured - info.claimAmount <= tvl )

HasEnded(info) == info.expiredAt > 0 /\ now >= info.expiredAt

\* Cover that has ended never starts again: no activation, adjustment or
\* expiration makes an ended policy accept claims again.
EndedCoverNeverReopens ==
  [][\A p \in Policies : HasEnded(policy[p]) => HasEnded(policy[p])']_vars

Final(info) == info.state \in {"CLOSED", "DECLINED", "REVOKED"}

\* A closed, declined or revoked policy is final: its amounts, claims and
\* payouts never change again.
FinalPoliciesPayNothing ==
  [][\A p \in Policies :
       Final(policy[p]) => /\ policy[p].state' = policy[p].state
                           /\ policy[p].payoutAmount' = policy[p].payoutAmount
                           /\ UNCHANGED <<claim[p], payout[p]>>]_vars

\* The services implement the promise of module CoverPromise: the capital of
\* a bundle is its balance without fees, a policy is in force from createPolicy
\* to close, its reserve is its open cover.  Policies share a bundle, and no
\* interleaving of their sales, payouts and closings with the bundle owner's
\* withdrawals leaves one of them without its capital.
Promise == INSTANCE CoverPromise WITH
  capital <- [b \in Bundles |-> bundleBook[b].balance - bundleBook[b].fees],
  backer  <- [p \in Policies |-> IF policy[p].state = "COLLATERALIZED" THEN policy[p].bundle ELSE 0],
  reserve <- [p \in Policies |-> IF policy[p].state = "COLLATERALIZED" THEN OpenCover(policy[p]) ELSE 0]

ImplementsCoverPromise == Promise!Spec

----------------------------------------------------------------------------
(* What comments and documentation say and the code does not do: each is   *)
(* the property of a run that finds a counterexample.                      *)

\* IPolicyService: "to activate a policy it needs to be in underwritten
\* state".  If that held, only a policy that had locked collateral of its own
\* would ever be paid.  PolicyService.activate does not look at the state, so
\* an application can be activated, claimed and paid from the collateral of
\* other policies.
PaidPoliciesAreCollateralized ==
  \A p \in Policies :
    policy[p].payoutAmount > 0 => policy[p].state \in {"COLLATERALIZED", "CLOSED"}

\* IPolicy.PolicyInfo: claimAmount is the "sum of confirmed claim amounts".
\* ClaimService.cancelConfirmedClaim takes a claim back without taking its
\* amount out of the sum (nor the claim out of the open claims).
ClaimAmountSumsConfirmedClaims ==
  \A p \in Policies :
    policy[p].claimAmount =
      SumUpTo([c \in ClaimIds |-> IF claim[p][c].state \in {"CONFIRMED", "CLOSED"}
                                 THEN claim[p][c].claimAmount ELSE 0], MaxClaims)

\* IPolicy.PolicyInfo: from closedAt on a policy has "no locked capital".
\* releaseCollateral frees the sum insured, not the collateral: with a
\* collateralization level above 1 the difference stays locked for ever.
NoPoliciesNothingLocked ==
  \A b \in Bundles : bundlePolicies[b] = {} => bundleBook[b].locked = 0
=============================================================================
