----------------------------- MODULE CoverProofs -----------------------------
(***************************************************************************)
(* Theorems about the books of PolicyFlow: the amounts and counters of     *)
(* claims and payouts, the books of pool, bundles and product, and the     *)
(* collateral that backs the policies, again for every number of bundles,  *)
(* policies, claims and payouts and every choice of amounts and fees.      *)
(***************************************************************************)
EXTENDS PolicyFlowProofs, FiniteSetTheorems

----------------------------------------------------------------------------
(* The inductive invariant, part by part.                                  *)

ConfirmedAmount(cl) == IF WasConfirmed(cl) THEN cl.claimAmount ELSE 0
ConfirmedTotal(cls) == SumUpTo([c \in ClaimIds |-> ConfirmedAmount(cls[c])], MaxClaims)
PaidTotal(cls)      == SumUpTo([c \in ClaimIds |-> cls[c].paidAmount], MaxClaims)

OpenClaimStates == {"SUBMITTED", "CONFIRMED", "CANCELLED"}
OpenClaims(cls) == {c \in ClaimIds : cls[c].state \in OpenClaimStates}

PayoutsPaid(ps) ==
  SumUpTo([k \in PayoutIds |-> IF ps[k].state = "PAID" THEN ps[k].amount ELSE 0], MaxPayouts)
OpenPayouts(ps) == {k \in PayoutIds : ps[k].state = "EXPECTED"}

\* One claim and its payouts.  A claim that was never confirmed has no
\* payouts, only a confirmed claim has open ones, one that stays confirmed though
\* it is paid had a payout cancelled, and numbers that were not handed out are unused.
ClaimIsSound(cl, ps) ==
  /\ cl.paidAmount <= cl.claimAmount
  /\ cl.state = "CLOSED" => cl.paidAmount = cl.claimAmount
  /\ cl.paidAmount = PayoutsPaid(ps)
  /\ cl.openPayoutsCount = Cardinality(OpenPayouts(ps))
  /\ cl.openPayoutsCount > 0 => cl.state = "CONFIRMED"
  /\ ~WasConfirmed(cl) => cl.payoutsCount = 0 /\ cl.paidAmount = 0
  /\ cl.state = "CONFIRMED" /\ cl.paidAmount = cl.claimAmount
       => \/ cl.openPayoutsCount > 0
          \/ \E k \in PayoutIds : ps[k].state = "CANCELLED"
  /\ \A k \in PayoutIds : k > cl.payoutsCount => ps[k] = NoPayout

\* One policy, its claims and their payouts.
ClaimsAreSound(info, cls, pays) ==
  /\ info.claimAmount = ConfirmedTotal(cls)
  /\ info.payoutAmount = PaidTotal(cls)
  /\ info.openClaimsCount = Cardinality(OpenClaims(cls))
  /\ info.claimAmount <= info.sumInsured
  /\ \A c \in ClaimIds : /\ ClaimIsSound(cls[c], pays[c])
                         /\ c > info.claimsCount => cls[c] = NoClaim

\* A policy that was never applied for is empty, one that was never activated
\* has no end and no claims, and a closed one is settled and accepts none.
PolicyIsSound(info, t) ==
  /\ info.state = NONE => info = NoPolicy
  /\ info.state # NONE => info.bundle \in Bundles
  /\ info.activatedAt = 0 => info.expiredAt = 0 /\ info.claimsCount = 0
  /\ info.state = "CLOSED" => /\ info.activatedAt > 0
                              /\ info.openClaimsCount = 0
                              /\ info.claimAmount = info.sumInsured \/ t >= info.expiredAt
  /\ ActivatesOnlyCollateralized =>
       (info.activatedAt > 0 => info.state \in {"COLLATERALIZED", "CLOSED"})

PoliciesAreSound ==
  /\ now > 0
  /\ \A p \in Policies : /\ PolicyIsSound(policy[p], now)
                         /\ ClaimsAreSound(policy[p], claim[p], payout[p])

----------------------------------------------------------------------------
(* How totals and counters follow a change of one claim or one payout.     *)

LEMMA OpenClaimsAreFinite ==
  ASSUME NEW cls
  PROVE  IsFiniteSet(OpenClaims(cls)) /\ Cardinality(OpenClaims(cls)) \in Nat
<1>1. IsFiniteSet(ClaimIds)
  BY FS_Interval, PolicyFlowAssumption DEF ClaimIds
<1>2. OpenClaims(cls) \in SUBSET ClaimIds
  BY DEF OpenClaims
<1> QED
  BY <1>1, <1>2, FS_Subset, FS_CardinalityType

LEMMA OpenPayoutsAreFinite ==
  ASSUME NEW ps
  PROVE  IsFiniteSet(OpenPayouts(ps)) /\ Cardinality(OpenPayouts(ps)) \in Nat
<1>1. IsFiniteSet(PayoutIds)
  BY FS_Interval, PolicyFlowAssumption DEF PayoutIds
<1>2. OpenPayouts(ps) \in SUBSET PayoutIds
  BY DEF OpenPayouts
<1> QED
  BY <1>1, <1>2, FS_Subset, FS_CardinalityType

\* A member that leaves or joins a finite set changes its size by one.
LEMMA CountAfterChange ==
  ASSUME NEW S, NEW R, NEW x, IsFiniteSet(S), R \ {x} = S \ {x}
  PROVE  Cardinality(R) = Cardinality(S) + (IF x \in R THEN 1 ELSE 0) - (IF x \in S THEN 1 ELSE 0)
<1>1. /\ IsFiniteSet(S \ {x})
      /\ Cardinality(S \ {x}) = IF x \in S THEN Cardinality(S) - 1 ELSE Cardinality(S)
  BY FS_RemoveElement
<1>2. Cardinality(S \ {x}) \in Nat /\ Cardinality(S) \in Nat
  BY <1>1, FS_CardinalityType
<1>3. CASE x \in R
  <2>1. R = (S \ {x}) \cup {x}
    BY <1>3
  <2>2. Cardinality((S \ {x}) \cup {x}) = Cardinality(S \ {x}) + 1
    BY <1>1, FS_AddElement
  <2> QED
    BY <1>1, <1>2, <1>3, <2>1, <2>2
<1>4. CASE x \notin R
  <2>1. R = S \ {x}
    BY <1>4
  <2> QED
    BY <1>1, <1>2, <1>4, <2>1
<1> QED
  BY <1>3, <1>4

LEMMA OneClaimChanges ==
  ASSUME NEW cls \in [ClaimIds -> ClaimType], NEW new \in [ClaimIds -> ClaimType],
         NEW c \in ClaimIds, \A d \in ClaimIds : d # c => new[d] = cls[d]
  PROVE  /\ ConfirmedTotal(new)
              = ConfirmedTotal(cls) + (ConfirmedAmount(new[c]) - ConfirmedAmount(cls[c]))
         /\ PaidTotal(new) = PaidTotal(cls) + (new[c].paidAmount - cls[c].paidAmount)
         /\ Cardinality(OpenClaims(new))
              = Cardinality(OpenClaims(cls)) + (IF new[c].state \in OpenClaimStates THEN 1 ELSE 0)
                                             - (IF cls[c].state \in OpenClaimStates THEN 1 ELSE 0)
<1>1. MaxClaims \in Nat /\ ClaimIds = 1..MaxClaims
  BY PolicyFlowAssumption DEF ClaimIds
<1>2. \A d \in ClaimIds : /\ cls[d].paidAmount \in Int /\ new[d].paidAmount \in Int
                          /\ cls[d].claimAmount \in Int /\ new[d].claimAmount \in Int
  BY DEF ClaimType
<1>3. ConfirmedTotal(new) = ConfirmedTotal(cls) + (ConfirmedAmount(new[c]) - ConfirmedAmount(cls[c]))
  <2> DEFINE a == [d \in ClaimIds |-> ConfirmedAmount(cls[d])]
             b == [d \in ClaimIds |-> ConfirmedAmount(new[d])]
  <2>1. \A d \in 1..MaxClaims : a[d] \in Int /\ b[d] \in Int
    BY <1>1, <1>2 DEF ConfirmedAmount
  <2>2. \A d \in 1..MaxClaims : d # c => b[d] = a[d]
    BY <1>1
  <2>3. a[c] = ConfirmedAmount(cls[c]) /\ b[c] = ConfirmedAmount(new[c])
    OBVIOUS
  <2>4. ConfirmedTotal(cls) = SumUpTo(a, MaxClaims) /\ ConfirmedTotal(new) = SumUpTo(b, MaxClaims)
    BY DEF ConfirmedTotal
  <2> HIDE DEF a, b
  <2> QED
    BY <1>1, <2>1, <2>2, <2>3, <2>4, SumOfUpdated
<1>4. PaidTotal(new) = PaidTotal(cls) + (new[c].paidAmount - cls[c].paidAmount)
  <2> DEFINE a == [d \in ClaimIds |-> cls[d].paidAmount]
             b == [d \in ClaimIds |-> new[d].paidAmount]
  <2>1. \A d \in 1..MaxClaims : a[d] \in Int /\ b[d] \in Int
    BY <1>1, <1>2
  <2>2. \A d \in 1..MaxClaims : d # c => b[d] = a[d]
    BY <1>1
  <2>3. a[c] = cls[c].paidAmount /\ b[c] = new[c].paidAmount
    OBVIOUS
  <2>4. PaidTotal(cls) = SumUpTo(a, MaxClaims) /\ PaidTotal(new) = SumUpTo(b, MaxClaims)
    BY DEF PaidTotal
  <2> HIDE DEF a, b
  <2> QED
    BY <1>1, <2>1, <2>2, <2>3, <2>4, SumOfUpdated
<1>5. OpenClaims(new) \ {c} = OpenClaims(cls) \ {c}
  BY DEF OpenClaims
<1>6. /\ c \in OpenClaims(cls) <=> cls[c].state \in OpenClaimStates
      /\ c \in OpenClaims(new) <=> new[c].state \in OpenClaimStates
  BY DEF OpenClaims
<1>7. Cardinality(OpenClaims(new))
        = Cardinality(OpenClaims(cls)) + (IF c \in OpenClaims(new) THEN 1 ELSE 0)
                                       - (IF c \in OpenClaims(cls) THEN 1 ELSE 0)
  BY <1>5, OpenClaimsAreFinite, CountAfterChange
<1> QED
  BY <1>3, <1>4, <1>6, <1>7

PaidPart(pay) == IF pay.state = "PAID" THEN pay.amount ELSE 0

LEMMA OnePayoutChanges ==
  ASSUME NEW ps \in [PayoutIds -> PayoutType], NEW new \in [PayoutIds -> PayoutType],
         NEW k \in PayoutIds, \A l \in PayoutIds : l # k => new[l] = ps[l]
  PROVE  /\ PayoutsPaid(new) = PayoutsPaid(ps) + (PaidPart(new[k]) - PaidPart(ps[k]))
         /\ Cardinality(OpenPayouts(new))
              = Cardinality(OpenPayouts(ps)) + (IF new[k].state = "EXPECTED" THEN 1 ELSE 0)
                                             - (IF ps[k].state = "EXPECTED" THEN 1 ELSE 0)
<1>1. MaxPayouts \in Nat /\ PayoutIds = 1..MaxPayouts
  BY PolicyFlowAssumption DEF PayoutIds
<1>2. PayoutsPaid(new) = PayoutsPaid(ps) + (PaidPart(new[k]) - PaidPart(ps[k]))
  <2> DEFINE a == [l \in PayoutIds |-> IF ps[l].state = "PAID" THEN ps[l].amount ELSE 0]
             b == [l \in PayoutIds |-> IF new[l].state = "PAID" THEN new[l].amount ELSE 0]
  <2>1. \A l \in 1..MaxPayouts : a[l] \in Int /\ b[l] \in Int
    BY <1>1 DEF PayoutType
  <2>2. \A l \in 1..MaxPayouts : l # k => b[l] = a[l]
    BY <1>1
  <2>3. a[k] = PaidPart(ps[k]) /\ b[k] = PaidPart(new[k])
    BY DEF PaidPart
  <2>4. PayoutsPaid(ps) = SumUpTo(a, MaxPayouts) /\ PayoutsPaid(new) = SumUpTo(b, MaxPayouts)
    BY DEF PayoutsPaid
  <2> HIDE DEF a, b
  <2> QED
    BY <1>1, <2>1, <2>2, <2>3, <2>4, SumOfUpdated
<1>3. OpenPayouts(new) \ {k} = OpenPayouts(ps) \ {k}
  BY DEF OpenPayouts
<1>4. /\ k \in OpenPayouts(ps) <=> ps[k].state = "EXPECTED"
      /\ k \in OpenPayouts(new) <=> new[k].state = "EXPECTED"
  BY DEF OpenPayouts
<1>5. Cardinality(OpenPayouts(new))
        = Cardinality(OpenPayouts(ps)) + (IF k \in OpenPayouts(new) THEN 1 ELSE 0)
                                       - (IF k \in OpenPayouts(ps) THEN 1 ELSE 0)
  BY <1>3, OpenPayoutsAreFinite, CountAfterChange
<1> QED
  BY <1>2, <1>4, <1>5

LEMMA TotalsAreNumbers ==
  ASSUME NEW cls \in [ClaimIds -> ClaimType]
  PROVE  ConfirmedTotal(cls) \in Nat /\ PaidTotal(cls) \in Nat
<1>1. MaxClaims \in Nat /\ ClaimIds = 1..MaxClaims
  BY PolicyFlowAssumption DEF ClaimIds
<1>2. \A c \in ClaimIds : cls[c].paidAmount \in Nat /\ cls[c].claimAmount \in Nat
  BY DEF ClaimType
<1>3. \A c \in 1..MaxClaims : [d \in ClaimIds |-> ConfirmedAmount(cls[d])][c] \in Nat
  BY <1>1, <1>2 DEF ConfirmedAmount
<1>4. \A c \in 1..MaxClaims : [d \in ClaimIds |-> cls[d].paidAmount][c] \in Nat
  BY <1>1, <1>2
<1> QED
  BY <1>1, <1>3, <1>4, SumIsNatural DEF ConfirmedTotal, PaidTotal

----------------------------------------------------------------------------
(* One step of one claim.                                                  *)

\* A policy's amounts and open claims follow the change of one of its claims.
FollowsClaim(info, info2, cl, cl2) ==
  /\ info2.claimAmount <= info2.sumInsured
  /\ info2.claimAmount = info.claimAmount + (ConfirmedAmount(cl2) - ConfirmedAmount(cl))
  /\ info2.payoutAmount = info.payoutAmount + (cl2.paidAmount - cl.paidAmount)
  /\ info2.openClaimsCount
       = info.openClaimsCount + (IF cl2.state \in OpenClaimStates THEN 1 ELSE 0)
                              - (IF cl.state \in OpenClaimStates THEN 1 ELSE 0)

\* Only claim c and its payouts change, and they do so soundly.
OneClaimStep(info, info2, cls, cls2, pays, pays2, c) ==
  /\ \A d \in ClaimIds : d # c => cls2[d] = cls[d] /\ pays2[d] = pays[d]
  /\ ClaimIsSound(cls2[c], pays2[c])
  /\ c <= info2.claimsCount /\ info.claimsCount <= info2.claimsCount
  /\ FollowsClaim(info, info2, cls[c], cls2[c])

\* The change of one claim keeps the books of its policy, when the policy's
\* amounts and counter follow the claim's.
LEMMA ClaimUpdated ==
  ASSUME NEW info \in PolicyType, NEW info2 \in PolicyType,
         NEW cls \in [ClaimIds -> ClaimType], NEW cls2 \in [ClaimIds -> ClaimType],
         NEW pays, NEW pays2, NEW c \in ClaimIds,
         ClaimsAreSound(info, cls, pays),
         OneClaimStep(info, info2, cls, cls2, pays, pays2, c)
  PROVE  ClaimsAreSound(info2, cls2, pays2)
<1>1. /\ info2.claimAmount = ConfirmedTotal(cls2)
      /\ info2.payoutAmount = PaidTotal(cls2)
      /\ info2.openClaimsCount = Cardinality(OpenClaims(cls2))
  BY OneClaimChanges DEF ClaimsAreSound, OneClaimStep, FollowsClaim
<1>2. ASSUME NEW d \in ClaimIds
      PROVE  ClaimIsSound(cls2[d], pays2[d]) /\ (d > info2.claimsCount => cls2[d] = NoClaim)
  <2>1. CASE d = c
    BY <2>1 DEF OneClaimStep, PolicyType, ClaimIds
  <2>2. CASE d # c
    BY <2>2 DEF ClaimsAreSound, OneClaimStep, PolicyType, ClaimIds
  <2> QED
    BY <2>1, <2>2
<1> QED
  BY <1>1, <1>2 DEF ClaimsAreSound, OneClaimStep, FollowsClaim

\* Claims exist only of policies that were activated, and the claims of a
\* closed policy are settled: a policy whose claims may still change is
\* neither closed nor missing.
LEMMA OpenClaimsNeedPolicy ==
  ASSUME NEW info \in PolicyType, NEW cls, NEW pays, NEW c \in ClaimIds, NEW t,
         PolicyIsSound(info, t), ClaimsAreSound(info, cls, pays),
         cls[c].state \in OpenClaimStates
  PROVE  /\ info.state \notin {NONE, "CLOSED"}
         /\ info.activatedAt > 0
         /\ info.openClaimsCount > 0
         /\ c <= info.claimsCount
<1>1. c <= info.claimsCount /\ info.claimsCount > 0
  BY DEF ClaimsAreSound, NoClaim, NONE, OpenClaimStates, PolicyType, ClaimIds
<1>2. info.activatedAt > 0
  BY <1>1 DEF PolicyIsSound, PolicyType, Times
<1>3. info.openClaimsCount > 0
  <2>1. c \in OpenClaims(cls)
    BY DEF OpenClaims
  <2> QED
    BY <2>1, OpenClaimsAreFinite, FS_EmptySet DEF ClaimsAreSound
<1>4. info.state # NONE
  BY <1>1 DEF PolicyIsSound, NoPolicy
<1>5. info.state # "CLOSED"
  BY <1>3 DEF PolicyIsSound
<1> QED
  BY <1>1, <1>2, <1>3, <1>4, <1>5

\* The services that change a claim leave alone what PolicyIsSound looks at.
LEMMA PolicyStaysSound ==
  ASSUME NEW info, NEW info2, NEW t, PolicyIsSound(info, t),
         info.state \notin {NONE, "CLOSED"}, info.activatedAt > 0,
         info2.state = info.state, info2.bundle = info.bundle,
         info2.activatedAt = info.activatedAt
  PROVE  PolicyIsSound(info2, t)
  BY DEF PolicyIsSound

LEMMA PolicyParts ==
  ASSUME TypeOK, PoliciesAreSound, NEW p \in Policies
  PROVE  /\ policy[p] \in PolicyType
         /\ claim[p] \in [ClaimIds -> ClaimType]
         /\ payout[p] \in [ClaimIds -> [PayoutIds -> PayoutType]]
         /\ PolicyIsSound(policy[p], now)
         /\ ClaimsAreSound(policy[p], claim[p], payout[p])
  BY DEF TypeOK, ProductTypeOK, PoliciesAreSound


\* What a step on the claims of policy p has to keep.
PolicyKept(p) ==
  /\ PolicyIsSound(policy'[p], now)
  /\ ClaimsAreSound(policy'[p], claim'[p], payout'[p])

LEMMA SubmitClaimKeepsPolicy ==
  ASSUME TypeOK, TypeOK', PoliciesAreSound, NEW p \in Policies, NEW a \in Nat, SubmitClaim(p, a)
  PROVE  PolicyKept(p)
<1> DEFINE info == policy[p]
           info2 == policy'[p]
           c == info.claimsCount + 1
           cls == claim[p]
           cls2 == claim'[p]
           pays == payout[p]
<1>1. /\ info \in PolicyType /\ info2 \in PolicyType
      /\ cls \in [ClaimIds -> ClaimType] /\ cls2 \in [ClaimIds -> ClaimType]
      /\ PolicyIsSound(info, now) /\ ClaimsAreSound(info, cls, pays)
  BY PolicyParts DEF TypeOK, ProductTypeOK
<1>2. /\ info.state # NONE /\ info.activatedAt > 0 /\ now < info.expiredAt
      /\ ClaimAmountFits(info, a) /\ c \in ClaimIds
      /\ cls2 = [cls EXCEPT ![c] = [NoClaim EXCEPT !.state = "SUBMITTED", !.claimAmount = a]]
      /\ info2 = [info EXCEPT !.claimsCount = @ + 1, !.openClaimsCount = @ + 1]
      /\ payout' = payout
  BY DEF SubmitClaim, TypeOK, ProductTypeOK
<1> HIDE DEF info2, cls2
<1>3. cls[c] = NoClaim /\ ClaimIsSound(cls[c], pays[c])
  BY <1>1, <1>2 DEF ClaimsAreSound, PolicyType
<1>4. /\ cls2[c] = [NoClaim EXCEPT !.state = "SUBMITTED", !.claimAmount = a]
      /\ \A d \in ClaimIds : d # c => cls2[d] = cls[d]
  BY <1>1, <1>2
<1>5. ClaimIsSound(cls2[c], pays[c])
  BY <1>3, <1>4 DEF ClaimIsSound, NoClaim, WasConfirmed, NONE
<1>6. /\ ConfirmedAmount(cls2[c]) = 0 /\ ConfirmedAmount(cls[c]) = 0
      /\ cls2[c].paidAmount = 0 /\ cls[c].paidAmount = 0
      /\ cls2[c].state \in OpenClaimStates /\ cls[c].state \notin OpenClaimStates
  BY <1>3, <1>4 DEF ConfirmedAmount, NoClaim, WasConfirmed, OpenClaimStates, NONE
<1>7. /\ info2.claimsCount = c /\ info2.sumInsured = info.sumInsured
      /\ info2.claimAmount = info.claimAmount /\ info2.payoutAmount = info.payoutAmount
      /\ info2.openClaimsCount = info.openClaimsCount + 1
      /\ info2.state = info.state /\ info2.bundle = info.bundle
      /\ info2.activatedAt = info.activatedAt
  BY <1>1, <1>2 DEF PolicyType
<1>8. ClaimsAreSound(info2, cls2, pays)
  <2>1. info.claimAmount \in Int /\ info.payoutAmount \in Int /\ info.openClaimsCount \in Int
        /\ info.claimsCount <= c /\ c <= c /\ info.claimAmount <= info.sumInsured
    BY <1>1 DEF PolicyType, ClaimsAreSound
  <2>2. /\ FollowsClaim(info, info2, cls[c], cls2[c])
        /\ c <= info2.claimsCount /\ info.claimsCount <= info2.claimsCount
    BY <1>6, <1>7, <2>1 DEF FollowsClaim
  <2>3. OneClaimStep(info, info2, cls, cls2, pays, pays, c)
    BY <1>4, <1>5, <2>2 DEF OneClaimStep
  <2>4. c \in ClaimIds
    BY <1>2
  <2> HIDE DEF info, cls, c, pays
  <2> QED
    BY <1>1, <2>3, <2>4, ClaimUpdated
<1>9. info.state # "CLOSED"
  BY <1>1, <1>2 DEF PolicyIsSound, ClaimAmountFits, PolicyType, TypeOK, PoolTypeOK, Times
<1>10. PolicyIsSound(info2, now)
  BY <1>1, <1>2, <1>7, <1>9, PolicyStaysSound
<1> QED
  BY <1>2, <1>8, <1>10 DEF PolicyKept, info2, cls2


LEMMA OpenClaimStep ==
  ASSUME TypeOK, TypeOK', PoliciesAreSound, NEW p \in Policies, NEW c \in ClaimIds,
         claim[p][c].state \in OpenClaimStates,
         \A d \in ClaimIds : d # c => claim'[p][d] = claim[p][d] /\ payout'[p][d] = payout[p][d],
         ClaimIsSound(claim'[p][c], payout'[p][c]),
         FollowsClaim(policy[p], policy'[p], claim[p][c], claim'[p][c]),
         policy'[p].claimsCount = policy[p].claimsCount,
         policy'[p].state = policy[p].state, policy'[p].bundle = policy[p].bundle,
         policy'[p].activatedAt = policy[p].activatedAt
  PROVE  PolicyKept(p)
<1>1. /\ policy[p] \in PolicyType /\ policy'[p] \in PolicyType
      /\ claim[p] \in [ClaimIds -> ClaimType] /\ claim'[p] \in [ClaimIds -> ClaimType]
      /\ PolicyIsSound(policy[p], now) /\ ClaimsAreSound(policy[p], claim[p], payout[p])
  BY PolicyParts DEF TypeOK, ProductTypeOK
<1>2. /\ policy[p].state \notin {NONE, "CLOSED"}
      /\ policy[p].activatedAt > 0
      /\ c <= policy[p].claimsCount
  BY <1>1, OpenClaimsNeedPolicy
<1>3. PolicyIsSound(policy'[p], now)
  BY <1>1, <1>2, PolicyStaysSound
<1>4. c <= policy'[p].claimsCount /\ policy[p].claimsCount <= policy'[p].claimsCount
  BY <1>1, <1>2 DEF PolicyType
<1>5. ClaimsAreSound(policy'[p], claim'[p], payout'[p])
  <2> DEFINE info == policy[p]  info2 == policy'[p]
             cls == claim[p]    cls2 == claim'[p]
             pays == payout[p]  pays2 == payout'[p]
  <2>1. /\ info \in PolicyType /\ info2 \in PolicyType
        /\ cls \in [ClaimIds -> ClaimType] /\ cls2 \in [ClaimIds -> ClaimType]
        /\ ClaimsAreSound(info, cls, pays)
    BY <1>1
  <2>2. OneClaimStep(info, info2, cls, cls2, pays, pays2, c)
    BY <1>4 DEF OneClaimStep
  <2> HIDE DEF info, info2, cls, cls2, pays, pays2
  <2>4. ClaimsAreSound(info2, cls2, pays2)
    BY <2>1, <2>2, ClaimUpdated
  <2> QED
    BY <2>4 DEF info2, cls2, pays2
<1> QED
  BY <1>3, <1>5 DEF PolicyKept

\* The claim c of policy p and its payouts, in short.
LEMMA ClaimParts ==
  ASSUME TypeOK, PoliciesAreSound, NEW p \in Policies, NEW c \in ClaimIds
  PROVE  /\ claim[p][c] \in ClaimType
         /\ payout[p][c] \in [PayoutIds -> PayoutType]
         /\ ClaimIsSound(claim[p][c], payout[p][c])
         /\ policy[p].claimAmount \in Nat /\ policy[p].payoutAmount \in Nat
         /\ policy[p].openClaimsCount \in Nat
         /\ policy[p].claimAmount <= policy[p].sumInsured
  BY PolicyParts DEF ClaimsAreSound, PolicyType

LEMMA ConfirmClaimKeepsPolicy ==
  ASSUME TypeOK, TypeOK', PoliciesAreSound, NEW p \in Policies, NEW c \in ClaimIds,
         NEW a \in Nat, ConfirmClaim(p, c, a)
  PROVE  PolicyKept(p)
<1>1. /\ claim[p][c] \in ClaimType /\ ClaimIsSound(claim[p][c], payout[p][c])
      /\ policy[p].claimAmount \in Nat /\ policy[p].payoutAmount \in Nat
      /\ policy[p].openClaimsCount \in Nat /\ policy[p].sumInsured \in Nat
      /\ policy[p] \in PolicyType
  BY ClaimParts, PolicyParts DEF PolicyType
<1>2. /\ claim[p][c].state = "SUBMITTED" /\ a > 0
      /\ policy[p].claimAmount + a <= policy[p].sumInsured
      /\ claim'[p] = [claim[p] EXCEPT ![c] =
           [claim[p][c] EXCEPT !.state = "CONFIRMED", !.claimAmount = a]]
      /\ payout' = payout
  BY DEF ConfirmClaim, ClaimAmountFits, TypeOK, ProductTypeOK
<1>3. /\ claim'[p][c].state = "CONFIRMED" /\ claim'[p][c].claimAmount = a
      /\ claim'[p][c].paidAmount = claim[p][c].paidAmount
      /\ claim'[p][c].payoutsCount = claim[p][c].payoutsCount
      /\ claim'[p][c].openPayoutsCount = claim[p][c].openPayoutsCount
      /\ \A d \in ClaimIds : d # c => claim'[p][d] = claim[p][d]
  BY <1>1, <1>2 DEF ClaimType, TypeOK, ProductTypeOK
<1>4. \E t \in Nat : policy'[p] \in {[policy[p] EXCEPT !.claimAmount = @ + a],
                                     [policy[p] EXCEPT !.claimAmount = @ + a, !.expiredAt = t]}
  <2>1. policy'[p] = LET updated == [policy[p] EXCEPT !.claimAmount = @ + a]
                     IN  IF updated.claimAmount >= updated.sumInsured
                         THEN Expired(updated, now) ELSE updated
    BY DEF ConfirmClaim, TypeOK, ProductTypeOK
  <2>2. now \in Nat
    BY DEF TypeOK, PoolTypeOK, Times
  <2> QED
    BY <1>1, <2>1, <2>2 DEF Expired, PolicyType
<1>5. /\ policy'[p].claimAmount = policy[p].claimAmount + a
      /\ policy'[p].payoutAmount = policy[p].payoutAmount
      /\ policy'[p].openClaimsCount = policy[p].openClaimsCount
      /\ policy'[p].sumInsured = policy[p].sumInsured
      /\ policy'[p].claimsCount = policy[p].claimsCount
      /\ policy'[p].state = policy[p].state /\ policy'[p].bundle = policy[p].bundle
      /\ policy'[p].activatedAt = policy[p].activatedAt
  BY <1>1, <1>4 DEF PolicyType
<1>6. /\ claim[p][c].state \in OpenClaimStates /\ claim'[p][c].state \in OpenClaimStates
      /\ ConfirmedAmount(claim[p][c]) = 0 /\ ConfirmedAmount(claim'[p][c]) = a
      /\ ~WasConfirmed(claim[p][c]) /\ WasConfirmed(claim'[p][c])
  BY <1>2, <1>3 DEF OpenClaimStates, ConfirmedAmount, WasConfirmed
<1>7. ClaimIsSound(claim'[p][c], payout'[p][c])
  BY <1>1, <1>2, <1>3, <1>6 DEF ClaimIsSound, ClaimType
<1>8. claim'[p][c].paidAmount = 0 /\ claim[p][c].paidAmount = 0
  BY <1>1, <1>3, <1>6 DEF ClaimIsSound
<1>9. FollowsClaim(policy[p], policy'[p], claim[p][c], claim'[p][c])
  BY <1>1, <1>2, <1>5, <1>6, <1>8 DEF FollowsClaim
<1>10. \A d \in ClaimIds : d # c => claim'[p][d] = claim[p][d] /\ payout'[p][d] = payout[p][d]
  BY <1>2, <1>3
<1> QED
  BY <1>5, <1>6, <1>7, <1>9, <1>10, OpenClaimStep

LEMMA DropClaimKeepsPolicy ==
  ASSUME TypeOK, TypeOK', PoliciesAreSound, NEW p \in Policies, NEW c \in ClaimIds,
         DeclineClaim(p, c) \/ RevokeClaim(p, c)
  PROVE  PolicyKept(p)
<1>1. /\ claim[p][c] \in ClaimType /\ ClaimIsSound(claim[p][c], payout[p][c])
      /\ policy[p].claimAmount \in Nat /\ policy[p].payoutAmount \in Nat
      /\ policy[p].openClaimsCount \in Nat /\ policy[p].claimAmount <= policy[p].sumInsured
      /\ policy[p] \in PolicyType
  BY ClaimParts, PolicyParts
<1>2. PICK st \in {"DECLINED", "REVOKED"} :
        /\ claim[p][c].state = "SUBMITTED"
        /\ claim'[p] = [claim[p] EXCEPT ![c] = [claim[p][c] EXCEPT !.state = st]]
        /\ policy'[p] = [policy[p] EXCEPT !.openClaimsCount = @ - 1]
        /\ payout' = payout
  BY DEF DeclineClaim, RevokeClaim, TypeOK, ProductTypeOK
<1>3. /\ claim'[p][c].state = st
      /\ claim'[p][c].claimAmount = claim[p][c].claimAmount
      /\ claim'[p][c].paidAmount = claim[p][c].paidAmount
      /\ claim'[p][c].payoutsCount = claim[p][c].payoutsCount
      /\ claim'[p][c].openPayoutsCount = claim[p][c].openPayoutsCount
      /\ \A d \in ClaimIds : d # c => claim'[p][d] = claim[p][d]
  BY <1>1, <1>2 DEF ClaimType, TypeOK, ProductTypeOK
<1>4. /\ policy'[p].claimAmount = policy[p].claimAmount
      /\ policy'[p].payoutAmount = policy[p].payoutAmount
      /\ policy'[p].openClaimsCount = policy[p].openClaimsCount - 1
      /\ policy'[p].sumInsured = policy[p].sumInsured
      /\ policy'[p].claimsCount = policy[p].claimsCount
      /\ policy'[p].state = policy[p].state /\ policy'[p].bundle = policy[p].bundle
      /\ policy'[p].activatedAt = policy[p].activatedAt
  BY <1>1, <1>2 DEF PolicyType
<1>5. /\ claim[p][c].state \in OpenClaimStates /\ claim'[p][c].state \notin OpenClaimStates
      /\ ConfirmedAmount(claim[p][c]) = 0 /\ ConfirmedAmount(claim'[p][c]) = 0
      /\ ~WasConfirmed(claim[p][c]) /\ ~WasConfirmed(claim'[p][c])
  BY <1>2, <1>3 DEF OpenClaimStates, ConfirmedAmount, WasConfirmed
<1>6. ClaimIsSound(claim'[p][c], payout'[p][c])
  BY <1>1, <1>2, <1>3, <1>5 DEF ClaimIsSound
<1>7. claim[p][c].paidAmount \in Nat
  BY <1>1 DEF ClaimType
<1>8. FollowsClaim(policy[p], policy'[p], claim[p][c], claim'[p][c])
  BY <1>1, <1>3, <1>4, <1>5, <1>7 DEF FollowsClaim
<1>9. \A d \in ClaimIds : d # c => claim'[p][d] = claim[p][d] /\ payout'[p][d] = payout[p][d]
  BY <1>2, <1>3
<1> QED
  BY <1>4, <1>5, <1>6, <1>8, <1>9, OpenClaimStep


LEMMA CancelConfirmedClaimKeepsPolicy ==
  ASSUME TypeOK, TypeOK', PoliciesAreSound, NEW p \in Policies, NEW c \in ClaimIds,
         CancelConfirmedClaim(p, c)
  PROVE  PolicyKept(p)
<1>1. /\ claim[p][c] \in ClaimType /\ ClaimIsSound(claim[p][c], payout[p][c])
      /\ policy[p].claimAmount \in Nat /\ policy[p].payoutAmount \in Nat
      /\ policy[p].openClaimsCount \in Nat /\ policy[p].claimAmount <= policy[p].sumInsured
  BY ClaimParts
<1>2. /\ claim[p][c].state = "CONFIRMED" /\ claim[p][c].openPayoutsCount = 0
      /\ claim'[p] = [claim[p] EXCEPT ![c] = [claim[p][c] EXCEPT !.state = "CANCELLED"]]
      /\ policy' = policy /\ payout' = payout
  BY DEF CancelConfirmedClaim, TypeOK, ProductTypeOK
<1>3. /\ claim'[p][c].state = "CANCELLED"
      /\ claim'[p][c].claimAmount = claim[p][c].claimAmount
      /\ claim'[p][c].paidAmount = claim[p][c].paidAmount
      /\ claim'[p][c].payoutsCount = claim[p][c].payoutsCount
      /\ claim'[p][c].openPayoutsCount = claim[p][c].openPayoutsCount
      /\ \A d \in ClaimIds : d # c => claim'[p][d] = claim[p][d]
  BY <1>1, <1>2 DEF ClaimType, TypeOK, ProductTypeOK
<1>4. /\ claim[p][c].state \in OpenClaimStates /\ claim'[p][c].state \in OpenClaimStates
      /\ ConfirmedAmount(claim'[p][c]) = ConfirmedAmount(claim[p][c])
      /\ ConfirmedAmount(claim[p][c]) \in Nat /\ claim[p][c].paidAmount \in Nat
      /\ WasConfirmed(claim'[p][c])
  BY <1>1, <1>2, <1>3 DEF OpenClaimStates, ConfirmedAmount, WasConfirmed, ClaimType
<1>5. ClaimIsSound(claim'[p][c], payout'[p][c])
  <2>1. payout'[p][c] = payout[p][c]
    BY <1>2
  <2>2. \A l \in PayoutIds : l > claim'[p][c].payoutsCount => payout'[p][c][l] = NoPayout
    BY <1>1, <1>3, <2>1 DEF ClaimIsSound
  <2>3. /\ claim'[p][c].paidAmount <= claim'[p][c].claimAmount
        /\ claim'[p][c].paidAmount = PayoutsPaid(payout'[p][c])
        /\ claim'[p][c].openPayoutsCount = Cardinality(OpenPayouts(payout'[p][c]))
    BY <1>1, <1>3, <2>1 DEF ClaimIsSound
  <2>4. claim'[p][c].openPayoutsCount = 0
    BY <1>2, <1>3
  <2> QED
    BY <1>3, <1>4, <2>2, <2>3, <2>4 DEF ClaimIsSound
<1>6. FollowsClaim(policy[p], policy'[p], claim[p][c], claim'[p][c])
  BY <1>1, <1>2, <1>3, <1>4 DEF FollowsClaim
<1> QED
  BY <1>2, <1>3, <1>4, <1>5, <1>6, OpenClaimStep

StorePayout(p, c, k, pay) == payout' = [payout EXCEPT ![p][c][k] = pay]

\* A payout changes the payouts of one claim, and the claim with them.
LEMMA OnePayoutStep ==
  ASSUME TypeOK, TypeOK', NEW p \in Policies, NEW c \in ClaimIds, NEW k \in PayoutIds,
         NEW pay \in PayoutType, StorePayout(p, c, k, pay)
  PROVE  /\ payout'[p][c][k] = pay
         /\ \A l \in PayoutIds : l # k => payout'[p][c][l] = payout[p][c][l]
         /\ \A d \in ClaimIds : d # c => payout'[p][d] = payout[p][d]
         /\ PayoutsPaid(payout'[p][c])
              = PayoutsPaid(payout[p][c]) + (PaidPart(pay) - PaidPart(payout[p][c][k]))
         /\ Cardinality(OpenPayouts(payout'[p][c]))
              = Cardinality(OpenPayouts(payout[p][c]))
                  + (IF pay.state = "EXPECTED" THEN 1 ELSE 0)
                  - (IF payout[p][c][k].state = "EXPECTED" THEN 1 ELSE 0)
<1> DEFINE ps == payout[p][c]
           new == payout'[p][c]
<1>1. /\ ps \in [PayoutIds -> PayoutType] /\ new \in [PayoutIds -> PayoutType]
      /\ new[k] = pay
      /\ \A l \in PayoutIds : l # k => new[l] = ps[l]
      /\ \A d \in ClaimIds : d # c => payout'[p][d] = payout[p][d]
  BY DEF StorePayout, TypeOK, ProductTypeOK
<1> HIDE DEF ps, new
<1>2. /\ PayoutsPaid(new) = PayoutsPaid(ps) + (PaidPart(new[k]) - PaidPart(ps[k]))
      /\ Cardinality(OpenPayouts(new))
           = Cardinality(OpenPayouts(ps)) + (IF new[k].state = "EXPECTED" THEN 1 ELSE 0)
                                          - (IF ps[k].state = "EXPECTED" THEN 1 ELSE 0)
  BY <1>1, OnePayoutChanges
<1> QED
  BY <1>1, <1>2 DEF ps, new

LEMMA CreatePayoutKeepsPolicy ==
  ASSUME TypeOK, TypeOK', PoliciesAreSound, NEW p \in Policies, NEW c \in ClaimIds,
         NEW a \in Nat, CreatePayout(p, c, a)
  PROVE  PolicyKept(p)
<1> DEFINE k == claim[p][c].payoutsCount + 1
           pay == [state |-> "EXPECTED", amount |-> a]
<1>1. /\ claim[p][c] \in ClaimType /\ ClaimIsSound(claim[p][c], payout[p][c])
      /\ policy[p].claimAmount \in Nat /\ policy[p].payoutAmount \in Nat
      /\ policy[p].openClaimsCount \in Nat /\ policy[p].claimAmount <= policy[p].sumInsured
      /\ payout[p][c] \in [PayoutIds -> PayoutType]
  BY ClaimParts
<1>2. /\ claim[p][c].state = "CONFIRMED" /\ k \in PayoutIds
      /\ claim'[p] = [claim[p] EXCEPT ![c] =
           [claim[p][c] EXCEPT !.payoutsCount = @ + 1, !.openPayoutsCount = @ + 1]]
      /\ policy' = policy
      /\ StorePayout(p, c, k, pay)
  BY DEF CreatePayout, StorePayout, TypeOK, ProductTypeOK
<1>3. pay \in PayoutType /\ pay.state = "EXPECTED" /\ PaidPart(pay) = 0
  BY DEF PayoutType, PayoutStates, PaidPart
<1>4. payout[p][c][k] = NoPayout /\ PaidPart(payout[p][c][k]) = 0
  BY <1>1, <1>2 DEF ClaimIsSound, ClaimType, PaidPart, NoPayout, NONE
<1>5. /\ claim'[p][c].state = "CONFIRMED"
      /\ claim'[p][c].claimAmount = claim[p][c].claimAmount
      /\ claim'[p][c].paidAmount = claim[p][c].paidAmount
      /\ claim'[p][c].payoutsCount = k
      /\ claim'[p][c].openPayoutsCount = claim[p][c].openPayoutsCount + 1
      /\ \A d \in ClaimIds : d # c => claim'[p][d] = claim[p][d]
  BY <1>1, <1>2 DEF ClaimType, TypeOK, ProductTypeOK
<1> HIDE DEF pay
<1>6. /\ \A l \in PayoutIds : l # k => payout'[p][c][l] = payout[p][c][l]
      /\ \A d \in ClaimIds : d # c => payout'[p][d] = payout[p][d]
      /\ PayoutsPaid(payout'[p][c])
           = PayoutsPaid(payout[p][c]) + (PaidPart(pay) - PaidPart(payout[p][c][k]))
      /\ Cardinality(OpenPayouts(payout'[p][c]))
           = Cardinality(OpenPayouts(payout[p][c]))
               + (IF pay.state = "EXPECTED" THEN 1 ELSE 0)
               - (IF payout[p][c][k].state = "EXPECTED" THEN 1 ELSE 0)
  <2> HIDE DEF k
  <2> QED
    BY <1>2, <1>3, OnePayoutStep
<1>7. /\ claim[p][c].state \in OpenClaimStates /\ claim'[p][c].state \in OpenClaimStates
      /\ ConfirmedAmount(claim'[p][c]) = ConfirmedAmount(claim[p][c])
      /\ ConfirmedAmount(claim[p][c]) \in Nat /\ claim[p][c].paidAmount \in Nat
      /\ claim[p][c].openPayoutsCount \in Nat /\ claim[p][c].payoutsCount \in Nat
      /\ WasConfirmed(claim'[p][c])
  BY <1>1, <1>2, <1>5 DEF OpenClaimStates, ConfirmedAmount, WasConfirmed, ClaimType
<1>8. /\ payout[p][c][k].state # "EXPECTED"
      /\ PayoutsPaid(payout'[p][c]) = PayoutsPaid(payout[p][c])
      /\ Cardinality(OpenPayouts(payout'[p][c])) = Cardinality(OpenPayouts(payout[p][c])) + 1
  <2>1. payout[p][c][k].state # "EXPECTED"
    BY <1>4 DEF NoPayout, NONE
  <2>2. PayoutsPaid(payout[p][c]) \in Nat /\ Cardinality(OpenPayouts(payout[p][c])) \in Nat
    BY <1>1, <1>7 DEF ClaimIsSound
  <2> QED
    BY <1>3, <1>4, <1>6, <2>1, <2>2
<1>9. \A l \in PayoutIds : l > k => payout'[p][c][l] = NoPayout
  BY <1>1, <1>6, <1>7 DEF ClaimIsSound, PayoutIds
<1>10. ClaimIsSound(claim'[p][c], payout'[p][c])
  BY <1>1, <1>5, <1>7, <1>8, <1>9 DEF ClaimIsSound
<1>11. FollowsClaim(policy[p], policy'[p], claim[p][c], claim'[p][c])
  BY <1>1, <1>2, <1>5, <1>7 DEF FollowsClaim
<1> QED
  BY <1>2, <1>5, <1>6, <1>7, <1>10, <1>11, OpenClaimStep

LEMMA CancelPayoutKeepsPolicy ==
  ASSUME TypeOK, TypeOK', PoliciesAreSound, NEW p \in Policies, NEW c \in ClaimIds,
         NEW k \in PayoutIds, CancelPayout(p, c, k)
  PROVE  PolicyKept(p)
<1> DEFINE pay == [payout[p][c][k] EXCEPT !.state = "CANCELLED"]
<1>1. /\ claim[p][c] \in ClaimType /\ ClaimIsSound(claim[p][c], payout[p][c])
      /\ policy[p].claimAmount \in Nat /\ policy[p].payoutAmount \in Nat
      /\ policy[p].openClaimsCount \in Nat /\ policy[p].claimAmount <= policy[p].sumInsured
      /\ payout[p][c] \in [PayoutIds -> PayoutType]
  BY ClaimParts
<1>2. /\ payout[p][c][k].state = "EXPECTED" /\ claim[p][c].openPayoutsCount > 0
      /\ claim'[p] = [claim[p] EXCEPT ![c] = [claim[p][c] EXCEPT !.openPayoutsCount = @ - 1]]
      /\ policy' = policy
      /\ StorePayout(p, c, k, pay)
  BY DEF CancelPayout, StorePayout, PayoutTransitions, TypeOK, ProductTypeOK
<1>3. pay \in PayoutType /\ pay.state = "CANCELLED" /\ PaidPart(pay) = 0
  BY <1>1 DEF PayoutType, PayoutStates, PaidPart
<1>4. PaidPart(payout[p][c][k]) = 0
  BY <1>2 DEF PaidPart
<1>5. /\ claim'[p][c].state = claim[p][c].state
      /\ claim'[p][c].claimAmount = claim[p][c].claimAmount
      /\ claim'[p][c].paidAmount = claim[p][c].paidAmount
      /\ claim'[p][c].payoutsCount = claim[p][c].payoutsCount
      /\ claim'[p][c].openPayoutsCount = claim[p][c].openPayoutsCount - 1
      /\ \A d \in ClaimIds : d # c => claim'[p][d] = claim[p][d]
  BY <1>1, <1>2 DEF ClaimType, TypeOK, ProductTypeOK
<1> HIDE DEF pay
<1>6. /\ \A l \in PayoutIds : l # k => payout'[p][c][l] = payout[p][c][l]
      /\ \A d \in ClaimIds : d # c => payout'[p][d] = payout[p][d]
      /\ PayoutsPaid(payout'[p][c])
           = PayoutsPaid(payout[p][c]) + (PaidPart(pay) - PaidPart(payout[p][c][k]))
      /\ Cardinality(OpenPayouts(payout'[p][c]))
           = Cardinality(OpenPayouts(payout[p][c]))
               + (IF pay.state = "EXPECTED" THEN 1 ELSE 0)
               - (IF payout[p][c][k].state = "EXPECTED" THEN 1 ELSE 0)
  BY <1>2, <1>3, OnePayoutStep
<1>7. /\ claim[p][c].state = "CONFIRMED"
      /\ claim[p][c].state \in OpenClaimStates /\ claim'[p][c].state \in OpenClaimStates
      /\ ConfirmedAmount(claim'[p][c]) = ConfirmedAmount(claim[p][c])
      /\ ConfirmedAmount(claim[p][c]) \in Nat /\ claim[p][c].paidAmount \in Nat
      /\ claim[p][c].openPayoutsCount \in Nat /\ claim[p][c].payoutsCount \in Nat
      /\ WasConfirmed(claim'[p][c])
  BY <1>1, <1>2, <1>5 DEF ClaimIsSound, OpenClaimStates, ConfirmedAmount, WasConfirmed, ClaimType
<1>8. /\ PayoutsPaid(payout'[p][c]) = PayoutsPaid(payout[p][c])
      /\ Cardinality(OpenPayouts(payout'[p][c])) = Cardinality(OpenPayouts(payout[p][c])) - 1
  <2>1. PayoutsPaid(payout[p][c]) \in Nat /\ Cardinality(OpenPayouts(payout[p][c])) \in Nat
    BY <1>1, <1>7 DEF ClaimIsSound
  <2> QED
    BY <1>2, <1>3, <1>4, <1>6, <2>1
<1>9. k <= claim[p][c].payoutsCount
  BY <1>1, <1>2, <1>7 DEF ClaimIsSound, NoPayout, NONE, PayoutIds
<1>10. \A l \in PayoutIds : l > claim'[p][c].payoutsCount => payout'[p][c][l] = NoPayout
  BY <1>1, <1>5, <1>6, <1>7, <1>9 DEF ClaimIsSound, PayoutIds
<1>11. ClaimIsSound(claim'[p][c], payout'[p][c])
  <2>1. payout'[p][c][k].state = "CANCELLED"
    BY <1>2, <1>3, OnePayoutStep
  <2> QED
    BY <1>1, <1>5, <1>7, <1>8, <1>10, <2>1 DEF ClaimIsSound
<1>12. FollowsClaim(policy[p], policy'[p], claim[p][c], claim'[p][c])
  BY <1>1, <1>2, <1>5, <1>7 DEF FollowsClaim
<1> QED
  BY <1>2, <1>5, <1>6, <1>7, <1>11, <1>12, OpenClaimStep


\* Paying a payout: the claim it belongs to is confirmed, and so the policy
\* is neither missing nor closed.
LEMMA ProcessPayoutFacts ==
  ASSUME TypeOK, TypeOK', PoliciesAreSound, NEW p \in Policies, NEW c \in ClaimIds,
         NEW k \in PayoutIds, ProcessPayout(p, c, k)
  PROVE  LET amount == payout[p][c][k].amount
         IN  /\ amount \in Nat
             /\ claim[p][c].state = "CONFIRMED"
             /\ policy'[p].payoutAmount = policy[p].payoutAmount + amount
             /\ policy'[p].claimAmount = policy[p].claimAmount
             /\ policy'[p].sumInsured = policy[p].sumInsured
             /\ policy'[p].claimsCount = policy[p].claimsCount
             /\ policy'[p].state = policy[p].state /\ policy'[p].bundle = policy[p].bundle
             /\ policy'[p].activatedAt = policy[p].activatedAt
             /\ \A q \in Policies : q # p => policy'[q] = policy[q]
<1>1. /\ claim[p][c] \in ClaimType /\ ClaimIsSound(claim[p][c], payout[p][c])
      /\ payout[p][c] \in [PayoutIds -> PayoutType]
      /\ policy[p] \in PolicyType
  BY ClaimParts, PolicyParts
<1>2. claim[p][c].openPayoutsCount > 0
  BY DEF ProcessPayout
<1>3. claim[p][c].state = "CONFIRMED"
  BY <1>1, <1>2 DEF ClaimIsSound
<1>4. payout[p][c][k].amount \in Nat
  BY <1>1 DEF PayoutType
<1>5. \E n : policy' = [policy EXCEPT ![p] = [policy[p] EXCEPT
                          !.payoutAmount = @ + payout[p][c][k].amount, !.openClaimsCount = n]]
  BY DEF ProcessPayout, TypeOK, ProductTypeOK
<1> QED
  BY <1>1, <1>3, <1>4, <1>5 DEF PolicyType, TypeOK, ProductTypeOK

LEMMA ProcessPayoutKeepsPolicy ==
  ASSUME TypeOK, TypeOK', PoliciesAreSound, NEW p \in Policies, NEW c \in ClaimIds,
         NEW k \in PayoutIds, ProcessPayout(p, c, k)
  PROVE  PolicyKept(p)
<1> DEFINE amount == payout[p][c][k].amount
           pay == [payout[p][c][k] EXCEPT !.state = "PAID"]
           cl == claim[p][c]
           updated == [cl EXCEPT !.paidAmount = @ + amount, !.openPayoutsCount = @ - 1]
           settled == IsSettled(updated)
<1>1. /\ cl \in ClaimType /\ ClaimIsSound(cl, payout[p][c])
      /\ policy[p].claimAmount \in Nat /\ policy[p].payoutAmount \in Nat
      /\ policy[p].openClaimsCount \in Nat /\ policy[p].claimAmount <= policy[p].sumInsured
      /\ payout[p][c] \in [PayoutIds -> PayoutType]
      /\ policy[p] \in PolicyType
  BY ClaimParts, PolicyParts
<1>2. /\ payout[p][c][k].state = "EXPECTED"
      /\ cl.paidAmount + amount <= cl.claimAmount /\ cl.openPayoutsCount > 0
      /\ claim' = [claim EXCEPT ![p][c] =
           IF settled THEN [updated EXCEPT !.state = "CLOSED"] ELSE updated]
      /\ policy' = [policy EXCEPT ![p].payoutAmount = @ + amount,
                                  ![p].openClaimsCount = IF settled THEN @ - 1 ELSE @]
      /\ StorePayout(p, c, k, pay)
  BY DEF ProcessPayout, StorePayout, PayoutTransitions
<1>3. pay \in PayoutType /\ pay.state = "PAID" /\ PaidPart(pay) = amount
  BY <1>1 DEF PayoutType, PayoutStates, PaidPart
<1>4. PaidPart(payout[p][c][k]) = 0
  BY <1>2 DEF PaidPart
<1>5. /\ cl.state = "CONFIRMED" /\ amount \in Nat
      /\ policy'[p].payoutAmount = policy[p].payoutAmount + amount
      /\ policy'[p].claimAmount = policy[p].claimAmount
      /\ policy'[p].sumInsured = policy[p].sumInsured
      /\ policy'[p].claimsCount = policy[p].claimsCount
      /\ policy'[p].state = policy[p].state /\ policy'[p].bundle = policy[p].bundle
      /\ policy'[p].activatedAt = policy[p].activatedAt
  BY ProcessPayoutFacts
<1>6. /\ updated.paidAmount = cl.paidAmount + amount
      /\ updated.openPayoutsCount = cl.openPayoutsCount - 1
      /\ updated.claimAmount = cl.claimAmount
      /\ updated.payoutsCount = cl.payoutsCount
      /\ updated.state = "CONFIRMED"
      /\ updated \in [state : ClaimStates, claimAmount : Nat, paidAmount : Nat,
                      payoutsCount : Nat, openPayoutsCount : Int]
  <2>1. /\ cl.paidAmount \in Nat /\ cl.paidAmount + amount \in Nat
        /\ cl.openPayoutsCount \in Nat /\ cl.openPayoutsCount - 1 \in Int
    BY <1>1, <1>5 DEF ClaimType
  <2> HIDE DEF amount
  <2> QED
    BY <1>1, <1>5, <2>1 DEF ClaimType
<1>7. claim'[p][c] = IF settled THEN [updated EXCEPT !.state = "CLOSED"] ELSE updated
  BY <1>2 DEF TypeOK, ProductTypeOK
<1>8. \A d \in ClaimIds : d # c => claim'[p][d] = claim[p][d]
  BY <1>2 DEF TypeOK, ProductTypeOK
<1>9. policy'[p].openClaimsCount = IF settled THEN policy[p].openClaimsCount - 1
                                   ELSE policy[p].openClaimsCount
  BY <1>1, <1>2 DEF PolicyType, TypeOK, ProductTypeOK
<1>10. settled <=> cl.openPayoutsCount = 1 /\ cl.paidAmount + amount = cl.claimAmount
  BY <1>1, <1>6 DEF IsSettled, ClaimType
<1> HIDE DEF settled, updated
<1>11. /\ claim'[p][c].state = IF settled THEN "CLOSED" ELSE "CONFIRMED"
       /\ claim'[p][c].claimAmount = cl.claimAmount
       /\ claim'[p][c].paidAmount = cl.paidAmount + amount
       /\ claim'[p][c].payoutsCount = cl.payoutsCount
       /\ claim'[p][c].openPayoutsCount = cl.openPayoutsCount - 1
  BY <1>6, <1>7
<1> HIDE DEF pay
<1>12. /\ \A l \in PayoutIds : l # k => payout'[p][c][l] = payout[p][c][l]
       /\ \A d \in ClaimIds : d # c => payout'[p][d] = payout[p][d]
       /\ PayoutsPaid(payout'[p][c])
            = PayoutsPaid(payout[p][c]) + (PaidPart(pay) - PaidPart(payout[p][c][k]))
       /\ Cardinality(OpenPayouts(payout'[p][c]))
            = Cardinality(OpenPayouts(payout[p][c]))
                + (IF pay.state = "EXPECTED" THEN 1 ELSE 0)
                - (IF payout[p][c][k].state = "EXPECTED" THEN 1 ELSE 0)
  BY <1>2, <1>3, OnePayoutStep
<1>13. /\ cl.state \in OpenClaimStates
       /\ claim'[p][c].state \in OpenClaimStates <=> ~settled
       /\ ConfirmedAmount(claim'[p][c]) = ConfirmedAmount(cl)
       /\ ConfirmedAmount(cl) \in Nat /\ cl.paidAmount \in Nat /\ cl.claimAmount \in Nat
       /\ cl.openPayoutsCount \in Nat /\ cl.payoutsCount \in Nat
       /\ WasConfirmed(claim'[p][c])
  BY <1>1, <1>5, <1>11 DEF OpenClaimStates, ConfirmedAmount, WasConfirmed, ClaimType
<1>14. /\ PayoutsPaid(payout[p][c]) = cl.paidAmount
       /\ Cardinality(OpenPayouts(payout[p][c])) = cl.openPayoutsCount
  BY <1>1 DEF ClaimIsSound
<1> HIDE DEF amount, cl
<1>15. /\ PayoutsPaid(payout'[p][c]) = cl.paidAmount + amount
       /\ Cardinality(OpenPayouts(payout'[p][c])) = cl.openPayoutsCount - 1
  BY <1>2, <1>3, <1>4, <1>5, <1>12, <1>13, <1>14
<1>16. k <= cl.payoutsCount
  BY <1>1, <1>2, <1>13 DEF ClaimIsSound, NoPayout, NONE, PayoutIds
<1>17. \A l \in PayoutIds : l > claim'[p][c].payoutsCount => payout'[p][c][l] = NoPayout
  BY <1>1, <1>11, <1>12, <1>13, <1>16 DEF ClaimIsSound, PayoutIds
<1>18. /\ claim'[p][c].paidAmount <= claim'[p][c].claimAmount
       /\ claim'[p][c].state = "CLOSED" => claim'[p][c].paidAmount = claim'[p][c].claimAmount
       /\ claim'[p][c].openPayoutsCount > 0 => claim'[p][c].state = "CONFIRMED"
       /\ claim'[p][c].state = "CONFIRMED" /\ claim'[p][c].paidAmount = claim'[p][c].claimAmount
            => claim'[p][c].openPayoutsCount > 0
  BY <1>2, <1>5, <1>10, <1>11, <1>13
<1>19. ClaimIsSound(claim'[p][c], payout'[p][c])
  BY <1>11, <1>13, <1>15, <1>17, <1>18 DEF ClaimIsSound
<1>20. FollowsClaim(policy[p], policy'[p], cl, claim'[p][c])
  BY <1>1, <1>5, <1>9, <1>11, <1>13 DEF FollowsClaim
<1> QED
  BY <1>5, <1>8, <1>12, <1>13, <1>19, <1>20, OpenClaimStep DEF cl


----------------------------------------------------------------------------
(* The steps that do not touch claims.                                     *)

LEMMA SameClaims ==
  ASSUME NEW info, NEW info2, NEW cls, NEW pays, ClaimsAreSound(info, cls, pays),
         info2.claimAmount = info.claimAmount, info2.payoutAmount = info.payoutAmount,
         info2.openClaimsCount = info.openClaimsCount, info2.sumInsured = info.sumInsured,
         info2.claimsCount = info.claimsCount
  PROVE  ClaimsAreSound(info2, cls, pays)
  BY DEF ClaimsAreSound

\* The parts of a policy that sales, activations and closings leave alone.
SameAmounts(info, info2) ==
  /\ info2.claimAmount = info.claimAmount /\ info2.payoutAmount = info.payoutAmount
  /\ info2.openClaimsCount = info.openClaimsCount /\ info2.sumInsured = info.sumInsured
  /\ info2.claimsCount = info.claimsCount /\ info2.bundle = info.bundle

LEMMA ActivatedFacts ==
  ASSUME NEW info \in PolicyType, NEW t \in Nat, MayActivate(info, t)
  PROVE  /\ SameAmounts(info, Activated(info, t))
         /\ Activated(info, t).state = info.state
         /\ Activated(info, t).activatedAt = t
         /\ info.activatedAt > 0 => Activated(info, t) = info
         /\ t = 0 => Activated(info, t) = info
         /\ Activated(info, t) \in PolicyType
<1>1. Activated(info, t) \in PolicyType
  BY PolicyRecordTypes
<1>2. CASE info.activatedAt = t
  BY <1>2 DEF Activated, SameAmounts, PolicyType, Times
<1>3. CASE info.activatedAt # t
  <2>1. info.activatedAt = 0 /\ t # 0
    BY <1>3 DEF MayActivate
  <2>2. Activated(info, t)
          = [info EXCEPT !.activatedAt = t, !.expiredAt = t + info.lifetime]
    BY <1>3 DEF Activated
  <2>3. /\ SameAmounts(info, Activated(info, t))
        /\ Activated(info, t).state = info.state
        /\ Activated(info, t).activatedAt = t
    BY <2>2 DEF SameAmounts, PolicyType
  <2> QED
    BY <1>1, <2>1, <2>3
<1> QED
  BY <1>1, <1>2, <1>3

\* The record of a sale: the policy with its optional activation.
Covered(info, t) == IF t > 0 THEN Activated(info, t) ELSE info

LEMMA CoveredFacts ==
  ASSUME NEW info \in PolicyType, NEW t \in Nat, t > 0 => MayActivate(info, t)
  PROVE  /\ SameAmounts(info, Covered(info, t))
         /\ Covered(info, t).state = info.state
         /\ Covered(info, t) \in PolicyType
         /\ Covered(info, t).activatedAt = 0 => Covered(info, t) = info
<1>1. CASE t > 0
  <2>1. Covered(info, t) = Activated(info, t)
    BY <1>1 DEF Covered
  <2> QED
    BY <1>1, <2>1, ActivatedFacts
<1>2. CASE ~(t > 0)
  BY <1>2 DEF SameAmounts, Covered
<1> QED
  BY <1>1, <1>2

\* What PolicyNext does to the one policy it is about.
LEMMA PolicyStepKeepsPolicy ==
  ASSUME TypeOK, PoliciesAreSound, NEW p \in Policies, NEW t \in Nat, NEW premium,
         \/ CreatePolicy(p, t, premium) \/ CollectPremium(p, t) \/ Activate(p, t)
         \/ t > 0 /\ AdjustActivation(p, t)
         \/ Expire(p, t) \/ ClosePolicy(p)
  PROVE  SameAmounts(policy[p], policy'[p]) /\ PolicyIsSound(policy'[p], now)
<1> DEFINE info == policy[p]
           covered == Covered(info, t)
<1>1. info \in PolicyType /\ PolicyIsSound(info, now) /\ policy \in [Policies -> PolicyType]
  BY PolicyParts DEF TypeOK, ProductTypeOK
<1>2. CASE CreatePolicy(p, t, premium)
  <2>1. /\ info.state = "APPLIED"
        /\ t > 0 => MayActivate(info, t)
        /\ policy'[p] = [covered EXCEPT !.state = "COLLATERALIZED", !.premium = premium,
                                        !.premiumState = "EXPECTED"]
    BY <1>1, <1>2 DEF CreatePolicy, Covered
  <2>2. /\ SameAmounts(info, covered) /\ covered \in PolicyType
        /\ covered.activatedAt = 0 => covered = info
    BY <1>1, <2>1, CoveredFacts
  <2> HIDE DEF info, covered
  <2>3. /\ SameAmounts(info, policy'[p])
        /\ policy'[p].state = "COLLATERALIZED"
        /\ policy'[p].activatedAt = covered.activatedAt
        /\ policy'[p].expiredAt = covered.expiredAt
    BY <2>1, <2>2 DEF SameAmounts, PolicyType
  <2>4. PolicyIsSound(policy'[p], now)
    BY <1>1, <2>1, <2>2, <2>3 DEF PolicyIsSound, SameAmounts, NONE
  <2> QED
    BY <2>3, <2>4 DEF info
<1>3. CASE CollectPremium(p, t)
  <2>1. /\ info.state = "COLLATERALIZED"
        /\ t > 0 => MayActivate(info, t)
        /\ policy'[p] = [covered EXCEPT !.premiumState = "PAID"]
    BY <1>1, <1>3 DEF CollectPremium, Covered
  <2>2. /\ SameAmounts(info, covered) /\ covered \in PolicyType
        /\ covered.activatedAt = 0 => covered = info
        /\ covered.state = info.state
    BY <1>1, <2>1, CoveredFacts
  <2> HIDE DEF info, covered
  <2>3. /\ SameAmounts(info, policy'[p])
        /\ policy'[p].state = "COLLATERALIZED"
        /\ policy'[p].activatedAt = covered.activatedAt
        /\ policy'[p].expiredAt = covered.expiredAt
    BY <2>1, <2>2 DEF SameAmounts, PolicyType
  <2>4. PolicyIsSound(policy'[p], now)
    BY <1>1, <2>1, <2>2, <2>3 DEF PolicyIsSound, SameAmounts, NONE
  <2> QED
    BY <2>3, <2>4 DEF info
<1>4. CASE Activate(p, t)
  <2>1. /\ info.state # NONE /\ MayActivate(info, t)
        /\ ActivatesOnlyCollateralized => info.state = "COLLATERALIZED"
        /\ policy'[p] = Activated(info, t)
    BY <1>1, <1>4 DEF Activate
  <2>2. /\ SameAmounts(info, policy'[p])
        /\ policy'[p].state = info.state
        /\ policy'[p].activatedAt = t
        /\ info.activatedAt > 0 \/ t = 0 => policy'[p] = info
    BY <1>1, <2>1, ActivatedFacts
  <2>3. info.activatedAt \in Nat
    BY <1>1 DEF PolicyType, Times
  <2> HIDE DEF info
  <2>4. CASE info.activatedAt > 0 \/ t = 0
    BY <1>1, <2>2, <2>4 DEF info
  <2>5. CASE ~(info.activatedAt > 0 \/ t = 0)
    <3>1. PolicyIsSound(policy'[p], now)
      BY <1>1, <2>1, <2>2, <2>3, <2>5 DEF PolicyIsSound, SameAmounts, NONE
    <3> QED
      BY <2>2, <3>1 DEF info
  <2> QED
    BY <2>4, <2>5
<1>5. CASE t > 0 /\ AdjustActivation(p, t)
  <2>1. info.activatedAt > 0 /\ policy'[p] = [info EXCEPT !.activatedAt = t]
    BY <1>1, <1>5 DEF AdjustActivation
  <2> HIDE DEF info
  <2>2. /\ SameAmounts(info, policy'[p])
        /\ policy'[p].state = info.state /\ policy'[p].expiredAt = info.expiredAt
        /\ policy'[p].activatedAt = t
    BY <1>1, <2>1 DEF SameAmounts, PolicyType
  <2>3. info.state # NONE
    BY <1>1, <2>1 DEF PolicyIsSound, NoPolicy
  <2>4. PolicyIsSound(policy'[p], now)
    BY <1>1, <1>5, <2>1, <2>2, <2>3 DEF PolicyIsSound, SameAmounts
  <2> QED
    BY <2>2, <2>4 DEF info
<1>6. CASE Expire(p, t)
  <2>1. PICK e \in Nat : /\ info.state = "COLLATERALIZED" /\ info.activatedAt > 0
                         /\ policy'[p] = [info EXCEPT !.expiredAt = e]
    BY <1>1, <1>6 DEF Expire, MayExpire, Expired, TypeOK, PoolTypeOK, Times
  <2> HIDE DEF info
  <2>2. /\ SameAmounts(info, policy'[p])
        /\ policy'[p].state = info.state /\ policy'[p].activatedAt = info.activatedAt
    BY <1>1, <2>1 DEF SameAmounts, PolicyType
  <2>3. PolicyIsSound(policy'[p], now)
    BY <1>1, <2>1, <2>2 DEF PolicyIsSound, SameAmounts, NONE
  <2> QED
    BY <2>2, <2>3 DEF info
<1>7. CASE ClosePolicy(p)
  <2>1. /\ PolicyIsCloseable(info) /\ policy'[p] = [info EXCEPT !.state = "CLOSED"]
    BY <1>1, <1>7 DEF ClosePolicy
  <2> HIDE DEF info
  <2>2. /\ SameAmounts(info, policy'[p])
        /\ policy'[p].state = "CLOSED" /\ policy'[p].activatedAt = info.activatedAt
        /\ policy'[p].expiredAt = info.expiredAt
    BY <1>1, <2>1 DEF SameAmounts, PolicyType
  <2>3. PolicyIsSound(policy'[p], now)
    BY <1>1, <2>1, <2>2 DEF PolicyIsSound, PolicyIsCloseable, SameAmounts, NONE
  <2> QED
    BY <2>2, <2>3 DEF info
<1> QED
  BY <1>2, <1>3, <1>4, <1>5, <1>6, <1>7

LEMMA TimeKeepsPoliciesSound ==
  ASSUME NEW info \in PolicyType, NEW t \in Nat, NEW u \in Nat, t <= u, PolicyIsSound(info, t)
  PROVE  PolicyIsSound(info, u)
  BY DEF PolicyIsSound, PolicyType, Times


----------------------------------------------------------------------------
(* The invariant of policies, claims and payouts.                          *)

\* A step that is about policy p alone.
OnlyPolicy(p) ==
  /\ now' = now
  /\ \A q \in Policies : q # p => /\ policy'[q] = policy[q]
                                  /\ claim'[q] = claim[q] /\ payout'[q] = payout[q]

LEMMA OnlyPolicyKeepsSound ==
  ASSUME PoliciesAreSound, NEW p \in Policies, OnlyPolicy(p), PolicyKept(p)
  PROVE  PoliciesAreSound'
  BY DEF PoliciesAreSound, OnlyPolicy, PolicyKept

LEMMA ClaimStepKeepsSound ==
  ASSUME TypeOK, TypeOK', PoliciesAreSound, ClaimNext
  PROVE  PoliciesAreSound'
<1> USE PolicyFlowAssumption
<1>1. ASSUME NEW p \in Policies, NEW a \in ClaimAmounts, SubmitClaim(p, a)
      PROVE  PoliciesAreSound'
  <2>1. OnlyPolicy(p)
    BY <1>1 DEF SubmitClaim, OnlyPolicy, TypeOK, ProductTypeOK
  <2> QED
    BY <1>1, <2>1, SubmitClaimKeepsPolicy, OnlyPolicyKeepsSound
<1>2. ASSUME NEW p \in Policies, NEW c \in ClaimIds, NEW a \in ClaimAmounts, ConfirmClaim(p, c, a)
      PROVE  PoliciesAreSound'
  <2>1. OnlyPolicy(p)
    BY <1>2 DEF ConfirmClaim, OnlyPolicy, TypeOK, ProductTypeOK
  <2> QED
    BY <1>2, <2>1, ConfirmClaimKeepsPolicy, OnlyPolicyKeepsSound
<1>3. ASSUME NEW p \in Policies, NEW c \in ClaimIds, DeclineClaim(p, c) \/ RevokeClaim(p, c)
      PROVE  PoliciesAreSound'
  <2>1. OnlyPolicy(p)
    BY <1>3 DEF DeclineClaim, RevokeClaim, OnlyPolicy, TypeOK, ProductTypeOK
  <2> QED
    BY <1>3, <2>1, DropClaimKeepsPolicy, OnlyPolicyKeepsSound
<1>4. ASSUME NEW p \in Policies, NEW c \in ClaimIds, CancelConfirmedClaim(p, c)
      PROVE  PoliciesAreSound'
  <2>1. OnlyPolicy(p)
    BY <1>4 DEF CancelConfirmedClaim, OnlyPolicy, TypeOK, ProductTypeOK
  <2> QED
    BY <1>4, <2>1, CancelConfirmedClaimKeepsPolicy, OnlyPolicyKeepsSound
<1>5. ASSUME NEW p \in Policies, NEW c \in ClaimIds, NEW a \in PayoutAmounts, CreatePayout(p, c, a)
      PROVE  PoliciesAreSound'
  <2>1. OnlyPolicy(p)
    BY <1>5 DEF CreatePayout, OnlyPolicy, TypeOK, ProductTypeOK
  <2> QED
    BY <1>5, <2>1, CreatePayoutKeepsPolicy, OnlyPolicyKeepsSound
<1>6. ASSUME NEW p \in Policies, NEW c \in ClaimIds, NEW k \in PayoutIds, ProcessPayout(p, c, k)
      PROVE  PoliciesAreSound'
  <2>1. OnlyPolicy(p)
    BY <1>6 DEF ProcessPayout, OnlyPolicy, TypeOK, ProductTypeOK
  <2> QED
    BY <1>6, <2>1, ProcessPayoutKeepsPolicy, OnlyPolicyKeepsSound
<1>7. ASSUME NEW p \in Policies, NEW c \in ClaimIds, NEW k \in PayoutIds, CancelPayout(p, c, k)
      PROVE  PoliciesAreSound'
  <2>1. OnlyPolicy(p)
    BY <1>7 DEF CancelPayout, OnlyPolicy, TypeOK, ProductTypeOK
  <2> QED
    BY <1>7, <2>1, CancelPayoutKeepsPolicy, OnlyPolicyKeepsSound
<1> QED
  BY <1>1, <1>2, <1>3, <1>4, <1>5, <1>6, <1>7, ClaimNext, Zenon DEF ClaimNext

\* The steps of PolicyNext, one by one, with times that are natural numbers.
LEMMA PolicyNextSteps ==
  ASSUME PolicyNext
  PROVE  \E p \in Policies, t \in Nat :
           \/ \E premium \in Premiums : CreatePolicy(p, t, premium)
           \/ CollectPremium(p, t) \/ Activate(p, t)
           \/ t > 0 /\ AdjustActivation(p, t)
           \/ Expire(p, t) \/ ClosePolicy(p)
<1>1. /\ ActivationTimes \union {0} \subseteq Nat
      /\ \A t \in 1..MaxTime : t \in Nat /\ t > 0
      /\ 0..MaxTime \subseteq Nat
      /\ 0 \in Nat
  BY PolicyFlowAssumption, BundlePoolAssumption
<1> QED
  BY <1>1, Zenon DEF PolicyNext

LEMMA PolicyStepKeepsSound ==
  ASSUME TypeOK, PoliciesAreSound, PolicyNext
  PROVE  PoliciesAreSound'
<1>1. PICK p \in Policies, t \in Nat :
        \/ \E premium \in Premiums : CreatePolicy(p, t, premium)
        \/ CollectPremium(p, t) \/ Activate(p, t)
        \/ t > 0 /\ AdjustActivation(p, t)
        \/ Expire(p, t) \/ ClosePolicy(p)
  BY PolicyNextSteps
<1>2. SameAmounts(policy[p], policy'[p]) /\ PolicyIsSound(policy'[p], now)
  BY <1>1, PolicyStepKeepsPolicy
<1>3. OnlyPolicy(p) /\ claim' = claim /\ payout' = payout
  BY <1>1 DEF CreatePolicy, CollectPremium, Activate, AdjustActivation, Expire, ClosePolicy,
              OnlyPolicy, poolVars, TypeOK, ProductTypeOK
<1>4. ClaimsAreSound(policy[p], claim[p], payout[p])
  BY PolicyParts
<1>5. ClaimsAreSound(policy'[p], claim[p], payout[p])
  BY <1>2, <1>4, SameClaims DEF SameAmounts
<1>6. PolicyKept(p)
  BY <1>2, <1>3, <1>5 DEF PolicyKept
<1> QED
  BY <1>3, <1>6, OnlyPolicyKeepsSound

LEMMA ApplicationStepKeepsSound ==
  ASSUME TypeOK, PoliciesAreSound, ApplicationNext
  PROVE  PoliciesAreSound'
<1>1. ASSUME NEW p \in Policies, NEW r \in Risks, NEW b \in Bundles, NEW s \in SumInsuredAmounts,
             NEW l \in PolicyLifetimes, CreateApplication(p, r, b, s, l)
      PROVE  PoliciesAreSound'
  <2>1. OnlyPolicy(p) /\ claim' = claim /\ payout' = payout
    BY <1>1 DEF CreateApplication, OnlyPolicy, poolVars, TypeOK, ProductTypeOK
  <2>2. /\ policy[p] = NoPolicy /\ ClaimsAreSound(policy[p], claim[p], payout[p])
    BY <1>1, PolicyParts DEF CreateApplication, PolicyIsSound
  <2>3. policy'[p] = [NoPolicy EXCEPT !.state = "APPLIED", !.bundle = b, !.risk = r,
                                      !.sumInsured = s, !.lifetime = l]
    BY <1>1 DEF CreateApplication, TypeOK, ProductTypeOK
  <2>4. s \in Nat
    BY PolicyFlowAssumption
  <2>5. /\ policy'[p].state = "APPLIED" /\ policy'[p].bundle = b /\ policy'[p].sumInsured = s
        /\ policy'[p].activatedAt = 0 /\ policy'[p].expiredAt = 0
        /\ policy'[p].claimsCount = 0 /\ policy[p].claimsCount = 0
        /\ policy'[p].claimAmount = 0 /\ policy[p].claimAmount = 0
        /\ policy'[p].payoutAmount = 0 /\ policy[p].payoutAmount = 0
        /\ policy'[p].openClaimsCount = 0 /\ policy[p].openClaimsCount = 0
    BY <2>2, <2>3 DEF NoPolicy
  <2>6. PolicyIsSound(policy'[p], now)
    BY <2>5 DEF PolicyIsSound, NONE
  <2>7. ClaimsAreSound(policy'[p], claim'[p], payout'[p])
    BY <2>1, <2>2, <2>4, <2>5 DEF ClaimsAreSound
  <2> QED
    BY <2>1, <2>6, <2>7, OnlyPolicyKeepsSound DEF PolicyKept
<1>2. ASSUME NEW p \in Policies, RevokeApplication(p) \/ DeclineApplication(p)
      PROVE  PoliciesAreSound'
  <2>1. OnlyPolicy(p) /\ claim' = claim /\ payout' = payout
    BY <1>2 DEF RevokeApplication, DeclineApplication, OnlyPolicy, poolVars, TypeOK, ProductTypeOK
  <2>2. /\ policy[p] \in PolicyType /\ PolicyIsSound(policy[p], now)
        /\ ClaimsAreSound(policy[p], claim[p], payout[p])
    BY PolicyParts
  <2>3. PICK st \in {"REVOKED", "DECLINED"} :
          policy[p].state = "APPLIED" /\ policy'[p] = [policy[p] EXCEPT !.state = st]
    BY <1>2 DEF RevokeApplication, DeclineApplication, PolicyTransitions, TypeOK, ProductTypeOK
  <2>4. /\ SameAmounts(policy[p], policy'[p])
        /\ policy'[p].state = st
        /\ policy'[p].activatedAt = policy[p].activatedAt
        /\ policy'[p].expiredAt = policy[p].expiredAt
    BY <2>2, <2>3 DEF SameAmounts, PolicyType
  <2>5. PolicyIsSound(policy'[p], now)
    BY <2>2, <2>3, <2>4 DEF PolicyIsSound, SameAmounts, NONE
  <2>6. ClaimsAreSound(policy'[p], claim'[p], payout'[p])
    BY <2>1, <2>2, <2>4, SameClaims DEF SameAmounts
  <2> QED
    BY <2>1, <2>5, <2>6, OnlyPolicyKeepsSound DEF PolicyKept
<1> QED
  BY <1>1, <1>2, ApplicationNext, Zenon DEF ApplicationNext

\* The transactions of the pool leave the policies alone; time may pass.
LEMMA PoolStepKeepsSound ==
  ASSUME TypeOK, PoliciesAreSound, now' \in {now, now + 1}, UNCHANGED <<policy, claim, payout>>
  PROVE  PoliciesAreSound'
<1>1. now \in Nat /\ now' \in Nat /\ now <= now' /\ now' > 0
  BY DEF TypeOK, PoolTypeOK, Times, PoliciesAreSound
<1>2. \A p \in Policies : PolicyIsSound(policy[p], now')
  BY <1>1, PolicyParts, TimeKeepsPoliciesSound
<1> QED
  BY <1>1, <1>2 DEF PoliciesAreSound

LEMMA NothingIsSound ==
  ASSUME NEW cls, NEW pays,
         \A c \in ClaimIds : cls[c] = NoClaim /\ \A k \in PayoutIds : pays[c][k] = NoPayout
  PROVE  ClaimsAreSound(NoPolicy, cls, pays)
<1>1. MaxClaims \in Nat /\ MaxPayouts \in Nat
  BY PolicyFlowAssumption
<1>2. /\ ~WasConfirmed(NoClaim) /\ NoClaim.paidAmount = 0 /\ NoClaim.claimAmount = 0
      /\ NoClaim.state \notin OpenClaimStates \union {"CLOSED"}
      /\ NoClaim.openPayoutsCount = 0 /\ NoClaim.payoutsCount = 0
      /\ NoPayout.state \notin {"PAID", "EXPECTED"} /\ NoClaim.state # "CONFIRMED"
  BY DEF WasConfirmed, NoClaim, OpenClaimStates, NoPayout, NONE
<1>3. ConfirmedTotal(cls) = 0
  <2>1. \A c \in 1..MaxClaims : [d \in ClaimIds |-> ConfirmedAmount(cls[d])][c] = 0
    BY <1>2 DEF ClaimIds, ConfirmedAmount
  <2> QED
    BY <1>1, <2>1, SumOfZeros DEF ConfirmedTotal
<1>4. PaidTotal(cls) = 0
  <2>1. \A c \in 1..MaxClaims : [d \in ClaimIds |-> cls[d].paidAmount][c] = 0
    BY <1>2 DEF ClaimIds
  <2> QED
    BY <1>1, <2>1, SumOfZeros DEF PaidTotal
<1>5. Cardinality(OpenClaims(cls)) = 0
  <2>1. OpenClaims(cls) = {}
    BY <1>2 DEF OpenClaims
  <2> QED
    BY <2>1, FS_EmptySet
<1>6. ASSUME NEW c \in ClaimIds
      PROVE  ClaimIsSound(cls[c], pays[c])
  <2>1. PayoutsPaid(pays[c]) = 0
    <3> DEFINE paid == [k \in PayoutIds |-> IF pays[c][k].state = "PAID" THEN pays[c][k].amount ELSE 0]
    <3>1. \A k \in 1..MaxPayouts : paid[k] = 0
      BY <1>2 DEF PayoutIds
    <3>2. PayoutsPaid(pays[c]) = SumUpTo(paid, MaxPayouts)
      BY DEF PayoutsPaid
    <3> HIDE DEF paid
    <3> QED
      BY <1>1, <3>1, <3>2, SumOfZeros
  <2>2. OpenPayouts(pays[c]) = {}
    BY <1>2 DEF OpenPayouts
  <2>3. Cardinality(OpenPayouts(pays[c])) = 0
    BY <2>2, FS_EmptySet
  <2> QED
    BY <1>2, <2>1, <2>3 DEF ClaimIsSound
<1>7. /\ NoPolicy.claimAmount = 0 /\ NoPolicy.payoutAmount = 0
      /\ NoPolicy.openClaimsCount = 0 /\ NoPolicy.sumInsured = 0
  BY DEF NoPolicy
<1> QED
  BY <1>3, <1>4, <1>5, <1>6, <1>7 DEF ClaimsAreSound

\* The amounts and counters of every policy, claim and payout agree, whatever
\* was sold, claimed, paid, cancelled and closed in whatever order
\* (ApplicationService, PolicyService, ClaimService).
THEOREM PoliciesStaySound == Spec => []PoliciesAreSound
<1>1. Init => PoliciesAreSound
  <2> SUFFICES ASSUME Init PROVE PoliciesAreSound
    OBVIOUS
  <2>1. now = 1 /\ \A p \in Policies :
          /\ policy[p] = NoPolicy
          /\ \A c \in ClaimIds : claim[p][c] = NoClaim /\ \A k \in PayoutIds : payout[p][c][k] = NoPayout
    BY DEF Init, PoolInit
  <2>2. ASSUME NEW p \in Policies
        PROVE  ClaimsAreSound(policy[p], claim[p], payout[p])
    BY <2>1, NothingIsSound
  <2>3. PolicyIsSound(NoPolicy, now)
    BY DEF PolicyIsSound, NoPolicy, NONE
  <2> QED
    BY <2>1, <2>2, <2>3 DEF PoliciesAreSound
<1>2. TypeOK /\ TypeOK' /\ PoliciesAreSound /\ [Next]_vars => PoliciesAreSound'
  <2> SUFFICES ASSUME TypeOK, TypeOK', PoliciesAreSound, [Next]_vars
               PROVE  PoliciesAreSound'
    OBVIOUS
  <2>1. CASE PoolNext /\ UNCHANGED productVars
    <3>1. now' \in {now, now + 1}
      BY <2>1 DEF PoolNext, CreateBundle, ExtendBundle, Stake, Unstake, LockBundle,
         UnlockBundle, CloseBundle, WithdrawBundleFees, WithdrawPoolFees, WithdrawProductFees,
         SetMaxBalanceAmount, FundPoolWallet, DefundPoolWallet, Tick
    <3> QED
      BY <2>1, <3>1, PoolStepKeepsSound DEF productVars
  <2>2. CASE RiskNext
    BY <2>2, PoolStepKeepsSound DEF RiskNext, CreateRisk, LockRisk, UnlockRisk, CloseRisk
  <2>3. CASE ApplicationNext
    BY <2>3, ApplicationStepKeepsSound
  <2>4. CASE PolicyNext
    BY <2>4, PolicyStepKeepsSound
  <2>5. CASE ClaimNext
    BY <2>5, ClaimStepKeepsSound
  <2>6. CASE UNCHANGED vars
    BY <2>6, PoolStepKeepsSound DEF vars, productVars
  <2> QED
    BY <2>1, <2>2, <2>3, <2>4, <2>5, <2>6 DEF Next
<1> QED
  BY <1>1, <1>2, TypeCorrect, PTL DEF Spec

LEMMA SoundClaimsAreWithinCover ==
  ASSUME TypeOK, PoliciesAreSound
  PROVE  ClaimsWithinCover
<1> SUFFICES ASSUME NEW p \in Policies
             PROVE  /\ policy[p].claimAmount <= policy[p].sumInsured
                    /\ policy[p].claimAmount = ConfirmedTotal(claim[p])
                    /\ policy[p].payoutAmount = PaidTotal(claim[p])
                    /\ policy[p].payoutAmount <= policy[p].claimAmount
                    /\ \A c \in ClaimIds :
                         /\ claim[p][c].paidAmount <= claim[p][c].claimAmount
                         /\ claim[p][c].state = "CLOSED" => claim[p][c].paidAmount = claim[p][c].claimAmount
                         /\ claim[p][c].paidAmount = PayoutsPaid(payout[p][c])
  BY DEF ClaimsWithinCover, ConfirmedTotal, ConfirmedAmount, PaidTotal, PayoutsPaid
<1>1. ClaimsAreSound(policy[p], claim[p], payout[p]) /\ claim[p] \in [ClaimIds -> ClaimType]
  BY PolicyParts
<1>2. /\ policy[p].claimAmount <= policy[p].sumInsured
      /\ policy[p].claimAmount = ConfirmedTotal(claim[p])
      /\ policy[p].payoutAmount = PaidTotal(claim[p])
      /\ \A c \in ClaimIds : ClaimIsSound(claim[p][c], payout[p][c])
  BY <1>1 DEF ClaimsAreSound
<1>3. PaidTotal(claim[p]) <= ConfirmedTotal(claim[p])
  <2> DEFINE a == [c \in ClaimIds |-> claim[p][c].paidAmount]
             b == [c \in ClaimIds |-> ConfirmedAmount(claim[p][c])]
  <2>1. MaxClaims \in Nat /\ ClaimIds = 1..MaxClaims
    BY PolicyFlowAssumption DEF ClaimIds
  <2>2. ASSUME NEW c \in ClaimIds
        PROVE  a[c] \in Int /\ b[c] \in Int /\ a[c] <= b[c]
    <3>1. claim[p][c].paidAmount \in Nat /\ claim[p][c].claimAmount \in Nat
      BY <1>1 DEF ClaimType
    <3>2. ClaimIsSound(claim[p][c], payout[p][c])
      BY <1>2
    <3> QED
      BY <3>1, <3>2 DEF ClaimIsSound, ConfirmedAmount
  <2>3. PaidTotal(claim[p]) = SumUpTo(a, MaxClaims) /\ ConfirmedTotal(claim[p]) = SumUpTo(b, MaxClaims)
    BY DEF PaidTotal, ConfirmedTotal
  <2> HIDE DEF a, b
  <2> QED
    BY <2>1, <2>2, <2>3, SumIsMonotone
<1> QED
  BY <1>2, <1>3 DEF ClaimIsSound

\* Payouts never exceed their claim nor confirmed claims the sum insured, and
\* the sums kept with policies and claims are the sums of what they summarize
\* (ClaimService, PolicyInfo.claimAmount and payoutAmount).
THEOREM ClaimsStayWithinCover == Spec => []ClaimsWithinCover
<1>1. TypeOK /\ PoliciesAreSound => ClaimsWithinCover
  BY SoundClaimsAreWithinCover
<1> QED
  BY <1>1, TypeCorrect, PoliciesStaySound, PTL

\* The counters that gate closing a policy and cancelling a claim count the
\* open claims and payouts (PolicyInfo.openClaimsCount, ClaimInfo.openPayoutsCount).
THEOREM OpenCountsStayCorrect == Spec => []OpenCountsMatch
<1>1. PoliciesAreSound => OpenCountsMatch
  BY DEF PoliciesAreSound, ClaimsAreSound, ClaimIsSound, OpenCountsMatch, OpenClaims, OpenPayouts,
         OpenClaimStates
<1> QED
  BY <1>1, PoliciesStaySound, PTL

\* A claim that is paid in full and expects no payout is closed unless one of its
\* payouts was cancelled (processPayout closes claims, cancelPayout does not).
THEOREM PaidClaimsGetClosed == Spec => []PaidClaimsAreClosed
<1>1. PoliciesAreSound => PaidClaimsAreClosed
  BY DEF PoliciesAreSound, ClaimsAreSound, ClaimIsSound, PaidClaimsAreClosed
<1> QED
  BY <1>1, PoliciesStaySound, PTL

----------------------------------------------------------------------------
(* What the transactions book.                                             *)

\* The book of bundle b changes by these amounts, the other bundles' do not.
Booked(b, balance, fees, locked) ==
  /\ bundleBook'[b].balance = bundleBook[b].balance + balance
  /\ bundleBook'[b].fees = bundleBook[b].fees + fees
  /\ bundleBook'[b].locked = bundleBook[b].locked + locked
  /\ \A c \in Bundles : c # b => bundleBook'[c] = bundleBook[c]

\* The pool's book changes, and its wallet with it.
PoolBooked(balance, fees) ==
  /\ poolBook'.balance = poolBook.balance + balance
  /\ poolBook'.fees = poolBook.fees + fees
  /\ ~IsExternallyManaged => poolWallet' = poolWallet + balance

\* The product's book holds fees only.
ProductBooked(fees) ==
  /\ productBook'.balance = productBook.balance + fees
  /\ productBook'.fees = productBook.fees + fees
  /\ productWallet' = productWallet + fees

LEMMA IncreaseValues ==
  ASSUME NEW book \in BookType, NEW amount, NEW fee
  PROVE  /\ Increase(book, amount, fee).balance = book.balance + amount + fee
         /\ Increase(book, amount, fee).fees = book.fees + fee
         /\ Increase(book, amount, fee).locked = book.locked
  BY DEF BookType, Increase

LEMMA DecreaseValues ==
  ASSUME NEW book \in BookType, NEW amount, NEW fee
  PROVE  /\ Decrease(book, amount, fee).balance = book.balance - (amount + fee)
         /\ Decrease(book, amount, fee).fees = book.fees - fee
         /\ Decrease(book, amount, fee).locked = book.locked
  BY DEF BookType, Decrease

LEMMA BookTypes ==
  ASSUME TypeOK
  PROVE  /\ poolBook \in BookType /\ productBook \in BookType
         /\ bundleBook \in [Bundles -> BookType]
         /\ poolBook.balance \in Nat /\ poolBook.fees \in Nat
         /\ productBook.balance \in Nat /\ productBook.fees \in Nat
         /\ poolWallet \in Nat /\ productWallet \in Nat /\ tvl \in Nat
         /\ \A b \in Bundles : /\ bundleBook[b].balance \in Nat
                               /\ bundleBook[b].fees \in Nat
                               /\ bundleBook[b].locked \in Nat
  BY DEF TypeOK, PoolTypeOK, BookType

LEMMA StakeBooks ==
  ASSUME TypeOK, NEW b \in Bundles, NEW a \in Nat, Stake(b, a)
  PROVE  \E fee \in 0..a : /\ Booked(b, a - fee, 0, 0) /\ PoolBooked(a, fee)
                           /\ UNCHANGED <<productBook, productWallet, tvl>>
<1> DEFINE fee == FeeAmount(StakingFee, a)
<1>1. fee \in Nat
  BY FeeAmountType, BundlePoolAssumption
<1>2. /\ fee <= a
      /\ poolBook' = Increase(poolBook, a - fee, fee)
      /\ bundleBook' = [bundleBook EXCEPT ![b] = Increase(bundleBook[b], a - fee, 0)]
      /\ UNCHANGED <<productBook, productWallet, tvl>>
      /\ ~IsExternallyManaged => poolWallet' = poolWallet + a
  BY DEF Stake
<1> HIDE DEF fee
<1>3. a - fee \in Int /\ fee \in 0..a
  BY <1>1, <1>2
<1>4. /\ poolBook'.balance = poolBook.balance + (a - fee) + fee
      /\ poolBook'.fees = poolBook.fees + fee
  BY <1>2, BookTypes, IncreaseValues
<1>5. PoolBooked(a, fee)
  BY <1>1, <1>2, <1>3, <1>4, BookTypes DEF PoolBooked
<1>6. /\ bundleBook'[b].balance = bundleBook[b].balance + (a - fee) + 0
      /\ bundleBook'[b].fees = bundleBook[b].fees + 0
      /\ bundleBook'[b].locked = bundleBook[b].locked
      /\ \A c \in Bundles : c # b => bundleBook'[c] = bundleBook[c]
  BY <1>1, <1>2, <1>3, BookTypes, IncreaseValues
<1>7. Booked(b, a - fee, 0, 0)
  BY <1>1, <1>3, <1>6, BookTypes DEF Booked
<1> QED
  BY <1>2, <1>3, <1>5, <1>7

LEMMA UnstakeBooks ==
  ASSUME TypeOK, NEW b \in Bundles, NEW a \in Int, a >= 0, Unstake(b, a)
  PROVE  /\ a <= Available(bundleBook[b])
         /\ Booked(b, -a, 0, 0) /\ PoolBooked(-a, 0)
         /\ UNCHANGED <<productBook, productWallet, tvl>>
<1>1. /\ poolBook' = Decrease(poolBook, a, 0)
      /\ bundleBook' = [bundleBook EXCEPT ![b] = Decrease(bundleBook[b], a, 0)]
      /\ UNCHANGED <<productBook, productWallet, tvl>>
      /\ ~IsExternallyManaged => poolWallet' = poolWallet - a
      /\ a <= Available(bundleBook[b])
  BY DEF Unstake, CanUnstake
<1>2. poolBook'.balance = poolBook.balance - (a + 0) /\ poolBook'.fees = poolBook.fees - 0
  BY <1>1, BookTypes, DecreaseValues
<1>3. PoolBooked(-a, 0)
  BY <1>1, <1>2, BookTypes DEF PoolBooked
<1>4. /\ bundleBook'[b].balance = bundleBook[b].balance - (a + 0)
      /\ bundleBook'[b].fees = bundleBook[b].fees - 0
      /\ bundleBook'[b].locked = bundleBook[b].locked
      /\ \A c \in Bundles : c # b => bundleBook'[c] = bundleBook[c]
  BY <1>1, BookTypes, DecreaseValues
<1>5. Booked(b, -a, 0, 0)
  BY <1>4, BookTypes DEF Booked
<1> QED
  BY <1>1, <1>3, <1>5

LEMMA CloseBundleBooks ==
  ASSUME TypeOK, NEW b \in Bundles, CloseBundle(b)
  PROVE  /\ Booked(b, -bundleBook[b].balance, -bundleBook[b].fees, 0)
         /\ PoolBooked(-bundleBook[b].balance, 0)
         /\ UNCHANGED <<productBook, productWallet, tvl>>
<1> DEFINE book == bundleBook[b]
           unstaked == book.balance - book.fees
           paidOut == unstaked + book.fees
<1>1. /\ poolBook' = Decrease(poolBook, paidOut, 0)
      /\ bundleBook' = [bundleBook EXCEPT ![b] = Decrease(book, unstaked, book.fees)]
      /\ UNCHANGED <<productBook, productWallet, tvl>>
      /\ poolWallet' = poolWallet - paidOut
  BY DEF CloseBundle
<1>2. /\ book.balance \in Nat /\ book.fees \in Nat /\ book.locked \in Nat
      /\ unstaked \in Int /\ paidOut \in Int /\ paidOut = book.balance
  BY BookTypes
<1>3. book \in BookType
  BY BookTypes
<1>4. unstaked + book.fees = book.balance
  BY <1>2
<1> HIDE DEF book, unstaked, paidOut
<1>5. poolBook'.balance = poolBook.balance - (paidOut + 0) /\ poolBook'.fees = poolBook.fees - 0
  BY <1>1, <1>2, BookTypes, DecreaseValues
<1>6. PoolBooked(-book.balance, 0)
  BY <1>1, <1>2, <1>5, BookTypes DEF PoolBooked
<1>7. /\ bundleBook'[b].balance = book.balance - (unstaked + book.fees)
      /\ bundleBook'[b].fees = book.fees - book.fees
      /\ bundleBook'[b].locked = book.locked
      /\ \A c \in Bundles : c # b => bundleBook'[c] = bundleBook[c]
  BY <1>1, <1>2, <1>3, BookTypes, DecreaseValues
<1>8. Booked(b, -book.balance, -book.fees, 0)
  BY <1>2, <1>4, <1>7 DEF Booked, book
<1> QED
  BY <1>1, <1>6, <1>8 DEF book

LEMMA WithdrawBundleFeesBooks ==
  ASSUME TypeOK, NEW b \in Bundles, NEW a \in Nat, WithdrawBundleFees(b, a)
  PROVE  /\ Booked(b, -a, -a, 0) /\ PoolBooked(-a, 0)
         /\ UNCHANGED <<productBook, productWallet, tvl>>
<1>1. /\ poolBook' = Decrease(poolBook, a, 0)
      /\ bundleBook' = [bundleBook EXCEPT ![b] = Decrease(bundleBook[b], 0, a)]
      /\ UNCHANGED <<productBook, productWallet, tvl>>
      /\ poolWallet' = poolWallet - a
  BY DEF WithdrawBundleFees
<1>2. poolBook'.balance = poolBook.balance - (a + 0) /\ poolBook'.fees = poolBook.fees - 0
  BY <1>1, BookTypes, DecreaseValues
<1>3. PoolBooked(-a, 0)
  BY <1>1, <1>2, BookTypes DEF PoolBooked
<1>4. /\ bundleBook'[b].balance = bundleBook[b].balance - (0 + a)
      /\ bundleBook'[b].fees = bundleBook[b].fees - a
      /\ bundleBook'[b].locked = bundleBook[b].locked
      /\ \A c \in Bundles : c # b => bundleBook'[c] = bundleBook[c]
  BY <1>1, BookTypes, DecreaseValues
<1>5. Booked(b, -a, -a, 0)
  BY <1>4, BookTypes DEF Booked
<1> QED
  BY <1>1, <1>3, <1>5

LEMMA WithdrawComponentFeesBooks ==
  ASSUME TypeOK, NEW a \in Nat
  PROVE  /\ WithdrawPoolFees(a) => /\ PoolBooked(-a, -a)
                                   /\ UNCHANGED <<bundleBook, productBook, productWallet, tvl>>
         /\ WithdrawProductFees(a) => /\ ProductBooked(-a)
                                      /\ UNCHANGED <<bundleBook, poolBook, poolWallet, tvl>>
<1>1. ASSUME WithdrawPoolFees(a)
      PROVE  PoolBooked(-a, -a) /\ UNCHANGED <<bundleBook, productBook, productWallet, tvl>>
  <2>1. /\ poolBook' = Decrease(poolBook, 0, a) /\ poolWallet' = poolWallet - a
        /\ UNCHANGED <<bundleBook, productBook, productWallet, tvl>>
    BY <1>1 DEF WithdrawPoolFees
  <2>2. poolBook'.balance = poolBook.balance - (0 + a) /\ poolBook'.fees = poolBook.fees - a
    BY <2>1, BookTypes, DecreaseValues
  <2> QED
    BY <2>1, <2>2, BookTypes DEF PoolBooked
<1>2. ASSUME WithdrawProductFees(a)
      PROVE  ProductBooked(-a) /\ UNCHANGED <<bundleBook, poolBook, poolWallet, tvl>>
  <2>1. /\ productBook' = Decrease(productBook, 0, a) /\ productWallet' = productWallet - a
        /\ UNCHANGED <<bundleBook, poolBook, poolWallet, tvl>>
    BY <1>2 DEF WithdrawProductFees
  <2>2. productBook'.balance = productBook.balance - (0 + a) /\ productBook'.fees = productBook.fees - a
    BY <2>1, BookTypes, DecreaseValues
  <2> QED
    BY <2>1, <2>2, BookTypes DEF ProductBooked
<1> QED
  BY <1>1, <1>2

LEMMA ClosePolicyBooks ==
  ASSUME TypeOK, NEW p \in Policies, policy[p].bundle \in Bundles, ClosePolicy(p)
  PROVE  LET amount == RemainingCollateral(policy[p])
         IN  /\ amount \in Nat
             /\ Booked(policy[p].bundle, 0, 0, -amount)
             /\ tvl' = tvl - amount
             /\ UNCHANGED <<poolBook, poolWallet, productBook, productWallet>>
<1> DEFINE b == policy[p].bundle
           amount == RemainingCollateral(policy[p])
<1>1. /\ bundleBook' = [bundleBook EXCEPT ![b].locked = @ - amount]
      /\ amount >= 0 /\ tvl' = tvl - amount
      /\ UNCHANGED <<poolBook, poolWallet, productBook, productWallet>>
  BY DEF ClosePolicy, ReleaseCollateral
<1>2. policy[p].sumInsured \in Nat /\ policy[p].claimAmount \in Nat
  BY DEF TypeOK, ProductTypeOK, PolicyType
<1>3. amount \in Nat
  BY <1>1, <1>2 DEF RemainingCollateral
<1> HIDE DEF amount, b
<1>4. /\ bundleBook'[b].balance = bundleBook[b].balance
      /\ bundleBook'[b].fees = bundleBook[b].fees
      /\ bundleBook'[b].locked = bundleBook[b].locked - amount
      /\ \A c \in Bundles : c # b => bundleBook'[c] = bundleBook[c]
  BY <1>1, BookTypes DEF BookType, b
<1>5. b \in Bundles
  BY DEF b
<1>6. Booked(b, 0, 0, -amount)
  BY <1>3, <1>4, <1>5, BookTypes DEF Booked
<1> QED
  BY <1>1, <1>3, <1>6 DEF b, amount

LEMMA CreatePolicyBooks ==
  ASSUME TypeOK, NEW p \in Policies, NEW t, NEW premium, policy[p].bundle \in Bundles,
         CreatePolicy(p, t, premium)
  PROVE  LET s == policy[p].sumInsured
             local == LocalCollateral(CollateralizationLevel, RetentionLevel, s)
         IN  /\ local \in Nat
             /\ CanLock(bundleBook[policy[p].bundle], local)
             /\ Booked(policy[p].bundle, 0, 0, local)
             /\ tvl' = tvl + TotalCollateral(CollateralizationLevel, s)
             /\ UNCHANGED <<poolBook, poolWallet, productBook, productWallet>>
<1> DEFINE b == policy[p].bundle
           s == policy[p].sumInsured
           local == LocalCollateral(CollateralizationLevel, RetentionLevel, s)
<1>1. /\ bundleBook' = [bundleBook EXCEPT ![b].locked = @ + local]
      /\ CanLock(bundleBook[b], local)
      /\ tvl' = tvl + TotalCollateral(CollateralizationLevel, s)
      /\ UNCHANGED <<poolBook, poolWallet, productBook, productWallet>>
  BY DEF CreatePolicy, LockCollateral
<1>2. s \in Nat
  BY DEF TypeOK, ProductTypeOK, PolicyType
<1>3. local \in Nat
  BY <1>2, CollateralType, BundlePoolAssumption
<1> HIDE DEF local, b
<1>4. /\ bundleBook'[b].balance = bundleBook[b].balance
      /\ bundleBook'[b].fees = bundleBook[b].fees
      /\ bundleBook'[b].locked = bundleBook[b].locked + local
      /\ \A c \in Bundles : c # b => bundleBook'[c] = bundleBook[c]
  BY <1>1, BookTypes DEF BookType, b
<1>5. b \in Bundles
  BY DEF b
<1>6. Booked(b, 0, 0, local)
  BY <1>3, <1>4, <1>5, BookTypes DEF Booked
<1> QED
  BY <1>1, <1>3, <1>6 DEF b, local

LEMMA CollectPremiumBooks ==
  ASSUME TypeOK, NEW p \in Policies, NEW t, policy[p].bundle \in Bundles, CollectPremium(p, t)
  PROVE  \E net, bundleFee, poolFee, productFee \in Nat :
           /\ Booked(policy[p].bundle, net + bundleFee, bundleFee, 0)
           /\ PoolBooked(net + bundleFee + poolFee, poolFee)
           /\ ProductBooked(productFee)
           /\ tvl' = tvl
<1> DEFINE b == policy[p].bundle
           net == policy[p].premium.net
           bundleFee == policy[p].premium.bundleFee
           poolFee == policy[p].premium.poolFee
           productFee == policy[p].premium.productFee
<1>1. /\ poolBook' = Increase(poolBook, net + bundleFee, poolFee)
      /\ bundleBook' = [bundleBook EXCEPT ![b] = Increase(bundleBook[b], net, bundleFee)]
      /\ productBook' = Increase(productBook, 0, productFee)
      /\ productWallet' = productWallet + productFee
      /\ poolWallet' = poolWallet + (net + poolFee + bundleFee)
      /\ tvl' = tvl
  BY DEF CollectPremium, ProcessSale, PoolPremium
<1>2. net \in Nat /\ bundleFee \in Nat /\ poolFee \in Nat /\ productFee \in Nat /\ b \in Bundles
  BY DEF TypeOK, ProductTypeOK, PolicyType, PremiumInfos
<1> HIDE DEF b, net, bundleFee, poolFee, productFee
<1>3. /\ poolBook'.balance = poolBook.balance + (net + bundleFee) + poolFee
      /\ poolBook'.fees = poolBook.fees + poolFee
  BY <1>1, BookTypes, IncreaseValues
<1>4. PoolBooked(net + bundleFee + poolFee, poolFee)
  BY <1>1, <1>2, <1>3, BookTypes DEF PoolBooked
<1>5. /\ productBook'.balance = productBook.balance + 0 + productFee
      /\ productBook'.fees = productBook.fees + productFee
  BY <1>1, BookTypes, IncreaseValues
<1>6. ProductBooked(productFee)
  BY <1>1, <1>2, <1>5, BookTypes DEF ProductBooked
<1>7. /\ bundleBook'[b].balance = bundleBook[b].balance + net + bundleFee
      /\ bundleBook'[b].fees = bundleBook[b].fees + bundleFee
      /\ bundleBook'[b].locked = bundleBook[b].locked
      /\ \A c \in Bundles : c # b => bundleBook'[c] = bundleBook[c]
  BY <1>1, <1>2, BookTypes, IncreaseValues
<1>8. Booked(b, net + bundleFee, bundleFee, 0)
  BY <1>2, <1>7, BookTypes DEF Booked
<1> QED
  BY <1>1, <1>2, <1>4, <1>6, <1>8 DEF b

LEMMA ProcessPayoutBooks ==
  ASSUME TypeOK, NEW p \in Policies, NEW c \in ClaimIds, NEW k \in PayoutIds,
         policy[p].bundle \in Bundles, ProcessPayout(p, c, k)
  PROVE  LET amount == payout[p][c][k].amount
         IN  /\ amount \in Nat
             /\ Booked(policy[p].bundle, -amount, 0, -amount)
             /\ PoolBooked(-amount, 0)
             /\ tvl' = tvl - amount
             /\ \E fee \in Nat : ProductBooked(fee)
<1> DEFINE b == policy[p].bundle
           amount == payout[p][c][k].amount
           fee == FeeAmount(ProcessingFee, amount)
<1>1. /\ poolBook' = Decrease(poolBook, amount, 0)
      /\ bundleBook' = [bundleBook EXCEPT ![b] =
           [Decrease(bundleBook[b], amount, 0) EXCEPT !.locked = @ - amount]]
      /\ productBook' = Increase(productBook, 0, fee)
      /\ productWallet' = productWallet + fee
      /\ poolWallet' = poolWallet - amount
      /\ tvl' = tvl - amount
  BY DEF ProcessPayout, ProcessPoolPayout, BookPayoutFee
<1>2. amount \in Nat /\ b \in Bundles
  BY DEF TypeOK, ProductTypeOK, PayoutType
<1>3. fee \in Nat
  BY <1>2, FeeAmountType, BundlePoolAssumption
<1> HIDE DEF b, amount, fee
<1>4. poolBook'.balance = poolBook.balance - (amount + 0) /\ poolBook'.fees = poolBook.fees - 0
  BY <1>1, BookTypes, DecreaseValues
<1>5. PoolBooked(-amount, 0)
  BY <1>1, <1>2, <1>4, BookTypes DEF PoolBooked
<1>6. productBook'.balance = productBook.balance + 0 + fee /\ productBook'.fees = productBook.fees + fee
  BY <1>1, BookTypes, IncreaseValues
<1>7. ProductBooked(fee)
  BY <1>1, <1>3, <1>6, BookTypes DEF ProductBooked
<1>8. /\ bundleBook'[b].balance = bundleBook[b].balance - (amount + 0)
      /\ bundleBook'[b].fees = bundleBook[b].fees - 0
      /\ bundleBook'[b].locked = bundleBook[b].locked - amount
      /\ \A d \in Bundles : d # b => bundleBook'[d] = bundleBook[d]
  BY <1>1, <1>2, BookTypes DEF Decrease, BookType
<1>9. Booked(b, -amount, 0, -amount)
  BY <1>2, <1>8, BookTypes DEF Booked
<1> QED
  BY <1>1, <1>2, <1>3, <1>5, <1>7, <1>9 DEF b, amount

----------------------------------------------------------------------------
(* The books and the wallets.                                              *)

BundleBalances == SumUpTo([b \in Bundles |-> bundleBook[b].balance], MaxBundles)

LEMMA BundleBalancesFollow ==
  ASSUME TypeOK, TypeOK', NEW b \in Bundles, NEW d \in Int, NEW f, NEW l, Booked(b, d, f, l)
  PROVE  BundleBalances \in Int /\ BundleBalances' = BundleBalances + d
<1> DEFINE x == [c \in Bundles |-> bundleBook[c].balance]
           y == [c \in Bundles |-> bundleBook'[c].balance]
<1>1. MaxBundles \in Nat /\ Bundles = 1..MaxBundles
  BY BundlePoolAssumption DEF Bundles
<1>2. bundleBook' \in [Bundles -> BookType]
  BY DEF TypeOK, PoolTypeOK
<1>3. \A c \in 1..MaxBundles : x[c] \in Int /\ y[c] \in Int
  <2>1. ASSUME NEW c \in Bundles
        PROVE  bundleBook[c].balance \in Int /\ bundleBook'[c].balance \in Int
    <3>1. bundleBook'[c] \in BookType
      BY <1>2
    <3> QED
      BY <3>1, BookTypes DEF BookType
  <2> QED
    BY <1>1, <2>1
<1>4. \A c \in 1..MaxBundles : c # b => y[c] = x[c]
  BY <1>1 DEF Booked
<1>5. x[b] \in Int /\ y[b] = x[b] + d
  BY <1>1, <1>3 DEF Booked
<1>6. BundleBalances = SumUpTo(x, MaxBundles) /\ BundleBalances' = SumUpTo(y, MaxBundles)
  BY DEF BundleBalances
<1> HIDE DEF x, y
<1>7. BundleBalances' = BundleBalances + (y[b] - x[b])
  BY <1>1, <1>3, <1>4, <1>6, SumOfUpdated
<1>8. BundleBalances \in Int
  BY <1>1, <1>3, <1>6, SumIsInteger
<1> QED
  BY <1>5, <1>7, <1>8

\* The books of pool and product, with the sum over the bundles named.
BooksAgree ==
  /\ poolBook.balance = BundleBalances + poolBook.fees
  /\ ~IsExternallyManaged => poolWallet = poolBook.balance
  /\ productWallet = productBook.balance
  /\ productBook.fees = productBook.balance

LEMMA BooksAreNamed == BooksMatchWallets <=> BooksAgree
  BY DEF BooksMatchWallets, BooksAgree, BundleBalances

\* What a transaction books on the bundles it books on the pool as well.
LEMMA BookingsAgree ==
  ASSUME TypeOK, TypeOK', BooksAgree, NEW d \in Int, NEW f \in Int, NEW z \in Int,
         BundleBalances \in Int, BundleBalances' = BundleBalances + d,
         PoolBooked(d + f, f), ProductBooked(z)
  PROVE  BooksAgree'
  BY BookTypes DEF BooksAgree, PoolBooked, ProductBooked

LEMMA ProductUntouched ==
  ASSUME TypeOK, UNCHANGED <<productBook, productWallet>>
  PROVE  ProductBooked(0)
  BY BookTypes DEF ProductBooked

LEMMA BundlesUntouched ==
  ASSUME TypeOK, UNCHANGED bundleBook
  PROVE  BundleBalances \in Int /\ BundleBalances' = BundleBalances + 0
<1>1. \A c \in 1..MaxBundles : [b \in Bundles |-> bundleBook[b].balance][c] \in Int
  BY BookTypes DEF Bundles
<1>2. BundleBalances \in Int
  BY <1>1, SumIsInteger, BundlePoolAssumption DEF BundleBalances
<1>3. BundleBalances' = BundleBalances
  BY DEF BundleBalances
<1> QED
  BY <1>2, <1>3

\* Transactions that book nothing: on an externally managed pool tokens may
\* still come and go.
LEMMA NothingBooked ==
  ASSUME BooksAgree, UNCHANGED <<bundleBook, poolBook, productBook, productWallet>>,
         ~IsExternallyManaged => poolWallet' = poolWallet
  PROVE  BooksAgree'
  BY DEF BooksAgree, BundleBalances

LEMMA PoolStepKeepsBooks ==
  ASSUME TypeOK, TypeOK', BooksAgree, PoolNext
  PROVE  BooksAgree'
<1>1. ASSUME NEW b \in Bundles, NEW a \in StakeAmounts, Stake(b, a)
      PROVE  BooksAgree'
  <2>1. a \in Nat
    BY BundlePoolAssumption
  <2>2. PICK fee \in 0..a : /\ Booked(b, a - fee, 0, 0) /\ PoolBooked(a, fee)
                            /\ UNCHANGED <<productBook, productWallet, tvl>>
    BY <1>1, <2>1, StakeBooks
  <2>3. a - fee \in Int /\ fee \in Int /\ (a - fee) + fee = a
    BY <2>1
  <2>4. BundleBalances \in Int /\ BundleBalances' = BundleBalances + (a - fee)
    BY <2>2, <2>3, BundleBalancesFollow
  <2>5. PoolBooked((a - fee) + fee, fee) /\ ProductBooked(0)
    BY <2>2, <2>3, ProductUntouched
  <2> QED
    BY <2>3, <2>4, <2>5, BookingsAgree
<1>2. ASSUME NEW b \in Bundles, NEW a \in StakeAmounts \union {Available(bundleBook[b])}, Unstake(b, a)
      PROVE  BooksAgree'
  <2>1. a \in Int /\ a >= 0
    BY <1>2, BundlePoolAssumption, BookTypes DEF Unstake, CanUnstake, Available
  <2>2. /\ Booked(b, -a, 0, 0) /\ PoolBooked(-a, 0)
        /\ UNCHANGED <<productBook, productWallet, tvl>>
    BY <1>2, <2>1, UnstakeBooks
  <2>3. -a \in Int /\ -a + 0 = -a
    BY <2>1
  <2>4. BundleBalances \in Int /\ BundleBalances' = BundleBalances + (-a)
    BY <2>2, <2>3, BundleBalancesFollow
  <2>5. PoolBooked(-a + 0, 0) /\ ProductBooked(0)
    BY <2>2, <2>3, ProductUntouched
  <2> QED
    BY <2>3, <2>4, <2>5, BookingsAgree
<1>3. ASSUME NEW b \in Bundles, CloseBundle(b)
      PROVE  BooksAgree'
  <2>1. /\ Booked(b, -bundleBook[b].balance, -bundleBook[b].fees, 0)
        /\ PoolBooked(-bundleBook[b].balance, 0)
        /\ UNCHANGED <<productBook, productWallet, tvl>>
    BY <1>3, CloseBundleBooks
  <2>2. -bundleBook[b].balance \in Int /\ -bundleBook[b].balance + 0 = -bundleBook[b].balance
    BY BookTypes
  <2>3. BundleBalances \in Int /\ BundleBalances' = BundleBalances + (-bundleBook[b].balance)
    BY <2>1, <2>2, BundleBalancesFollow
  <2>4. PoolBooked(-bundleBook[b].balance + 0, 0) /\ ProductBooked(0)
    BY <2>1, <2>2, ProductUntouched
  <2> QED
    BY <2>2, <2>3, <2>4, BookingsAgree
<1>4. ASSUME NEW b \in Bundles, NEW a \in 1..bundleBook[b].fees, WithdrawBundleFees(b, a)
      PROVE  BooksAgree'
  <2>1. a \in Nat
    BY BookTypes
  <2>2. /\ Booked(b, -a, -a, 0) /\ PoolBooked(-a, 0)
        /\ UNCHANGED <<productBook, productWallet, tvl>>
    BY <1>4, <2>1, WithdrawBundleFeesBooks
  <2>3. -a \in Int /\ -a + 0 = -a
    BY <2>1
  <2>4. BundleBalances \in Int /\ BundleBalances' = BundleBalances + (-a)
    BY <2>2, <2>3, BundleBalancesFollow
  <2>5. PoolBooked(-a + 0, 0) /\ ProductBooked(0)
    BY <2>2, <2>3, ProductUntouched
  <2> QED
    BY <2>3, <2>4, <2>5, BookingsAgree
<1>5. ASSUME NEW a \in Nat, WithdrawPoolFees(a)
      PROVE  BooksAgree'
  <2>1. PoolBooked(-a, -a) /\ UNCHANGED <<bundleBook, productBook, productWallet, tvl>>
    BY <1>5, WithdrawComponentFeesBooks
  <2>2. PoolBooked(0 + (-a), -a) /\ ProductBooked(0)
    BY <2>1, ProductUntouched
  <2> QED
    BY <2>1, <2>2, BundlesUntouched, BookingsAgree
<1>6. ASSUME NEW a \in Nat, WithdrawProductFees(a)
      PROVE  BooksAgree'
  <2>1. ProductBooked(-a) /\ UNCHANGED <<bundleBook, poolBook, poolWallet, tvl>>
    BY <1>6, WithdrawComponentFeesBooks
  <2>2. PoolBooked(0 + 0, 0)
    BY <2>1, BookTypes DEF PoolBooked
  <2> QED
    BY <2>1, <2>2, BundlesUntouched, BookingsAgree
<1>7. ASSUME \/ \E b \in Bundles, d \in BundleLifetimes : CreateBundle(b, d) \/ ExtendBundle(b, d)
             \/ \E b \in Bundles : LockBundle(b) \/ UnlockBundle(b)
             \/ \E m \in MaxBalanceAmounts : SetMaxBalanceAmount(m)
             \/ \E a \in StakeAmounts : FundPoolWallet(a) \/ DefundPoolWallet(a)
             \/ Tick
      PROVE  BooksAgree'
  <2>1. /\ UNCHANGED <<bundleBook, poolBook, productBook, productWallet>>
        /\ ~IsExternallyManaged => poolWallet' = poolWallet
    BY <1>7 DEF CreateBundle, ExtendBundle, LockBundle, UnlockBundle, SetMaxBalanceAmount,
                FundPoolWallet, DefundPoolWallet, Tick, poolVars
  <2> QED
    BY <2>1, NothingBooked
<1>8. 1..poolBook.fees \subseteq Nat /\ 1..productBook.fees \subseteq Nat
  BY BookTypes
<1> QED
  BY <1>1, <1>2, <1>3, <1>4, <1>5, <1>6, <1>7, <1>8, Zenon DEF PoolNext

LEMMA ProductStepKeepsBooks ==
  ASSUME TypeOK, TypeOK', PoliciesAreSound, BooksAgree, PolicyNext \/ ClaimNext
  PROVE  BooksAgree'
<1>1. ASSUME NEW p \in Policies, NEW t \in Nat, NEW premium, CreatePolicy(p, t, premium)
      PROVE  BooksAgree'
  <2>1. policy[p].bundle \in Bundles
    BY <1>1, PolicyParts DEF CreatePolicy, PolicyIsSound, NONE
  <2>2. PICK l \in Int : /\ Booked(policy[p].bundle, 0, 0, l)
                         /\ UNCHANGED <<poolBook, poolWallet, productBook, productWallet>>
    BY <1>1, <2>1, CreatePolicyBooks
  <2>3. PoolBooked(0 + 0, 0) /\ ProductBooked(0)
    BY <2>2, BookTypes, ProductUntouched DEF PoolBooked
  <2>4. BundleBalances \in Int /\ BundleBalances' = BundleBalances + 0
    BY <2>1, <2>2, BundleBalancesFollow
  <2> QED
    BY <2>3, <2>4, BookingsAgree
<1>2. ASSUME NEW p \in Policies, NEW t \in Nat, CollectPremium(p, t)
      PROVE  BooksAgree'
  <2>1. policy[p].bundle \in Bundles
    BY <1>2, PolicyParts DEF CollectPremium, PolicyIsSound, NONE
  <2>2. PICK net \in Nat, bundleFee \in Nat, poolFee \in Nat, productFee \in Nat :
          /\ Booked(policy[p].bundle, net + bundleFee, bundleFee, 0)
          /\ PoolBooked(net + bundleFee + poolFee, poolFee)
          /\ ProductBooked(productFee)
    BY <1>2, <2>1, CollectPremiumBooks
  <2>3. BundleBalances \in Int /\ BundleBalances' = BundleBalances + (net + bundleFee)
    BY <2>1, <2>2, BundleBalancesFollow
  <2> QED
    BY <2>2, <2>3, BookingsAgree
<1>3. ASSUME NEW p \in Policies, ClosePolicy(p)
      PROVE  BooksAgree'
  <2>1. policy[p].bundle \in Bundles
    BY <1>3, PolicyParts DEF ClosePolicy, PolicyIsCloseable, PolicyIsSound
  <2>2. PICK l \in Int : /\ Booked(policy[p].bundle, 0, 0, l)
                         /\ UNCHANGED <<poolBook, poolWallet, productBook, productWallet>>
    BY <1>3, <2>1, ClosePolicyBooks
  <2>3. PoolBooked(0 + 0, 0) /\ ProductBooked(0)
    BY <2>2, BookTypes, ProductUntouched DEF PoolBooked
  <2>4. BundleBalances \in Int /\ BundleBalances' = BundleBalances + 0
    BY <2>1, <2>2, BundleBalancesFollow
  <2> QED
    BY <2>3, <2>4, BookingsAgree
<1>4. ASSUME NEW p \in Policies, NEW c \in ClaimIds, NEW k \in PayoutIds, ProcessPayout(p, c, k)
      PROVE  BooksAgree'
  <2>1. policy[p].bundle \in Bundles
    <3>1. claim[p][c].state \in OpenClaimStates
      BY <1>4, ProcessPayoutFacts DEF OpenClaimStates
    <3> QED
      BY <3>1, PolicyParts, OpenClaimsNeedPolicy DEF PolicyIsSound
  <2>2. PICK a \in Nat, fee \in Nat : /\ Booked(policy[p].bundle, -a, 0, -a)
                                      /\ PoolBooked(-a, 0) /\ ProductBooked(fee)
    BY <1>4, <2>1, ProcessPayoutBooks
  <2>3. BundleBalances \in Int /\ BundleBalances' = BundleBalances + (-a)
    BY <2>1, <2>2, BundleBalancesFollow
  <2>4. PoolBooked(-a + 0, 0)
    BY <2>2
  <2> QED
    BY <2>2, <2>3, <2>4, BookingsAgree
<1>5. ASSUME NEW p \in Policies, NEW t \in Nat, Activate(p, t) \/ AdjustActivation(p, t) \/ Expire(p, t)
      PROVE  BooksAgree'
  BY <1>5, NothingBooked DEF Activate, AdjustActivation, Expire, poolVars
<1>6. ASSUME NEW p \in Policies,
             \/ \E a \in ClaimAmounts : SubmitClaim(p, a)
             \/ \E c \in ClaimIds :
                  \/ \E a \in ClaimAmounts : ConfirmClaim(p, c, a)
                  \/ DeclineClaim(p, c) \/ RevokeClaim(p, c) \/ CancelConfirmedClaim(p, c)
                  \/ \E a \in PayoutAmounts : CreatePayout(p, c, a)
                  \/ \E k \in PayoutIds : CancelPayout(p, c, k)
      PROVE  BooksAgree'
  BY <1>6, NothingBooked DEF SubmitClaim, ConfirmClaim, DeclineClaim, RevokeClaim,
     CancelConfirmedClaim, CreatePayout, CancelPayout, poolVars
<1>7. CASE PolicyNext
  BY <1>1, <1>2, <1>3, <1>5, <1>7, PolicyNextSteps, Zenon
<1>8. CASE ClaimNext
  BY <1>4, <1>6, <1>8, Zenon DEF ClaimNext
<1> QED
  BY <1>7, <1>8

\* The pool's balance is what its bundles hold plus the pool's fees, and the
\* wallets hold exactly what the books say (AccountingService is called
\* separately for pool, bundle and product; TokenHandler moves the tokens).
THEOREM BooksStayMatched == Spec => []BooksMatchWallets
<1>1. Init => BooksAgree
  <2> SUFFICES ASSUME Init PROVE BooksAgree
    OBVIOUS
  <2>1. \A b \in 1..MaxBundles : [c \in Bundles |-> bundleBook[c].balance][b] = 0
    BY DEF Init, PoolInit, EmptyBook, Bundles
  <2>2. BundleBalances = 0
    BY <2>1, SumOfZeros, BundlePoolAssumption DEF BundleBalances
  <2> QED
    BY <2>2 DEF Init, PoolInit, EmptyBook, BooksAgree
<1>2. TypeOK /\ TypeOK' /\ PoliciesAreSound /\ BooksAgree /\ [Next]_vars => BooksAgree'
  <2> SUFFICES ASSUME TypeOK, TypeOK', PoliciesAreSound, BooksAgree, [Next]_vars
               PROVE  BooksAgree'
    OBVIOUS
  <2>1. CASE PoolNext
    BY <2>1, PoolStepKeepsBooks
  <2>2. CASE PolicyNext \/ ClaimNext
    BY <2>2, ProductStepKeepsBooks
  <2>3. CASE RiskNext \/ ApplicationNext \/ UNCHANGED vars
    BY <2>3, NothingBooked DEF RiskNext, CreateRisk, LockRisk, UnlockRisk, CloseRisk, ApplicationNext,
       CreateApplication, RevokeApplication, DeclineApplication, vars, poolVars
  <2> QED
    BY <2>1, <2>2, <2>3 DEF Next
<1>3. BooksAgree => BooksMatchWallets
  BY BooksAreNamed
<1> QED
  BY <1>1, <1>2, <1>3, TypeCorrect, PoliciesStaySound, PTL DEF Spec

----------------------------------------------------------------------------
(* The total value locked.                                                 *)

TotalLocked == SumUpTo([b \in Bundles |-> bundleBook[b].locked], MaxBundles)

LEMMA TotalLockedFollows ==
  ASSUME TypeOK, TypeOK', NEW b \in Bundles, NEW d, NEW f, NEW l \in Int, Booked(b, d, f, l)
  PROVE  TotalLocked \in Int /\ TotalLocked' = TotalLocked + l
<1> DEFINE x == [c \in Bundles |-> bundleBook[c].locked]
           y == [c \in Bundles |-> bundleBook'[c].locked]
<1>1. MaxBundles \in Nat /\ Bundles = 1..MaxBundles
  BY BundlePoolAssumption DEF Bundles
<1>2. bundleBook' \in [Bundles -> BookType]
  BY DEF TypeOK, PoolTypeOK
<1>3. \A c \in 1..MaxBundles : x[c] \in Int /\ y[c] \in Int
  <2>1. ASSUME NEW c \in Bundles
        PROVE  bundleBook[c].locked \in Int /\ bundleBook'[c].locked \in Int
    <3>1. bundleBook'[c] \in BookType
      BY <1>2
    <3> QED
      BY <3>1, BookTypes DEF BookType
  <2> QED
    BY <1>1, <2>1
<1>4. \A c \in 1..MaxBundles : c # b => y[c] = x[c]
  BY <1>1 DEF Booked
<1>5. x[b] \in Int /\ y[b] = x[b] + l
  BY <1>1, <1>3 DEF Booked
<1>6. TotalLocked = SumUpTo(x, MaxBundles) /\ TotalLocked' = SumUpTo(y, MaxBundles)
  BY DEF TotalLocked
<1> HIDE DEF x, y
<1>7. TotalLocked' = TotalLocked + (y[b] - x[b])
  BY <1>1, <1>3, <1>4, <1>6, SumOfUpdated
<1>8. TotalLocked \in Int
  BY <1>1, <1>3, <1>6, SumIsInteger
<1> QED
  BY <1>5, <1>7, <1>8

\* Unit rates: what a policy is insured for is what is locked for it, here
\* and in the total value locked.
LEMMA FullCollateral ==
  ASSUME FullyCollateralized, NEW s \in Nat
  PROVE  /\ LocalCollateral(CollateralizationLevel, RetentionLevel, s) = s
         /\ TotalCollateral(CollateralizationLevel, s) = s
<1>1. CollateralizationLevel = 100 /\ RetentionLevel = 100
  BY DEF FullyCollateralized, Unit
<1>2. TotalCollateral(CollateralizationLevel, s) = (2 * (100 * s) + 100) \div (2 * 100)
  BY <1>1 DEF TotalCollateral, RoundHalfUp, Unit
<1>3. LocalCollateral(CollateralizationLevel, RetentionLevel, s)
        = (2 * (100 * 100 * s) + 100 * 100) \div (2 * (100 * 100))
  BY <1>1 DEF LocalCollateral, RoundHalfUp, Unit
<1>4. (2 * (100 * s) + 100) \div (2 * 100) = s
  OBVIOUS
<1>5. (2 * (100 * 100 * s) + 100 * 100) \div (2 * (100 * 100)) = s
  OBVIOUS
<1> QED
  BY <1>2, <1>3, <1>4, <1>5

TvlAgrees == tvl = TotalLocked

LEMMA TvlFollows ==
  ASSUME TypeOK, TypeOK', TvlAgrees, NEW b \in Bundles, NEW d, NEW f, NEW l \in Int,
         Booked(b, d, f, l), tvl' = tvl + l
  PROVE  TvlAgrees'
  BY TotalLockedFollows DEF TvlAgrees

LEMMA TvlUntouched ==
  ASSUME TvlAgrees, UNCHANGED <<bundleBook, tvl>>
  PROVE  TvlAgrees'
  BY DEF TvlAgrees, TotalLocked

\* The bookings of the transactions of the pool, by cases.
LEMMA PoolStepBooks ==
  ASSUME TypeOK, PoolNext
  PROVE  /\ tvl' = tvl
         /\ \/ UNCHANGED bundleBook
            \/ \E b \in Bundles :
                 \/ \E a \in Nat : Booked(b, a, 0, 0) \/ Booked(b, -a, -a, 0)
                 \/ \E a \in Nat : a <= Available(bundleBook[b]) /\ Booked(b, -a, 0, 0)
                 \/ /\ CloseBundle(b)
                    /\ Booked(b, -bundleBook[b].balance, -bundleBook[b].fees, 0)
<1> DEFINE Goal == /\ tvl' = tvl
                   /\ \/ UNCHANGED bundleBook
                      \/ \E b \in Bundles :
                           \/ \E a \in Nat : Booked(b, a, 0, 0) \/ Booked(b, -a, -a, 0)
                           \/ \E a \in Nat : a <= Available(bundleBook[b]) /\ Booked(b, -a, 0, 0)
                           \/ /\ CloseBundle(b)
                              /\ Booked(b, -bundleBook[b].balance, -bundleBook[b].fees, 0)
<1>1. ASSUME NEW b \in Bundles, NEW a \in StakeAmounts, Stake(b, a)
      PROVE  Goal
  <2>1. a \in Nat
    BY BundlePoolAssumption
  <2>2. PICK fee \in 0..a : Booked(b, a - fee, 0, 0) /\ tvl' = tvl
    BY <1>1, <2>1, StakeBooks
  <2>3. a - fee \in Nat
    BY <2>1
  <2> QED
    BY <2>2, <2>3
<1>2. ASSUME NEW b \in Bundles, NEW a \in StakeAmounts \union {Available(bundleBook[b])}, Unstake(b, a)
      PROVE  Goal
  <2>1. a \in Int /\ a >= 0
    BY <1>2, BundlePoolAssumption, BookTypes DEF Unstake, CanUnstake, Available
  <2>2. a <= Available(bundleBook[b]) /\ Booked(b, -a, 0, 0) /\ tvl' = tvl
    BY <1>2, <2>1, UnstakeBooks
  <2>3. a \in Nat
    BY <2>1
  <2> QED
    BY <2>2, <2>3
<1>3. ASSUME NEW b \in Bundles, CloseBundle(b)
      PROVE  Goal
  BY <1>3, CloseBundleBooks
<1>4. ASSUME NEW b \in Bundles, NEW a \in 1..bundleBook[b].fees, WithdrawBundleFees(b, a)
      PROVE  Goal
  <2>1. a \in Nat
    BY BookTypes
  <2> QED
    BY <1>4, <2>1, WithdrawBundleFeesBooks
<1>5. ASSUME \/ \E b \in Bundles, d \in BundleLifetimes : CreateBundle(b, d) \/ ExtendBundle(b, d)
             \/ \E b \in Bundles : LockBundle(b) \/ UnlockBundle(b)
             \/ \E a \in 1..poolBook.fees : WithdrawPoolFees(a)
             \/ \E a \in 1..productBook.fees : WithdrawProductFees(a)
             \/ \E m \in MaxBalanceAmounts : SetMaxBalanceAmount(m)
             \/ \E a \in StakeAmounts : FundPoolWallet(a) \/ DefundPoolWallet(a)
             \/ Tick
      PROVE  Goal
  BY <1>5 DEF CreateBundle, ExtendBundle, LockBundle, UnlockBundle, SetMaxBalanceAmount,
     WithdrawPoolFees, WithdrawProductFees, FundPoolWallet, DefundPoolWallet, Tick, poolVars
<1> HIDE DEF Goal
<1>6. Goal
  BY <1>1, <1>2, <1>3, <1>4, <1>5, Zenon DEF PoolNext
<1> QED
  BY <1>6 DEF Goal

\* The handlers of the product that do not touch the books.
LEMMA QuietStepBooks ==
  ASSUME NEW p \in Policies, NEW t \in Nat,
         \/ Activate(p, t) \/ AdjustActivation(p, t) \/ Expire(p, t)
         \/ \E a \in ClaimAmounts : SubmitClaim(p, a)
         \/ \E c \in ClaimIds :
              \/ \E a \in ClaimAmounts : ConfirmClaim(p, c, a)
              \/ DeclineClaim(p, c) \/ RevokeClaim(p, c) \/ CancelConfirmedClaim(p, c)
              \/ \E a \in PayoutAmounts : CreatePayout(p, c, a)
              \/ \E k \in PayoutIds : CancelPayout(p, c, k)
  PROVE  UNCHANGED <<bundleBook, tvl, bundlePolicies>>
  BY DEF Activate, AdjustActivation, Expire, SubmitClaim, ConfirmClaim, DeclineClaim, RevokeClaim,
     CancelConfirmedClaim, CreatePayout, CancelPayout, poolVars

\* A policy that is handled for pay or close has a bundle.
LEMMA HandledPolicyHasBundle ==
  ASSUME TypeOK, TypeOK', PoliciesAreSound, NEW p \in Policies,
         \/ \E t, premium : CreatePolicy(p, t, premium)
         \/ \E t : CollectPremium(p, t)
         \/ ClosePolicy(p)
         \/ \E c \in ClaimIds, k \in PayoutIds : ProcessPayout(p, c, k)
  PROVE  policy[p].bundle \in Bundles /\ policy[p].state \notin {NONE, "CLOSED"}
<1>1. CASE \E c \in ClaimIds, k \in PayoutIds : ProcessPayout(p, c, k)
  <2>1. PICK c \in ClaimIds, k \in PayoutIds : ProcessPayout(p, c, k)
    BY <1>1
  <2>2. claim[p][c].state \in OpenClaimStates
    BY <2>1, ProcessPayoutFacts DEF OpenClaimStates
  <2> QED
    BY <2>2, PolicyParts, OpenClaimsNeedPolicy DEF PolicyIsSound
<1>2. CASE \/ \E t, premium : CreatePolicy(p, t, premium)
           \/ \E t : CollectPremium(p, t)
           \/ ClosePolicy(p)
  <2>1. policy[p].state \notin {NONE, "CLOSED"}
    BY <1>2 DEF CreatePolicy, CollectPremium, ClosePolicy, PolicyIsCloseable, NONE
  <2> QED
    BY <2>1, PolicyParts DEF PolicyIsSound
<1> QED
  BY <1>1, <1>2

\* Retaining and insuring in full, the total value locked that the staking
\* service sees is the collateral locked in all bundles (PoolService calls
\* IStaking.increaseTotalValueLocked and decreaseTotalValueLocked).
THEOREM TvlStaysLockedCollateral == Spec => []TvlIsLockedCollateral
<1>1. CASE ~FullyCollateralized
  <2>1. TvlIsLockedCollateral
    BY <1>1 DEF TvlIsLockedCollateral
  <2> QED
    BY <2>1, PTL
<1>2. CASE FullyCollateralized
  <2>1. Init => TvlAgrees
    <3> SUFFICES ASSUME Init PROVE TvlAgrees
      OBVIOUS
    <3>1. \A b \in 1..MaxBundles : [c \in Bundles |-> bundleBook[c].locked][b] = 0
      BY DEF Init, PoolInit, EmptyBook, Bundles
    <3>2. TotalLocked = 0
      BY <3>1, SumOfZeros, BundlePoolAssumption DEF TotalLocked
    <3> QED
      BY <3>2 DEF Init, PoolInit, TvlAgrees
  <2>2. TypeOK /\ TypeOK' /\ PoliciesAreSound /\ TvlAgrees /\ [Next]_vars => TvlAgrees'
    <3> SUFFICES ASSUME TypeOK, TypeOK', PoliciesAreSound, TvlAgrees, [Next]_vars
                 PROVE  TvlAgrees'
      OBVIOUS
    <3>1. CASE PoolNext
      <4>1. tvl' = tvl /\ tvl \in Int /\ tvl' = tvl + 0
        BY <3>1, PoolStepBooks, BookTypes
      <4>2. UNCHANGED bundleBook \/ \E b \in Bundles : \E d, f : Booked(b, d, f, 0)
        BY <3>1, PoolStepBooks, Zenon
      <4> QED
        BY <4>1, <4>2, TvlUntouched, TvlFollows
    <3>2. ASSUME NEW p \in Policies, NEW t \in Nat, NEW premium, CreatePolicy(p, t, premium)
          PROVE  TvlAgrees'
      <4>1. policy[p].bundle \in Bundles /\ policy[p].sumInsured \in Nat
        BY <3>2, HandledPolicyHasBundle DEF TypeOK, ProductTypeOK, PolicyType
      <4>2. Booked(policy[p].bundle, 0, 0, policy[p].sumInsured) /\ tvl' = tvl + policy[p].sumInsured
        BY <1>2, <3>2, <4>1, CreatePolicyBooks, FullCollateral
      <4> QED
        BY <4>1, <4>2, TvlFollows
    <3>3. ASSUME NEW p \in Policies, NEW t \in Nat, CollectPremium(p, t)
          PROVE  TvlAgrees'
      <4>1. policy[p].bundle \in Bundles
        BY <3>3, HandledPolicyHasBundle
      <4>2. tvl' = tvl + 0 /\ \E d, f : Booked(policy[p].bundle, d, f, 0)
        BY <3>3, <4>1, CollectPremiumBooks, BookTypes
      <4> QED
        BY <4>1, <4>2, TvlFollows
    <3>4. ASSUME NEW p \in Policies, ClosePolicy(p)
          PROVE  TvlAgrees'
      <4>1. policy[p].bundle \in Bundles
        BY <3>4, HandledPolicyHasBundle
      <4>2. PICK a \in Nat : Booked(policy[p].bundle, 0, 0, -a) /\ tvl' = tvl - a
        BY <3>4, <4>1, ClosePolicyBooks
      <4>3. tvl' = tvl + (-a) /\ -a \in Int
        BY <4>2, BookTypes
      <4> QED
        BY <4>1, <4>2, <4>3, TvlFollows
    <3>5. ASSUME NEW p \in Policies, NEW c \in ClaimIds, NEW k \in PayoutIds, ProcessPayout(p, c, k)
          PROVE  TvlAgrees'
      <4>1. policy[p].bundle \in Bundles
        BY <3>5, HandledPolicyHasBundle
      <4>2. PICK a \in Nat : Booked(policy[p].bundle, -a, 0, -a) /\ tvl' = tvl - a
        BY <3>5, <4>1, ProcessPayoutBooks
      <4>3. tvl' = tvl + (-a) /\ -a \in Int
        BY <4>2, BookTypes
      <4> QED
        BY <4>1, <4>2, <4>3, TvlFollows
    <3>6. CASE PolicyNext
      BY <3>2, <3>3, <3>4, <3>6, QuietStepBooks, TvlUntouched, PolicyNextSteps
    <3>7. CASE ClaimNext
      <4>1. \/ UNCHANGED <<bundleBook, tvl, bundlePolicies>>
            \/ \E p \in Policies, c \in ClaimIds, k \in PayoutIds : ProcessPayout(p, c, k)
        BY <3>7, QuietStepBooks DEF ClaimNext
      <4> QED
        BY <3>5, <4>1, TvlUntouched
    <3>8. CASE RiskNext \/ ApplicationNext \/ UNCHANGED vars
      BY <3>8, TvlUntouched DEF RiskNext, CreateRisk, LockRisk, UnlockRisk, CloseRisk, ApplicationNext,
         CreateApplication, RevokeApplication, DeclineApplication, vars, poolVars
    <3> QED
      BY <3>1, <3>6, <3>7, <3>8 DEF Next
  <2>3. TvlAgrees => TvlIsLockedCollateral
    BY DEF TvlAgrees, TvlIsLockedCollateral, TotalLocked
  <2> QED
    BY <2>1, <2>2, <2>3, TypeCorrect, PoliciesStaySound, PTL DEF Spec
<1> QED
  BY <1>1, <1>2

----------------------------------------------------------------------------
(* The collateral.                                                         *)

\* What policy p may still cost bundle b, and what all policies may.
Part(b, p) == IF p \in bundlePolicies[b] THEN OpenCover(policy[p]) ELSE 0
CoverOf(b) == SumUpTo([p \in Policies |-> Part(b, p)], MaxPolicies)

LockedIsCover == \A b \in Bundles : bundleBook[b].locked = CoverOf(b)

LEMMA PartsAreIntegers ==
  ASSUME TypeOK
  PROVE  \A b \in Bundles, p \in Policies : Part(b, p) \in Int
  BY DEF TypeOK, ProductTypeOK, PolicyType, Part, OpenCover

\* Only the part of policy p in bundle b changes.
OnePart(b, p, d) ==
  /\ Part(b, p)' = Part(b, p) + d
  /\ \A c \in Bundles : \A q \in Policies : (c # b \/ q # p) => Part(c, q)' = Part(c, q)

LEMMA CoverFollows ==
  ASSUME TypeOK, TypeOK', NEW b \in Bundles, NEW p \in Policies, NEW d \in Int, OnePart(b, p, d)
  PROVE  /\ CoverOf(b) \in Int /\ CoverOf(b)' = CoverOf(b) + d
         /\ \A c \in Bundles : c # b => CoverOf(c)' = CoverOf(c)
<1> DEFINE x(c) == [q \in Policies |-> Part(c, q)]
           y(c) == [q \in Policies |-> Part(c, q)']
<1>1. MaxPolicies \in Nat /\ Policies = 1..MaxPolicies
  BY PolicyFlowAssumption DEF Policies
<1>2. \A c \in Bundles : \A q \in Policies : Part(c, q) \in Int
  BY PartsAreIntegers
<1>3. \A c \in Bundles : \A q \in Policies : Part(c, q)' \in Int
  <2> SUFFICES ASSUME NEW c \in Bundles, NEW q \in Policies
               PROVE  Part(c, q)' \in Int
    OBVIOUS
  <2>1. policy'[q] \in PolicyType
    BY DEF TypeOK, ProductTypeOK
  <2> QED
    BY <2>1 DEF Part, OpenCover, PolicyType
<1>4. \A c \in Bundles : CoverOf(c) = SumUpTo(x(c), MaxPolicies) /\ CoverOf(c)' = SumUpTo(y(c), MaxPolicies)
  BY DEF CoverOf
<1>5. ASSUME NEW c \in Bundles
      PROVE  \A q \in 1..MaxPolicies : x(c)[q] \in Int /\ y(c)[q] \in Int
  BY <1>1, <1>2, <1>3
<1>6. ASSUME NEW c \in Bundles, c # b
      PROVE  \A q \in 1..MaxPolicies : y(c)[q] = x(c)[q]
  BY <1>1, <1>6 DEF OnePart
<1>7. \A q \in 1..MaxPolicies : q # p => y(b)[q] = x(b)[q]
  BY <1>1 DEF OnePart
<1>8. y(b)[p] = x(b)[p] + d /\ x(b)[p] \in Int
  BY <1>2 DEF OnePart
<1> HIDE DEF x, y
<1>9. SumUpTo(y(b), MaxPolicies) = SumUpTo(x(b), MaxPolicies) + (y(b)[p] - x(b)[p])
  BY <1>1, <1>5, <1>7, SumOfUpdated
<1>10. SumUpTo(x(b), MaxPolicies) \in Int
  BY <1>1, <1>5, SumIsInteger
<1>11. ASSUME NEW c \in Bundles, c # b
       PROVE  SumUpTo(y(c), MaxPolicies) = SumUpTo(x(c), MaxPolicies)
  BY <1>1, <1>6, <1>11, SumOfEqual
<1> QED
  BY <1>4, <1>8, <1>9, <1>10, <1>11

\* What is locked and what it is locked for change together.
LEMMA CollateralFollows ==
  ASSUME TypeOK, TypeOK', LockedIsCover, NEW b \in Bundles, NEW p \in Policies, NEW d \in Int,
         NEW x, NEW y, OnePart(b, p, d), Booked(b, x, y, d)
  PROVE  LockedIsCover'
<1>1. /\ CoverOf(b)' = CoverOf(b) + d
      /\ \A c \in Bundles : c # b => CoverOf(c)' = CoverOf(c)
  BY CoverFollows
<1>2. \A c \in Bundles : bundleBook'[c].locked = CoverOf(c)'
  BY <1>1 DEF LockedIsCover, Booked
<1> QED
  BY <1>2 DEF LockedIsCover

\* Neither the locked amounts nor the parts of the policies change.
LEMMA CollateralUntouched ==
  ASSUME LockedIsCover,
         \A b \in Bundles : bundleBook'[b].locked = bundleBook[b].locked,
         \A b \in Bundles : \A p \in Policies : Part(b, p)' = Part(b, p)
  PROVE  LockedIsCover'
<1>1. \A b \in Bundles : CoverOf(b)' = CoverOf(b)
  BY DEF CoverOf
<1>2. \A b \in Bundles : bundleBook'[b].locked = CoverOf(b)'
  BY <1>1 DEF LockedIsCover
<1> QED
  BY <1>2 DEF LockedIsCover

\* Nothing is paid for a policy without claims.
LEMMA UnclaimedPaysNothing ==
  ASSUME NEW info \in PolicyType, NEW cls, NEW pays, NEW t,
         PolicyIsSound(info, t), ClaimsAreSound(info, cls, pays), info.activatedAt = 0
  PROVE  info.payoutAmount = 0
<1> DEFINE a == [c \in ClaimIds |-> cls[c].paidAmount]
<1>1. info.claimsCount = 0
  BY DEF PolicyIsSound
<1>2. \A c \in ClaimIds : cls[c] = NoClaim
  BY <1>1 DEF ClaimsAreSound, ClaimIds
<1>3. \A c \in 1..MaxClaims : a[c] = 0
  BY <1>2 DEF NoClaim, ClaimIds
<1>4. PaidTotal(cls) = SumUpTo(a, MaxClaims)
  BY DEF PaidTotal
<1> HIDE DEF a
<1> QED
  BY <1>3, <1>4, SumOfZeros, PolicyFlowAssumption DEF ClaimsAreSound

\* When no claim is open, all that was confirmed is paid.
LEMMA SettledPolicyIsPaid ==
  ASSUME NEW info, NEW cls \in [ClaimIds -> ClaimType], NEW pays,
         ClaimsAreSound(info, cls, pays), info.openClaimsCount = 0
  PROVE  info.claimAmount = info.payoutAmount
<1> DEFINE a == [c \in ClaimIds |-> cls[c].paidAmount]
           b == [c \in ClaimIds |-> ConfirmedAmount(cls[c])]
<1>1. OpenClaims(cls) = {}
  BY OpenClaimsAreFinite, FS_EmptySet DEF ClaimsAreSound
<1>2. ASSUME NEW c \in ClaimIds
      PROVE  cls[c].paidAmount = ConfirmedAmount(cls[c])
  <2>1. cls[c].state \notin OpenClaimStates
    BY <1>1 DEF OpenClaims
  <2>2. ClaimIsSound(cls[c], pays[c])
    BY DEF ClaimsAreSound
  <2> QED
    BY <2>1, <2>2 DEF ClaimIsSound, ConfirmedAmount, WasConfirmed, OpenClaimStates
<1>3. \A c \in 1..MaxClaims : a[c] = b[c]
  BY <1>2 DEF ClaimIds
<1>4. PaidTotal(cls) = SumUpTo(a, MaxClaims) /\ ConfirmedTotal(cls) = SumUpTo(b, MaxClaims)
  BY DEF PaidTotal, ConfirmedTotal
<1> HIDE DEF a, b
<1>5. PaidTotal(cls) = ConfirmedTotal(cls)
  BY <1>3, <1>4, SumOfEqual, PolicyFlowAssumption
<1> QED
  BY <1>5 DEF ClaimsAreSound

LEMMA OtherPartsUntouched ==
  ASSUME NEW b \in Bundles, NEW p \in Policies,
         \A q \in Policies : q # p => policy'[q] = policy[q],
         \A c \in Bundles : c # b => bundlePolicies'[c] = bundlePolicies[c] /\ p \notin bundlePolicies[c],
         bundlePolicies'[b] \ {p} = bundlePolicies[b] \ {p}
  PROVE  \A c \in Bundles : \A q \in Policies : (c # b \/ q # p) => Part(c, q)' = Part(c, q)
<1> SUFFICES ASSUME NEW c \in Bundles, NEW q \in Policies, c # b \/ q # p
             PROVE  Part(c, q)' = Part(c, q)
  OBVIOUS
<1>1. CASE q # p
  <2>1. q \in bundlePolicies'[c] <=> q \in bundlePolicies[c]
    BY <1>1
  <2> QED
    BY <1>1, <2>1 DEF Part
<1>2. CASE q = p /\ c # b
  BY <1>2 DEF Part
<1> QED
  BY <1>1, <1>2

LEMMA CreatePolicyPart ==
  ASSUME TypeOK, TypeOK', PoliciesAreSound, LinkedPoliciesAreInForce, ActivatesOnlyCollateralized,
         NEW p \in Policies, NEW t \in Nat, NEW premium, CreatePolicy(p, t, premium),
         NEW b \in Bundles, b = policy[p].bundle
  PROVE  /\ OnePart(b, p, policy[p].sumInsured)
         /\ policy[p].state = "APPLIED"
         /\ policy'[p].state = "COLLATERALIZED" /\ policy'[p].bundle = policy[p].bundle
         /\ OpenCover(policy'[p]) = policy[p].sumInsured
         /\ \A q \in Policies : q # p => policy'[q] = policy[q]
<1>1. /\ policy[p] \in PolicyType /\ policy'[p] \in PolicyType
      /\ PolicyIsSound(policy[p], now) /\ ClaimsAreSound(policy[p], claim[p], payout[p])
      /\ bundlePolicies \in [Bundles -> SUBSET Policies]
      /\ policy \in [Policies -> PolicyType]
  BY PolicyParts DEF TypeOK, ProductTypeOK, PoolTypeOK
<1>2. /\ policy[p].state = "APPLIED" /\ b \in Bundles
      /\ bundlePolicies' = [bundlePolicies EXCEPT ![b] = @ \union {p}]
      /\ \A q \in Policies : q # p => policy'[q] = policy[q]
      /\ policy'[p].state = "COLLATERALIZED"
  <2>1. /\ policy[p].state = "APPLIED"
        /\ bundlePolicies' = [bundlePolicies EXCEPT ![b] = @ \union {p}]
        /\ \A q \in Policies : q # p => policy'[q] = policy[q]
    BY <1>1 DEF CreatePolicy
  <2>2. policy' = [policy EXCEPT ![p] = [Covered(policy[p], t) EXCEPT
           !.state = "COLLATERALIZED", !.premium = premium, !.premiumState = "EXPECTED"]]
    BY DEF CreatePolicy, Covered
  <2>3. Covered(policy[p], t) \in PolicyType
    BY <1>1, CoveredFacts DEF CreatePolicy
  <2>4. policy'[p] = [Covered(policy[p], t) EXCEPT
           !.state = "COLLATERALIZED", !.premium = premium, !.premiumState = "EXPECTED"]
    BY <1>1, <2>2
  <2>5. policy'[p].state = "COLLATERALIZED"
    BY <2>3, <2>4 DEF PolicyType
  <2> QED
    BY <1>1, <2>1, <2>5 DEF PolicyIsSound, NONE
<1>3. SameAmounts(policy[p], policy'[p])
  BY PolicyStepKeepsPolicy
<1>4. policy[p].payoutAmount = 0
  <2>1. policy[p].activatedAt = 0
    BY <1>1, <1>2 DEF PolicyIsSound, PolicyType, Times
  <2> QED
    BY <1>1, <2>1, UnclaimedPaysNothing
<1>5. OpenCover(policy'[p]) = policy[p].sumInsured
  BY <1>1, <1>3, <1>4 DEF OpenCover, SameAmounts, PolicyType
<1>6. \A c \in Bundles : p \notin bundlePolicies[c]
  BY <1>2 DEF LinkedPoliciesAreInForce
<1>7. Part(b, p) = 0 /\ Part(b, p)' = policy[p].sumInsured
  BY <1>1, <1>2, <1>5, <1>6 DEF Part
<1>8. /\ \A c \in Bundles : c # b => bundlePolicies'[c] = bundlePolicies[c]
      /\ bundlePolicies'[b] \ {p} = bundlePolicies[b] \ {p}
  BY <1>1, <1>2
<1>9. \A c \in Bundles : \A q \in Policies : (c # b \/ q # p) => Part(c, q)' = Part(c, q)
  BY <1>2, <1>6, <1>8, OtherPartsUntouched
<1>10. OnePart(b, p, policy[p].sumInsured)
  BY <1>1, <1>7, <1>9 DEF OnePart, PolicyType
<1> QED
  BY <1>2, <1>3, <1>5, <1>10 DEF SameAmounts

LEMMA ClosePolicyPart ==
  ASSUME TypeOK, TypeOK', PoliciesAreSound, LinkedPoliciesAreInForce,
         NEW p \in Policies, ClosePolicy(p), NEW b \in Bundles, b = policy[p].bundle
  PROVE  /\ policy[p].state = "COLLATERALIZED"
         /\ policy'[p].state = "CLOSED"
         /\ RemainingCollateral(policy[p]) = OpenCover(policy[p])
         /\ OnePart(b, p, -OpenCover(policy[p]))
         /\ \A q \in Policies : q # p => policy'[q] = policy[q]
<1>1. /\ policy[p] \in PolicyType /\ policy'[p] \in PolicyType
      /\ PolicyIsSound(policy[p], now) /\ ClaimsAreSound(policy[p], claim[p], payout[p])
      /\ claim[p] \in [ClaimIds -> ClaimType]
      /\ bundlePolicies \in [Bundles -> SUBSET Policies]
      /\ policy \in [Policies -> PolicyType]
  BY PolicyParts DEF TypeOK, ProductTypeOK, PoolTypeOK
<1>2. /\ policy[p].state \notin {NONE, "CLOSED"} /\ policy[p].openClaimsCount = 0
      /\ p \in bundlePolicies[b]
      /\ bundlePolicies' = [bundlePolicies EXCEPT ![b] = @ \ {p}]
      /\ \A q \in Policies : q # p => policy'[q] = policy[q]
      /\ policy'[p].state = "CLOSED"
  BY <1>1 DEF ClosePolicy, PolicyIsCloseable, PolicyType
<1>3. b \in Bundles
  BY <1>1, <1>2 DEF PolicyIsSound
<1>4. policy[p].state = "COLLATERALIZED"
  BY <1>2, <1>3 DEF LinkedPoliciesAreInForce
<1>5. policy[p].claimAmount = policy[p].payoutAmount
  BY <1>1, <1>2, SettledPolicyIsPaid
<1>6. RemainingCollateral(policy[p]) = OpenCover(policy[p]) /\ OpenCover(policy[p]) \in Int
  BY <1>1, <1>5 DEF RemainingCollateral, OpenCover, PolicyType
<1>7. \A c \in Bundles : c # b => p \notin bundlePolicies[c]
  BY DEF LinkedPoliciesAreInForce
<1>8. /\ \A c \in Bundles : c # b => bundlePolicies'[c] = bundlePolicies[c]
      /\ bundlePolicies'[b] \ {p} = bundlePolicies[b] \ {p}
      /\ p \notin bundlePolicies'[b]
  BY <1>1, <1>2, <1>3
<1>9. Part(b, p) = OpenCover(policy[p]) /\ Part(b, p)' = 0
  BY <1>2, <1>8 DEF Part
<1>10. \A c \in Bundles : \A q \in Policies : (c # b \/ q # p) => Part(c, q)' = Part(c, q)
  BY <1>2, <1>3, <1>7, <1>8, OtherPartsUntouched
<1>11. OnePart(b, p, -OpenCover(policy[p]))
  BY <1>6, <1>9, <1>10 DEF OnePart
<1> QED
  BY <1>2, <1>3, <1>4, <1>6, <1>11

LEMMA ProcessPayoutPart ==
  ASSUME TypeOK, TypeOK', PoliciesAreSound, LinkedPoliciesAreInForce, ActivatesOnlyCollateralized,
         NEW p \in Policies, NEW c \in ClaimIds, NEW k \in PayoutIds, ProcessPayout(p, c, k),
         NEW b \in Bundles, b = policy[p].bundle
  PROVE  /\ policy[p].state = "COLLATERALIZED"
         /\ policy'[p].state = "COLLATERALIZED" /\ policy'[p].bundle = policy[p].bundle
         /\ OpenCover(policy'[p]) = OpenCover(policy[p]) - payout[p][c][k].amount
         /\ OnePart(b, p, -payout[p][c][k].amount)
         /\ \A q \in Policies : q # p => policy'[q] = policy[q]
<1> DEFINE a == payout[p][c][k].amount
<1>1. /\ policy[p] \in PolicyType /\ policy'[p] \in PolicyType
      /\ PolicyIsSound(policy[p], now) /\ ClaimsAreSound(policy[p], claim[p], payout[p])
  BY PolicyParts DEF TypeOK, ProductTypeOK
<1>2. /\ a \in Nat /\ claim[p][c].state \in OpenClaimStates
      /\ policy'[p].payoutAmount = policy[p].payoutAmount + a
      /\ policy'[p].sumInsured = policy[p].sumInsured
      /\ policy'[p].state = policy[p].state /\ policy'[p].bundle = b
      /\ \A q \in Policies : q # p => policy'[q] = policy[q]
  BY ProcessPayoutFacts DEF OpenClaimStates
<1>3. policy[p].state \notin {NONE, "CLOSED"} /\ policy[p].activatedAt > 0
  BY <1>1, <1>2, OpenClaimsNeedPolicy
<1>4. policy[p].state = "COLLATERALIZED" /\ b \in Bundles
  BY <1>1, <1>3 DEF PolicyIsSound
<1>5. bundlePolicies' = bundlePolicies
  BY DEF ProcessPayout
<1>6. OpenCover(policy'[p]) = OpenCover(policy[p]) - a /\ OpenCover(policy[p]) \in Int
  BY <1>1, <1>2 DEF OpenCover, PolicyType
<1>7. p \in bundlePolicies[b] /\ \A d \in Bundles : d # b => p \notin bundlePolicies[d]
  BY <1>4 DEF LinkedPoliciesAreInForce
<1>8. Part(b, p) = OpenCover(policy[p]) /\ Part(b, p)' = OpenCover(policy'[p])
  BY <1>5, <1>7 DEF Part
<1>9. \A d \in Bundles : \A q \in Policies : (d # b \/ q # p) => Part(d, q)' = Part(d, q)
  BY <1>2, <1>4, <1>5, <1>7, OtherPartsUntouched
<1> HIDE DEF a
<1>10. OnePart(b, p, -a)
  BY <1>2, <1>6, <1>8, <1>9 DEF OnePart
<1> QED
  BY <1>2, <1>4, <1>6, <1>10 DEF a

\* The other handlers of the product: no policy's open cover changes, nor
\* which policies are in force.
SameCover ==
  /\ UNCHANGED bundlePolicies
  /\ \A p \in Policies :
       /\ policy'[p].state = "COLLATERALIZED" <=> policy[p].state = "COLLATERALIZED"
       /\ policy[p].state = "COLLATERALIZED" =>
            /\ policy'[p].bundle = policy[p].bundle
            /\ OpenCover(policy'[p]) = OpenCover(policy[p])

LEMMA SalesStepKeepsCover ==
  ASSUME TypeOK, PoliciesAreSound, NEW p \in Policies, NEW t \in Nat,
         \/ CollectPremium(p, t) \/ Activate(p, t)
         \/ t > 0 /\ AdjustActivation(p, t)
         \/ Expire(p, t)
  PROVE  SameCover
<1>1. SameAmounts(policy[p], policy'[p])
  BY PolicyStepKeepsPolicy
<1>2. policy[p] \in PolicyType /\ policy \in [Policies -> PolicyType]
  BY DEF TypeOK, ProductTypeOK
<1>3. \A q \in Policies : q # p => policy'[q] = policy[q]
  BY <1>2 DEF CollectPremium, Activate, AdjustActivation, Expire
<1>4. UNCHANGED bundlePolicies
  BY DEF CollectPremium, Activate, AdjustActivation, Expire, poolVars
<1>5. policy'[p].state = policy[p].state
  <2>1. CASE CollectPremium(p, t)
    <3>1. /\ policy'[p] = [Covered(policy[p], t) EXCEPT !.premiumState = "PAID"]
          /\ t > 0 => MayActivate(policy[p], t)
      BY <1>2, <2>1 DEF CollectPremium, Covered
    <3>2. Covered(policy[p], t) \in PolicyType /\ Covered(policy[p], t).state = policy[p].state
      BY <1>2, <3>1, CoveredFacts
    <3> QED
      BY <3>1, <3>2 DEF PolicyType
  <2>2. CASE Activate(p, t)
    <3>1. policy'[p] = Activated(policy[p], t) /\ MayActivate(policy[p], t)
      BY <1>2, <2>2 DEF Activate
    <3> QED
      BY <1>2, <3>1, ActivatedFacts
  <2>3. CASE AdjustActivation(p, t)
    BY <1>2, <2>3 DEF AdjustActivation, PolicyType
  <2>4. CASE Expire(p, t)
    BY <1>2, <2>4 DEF Expire, Expired, PolicyType
  <2> QED
    BY <2>1, <2>2, <2>3, <2>4
<1> QED
  BY <1>1, <1>3, <1>4, <1>5 DEF SameCover, SameAmounts, OpenCover

LEMMA ApplicationStepKeepsCover ==
  ASSUME TypeOK, PoliciesAreSound, ApplicationNext
  PROVE  SameCover
<1>1. UNCHANGED bundlePolicies
  BY DEF ApplicationNext, CreateApplication, RevokeApplication, DeclineApplication, poolVars
<1>2. \A q \in Policies : \/ policy'[q] = policy[q]
                          \/ policy[q].state # "COLLATERALIZED" /\ policy'[q].state # "COLLATERALIZED"
  <2>1. policy \in [Policies -> PolicyType]
    BY DEF TypeOK, ProductTypeOK
  <2>2. ASSUME NEW p \in Policies, NEW r \in Risks, NEW b \in Bundles, NEW s \in SumInsuredAmounts,
               NEW l \in PolicyLifetimes, CreateApplication(p, r, b, s, l)
        PROVE  /\ \A q \in Policies : q # p => policy'[q] = policy[q]
               /\ policy[p].state # "COLLATERALIZED" /\ policy'[p].state # "COLLATERALIZED"
    BY <2>1, <2>2 DEF CreateApplication, NONE, NoPolicy
  <2>3. ASSUME NEW p \in Policies, RevokeApplication(p) \/ DeclineApplication(p)
        PROVE  /\ \A q \in Policies : q # p => policy'[q] = policy[q]
               /\ policy[p].state # "COLLATERALIZED" /\ policy'[p].state # "COLLATERALIZED"
    BY <2>1, <2>3 DEF RevokeApplication, DeclineApplication, PolicyTransitions, PolicyType
  <2>4. PICK p \in Policies :
          /\ \A q \in Policies : q # p => policy'[q] = policy[q]
          /\ policy[p].state # "COLLATERALIZED" /\ policy'[p].state # "COLLATERALIZED"
    BY <2>2, <2>3, ApplicationNext, Zenon DEF ApplicationNext
  <2> SUFFICES ASSUME NEW q \in Policies
               PROVE  \/ policy'[q] = policy[q]
                      \/ policy[q].state # "COLLATERALIZED" /\ policy'[q].state # "COLLATERALIZED"
    OBVIOUS
  <2>5. CASE q = p
    BY <2>4, <2>5
  <2>6. CASE q # p
    BY <2>4, <2>6
  <2> QED
    BY <2>5, <2>6
<1> QED
  BY <1>1, <1>2 DEF SameCover

LEMMA ClaimStepKeepsCover ==
  ASSUME TypeOK, NEW p \in Policies,
         \/ \E a \in ClaimAmounts : SubmitClaim(p, a)
         \/ \E c \in ClaimIds :
              \/ \E a \in ClaimAmounts : ConfirmClaim(p, c, a)
              \/ DeclineClaim(p, c) \/ RevokeClaim(p, c) \/ CancelConfirmedClaim(p, c)
              \/ \E a \in PayoutAmounts : CreatePayout(p, c, a)
              \/ \E k \in PayoutIds : CancelPayout(p, c, k)
  PROVE  SameCover
<1> DEFINE Same == /\ policy'[p].state = policy[p].state /\ policy'[p].bundle = policy[p].bundle
                   /\ policy'[p].sumInsured = policy[p].sumInsured
                   /\ policy'[p].payoutAmount = policy[p].payoutAmount
<1>1. UNCHANGED bundlePolicies
  BY DEF SubmitClaim, ConfirmClaim, DeclineClaim, RevokeClaim, CancelConfirmedClaim, CreatePayout,
     CancelPayout, poolVars
<1>2. policy[p] \in PolicyType /\ policy \in [Policies -> PolicyType]
  BY DEF TypeOK, ProductTypeOK
<1>3. \A q \in Policies : q # p => policy'[q] = policy[q]
  BY <1>2 DEF SubmitClaim, ConfirmClaim, DeclineClaim, RevokeClaim, CancelConfirmedClaim,
     CreatePayout, CancelPayout
<1>4. Same
  <2>1. ASSUME NEW a \in ClaimAmounts, SubmitClaim(p, a) PROVE Same
    BY <1>2, <2>1 DEF SubmitClaim, PolicyType
  <2>2. ASSUME NEW c \in ClaimIds, NEW a \in ClaimAmounts, ConfirmClaim(p, c, a) PROVE Same
    BY <1>2, <2>2 DEF ConfirmClaim, Expired, PolicyType
  <2>3. ASSUME NEW c \in ClaimIds, DeclineClaim(p, c) \/ RevokeClaim(p, c) PROVE Same
    BY <1>2, <2>3 DEF DeclineClaim, RevokeClaim, PolicyType
  <2>4. ASSUME NEW c \in ClaimIds,
               \/ CancelConfirmedClaim(p, c)
               \/ \E a \in PayoutAmounts : CreatePayout(p, c, a)
               \/ \E k \in PayoutIds : CancelPayout(p, c, k)
        PROVE  Same
    BY <2>4 DEF CancelConfirmedClaim, CreatePayout, CancelPayout
  <2> HIDE DEF Same
  <2> QED
    BY <2>1, <2>2, <2>3, <2>4
<1> QED
  BY <1>1, <1>3, <1>4 DEF SameCover, OpenCover

LEMMA SameCoverKeepsParts ==
  ASSUME LinkedPoliciesAreInForce, SameCover
  PROVE  \A b \in Bundles : \A p \in Policies : Part(b, p)' = Part(b, p)
  BY DEF SameCover, Part, LinkedPoliciesAreInForce

LEMMA LockedUntouched ==
  ASSUME TypeOK, NEW b \in Bundles, NEW x, NEW y, Booked(b, x, y, 0)
  PROVE  \A c \in Bundles : bundleBook'[c].locked = bundleBook[c].locked
  BY BookTypes DEF Booked

LEMMA PoolStepKeepsLocked ==
  ASSUME TypeOK, PoolNext
  PROVE  \A c \in Bundles : bundleBook'[c].locked = bundleBook[c].locked
<1>1. CASE UNCHANGED bundleBook
  BY <1>1
<1>2. CASE \E b \in Bundles : \E x, y : Booked(b, x, y, 0)
  BY <1>2, LockedUntouched
<1>3. UNCHANGED bundleBook \/ \E b \in Bundles : \E x, y : Booked(b, x, y, 0)
  BY PoolStepBooks, Zenon
<1> QED
  BY <1>1, <1>2, <1>3

LEMMA StepKeepsCollateral ==
  ASSUME TypeOK, TypeOK', PoliciesAreSound, LinkedPoliciesAreInForce, LockedIsCover,
         FullyCollateralized, ActivatesOnlyCollateralized, [Next]_vars
  PROVE  LockedIsCover'
<1>1. ASSUME SameCover, \A b \in Bundles : bundleBook'[b].locked = bundleBook[b].locked
      PROVE  LockedIsCover'
  BY <1>1, SameCoverKeepsParts, CollateralUntouched
<1>2. CASE PoolNext /\ UNCHANGED productVars
  <2>1. UNCHANGED <<bundlePolicies, policy>>
    BY <1>2 DEF productVars, PoolNext, CreateBundle, ExtendBundle, Stake, Unstake, LockBundle,
       UnlockBundle, CloseBundle, WithdrawBundleFees, WithdrawPoolFees, WithdrawProductFees,
       SetMaxBalanceAmount, FundPoolWallet, DefundPoolWallet, Tick, poolVars
  <2>2. SameCover
    BY <2>1 DEF SameCover
  <2> QED
    BY <1>1, <1>2, <2>2, PoolStepKeepsLocked
<1>3. ASSUME NEW p \in Policies, NEW t \in Nat, NEW premium, CreatePolicy(p, t, premium)
      PROVE  LockedIsCover'
  <2>1. PICK b \in Bundles : b = policy[p].bundle
    BY <1>3, HandledPolicyHasBundle
  <2>2. PICK s \in Nat : s = policy[p].sumInsured
    BY DEF TypeOK, ProductTypeOK, PolicyType
  <2>3. Booked(b, 0, 0, s)
    BY <1>3, <2>1, <2>2, CreatePolicyBooks, FullCollateral
  <2>4. OnePart(b, p, s)
    BY <1>3, <2>1, <2>2, CreatePolicyPart
  <2> QED
    BY <2>2, <2>3, <2>4, CollateralFollows
<1>4. ASSUME NEW p \in Policies, ClosePolicy(p)
      PROVE  LockedIsCover'
  <2>1. PICK b \in Bundles : b = policy[p].bundle
    BY <1>4, HandledPolicyHasBundle
  <2>2. /\ RemainingCollateral(policy[p]) \in Nat
        /\ Booked(b, 0, 0, -RemainingCollateral(policy[p]))
    BY <1>4, <2>1, ClosePolicyBooks
  <2>3. /\ OnePart(b, p, -OpenCover(policy[p]))
        /\ RemainingCollateral(policy[p]) = OpenCover(policy[p])
    BY <1>4, <2>1, ClosePolicyPart
  <2>4. PICK d \in Int : d = -OpenCover(policy[p])
    BY <2>2, <2>3
  <2>5. Booked(b, 0, 0, d) /\ OnePart(b, p, d)
    BY <2>2, <2>3, <2>4
  <2> QED
    BY <2>5, CollateralFollows
<1>5. ASSUME NEW p \in Policies, NEW c \in ClaimIds, NEW k \in PayoutIds, ProcessPayout(p, c, k)
      PROVE  LockedIsCover'
  <2>1. PICK b \in Bundles : b = policy[p].bundle
    BY <1>5, HandledPolicyHasBundle
  <2>2. payout[p][c][k].amount \in Nat /\ Booked(b, -payout[p][c][k].amount, 0, -payout[p][c][k].amount)
    BY <1>5, <2>1, ProcessPayoutBooks
  <2>3. OnePart(b, p, -payout[p][c][k].amount)
    BY <1>5, <2>1, ProcessPayoutPart
  <2>4. PICK d \in Int : d = -payout[p][c][k].amount
    BY <2>2
  <2>5. Booked(b, d, 0, d) /\ OnePart(b, p, d)
    BY <2>2, <2>3, <2>4
  <2> QED
    BY <2>5, CollateralFollows
<1>6. ASSUME NEW p \in Policies, NEW t \in Nat, CollectPremium(p, t)
      PROVE  LockedIsCover'
  <2>1. PICK b \in Bundles : b = policy[p].bundle
    BY <1>6, HandledPolicyHasBundle
  <2>2. \E x, y : Booked(b, x, y, 0)
    BY <1>6, <2>1, CollectPremiumBooks
  <2>3. \A c \in Bundles : bundleBook'[c].locked = bundleBook[c].locked
    BY <2>2, LockedUntouched
  <2> QED
    BY <1>1, <1>6, <2>3, SalesStepKeepsCover
<1>7. ASSUME NEW p \in Policies, NEW t \in Nat,
             \/ Activate(p, t) \/ Expire(p, t)
             \/ t > 0 /\ AdjustActivation(p, t)
      PROVE  LockedIsCover'
  <2>1. SameCover
    BY <1>7, SalesStepKeepsCover
  <2>2. bundleBook' = bundleBook
    BY <1>7, QuietStepBooks
  <2> QED
    BY <1>1, <2>1, <2>2
<1>8. CASE PolicyNext
  <2>1. PICK p \in Policies, t \in Nat :
          \/ \E premium \in Premiums : CreatePolicy(p, t, premium)
          \/ CollectPremium(p, t) \/ Activate(p, t)
          \/ t > 0 /\ AdjustActivation(p, t)
          \/ Expire(p, t) \/ ClosePolicy(p)
    BY <1>8, PolicyNextSteps
  <2> QED
    BY <2>1, <1>3, <1>4, <1>6, <1>7
<1>9. CASE ClaimNext
  <2>1. PICK p \in Policies :
          \/ \E c \in ClaimIds, k \in PayoutIds : ProcessPayout(p, c, k)
          \/ \E a \in ClaimAmounts : SubmitClaim(p, a)
          \/ \E c \in ClaimIds :
               \/ \E a \in ClaimAmounts : ConfirmClaim(p, c, a)
               \/ DeclineClaim(p, c) \/ RevokeClaim(p, c) \/ CancelConfirmedClaim(p, c)
               \/ \E a \in PayoutAmounts : CreatePayout(p, c, a)
               \/ \E k \in PayoutIds : CancelPayout(p, c, k)
    BY <1>9, Zenon DEF ClaimNext
  <2>2. CASE \E c \in ClaimIds, k \in PayoutIds : ProcessPayout(p, c, k)
    BY <1>5, <2>2
  <2>3. CASE ~ \E c \in ClaimIds, k \in PayoutIds : ProcessPayout(p, c, k)
    <3>1. SameCover
      BY <2>1, <2>3, ClaimStepKeepsCover
    <3>2. bundleBook' = bundleBook
      <4>1. 0 \in Nat
        OBVIOUS
      <4> QED
        BY <2>1, <2>3, <4>1, QuietStepBooks
    <3> QED
      BY <1>1, <3>1, <3>2
  <2> QED
    BY <2>2, <2>3
<1>10. CASE ApplicationNext
  <2>1. bundleBook' = bundleBook
    BY <1>10 DEF ApplicationNext, CreateApplication, RevokeApplication, DeclineApplication, poolVars
  <2> QED
    BY <1>1, <1>10, <2>1, ApplicationStepKeepsCover
<1>11. CASE RiskNext \/ UNCHANGED vars
  <2>1. UNCHANGED <<bundleBook, bundlePolicies, policy>>
    BY <1>11 DEF RiskNext, CreateRisk, LockRisk, UnlockRisk, CloseRisk, vars, poolVars, productVars
  <2>2. SameCover
    BY <2>1 DEF SameCover
  <2> QED
    BY <1>1, <2>1, <2>2
<1> QED
  BY <1>2, <1>8, <1>9, <1>10, <1>11 DEF Next

LEMMA NoCoverAtStart ==
  ASSUME Init
  PROVE  LockedIsCover
<1> SUFFICES ASSUME NEW b \in Bundles
             PROVE  bundleBook[b].locked = CoverOf(b)
  BY DEF LockedIsCover
<1>1. \A p \in 1..MaxPolicies : [q \in Policies |-> Part(b, q)][p] = 0
  BY DEF Init, PoolInit, Part, Policies
<1>2. CoverOf(b) = 0
  BY <1>1, SumOfZeros, PolicyFlowAssumption DEF CoverOf
<1> QED
  BY <1>2 DEF Init, PoolInit, EmptyBook

\* When every policy is insured in full with the pool's own capital, what a
\* bundle has locked is the open cover of the policies linked to it, after any
\* mix of sales, claims, payouts and closings (PoolService.lockCollateral,
\* processPayout, releaseCollateral).  The product activates only policies
\* that are collateralized; the run ActivatedApplication shows why that is
\* needed.
THEOREM CollateralStaysSufficient ==
  ASSUME ActivatesOnlyCollateralized
  PROVE  Spec => []CollateralBacksPolicies
<1>1. CASE ~FullyCollateralized
  <2>1. CollateralBacksPolicies
    BY <1>1 DEF CollateralBacksPolicies
  <2> QED
    BY <2>1, PTL
<1>2. CASE FullyCollateralized
  <2>1. Init => LockedIsCover
    BY NoCoverAtStart
  <2>2. /\ TypeOK /\ TypeOK' /\ PoliciesAreSound /\ LinkedPoliciesAreInForce
        /\ LockedIsCover /\ [Next]_vars
        => LockedIsCover'
    BY <1>2, StepKeepsCollateral
  <2>3. LockedIsCover => CollateralBacksPolicies
    BY DEF LockedIsCover, CollateralBacksPolicies, CoverOf, Part
  <2> QED
    BY <2>1, <2>2, <2>3, TypeCorrect, PoliciesStaySound, LinksCorrect, PTL DEF Spec
<1> QED
  BY <1>1, <1>2

----------------------------------------------------------------------------
(* Solvent bundles and policies that can be closed.                        *)

\* Some bundles have the capital for what they have locked.
SolventIn(S) == \A b \in S : Available(bundleBook[b]) >= 0

LEMMA SolventFollows ==
  ASSUME TypeOK, TypeOK', NEW S \in SUBSET Bundles, SolventIn(S),
         NEW b \in Bundles, NEW d \in Int, NEW f \in Int, NEW l \in Int,
         Booked(b, d, f, l), b \in S => Available(bundleBook[b]) + d - f - l >= 0
  PROVE  SolventIn(S)'
<1>1. ASSUME NEW c \in S
      PROVE  Available(bundleBook'[c]) >= 0
  <2>1. CASE c = b
    <3>1. Available(bundleBook'[b]) = Available(bundleBook[b]) + d - f - l
      BY BookTypes DEF Booked, Available
    <3> QED
      BY <2>1, <3>1
  <2>2. CASE c # b
    BY <2>2 DEF Booked, SolventIn
  <2> QED
    BY <2>1, <2>2
<1> QED
  BY <1>1 DEF SolventIn

\* A bundle without policies has nothing locked.
LEMMA UnlinkedIsUnlocked ==
  ASSUME LockedIsCover, NEW b \in Bundles, bundlePolicies[b] = {}
  PROVE  bundleBook[b].locked = 0
<1>1. \A p \in 1..MaxPolicies : [q \in Policies |-> Part(b, q)][p] = 0
  BY DEF Part, Policies
<1>2. CoverOf(b) = 0
  BY <1>1, SumOfZeros, PolicyFlowAssumption DEF CoverOf
<1> QED
  BY <1>2 DEF LockedIsCover

LEMMA PoolStepKeepsSolvent ==
  ASSUME TypeOK, TypeOK', NEW S \in SUBSET Bundles, SolventIn(S), PoolNext,
         \A b \in S : CloseBundle(b) => bundleBook[b].locked = 0
  PROVE  SolventIn(S)'
<1>1. CASE UNCHANGED bundleBook
  BY <1>1 DEF SolventIn
<1>2. ASSUME NEW b \in Bundles, NEW a \in Nat, Booked(b, a, 0, 0) \/ Booked(b, -a, -a, 0)
      PROVE  SolventIn(S)'
  <2>1. Available(bundleBook[b]) \in Int /\ (b \in S => Available(bundleBook[b]) >= 0)
    BY BookTypes DEF Available, SolventIn
  <2>2. /\ b \in S => Available(bundleBook[b]) + a - 0 - 0 >= 0
        /\ b \in S => Available(bundleBook[b]) + (-a) - (-a) - 0 >= 0
        /\ -a \in Int /\ a \in Int
    BY <2>1
  <2> QED
    BY <1>2, <2>2, SolventFollows
<1>3. ASSUME NEW b \in Bundles, NEW a \in Nat, a <= Available(bundleBook[b]), Booked(b, -a, 0, 0)
      PROVE  SolventIn(S)'
  <2>1. Available(bundleBook[b]) \in Int
    BY BookTypes DEF Available
  <2>2. Available(bundleBook[b]) + (-a) - 0 - 0 >= 0 /\ -a \in Int
    BY <1>3, <2>1
  <2> QED
    BY <1>3, <2>2, SolventFollows
<1>4. ASSUME NEW b \in Bundles, CloseBundle(b),
             Booked(b, -bundleBook[b].balance, -bundleBook[b].fees, 0)
      PROVE  SolventIn(S)'
  <2>1. b \in S => bundleBook[b].locked = 0
    BY <1>4
  <2>2. /\ -bundleBook[b].balance \in Int /\ -bundleBook[b].fees \in Int
        /\ b \in S =>
             Available(bundleBook[b]) + (-bundleBook[b].balance) - (-bundleBook[b].fees) - 0 >= 0
    BY <2>1, BookTypes DEF Available
  <2> QED
    BY <1>4, <2>2, SolventFollows
<1>5. \/ UNCHANGED bundleBook
      \/ \E b \in Bundles :
           \/ \E a \in Nat : Booked(b, a, 0, 0) \/ Booked(b, -a, -a, 0)
           \/ \E a \in Nat : a <= Available(bundleBook[b]) /\ Booked(b, -a, 0, 0)
           \/ CloseBundle(b) /\ Booked(b, -bundleBook[b].balance, -bundleBook[b].fees, 0)
  BY PoolStepBooks
<1> QED
  BY <1>1, <1>2, <1>3, <1>4, <1>5, Zenon

LEMMA ProductStepKeepsSolvent ==
  ASSUME TypeOK, TypeOK', NEW S \in SUBSET Bundles, PoliciesAreSound, SolventIn(S),
         PolicyNext \/ ClaimNext
  PROVE  SolventIn(S)'
<1>1. ASSUME NEW p \in Policies, NEW t \in Nat, NEW premium, CreatePolicy(p, t, premium)
      PROVE  SolventIn(S)'
  <2>1. PICK b \in Bundles : b = policy[p].bundle
    BY <1>1, HandledPolicyHasBundle
  <2>2. PICK l \in Nat : CanLock(bundleBook[b], l) /\ Booked(b, 0, 0, l)
    BY <1>1, <2>1, CreatePolicyBooks
  <2>3. Available(bundleBook[b]) + 0 - 0 - l >= 0
    BY <2>2, BookTypes DEF CanLock, Available
  <2> QED
    BY <2>2, <2>3, SolventFollows
<1>2. ASSUME NEW p \in Policies, NEW t \in Nat, CollectPremium(p, t)
      PROVE  SolventIn(S)'
  <2>1. PICK b \in Bundles : b = policy[p].bundle
    BY <1>2, HandledPolicyHasBundle
  <2>2. PICK net \in Nat, fee \in Nat : Booked(b, net + fee, fee, 0)
    BY <1>2, <2>1, CollectPremiumBooks
  <2>3. (b \in S => Available(bundleBook[b]) + (net + fee) - fee - 0 >= 0)
    BY BookTypes DEF Available, SolventIn
  <2> QED
    BY <2>2, <2>3, SolventFollows
<1>3. ASSUME NEW p \in Policies, ClosePolicy(p)
      PROVE  SolventIn(S)'
  <2>1. PICK b \in Bundles : b = policy[p].bundle
    BY <1>3, HandledPolicyHasBundle
  <2>2. PICK a \in Nat : Booked(b, 0, 0, -a)
    BY <1>3, <2>1, ClosePolicyBooks
  <2>3. (b \in S => Available(bundleBook[b]) + 0 - 0 - (-a) >= 0) /\ -a \in Int
    BY BookTypes DEF Available, SolventIn
  <2> QED
    BY <2>2, <2>3, SolventFollows
<1>4. ASSUME NEW p \in Policies, NEW c \in ClaimIds, NEW k \in PayoutIds, ProcessPayout(p, c, k)
      PROVE  SolventIn(S)'
  <2>1. PICK b \in Bundles : b = policy[p].bundle
    BY <1>4, HandledPolicyHasBundle
  <2>2. PICK a \in Nat : Booked(b, -a, 0, -a)
    BY <1>4, <2>1, ProcessPayoutBooks
  <2>3. (b \in S => Available(bundleBook[b]) + (-a) - 0 - (-a) >= 0) /\ -a \in Int
    BY BookTypes DEF Available, SolventIn
  <2> QED
    BY <2>2, <2>3, SolventFollows
<1>5. ASSUME UNCHANGED <<bundleBook, tvl, bundlePolicies>>
      PROVE  SolventIn(S)'
  BY <1>5 DEF SolventIn
<1>6. CASE PolicyNext
  <2>1. PICK p \in Policies, t \in Nat :
          \/ \E premium \in Premiums : CreatePolicy(p, t, premium)
          \/ CollectPremium(p, t) \/ Activate(p, t)
          \/ t > 0 /\ AdjustActivation(p, t)
          \/ Expire(p, t) \/ ClosePolicy(p)
    BY <1>6, PolicyNextSteps
  <2> QED
    BY <2>1, <1>1, <1>2, <1>3, <1>5, QuietStepBooks
<1>7. CASE ClaimNext
  <2>1. \/ UNCHANGED <<bundleBook, tvl, bundlePolicies>>
        \/ \E p \in Policies, c \in ClaimIds, k \in PayoutIds : ProcessPayout(p, c, k)
    BY <1>7, QuietStepBooks DEF ClaimNext
  <2> QED
    BY <2>1, <1>4, <1>5
<1> QED
  BY <1>6, <1>7

\* A bundle can always cover what it has locked and owes as fees: unstaking,
\* closing and fee withdrawals never reach capital that backs a policy
\* (BundleService.unstake, close, withdrawBundleFees, PoolService.processPayout).
THEOREM BundlesStaySolvent ==
  ASSUME ActivatesOnlyCollateralized, FullyCollateralized
  PROVE  Spec => []BundlesSolvent
<1>1. Init => LockedIsCover /\ BundlesSolvent
  BY NoCoverAtStart DEF Init, PoolInit, EmptyBook, BundlesSolvent, Available
<1>2. /\ TypeOK /\ TypeOK' /\ PoliciesAreSound /\ LinkedPoliciesAreInForce
      /\ LockedIsCover /\ BundlesSolvent /\ [Next]_vars
      => LockedIsCover' /\ BundlesSolvent'
  <2> SUFFICES ASSUME TypeOK, TypeOK', PoliciesAreSound, LinkedPoliciesAreInForce,
                      LockedIsCover, BundlesSolvent, [Next]_vars
               PROVE  LockedIsCover' /\ BundlesSolvent'
    OBVIOUS
  <2>1. LockedIsCover'
    BY StepKeepsCollateral
  <2> DEFINE S == Bundles
  <2>2. SolventIn(S) <=> BundlesSolvent
    BY DEF SolventIn, BundlesSolvent
  <2>3. SolventIn(S)' <=> BundlesSolvent'
    BY DEF SolventIn, BundlesSolvent
  <2>4. S \in SUBSET Bundles
    OBVIOUS
  <2> HIDE DEF S
  <2>5. CASE PoolNext
    <3>1. \A b \in S : CloseBundle(b) => bundleBook[b].locked = 0
      BY <2>4, UnlinkedIsUnlocked DEF CloseBundle, BundleIsCloseable
    <3> QED
      BY <2>1, <2>2, <2>3, <2>4, <2>5, <3>1, PoolStepKeepsSolvent
  <2>6. CASE PolicyNext \/ ClaimNext
    BY <2>1, <2>2, <2>3, <2>4, <2>6, ProductStepKeepsSolvent
  <2>7. CASE RiskNext \/ ApplicationNext \/ UNCHANGED vars
    <3>1. UNCHANGED bundleBook
      BY <2>7 DEF RiskNext, CreateRisk, LockRisk, UnlockRisk, CloseRisk, ApplicationNext,
         CreateApplication, RevokeApplication, DeclineApplication, vars, poolVars
    <3> QED
      BY <2>1, <3>1 DEF BundlesSolvent
  <2> QED
    BY <2>5, <2>6, <2>7 DEF Next
<1> QED
  BY <1>1, <1>2, TypeCorrect, PoliciesStaySound, LinksCorrect, PTL DEF Spec

\* Policies and claims change what is booked for a bundle, not the bundle.
LEMMA OnlyPoolChangesBundles ==
  ASSUME RiskNext \/ ApplicationNext \/ PolicyNext \/ ClaimNext \/ UNCHANGED vars
  PROVE  UNCHANGED bundle
<1>1. CASE RiskNext \/ ApplicationNext \/ UNCHANGED vars
  BY <1>1 DEF RiskNext, CreateRisk, LockRisk, UnlockRisk, CloseRisk, ApplicationNext,
     CreateApplication, RevokeApplication, DeclineApplication, vars, poolVars
<1>2. CASE PolicyNext
  BY <1>2 DEF PolicyNext, CreatePolicy, CollectPremium, Activate, AdjustActivation, Expire,
     ClosePolicy, poolVars
<1>3. ASSUME NEW p \in Policies, NEW a \in ClaimAmounts, SubmitClaim(p, a)
      PROVE  UNCHANGED bundle
  BY <1>3 DEF SubmitClaim, poolVars
<1>4. ASSUME NEW p \in Policies, NEW c \in ClaimIds, NEW a \in ClaimAmounts, ConfirmClaim(p, c, a)
      PROVE  UNCHANGED bundle
  BY <1>4 DEF ConfirmClaim, poolVars
<1>5. ASSUME NEW p \in Policies, NEW c \in ClaimIds,
             DeclineClaim(p, c) \/ RevokeClaim(p, c) \/ CancelConfirmedClaim(p, c)
      PROVE  UNCHANGED bundle
  BY <1>5 DEF DeclineClaim, RevokeClaim, CancelConfirmedClaim, poolVars
<1>6. ASSUME NEW p \in Policies, NEW c \in ClaimIds, NEW a \in PayoutAmounts, CreatePayout(p, c, a)
      PROVE  UNCHANGED bundle
  BY <1>6 DEF CreatePayout, poolVars
<1>7. ASSUME NEW p \in Policies, NEW c \in ClaimIds, NEW k \in PayoutIds,
             ProcessPayout(p, c, k) \/ CancelPayout(p, c, k)
      PROVE  UNCHANGED bundle
  BY <1>7 DEF ProcessPayout, CancelPayout, poolVars
<1>8. CASE ClaimNext
  BY <1>3, <1>4, <1>5, <1>6, <1>7, <1>8, Zenon DEF ClaimNext
<1> QED
  BY <1>1, <1>2, <1>8

\* A bundle that has been closed is never opened again.
LEMMA ClosedBundleStaysClosed ==
  ASSUME TypeOK, NEW b \in Bundles, bundle[b].state = "CLOSED", [Next]_vars
  PROVE  bundle'[b].state = "CLOSED"
<1>1. bundle \in [Bundles -> [state : BundleStates, expiredAt : Times]]
  BY DEF TypeOK, PoolTypeOK
<1>2. CASE UNCHANGED bundle
  BY <1>2
<1>3. ASSUME NEW c \in Bundles, NEW d, CreateBundle(c, d)
      PROVE  bundle'[b].state = "CLOSED"
  <2>1. b # c
    BY <1>3 DEF CreateBundle, NONE
  <2> QED
    BY <1>1, <1>3, <2>1 DEF CreateBundle
<1>4. ASSUME NEW c \in Bundles, NEW d, ExtendBundle(c, d)
      PROVE  bundle'[b].state = "CLOSED"
  BY <1>1, <1>4 DEF ExtendBundle
<1>5. ASSUME NEW c \in Bundles, CloseBundle(c)
      PROVE  bundle'[b].state = "CLOSED"
  BY <1>1, <1>5 DEF CloseBundle
<1>6. CASE PoolNext
  BY <1>2, <1>3, <1>4, <1>5, <1>6
  DEF PoolNext, Stake, Unstake, LockBundle, UnlockBundle, WithdrawBundleFees, WithdrawPoolFees,
      WithdrawProductFees, SetMaxBalanceAmount, FundPoolWallet, DefundPoolWallet, Tick, poolVars
<1>7. CASE RiskNext \/ ApplicationNext \/ PolicyNext \/ ClaimNext \/ UNCHANGED vars
  <2>1. UNCHANGED bundle
    BY <1>7, OnlyPoolChangesBundles
  <2> QED
    BY <1>2, <2>1
<1> QED
  BY <1>6, <1>7 DEF Next

OpenBundles == {b \in Bundles : bundle[b].state # "CLOSED"}

\* Bundles that are not closed have the capital for what they have locked and owe as fees
\* whatever the levels of collateralization and retention, and whatever products do: what
\* full collateralization adds is that nothing stays locked in a bundle that is closed.
THEOREM OpenBundlesStaySolvent == Spec => []SolventIn(OpenBundles)
<1>1. Init => SolventIn(OpenBundles)
  BY DEF Init, PoolInit, EmptyBook, SolventIn, OpenBundles, Available
<1>2. /\ TypeOK /\ TypeOK' /\ PoliciesAreSound /\ SolventIn(OpenBundles) /\ [Next]_vars
      => SolventIn(OpenBundles)'
  <2> SUFFICES ASSUME TypeOK, TypeOK', PoliciesAreSound, SolventIn(OpenBundles), [Next]_vars
               PROVE  SolventIn(OpenBundles)'
    OBVIOUS
  <2>1. PICK S \in SUBSET Bundles : S = OpenBundles'
    BY DEF OpenBundles
  <2>2. S \subseteq OpenBundles
    BY <2>1, ClosedBundleStaysClosed DEF OpenBundles
  <2>3. SolventIn(S)
    BY <2>2 DEF SolventIn
  <2>4. CASE PoolNext
    <3>1. \A b \in S : ~CloseBundle(b)
      <4>1. bundle \in [Bundles -> [state : BundleStates, expiredAt : Times]]
        BY DEF TypeOK, PoolTypeOK
      <4>2. \A b \in Bundles : CloseBundle(b) => bundle'[b].state = "CLOSED"
        BY <4>1 DEF CloseBundle
      <4> QED
        BY <2>1, <4>2 DEF OpenBundles
    <3>2. SolventIn(S)'
      BY <2>3, <2>4, <3>1, PoolStepKeepsSolvent
    <3> QED
      BY <2>1, <3>2 DEF SolventIn
  <2>5. CASE PolicyNext \/ ClaimNext
    <3>1. SolventIn(S)'
      BY <2>3, <2>5, ProductStepKeepsSolvent
    <3> QED
      BY <2>1, <3>1 DEF SolventIn
  <2>6. CASE RiskNext \/ ApplicationNext \/ UNCHANGED vars
    <3>1. UNCHANGED bundleBook
      BY <2>6 DEF RiskNext, CreateRisk, LockRisk, UnlockRisk, CloseRisk, ApplicationNext,
         CreateApplication, RevokeApplication, DeclineApplication, vars, poolVars
    <3> QED
      BY <2>1, <2>3, <3>1 DEF SolventIn
  <2> QED
    BY <2>4, <2>5, <2>6 DEF Next
<1> QED
  BY <1>1, <1>2, TypeCorrect, PoliciesStaySound, PTL DEF Spec

LEMMA OpenCoverIsNatural ==
  ASSUME TypeOK, PoliciesAreSound, NEW p \in Policies
  PROVE  OpenCover(policy[p]) \in Nat
<1>1. /\ policy[p].claimAmount <= policy[p].sumInsured
      /\ policy[p].payoutAmount <= policy[p].claimAmount
  BY SoundClaimsAreWithinCover DEF ClaimsWithinCover
<1> QED
  BY <1>1 DEF OpenCover, TypeOK, ProductTypeOK, PolicyType

\* What one policy may still cost is locked, and counted in the total.
LEMMA PartIsLocked ==
  ASSUME TypeOK, PoliciesAreSound, LockedIsCover, TvlAgrees,
         NEW b \in Bundles, NEW p \in Policies
  PROVE  Part(b, p) <= bundleBook[b].locked /\ bundleBook[b].locked <= tvl
<1> DEFINE x == [q \in Policies |-> Part(b, q)]
           y == [c \in Bundles |-> bundleBook[c].locked]
<1>1. \A q \in 1..MaxPolicies : x[q] \in Nat
  BY OpenCoverIsNatural DEF Part, Policies
<1>2. \A c \in 1..MaxBundles : y[c] \in Nat
  BY BookTypes DEF Bundles
<1>3. x[p] = Part(b, p) /\ y[b] = bundleBook[b].locked
  OBVIOUS
<1>4. CoverOf(b) = SumUpTo(x, MaxPolicies) /\ TotalLocked = SumUpTo(y, MaxBundles)
  BY DEF CoverOf, TotalLocked
<1>5. p \in 1..MaxPolicies /\ b \in 1..MaxBundles
  BY DEF Policies, Bundles
<1> HIDE DEF x, y
<1>6. x[p] <= SumUpTo(x, MaxPolicies) /\ y[b] <= SumUpTo(y, MaxBundles)
  BY <1>1, <1>2, <1>5, SummandBelowSum, PolicyFlowAssumption, BundlePoolAssumption
<1> QED
  BY <1>3, <1>4, <1>6 DEF LockedIsCover, TvlAgrees

LEMMA SettledPolicyIsCloseable ==
  ASSUME TypeOK, PoliciesAreSound, LinkedPoliciesAreInForce, LockedIsCover, TvlAgrees,
         NEW p \in Policies, policy[p].state = "COLLATERALIZED", policy[p].activatedAt > 0,
         now >= policy[p].expiredAt,
         \A c \in ClaimIds : claim[p][c].state \in {NONE, "DECLINED", "REVOKED", "CLOSED"}
  PROVE  /\ PolicyIsCloseable(policy[p])
         /\ policy[p].sumInsured - policy[p].claimAmount
              \in 0..bundleBook[policy[p].bundle].locked
         /\ policy[p].sumInsured - policy[p].claimAmount <= tvl
<1>1. /\ PolicyIsSound(policy[p], now) /\ ClaimsAreSound(policy[p], claim[p], payout[p])
      /\ claim[p] \in [ClaimIds -> ClaimType] /\ policy[p] \in PolicyType
  BY PolicyParts
<1>2. policy[p].openClaimsCount = 0
  <2>1. OpenClaims(claim[p]) = {}
    BY DEF OpenClaims, OpenClaimStates, NONE
  <2> QED
    BY <1>1, <2>1, FS_EmptySet DEF ClaimsAreSound
<1>3. PolicyIsCloseable(policy[p])
  BY <1>2 DEF PolicyIsCloseable, NONE
<1>4. policy[p].claimAmount = policy[p].payoutAmount
  BY <1>1, <1>2, SettledPolicyIsPaid
<1>5. PICK b \in Bundles : b = policy[p].bundle
  BY <1>1 DEF PolicyIsSound, NONE
<1>6. Part(b, p) = OpenCover(policy[p])
  BY <1>5 DEF Part, LinkedPoliciesAreInForce
<1>7. /\ OpenCover(policy[p]) \in Nat
      /\ OpenCover(policy[p]) <= bundleBook[b].locked /\ bundleBook[b].locked <= tvl
  BY <1>6, OpenCoverIsNatural, PartIsLocked
<1>8. policy[p].sumInsured - policy[p].claimAmount = OpenCover(policy[p])
  BY <1>4 DEF OpenCover
<1>9. bundleBook[b].locked \in Nat /\ tvl \in Nat
  BY BookTypes
<1>10. /\ OpenCover(policy[p]) \in 0..bundleBook[b].locked
       /\ OpenCover(policy[p]) <= tvl
  BY <1>7, <1>9
<1> QED
  BY <1>3, <1>5, <1>8, <1>10

\* Nothing in the books keeps the collateral of a policy that is over locked
\* for ever: PolicyService.close finds it closeable, and neither the bundle's
\* locked amount nor the total value locked underflows.
THEOREM ClosingStaysPossible ==
  ASSUME ActivatesOnlyCollateralized
  PROVE  Spec => []ClosingIsNeverBlocked
<1>1. ASSUME TypeOK, PoliciesAreSound, LinkedPoliciesAreInForce,
             CollateralBacksPolicies, TvlIsLockedCollateral
      PROVE  ClosingIsNeverBlocked
  <2>1. FullyCollateralized => LockedIsCover /\ TvlAgrees
    BY <1>1 DEF CollateralBacksPolicies, TvlIsLockedCollateral, LockedIsCover, TvlAgrees,
                CoverOf, Part, TotalLocked
  <2> QED
    BY <1>1, <2>1, SettledPolicyIsCloseable DEF ClosingIsNeverBlocked
<1>2. TypeOK /\ PoliciesAreSound /\ LinkedPoliciesAreInForce
        /\ CollateralBacksPolicies /\ TvlIsLockedCollateral => ClosingIsNeverBlocked
  BY <1>1
<1> QED
  BY <1>2, TypeCorrect, PoliciesStaySound, LinksCorrect, CollateralStaysSufficient,
     TvlStaysLockedCollateral, PTL

----------------------------------------------------------------------------
(* Endings.                                                                *)

\* A step that is not about policies changes none.
LEMMA OtherStepsKeepPolicies ==
  ASSUME (PoolNext /\ UNCHANGED productVars) \/ RiskNext \/ UNCHANGED vars
  PROVE  now' \in {now, now + 1} /\ UNCHANGED <<policy, claim, payout>>
<1>1. CASE PoolNext /\ UNCHANGED productVars
  BY <1>1 DEF productVars, PoolNext, CreateBundle, ExtendBundle, Stake, Unstake, LockBundle,
     UnlockBundle, CloseBundle, WithdrawBundleFees, WithdrawPoolFees, WithdrawProductFees,
     SetMaxBalanceAmount, FundPoolWallet, DefundPoolWallet, Tick
<1>2. CASE RiskNext \/ UNCHANGED vars
  BY <1>2 DEF RiskNext, CreateRisk, LockRisk, UnlockRisk, CloseRisk, vars, productVars
<1> QED
  BY <1>1, <1>2

\* The end of an activated policy stays what it is or becomes the block time;
\* only adjusting it may keep it in the future.
EndMoves(p) == policy'[p].expiredAt = policy[p].expiredAt \/ policy'[p].expiredAt = now

LEMMA ClaimStepMovesEnd ==
  ASSUME TypeOK, PoliciesAreSound, NEW p \in Policies, ClaimNext
  PROVE  EndMoves(p) /\ now' = now
<1>1. now \in Nat /\ now > 0 /\ policy \in [Policies -> PolicyType]
  BY DEF TypeOK, PoolTypeOK, ProductTypeOK, PoliciesAreSound, Times
<1>2. ASSUME NEW q \in Policies, NEW a \in ClaimAmounts, SubmitClaim(q, a)
      PROVE  EndMoves(p) /\ now' = now
  BY <1>1, <1>2 DEF SubmitClaim, EndMoves, PolicyType
<1>3. ASSUME NEW q \in Policies, NEW c \in ClaimIds, NEW a \in ClaimAmounts, ConfirmClaim(q, c, a)
      PROVE  EndMoves(p) /\ now' = now
  <2>1. CASE q = p
    <3>1. PICK x : policy'[p] \in {[policy[p] EXCEPT !.claimAmount = x],
                                   [policy[p] EXCEPT !.claimAmount = x, !.expiredAt = now]}
      BY <1>1, <1>3, <2>1 DEF ConfirmClaim, Expired
    <3> QED
      BY <1>1, <1>3, <3>1 DEF ConfirmClaim, EndMoves, PolicyType
  <2>2. CASE q # p
    BY <1>1, <1>3, <2>2 DEF ConfirmClaim, EndMoves
  <2> QED
    BY <2>1, <2>2
<1>4. ASSUME NEW q \in Policies, NEW c \in ClaimIds, DeclineClaim(q, c) \/ RevokeClaim(q, c)
      PROVE  EndMoves(p) /\ now' = now
  BY <1>1, <1>4 DEF DeclineClaim, RevokeClaim, EndMoves, PolicyType
<1>5. ASSUME NEW q \in Policies, NEW c \in ClaimIds,
             \/ CancelConfirmedClaim(q, c)
             \/ \E a \in PayoutAmounts : CreatePayout(q, c, a)
             \/ \E k \in PayoutIds : CancelPayout(q, c, k)
      PROVE  EndMoves(p) /\ now' = now
  BY <1>5 DEF CancelConfirmedClaim, CreatePayout, CancelPayout, EndMoves
<1>6. ASSUME NEW q \in Policies, NEW c \in ClaimIds, NEW k \in PayoutIds, ProcessPayout(q, c, k)
      PROVE  EndMoves(p) /\ now' = now
  <2>1. \E x, y : policy' = [policy EXCEPT ![q] = [policy[q] EXCEPT !.payoutAmount = x, !.openClaimsCount = y]]
    BY <1>6 DEF ProcessPayout
  <2> QED
    BY <1>1, <1>6, <2>1 DEF ProcessPayout, EndMoves, PolicyType
<1> QED
  BY <1>2, <1>3, <1>4, <1>5, <1>6, ClaimNext, Zenon DEF ClaimNext

LEMMA PolicyStepMovesEnd ==
  ASSUME TypeOK, PoliciesAreSound, NEW p \in Policies, PolicyNext, policy[p].activatedAt > 0
  PROVE  now' = now /\ (HasEnded(policy[p]) => EndMoves(p))
<1>1. /\ now \in Nat /\ now > 0 /\ policy \in [Policies -> PolicyType]
      /\ policy[p] \in PolicyType /\ policy[p].activatedAt \in Nat /\ policy[p].expiredAt \in Nat
  BY DEF TypeOK, PoolTypeOK, ProductTypeOK, PoliciesAreSound, Times, PolicyType
<1>2. PICK q \in Policies, t \in Nat :
        \/ \E premium \in Premiums : CreatePolicy(q, t, premium)
        \/ CollectPremium(q, t) \/ Activate(q, t)
        \/ t > 0 /\ AdjustActivation(q, t)
        \/ Expire(q, t) \/ ClosePolicy(q)
  BY PolicyNextSteps
<1>3. now' = now
  BY <1>2 DEF CreatePolicy, CollectPremium, Activate, AdjustActivation, Expire, ClosePolicy
<1>4. CASE q # p
  <2>1. policy'[p] = policy[p]
    BY <1>1, <1>2, <1>4 DEF CreatePolicy, CollectPremium, Activate, AdjustActivation, Expire, ClosePolicy
  <2> QED
    BY <1>3, <2>1 DEF EndMoves
<1>5. CASE q = p
  <2>1. \A info : MayActivate(info, t) /\ info = policy[p] => Activated(info, t) = info
    BY <1>1 DEF MayActivate, Activated
  <2>2. CASE CollectPremium(p, t) \/ \E premium \in Premiums : CreatePolicy(p, t, premium)
    <3>1. t > 0 => MayActivate(policy[p], t)
      BY <2>2 DEF CollectPremium, CreatePolicy
    <3>2. (IF t > 0 THEN Activated(policy[p], t) ELSE policy[p]) = policy[p]
      BY <2>1, <3>1
    <3>3. CASE CollectPremium(p, t)
      <4>1. policy'[p] = [policy[p] EXCEPT !.premiumState = "PAID"]
        BY <1>1, <3>2, <3>3 DEF CollectPremium
      <4> QED
        BY <1>1, <1>3, <4>1 DEF EndMoves, PolicyType
    <3>4. ASSUME NEW premium, CreatePolicy(p, t, premium)
          PROVE  EndMoves(p)
      <4>1. policy'[p] = [policy[p] EXCEPT !.state = "COLLATERALIZED",
                                           !.premium = premium, !.premiumState = "EXPECTED"]
        BY <1>1, <3>2, <3>4 DEF CreatePolicy
      <4> QED
        BY <1>1, <4>1 DEF EndMoves, PolicyType
    <3> QED
      BY <1>3, <2>2, <3>3, <3>4
  <2>3. CASE Activate(p, t)
    BY <1>1, <1>3, <2>1, <2>3 DEF Activate, EndMoves
  <2>4. CASE AdjustActivation(p, t) \/ ClosePolicy(p)
    BY <1>1, <1>3, <2>4 DEF AdjustActivation, ClosePolicy, EndMoves, PolicyType
  <2>5. CASE Expire(p, t)
    <3>1. policy'[p].expiredAt = IF t > 0 THEN t ELSE now
      BY <1>1, <2>5 DEF Expire, Expired, PolicyType
    <3>2. t <= policy[p].expiredAt /\ (t > 0 => t >= now)
      BY <2>5 DEF Expire, MayExpire
    <3> QED
      BY <1>1, <1>3, <3>1, <3>2 DEF EndMoves, HasEnded
  <2> QED
    BY <1>2, <1>5, <2>2, <2>3, <2>4, <2>5
<1> QED
  BY <1>4, <1>5

LEMMA StepKeepsEnd ==
  ASSUME TypeOK, PoliciesAreSound, NEW p \in Policies, HasEnded(policy[p]), [Next]_vars
  PROVE  HasEnded(policy[p])'
<1>1. /\ now \in Nat /\ now > 0 /\ policy \in [Policies -> PolicyType] /\ policy[p] \in PolicyType
      /\ policy[p].expiredAt \in Nat /\ policy[p].expiredAt > 0 /\ policy[p].expiredAt <= now
      /\ policy[p].activatedAt \in Nat
  BY DEF TypeOK, PoolTypeOK, ProductTypeOK, PoliciesAreSound, HasEnded, PolicyType, Times
<1>2. policy[p].activatedAt > 0
  BY <1>1, PolicyParts DEF PolicyIsSound
<1>3. policy[p].state # NONE
  BY <1>2, PolicyParts DEF PolicyIsSound, NoPolicy
<1>4. ASSUME now' \in {now, now + 1}, EndMoves(p)
      PROVE  HasEnded(policy[p])'
  BY <1>1, <1>4 DEF HasEnded, EndMoves
<1>5. CASE (PoolNext /\ UNCHANGED productVars) \/ RiskNext \/ UNCHANGED vars
  BY <1>4, <1>5, OtherStepsKeepPolicies DEF EndMoves
<1>6. CASE ApplicationNext
  <2>1. now' = now
    BY <1>6 DEF ApplicationNext, CreateApplication, RevokeApplication, DeclineApplication
  <2>2. ASSUME NEW q \in Policies, NEW r \in Risks, NEW b \in Bundles, NEW s \in SumInsuredAmounts,
               NEW l \in PolicyLifetimes, CreateApplication(q, r, b, s, l)
        PROVE  EndMoves(p)
    BY <1>1, <1>3, <2>2 DEF CreateApplication, EndMoves
  <2>3. ASSUME NEW q \in Policies, RevokeApplication(q) \/ DeclineApplication(q)
        PROVE  EndMoves(p)
    BY <1>1, <2>3 DEF RevokeApplication, DeclineApplication, EndMoves, PolicyType
  <2>4. EndMoves(p)
    BY <1>6, <2>2, <2>3, Zenon DEF ApplicationNext
  <2> QED
    BY <1>4, <2>1, <2>4
<1>7. CASE PolicyNext
  BY <1>2, <1>4, <1>7, PolicyStepMovesEnd
<1>8. CASE ClaimNext
  BY <1>4, <1>8, ClaimStepMovesEnd
<1> QED
  BY <1>5, <1>6, <1>7, <1>8 DEF Next

\* Cover that has ended never starts again: no activation, adjustment,
\* expiration or confirmed claim moves the end of an ended policy past the
\* block time (PolicyServiceLib.activate and expire, PolicyService.adjustActivation).
THEOREM EndedCoverStaysEnded == Spec => EndedCoverNeverReopens
<1>1. TypeOK /\ PoliciesAreSound /\ [Next]_vars
        => \A p \in Policies : HasEnded(policy[p]) => HasEnded(policy[p])'
  BY StepKeepsEnd
<1> QED
  BY <1>1, TypeCorrect, PoliciesStaySound, PTL DEF Spec, EndedCoverNeverReopens

LEMMA FinalPolicyIsSettled ==
  ASSUME TypeOK, PoliciesAreSound, ActivatesOnlyCollateralized,
         NEW p \in Policies, Final(policy[p])
  PROVE  /\ \A c \in ClaimIds : claim[p][c].state \notin OpenClaimStates
         /\ \A a \in Nat : ~SubmitClaim(p, a)
<1>1. PolicyIsSound(policy[p], now) /\ policy[p] \in PolicyType
      /\ ClaimsAreSound(policy[p], claim[p], payout[p])
  BY PolicyParts
<1>2. policy[p].activatedAt > 0 => policy[p].state = "CLOSED"
  BY <1>1 DEF PolicyIsSound, Final
<1>3. \A c \in ClaimIds : claim[p][c].state \notin OpenClaimStates
  BY <1>1, <1>2, OpenClaimsNeedPolicy
<1>4. ASSUME NEW a \in Nat, SubmitClaim(p, a)
      PROVE  FALSE
  <2>1. policy[p].activatedAt > 0 /\ now < policy[p].expiredAt /\ ClaimAmountFits(policy[p], a)
    BY <1>4 DEF SubmitClaim
  <2>2. policy[p].claimAmount = policy[p].sumInsured \/ now >= policy[p].expiredAt
    BY <1>1, <1>2, <2>1 DEF PolicyIsSound
  <2> QED
    BY <1>1, <2>1, <2>2 DEF ClaimAmountFits, PolicyType, TypeOK, PoolTypeOK, Times
<1> QED
  BY <1>3, <1>4

\* What nothing may do to a final policy.
FinalKept(p) ==
  /\ policy[p].state' = policy[p].state
  /\ policy[p].payoutAmount' = policy[p].payoutAmount
  /\ UNCHANGED <<claim[p], payout[p]>>

LEMMA ClaimStepKeepsFinal ==
  ASSUME TypeOK, TypeOK', PoliciesAreSound, ActivatesOnlyCollateralized,
         NEW p \in Policies, Final(policy[p]), ClaimNext
  PROVE  FinalKept(p)
<1>1. /\ \A c \in ClaimIds : claim[p][c].state \notin {"SUBMITTED", "CONFIRMED", "CANCELLED"}
      /\ \A a \in Nat : ~SubmitClaim(p, a)
  BY FinalPolicyIsSettled DEF OpenClaimStates
<1>2. ASSUME NEW c \in ClaimIds
      PROVE  claim[p][c].openPayoutsCount = 0
  BY <1>1, ClaimParts DEF ClaimIsSound, ClaimType
<1>3. ASSUME NEW q \in Policies, NEW a \in ClaimAmounts, SubmitClaim(q, a)
      PROVE  FinalKept(p)
  <2>1. q # p
    BY <1>1, <1>3, PolicyFlowAssumption
  <2> QED
    BY <1>3, <2>1 DEF SubmitClaim, FinalKept, TypeOK, ProductTypeOK
<1>4. ASSUME NEW q \in Policies, NEW c \in ClaimIds, NEW a, ConfirmClaim(q, c, a)
      PROVE  FinalKept(p)
  <2>1. q # p
    BY <1>1, <1>4 DEF ConfirmClaim
  <2> QED
    BY <1>4, <2>1 DEF ConfirmClaim, FinalKept, TypeOK, ProductTypeOK
<1>5. ASSUME NEW q \in Policies, NEW c \in ClaimIds,
             DeclineClaim(q, c) \/ RevokeClaim(q, c) \/ CancelConfirmedClaim(q, c)
      PROVE  FinalKept(p)
  <2>1. q # p
    BY <1>1, <1>5 DEF DeclineClaim, RevokeClaim, CancelConfirmedClaim
  <2> QED
    BY <1>5, <2>1 DEF DeclineClaim, RevokeClaim, CancelConfirmedClaim, FinalKept, TypeOK, ProductTypeOK
<1>6. ASSUME NEW q \in Policies, NEW c \in ClaimIds, NEW a, CreatePayout(q, c, a)
      PROVE  FinalKept(p)
  <2>1. q # p
    BY <1>1, <1>6 DEF CreatePayout
  <2> QED
    BY <1>6, <2>1 DEF CreatePayout, FinalKept, TypeOK, ProductTypeOK
<1>7. ASSUME NEW q \in Policies, NEW c \in ClaimIds, NEW k \in PayoutIds,
             ProcessPayout(q, c, k) \/ CancelPayout(q, c, k)
      PROVE  FinalKept(p)
  <2>1. q # p
    BY <1>2, <1>7 DEF ProcessPayout, CancelPayout
  <2>2. CASE CancelPayout(q, c, k)
    BY <2>1, <2>2 DEF CancelPayout, FinalKept, TypeOK, ProductTypeOK
  <2>3. CASE ProcessPayout(q, c, k)
    BY <2>1, <2>3 DEF ProcessPayout, FinalKept, TypeOK, ProductTypeOK
  <2> QED
    BY <1>7, <2>2, <2>3
<1> QED
  BY <1>3, <1>4, <1>5, <1>6, <1>7, ClaimNext, Zenon DEF ClaimNext

LEMMA StepKeepsFinal ==
  ASSUME TypeOK, TypeOK', PoliciesAreSound, LinkedPoliciesAreInForce, ActivatesOnlyCollateralized,
         NEW p \in Policies, Final(policy[p]), [Next]_vars
  PROVE  FinalKept(p)
<1>1. policy \in [Policies -> PolicyType] /\ policy[p] \in PolicyType /\ PolicyIsSound(policy[p], now)
  BY PolicyParts DEF TypeOK, ProductTypeOK
<1>2. CASE (PoolNext /\ UNCHANGED productVars) \/ RiskNext \/ UNCHANGED vars
  BY <1>2, OtherStepsKeepPolicies DEF FinalKept
<1>3. CASE ApplicationNext
  <2>1. UNCHANGED <<claim, payout>>
    BY <1>3 DEF ApplicationNext, CreateApplication, RevokeApplication, DeclineApplication
  <2>2. ASSUME NEW q \in Policies, NEW r \in Risks, NEW b \in Bundles, NEW s \in SumInsuredAmounts,
               NEW l \in PolicyLifetimes, CreateApplication(q, r, b, s, l)
        PROVE  policy'[p] = policy[p]
    BY <1>1, <2>2 DEF CreateApplication, Final, NONE
  <2>3. ASSUME NEW q \in Policies, RevokeApplication(q) \/ DeclineApplication(q)
        PROVE  policy'[p] = policy[p]
    BY <1>1, <2>3 DEF RevokeApplication, DeclineApplication, PolicyTransitions, Final
  <2>4. policy'[p] = policy[p]
    BY <1>3, <2>2, <2>3, Zenon DEF ApplicationNext
  <2> QED
    BY <2>1, <2>4 DEF FinalKept
<1>4. CASE PolicyNext
  <2>1. PICK q \in Policies, t \in Nat :
          \/ \E premium \in Premiums : CreatePolicy(q, t, premium)
          \/ CollectPremium(q, t) \/ Activate(q, t)
          \/ t > 0 /\ AdjustActivation(q, t)
          \/ Expire(q, t) \/ ClosePolicy(q)
    BY <1>4, PolicyNextSteps
  <2>2. UNCHANGED <<claim, payout>>
    BY <2>1 DEF CreatePolicy, CollectPremium, Activate, AdjustActivation, Expire, ClosePolicy
  <2>3. CASE q # p
    <3>1. policy'[p] = policy[p]
      BY <1>1, <2>1, <2>3 DEF CreatePolicy, CollectPremium, Activate, AdjustActivation, Expire, ClosePolicy
    <3> QED
      BY <2>2, <3>1 DEF FinalKept
  <2>4. CASE q = p
    <3>1. ~ClosePolicy(p)
      BY <1>1 DEF ClosePolicy, PolicyIsCloseable, PolicyTransitions, Final
    <3>2. AdjustActivation(p, t)
      BY <2>1, <2>4, <3>1 DEF CreatePolicy, CollectPremium, Activate, Expire, MayExpire, Final
    <3>3. policy'[p] = [policy[p] EXCEPT !.activatedAt = t]
      BY <1>1, <3>2 DEF AdjustActivation
    <3> QED
      BY <1>1, <2>2, <3>3 DEF FinalKept, PolicyType
  <2> QED
    BY <2>3, <2>4
<1>5. CASE ClaimNext
  BY <1>5, ClaimStepKeepsFinal
<1> QED
  BY <1>2, <1>3, <1>4, <1>5 DEF Next

\* A closed, declined or revoked policy is final: no transaction changes its
\* state, its claims, its payouts or what was paid for it (ClaimService looks
\* at the times of the policy, not at its state).
THEOREM FinalPoliciesStayFinal ==
  ASSUME ActivatesOnlyCollateralized
  PROVE  Spec => FinalPoliciesPayNothing
<1>1. TypeOK /\ TypeOK' /\ PoliciesAreSound /\ LinkedPoliciesAreInForce /\ [Next]_vars
        => \A p \in Policies :
             Final(policy[p]) => /\ policy[p].state' = policy[p].state
                                 /\ policy[p].payoutAmount' = policy[p].payoutAmount
                                 /\ UNCHANGED <<claim[p], payout[p]>>
  BY StepKeepsFinal DEF FinalKept
<1> QED
  BY <1>1, TypeCorrect, PoliciesStaySound, LinksCorrect, PTL DEF Spec, FinalPoliciesPayNothing


----------------------------------------------------------------------------
(* The promise to the policy holders.                                      *)

\* Capital of a bundle, backer and reserve of a policy: what the variables of
\* CoverPromise stand for.
CapitalOf(b) == bundleBook[b].balance - bundleBook[b].fees
BackerOf(p)  == IF policy[p].state = "COLLATERALIZED" THEN policy[p].bundle ELSE 0
ReserveOf(p) == IF policy[p].state = "COLLATERALIZED" THEN OpenCover(policy[p]) ELSE 0

Capital == [b \in Bundles |-> CapitalOf(b)]
Backer  == [p \in Policies |-> BackerOf(p)]
Reserve == [p \in Policies |-> ReserveOf(p)]

SameCapital(b) == \A c \in Bundles : c # b => CapitalOf(c)' = CapitalOf(c)
SamePolicies   == \A p \in Policies : BackerOf(p)' = BackerOf(p) /\ ReserveOf(p)' = ReserveOf(p)
OthersSame(p)  == \A q \in Policies : q # p => BackerOf(q)' = BackerOf(q) /\ ReserveOf(q)' = ReserveOf(q)

LEMMA PromisedSum ==
  ASSUME NEW a, NEW n
  PROVE  Promise!SumUpTo(a, n) = SumUpTo(a, n)
  BY DEF Promise!SumUpTo, Promise!PartialSums, SumUpTo, PartialSums

\* What is reserved of a bundle's capital is the cover of its policies.
LEMMA ReservedIsCover ==
  ASSUME LinkedPoliciesAreInForce, NEW b \in Bundles
  PROVE  Promise!ReservedFor(b) = CoverOf(b)
<1>1. ASSUME NEW p \in Policies
      PROVE  (IF Backer[p] = b THEN Reserve[p] ELSE 0) = Part(b, p)
  <2>1. b # 0
    BY DEF Bundles
  <2>2. Backer[p] = b <=> policy[p].state = "COLLATERALIZED" /\ policy[p].bundle = b
    BY <2>1 DEF Backer, BackerOf
  <2>3. policy[p].state = "COLLATERALIZED" => Reserve[p] = OpenCover(policy[p])
    BY DEF Reserve, ReserveOf
  <2> QED
    BY <2>2, <2>3 DEF Part, LinkedPoliciesAreInForce
<1>2. Promise!ReservedFor(b) =
        Promise!SumUpTo([p \in Policies |-> IF Backer[p] = b THEN Reserve[p] ELSE 0], MaxPolicies)
  BY DEF Promise!ReservedFor, Promise!Policies, Policies, Backer, BackerOf, Reserve, ReserveOf
<1>3. Promise!ReservedFor(b) =
        SumUpTo([p \in Policies |-> IF Backer[p] = b THEN Reserve[p] ELSE 0], MaxPolicies)
  BY <1>2, PromisedSum
<1>4. [p \in Policies |-> IF Backer[p] = b THEN Reserve[p] ELSE 0] = [p \in Policies |-> Part(b, p)]
  BY <1>1
<1> QED
  BY <1>3, <1>4 DEF CoverOf

LEMMA PromisedVariables ==
  /\ Promise!promise = <<Capital, Backer, Reserve>>
  /\ Promise!promise' = <<Capital', Backer', Reserve'>>
  BY DEF Promise!promise, Capital, CapitalOf, Backer, BackerOf, Reserve, ReserveOf

LEMMA PromisedStutter ==
  ASSUME \A b \in Bundles : CapitalOf(b)' = CapitalOf(b), SamePolicies
  PROVE  UNCHANGED Promise!promise
<1>1. Capital' = Capital /\ Backer' = Backer /\ Reserve' = Reserve
  BY DEF Capital, Backer, Reserve, SamePolicies
<1> QED
  BY <1>1, PromisedVariables

LEMMA PromisedDeposit ==
  ASSUME NEW b \in Bundles, SameCapital(b), SamePolicies, CapitalOf(b)' >= CapitalOf(b)
  PROVE  Promise!Deposit(b)
<1>1. Backer' = Backer /\ Reserve' = Reserve
  BY DEF Backer, Reserve, SamePolicies
<1>2. Capital' = [Capital EXCEPT ![b] = Capital'[b]]
  BY DEF Capital, SameCapital
<1>3. Capital'[b] >= Capital[b]
  BY DEF Capital
<1> QED
  BY <1>1, <1>2, <1>3 DEF Promise!Deposit, Promise!OnlyCapitalOf, Capital, CapitalOf, Backer,
     BackerOf, Reserve, ReserveOf

LEMMA PromisedWithdrawal ==
  ASSUME LinkedPoliciesAreInForce, NEW b \in Bundles, SameCapital(b), SamePolicies,
         CapitalOf(b)' >= CoverOf(b)
  PROVE  Promise!Withdraw(b)
<1>1. Backer' = Backer /\ Reserve' = Reserve
  BY DEF Backer, Reserve, SamePolicies
<1>2. Capital' = [Capital EXCEPT ![b] = Capital'[b]]
  BY DEF Capital, SameCapital
<1>3. Capital'[b] >= Promise!ReservedFor(b)
  BY ReservedIsCover DEF Capital
<1> QED
  BY <1>1, <1>2, <1>3 DEF Promise!Withdraw, Promise!OnlyCapitalOf, Capital, CapitalOf, Backer,
     BackerOf, Reserve, ReserveOf

LEMMA PromisedUnderwriting ==
  ASSUME LinkedPoliciesAreInForce, NEW p \in Policies, NEW b \in Bundles,
         \A c \in Bundles : CapitalOf(c)' = CapitalOf(c), OthersSame(p),
         BackerOf(p) = 0, BackerOf(p)' = b, ReserveOf(p)' \in Nat,
         CoverOf(b) + ReserveOf(p)' <= CapitalOf(b)
  PROVE  Promise!Underwrite(p, b)
<1>1. Capital' = Capital
  BY DEF Capital
<1>2. Backer[p] = 0 /\ Backer' = [Backer EXCEPT ![p] = b]
  BY DEF Backer, OthersSame
<1>3. Reserve' = [Reserve EXCEPT ![p] = Reserve'[p]]
  BY DEF Reserve, OthersSame
<1>4. Reserve'[p] = ReserveOf(p)'
  BY DEF Reserve
<1>5. Reserve'[p] >= 0 /\ Promise!ReservedFor(b) + Reserve'[p] <= Capital[b]
  BY <1>4, ReservedIsCover DEF Capital
<1> QED
  BY <1>1, <1>2, <1>3, <1>5 DEF Promise!Underwrite, Promise!OnlyReserveOf, Capital, CapitalOf,
     Backer, BackerOf, Reserve, ReserveOf

LEMMA PromisedPayment ==
  ASSUME NEW p \in Policies, NEW b \in Bundles, SameCapital(b), OthersSame(p),
         BackerOf(p) = b, BackerOf(p)' = b,
         ReserveOf(p) \in Nat, ReserveOf(p)' \in Nat, ReserveOf(p)' <= ReserveOf(p),
         CapitalOf(b)' = CapitalOf(b) - (ReserveOf(p) - ReserveOf(p)')
  PROVE  Promise!Pay(p)
<1>1. Capital' = [Capital EXCEPT ![b] = @ - (Reserve[p] - Reserve'[p])]
  BY DEF Capital, Reserve, SameCapital
<1>2. Backer' = Backer /\ Backer[p] = b /\ b # 0
  BY DEF Backer, OthersSame, Bundles
<1>3. Reserve' = [Reserve EXCEPT ![p] = Reserve'[p]]
  BY DEF Reserve, OthersSame
<1>4. Reserve[p] = ReserveOf(p) /\ Reserve'[p] = ReserveOf(p)'
  BY DEF Reserve
<1>5. Reserve'[p] \in 0..Reserve[p]
  BY <1>4
<1> QED
  BY <1>1, <1>2, <1>3, <1>5 DEF Promise!Pay, Promise!OnlyReserveOf, Capital, CapitalOf,
     Backer, BackerOf, Reserve, ReserveOf

LEMMA PromisedRelease ==
  ASSUME NEW p \in Policies, \A c \in Bundles : CapitalOf(c)' = CapitalOf(c), OthersSame(p),
         BackerOf(p) # 0, BackerOf(p)' = 0, ReserveOf(p)' = 0
  PROVE  Promise!Release(p)
<1>1. Capital' = Capital
  BY DEF Capital
<1>2. Backer[p] # 0 /\ Backer' = [Backer EXCEPT ![p] = 0]
  BY DEF Backer, OthersSame
<1>3. Reserve' = [Reserve EXCEPT ![p] = 0]
  BY DEF Reserve, OthersSame
<1> QED
  BY <1>1, <1>2, <1>3 DEF Promise!Release, Capital, CapitalOf, Backer, BackerOf, Reserve, ReserveOf


LEMMA OpenCoverIsNaturalNext ==
  TypeOK' /\ PoliciesAreSound' => \A p \in Policies : OpenCover(policy'[p]) \in Nat
<1>1. TypeOK /\ PoliciesAreSound => \A p \in Policies : OpenCover(policy[p]) \in Nat
  BY OpenCoverIsNatural
<1>2. (TypeOK /\ PoliciesAreSound)' => (\A p \in Policies : OpenCover(policy[p]) \in Nat)'
  BY <1>1, PTL
<1> QED
  BY <1>2 DEF OpenCover

\* Handlers that leave books and cover alone.
LEMMA SameCoverSamePolicies ==
  ASSUME SameCover
  PROVE  SamePolicies
  BY DEF SameCover, SamePolicies, BackerOf, ReserveOf

LEMMA PoolStepIsPromised ==
  ASSUME TypeOK, LinkedPoliciesAreInForce, LockedIsCover, PoolNext, SamePolicies
  PROVE  UNCHANGED Promise!promise \/ \E b \in Bundles : Promise!Deposit(b) \/ Promise!Withdraw(b)
<1>1. CASE UNCHANGED bundleBook
  <2>1. \A b \in Bundles : CapitalOf(b)' = CapitalOf(b)
    BY <1>1 DEF CapitalOf
  <2> QED
    BY <2>1, PromisedStutter
<1>2. ASSUME NEW b \in Bundles, NEW d, NEW f, Booked(b, d, f, 0)
      PROVE  SameCapital(b) /\ CapitalOf(b)' = (bundleBook[b].balance + d) - (bundleBook[b].fees + f)
  BY <1>2 DEF Booked, CapitalOf, SameCapital
<1>3. ASSUME NEW b \in Bundles, NEW a \in Nat, Booked(b, a, 0, 0) \/ Booked(b, -a, -a, 0)
      PROVE  Promise!Deposit(b)
  <2>1. CapitalOf(b)' >= CapitalOf(b)
    <3>1. \/ CapitalOf(b)' = (bundleBook[b].balance + a) - (bundleBook[b].fees + 0)
          \/ CapitalOf(b)' = (bundleBook[b].balance + (-a)) - (bundleBook[b].fees + (-a))
      BY <1>2, <1>3
    <3> QED
      BY <3>1, BookTypes DEF CapitalOf
  <2>2. SameCapital(b)
    BY <1>2, <1>3
  <2> QED
    BY <2>1, <2>2, PromisedDeposit
<1>4. ASSUME NEW b \in Bundles, NEW a \in Nat, a <= Available(bundleBook[b]), Booked(b, -a, 0, 0)
      PROVE  Promise!Withdraw(b)
  <2>1. CapitalOf(b)' = (bundleBook[b].balance + (-a)) - (bundleBook[b].fees + 0) /\ SameCapital(b)
    BY <1>2, <1>4
  <2>2. bundleBook[b].locked = CoverOf(b)
    BY DEF LockedIsCover
  <2>3. CapitalOf(b)' >= bundleBook[b].locked
    BY <1>4, <2>1, BookTypes DEF Available
  <2> QED
    BY <2>1, <2>2, <2>3, PromisedWithdrawal
<1>5. ASSUME NEW b \in Bundles, CloseBundle(b),
             Booked(b, -bundleBook[b].balance, -bundleBook[b].fees, 0)
      PROVE  Promise!Withdraw(b)
  <2>1. /\ CapitalOf(b)' = (bundleBook[b].balance + (-bundleBook[b].balance))
                             - (bundleBook[b].fees + (-bundleBook[b].fees))
        /\ SameCapital(b)
    BY <1>2, <1>5
  <2>2. bundleBook[b].locked = 0 /\ bundleBook[b].locked = CoverOf(b)
    BY <1>5, UnlinkedIsUnlocked DEF CloseBundle, BundleIsCloseable, LockedIsCover
  <2>3. CapitalOf(b)' >= CoverOf(b)
    BY <2>1, <2>2, BookTypes
  <2> QED
    BY <2>1, <2>3, PromisedWithdrawal
<1>6. \/ UNCHANGED bundleBook
      \/ \E b \in Bundles :
           \/ \E a \in Nat : Booked(b, a, 0, 0) \/ Booked(b, -a, -a, 0)
           \/ \E a \in Nat : a <= Available(bundleBook[b]) /\ Booked(b, -a, 0, 0)
           \/ CloseBundle(b) /\ Booked(b, -bundleBook[b].balance, -bundleBook[b].fees, 0)
  BY PoolStepBooks
<1>7. CASE UNCHANGED bundleBook
  BY <1>1, <1>7
<1>8. CASE \E b \in Bundles :
             \/ \E a \in Nat : Booked(b, a, 0, 0) \/ Booked(b, -a, -a, 0)
             \/ \E a \in Nat : a <= Available(bundleBook[b]) /\ Booked(b, -a, 0, 0)
             \/ CloseBundle(b) /\ Booked(b, -bundleBook[b].balance, -bundleBook[b].fees, 0)
  <2>1. PICK b \in Bundles :
          \/ \E a \in Nat : Booked(b, a, 0, 0) \/ Booked(b, -a, -a, 0)
          \/ \E a \in Nat : a <= Available(bundleBook[b]) /\ Booked(b, -a, 0, 0)
          \/ CloseBundle(b) /\ Booked(b, -bundleBook[b].balance, -bundleBook[b].fees, 0)
    BY <1>8
  <2>2. Promise!Deposit(b) \/ Promise!Withdraw(b)
    BY <2>1, <1>3, <1>4, <1>5
  <2> QED
    BY <2>2
<1> QED
  BY <1>6, <1>7, <1>8

LEMMA CreatePolicyIsPromised ==
  ASSUME TypeOK, TypeOK', PoliciesAreSound, LinkedPoliciesAreInForce, LockedIsCover,
         FullyCollateralized, ActivatesOnlyCollateralized,
         NEW p \in Policies, NEW t \in Nat, NEW premium, CreatePolicy(p, t, premium)
  PROVE  \E b \in Bundles : Promise!Underwrite(p, b)
<1>1. PICK b \in Bundles : b = policy[p].bundle
  BY HandledPolicyHasBundle
<1>2. PICK s \in Nat : s = policy[p].sumInsured
  BY DEF TypeOK, ProductTypeOK, PolicyType
<1>3. Booked(b, 0, 0, s) /\ CanLock(bundleBook[b], s)
  BY <1>1, <1>2, CreatePolicyBooks, FullCollateral
<1>4. /\ policy[p].state = "APPLIED"
      /\ policy'[p].state = "COLLATERALIZED" /\ policy'[p].bundle = b
      /\ OpenCover(policy'[p]) = s
      /\ \A q \in Policies : q # p => policy'[q] = policy[q]
  BY <1>1, <1>2, CreatePolicyPart
<1>5. \A c \in Bundles : CapitalOf(c)' = CapitalOf(c)
  BY <1>3, BookTypes DEF Booked, CapitalOf
<1>6. BackerOf(p) = 0 /\ BackerOf(p)' = b /\ ReserveOf(p)' = s /\ OthersSame(p)
  BY <1>4 DEF BackerOf, ReserveOf, OthersSame
<1>7. CoverOf(b) + s <= CapitalOf(b)
  <2>1. CoverOf(b) = bundleBook[b].locked
    BY DEF LockedIsCover
  <2> QED
    BY <1>3, <2>1, BookTypes DEF CanLock, Available, CapitalOf
<1> QED
  BY <1>5, <1>6, <1>7, PromisedUnderwriting

LEMMA CollectPremiumIsPromised ==
  ASSUME TypeOK, TypeOK', PoliciesAreSound, NEW p \in Policies, NEW t \in Nat, CollectPremium(p, t)
  PROVE  \E b \in Bundles : Promise!Deposit(b)
<1>1. PICK b \in Bundles : b = policy[p].bundle
  BY HandledPolicyHasBundle
<1>2. PICK net \in Nat, fee \in Nat : Booked(b, net + fee, fee, 0)
  BY <1>1, CollectPremiumBooks
<1>3. SamePolicies
  BY SalesStepKeepsCover, SameCoverSamePolicies
<1>4. SameCapital(b) /\ CapitalOf(b)' >= CapitalOf(b)
  BY <1>2, BookTypes DEF Booked, SameCapital, CapitalOf
<1> QED
  BY <1>3, <1>4, PromisedDeposit

LEMMA ClosePolicyIsPromised ==
  ASSUME TypeOK, TypeOK', PoliciesAreSound, LinkedPoliciesAreInForce, NEW p \in Policies, ClosePolicy(p)
  PROVE  Promise!Release(p)
<1>1. PICK b \in Bundles : b = policy[p].bundle
  BY HandledPolicyHasBundle
<1>2. PICK a \in Nat : Booked(b, 0, 0, -a)
  BY <1>1, ClosePolicyBooks
<1>3. /\ policy[p].state = "COLLATERALIZED" /\ policy'[p].state = "CLOSED"
      /\ \A q \in Policies : q # p => policy'[q] = policy[q]
  BY <1>1, ClosePolicyPart
<1>4. \A c \in Bundles : CapitalOf(c)' = CapitalOf(c)
  BY <1>2, BookTypes DEF Booked, CapitalOf
<1>5. BackerOf(p) # 0 /\ BackerOf(p)' = 0 /\ ReserveOf(p)' = 0 /\ OthersSame(p)
  BY <1>1, <1>3 DEF BackerOf, ReserveOf, OthersSame, Bundles
<1> QED
  BY <1>4, <1>5, PromisedRelease

LEMMA ProcessPayoutIsPromised ==
  ASSUME TypeOK, TypeOK', PoliciesAreSound, PoliciesAreSound', LinkedPoliciesAreInForce,
         ActivatesOnlyCollateralized,
         NEW p \in Policies, NEW c \in ClaimIds, NEW k \in PayoutIds, ProcessPayout(p, c, k)
  PROVE  Promise!Pay(p)
<1>1. PICK b \in Bundles : b = policy[p].bundle
  BY HandledPolicyHasBundle
<1>2. PICK a \in Nat : a = payout[p][c][k].amount
  BY <1>1, ProcessPayoutBooks
<1>3. Booked(b, -a, 0, -a)
  BY <1>1, <1>2, ProcessPayoutBooks
<1>4. /\ policy[p].state = "COLLATERALIZED"
      /\ policy'[p].state = "COLLATERALIZED" /\ policy'[p].bundle = b
      /\ OpenCover(policy'[p]) = OpenCover(policy[p]) - a
      /\ \A q \in Policies : q # p => policy'[q] = policy[q]
  BY <1>1, <1>2, ProcessPayoutPart
<1>5. OpenCover(policy[p]) \in Nat /\ OpenCover(policy'[p]) \in Nat
  BY OpenCoverIsNatural, OpenCoverIsNaturalNext
<1>6. BackerOf(p) = b /\ BackerOf(p)' = b /\ OthersSame(p)
      /\ ReserveOf(p) = OpenCover(policy[p]) /\ ReserveOf(p)' = OpenCover(policy'[p])
  BY <1>1, <1>4 DEF BackerOf, ReserveOf, OthersSame
<1>7. SameCapital(b) /\ CapitalOf(b)' = CapitalOf(b) - a
  BY <1>3, BookTypes DEF Booked, SameCapital, CapitalOf
<1>8. ReserveOf(p) - ReserveOf(p)' = a /\ ReserveOf(p)' <= ReserveOf(p)
  BY <1>4, <1>5, <1>6
<1> QED
  BY <1>5, <1>6, <1>7, <1>8, PromisedPayment


LEMMA ApplicationStepBooks ==
  ASSUME ApplicationNext
  PROVE  bundleBook' = bundleBook
<1>1. \A p, r, b, s, l : CreateApplication(p, r, b, s, l) => bundleBook' = bundleBook
  BY DEF CreateApplication, poolVars
<1>2. \A p : RevokeApplication(p) \/ DeclineApplication(p) => bundleBook' = bundleBook
  BY DEF RevokeApplication, DeclineApplication, poolVars
<1> QED
  BY <1>1, <1>2, Zenon DEF ApplicationNext

LEMMA CoverStepIsPromised ==
  ASSUME TypeOK, TypeOK', PoliciesAreSound, PoliciesAreSound', LinkedPoliciesAreInForce, LockedIsCover,
         FullyCollateralized, ActivatesOnlyCollateralized, [Next]_vars
  PROVE  Promise!Next \/ UNCHANGED Promise!promise
<1> DEFINE Goal == Promise!Next \/ UNCHANGED Promise!promise
<1>1. \A b \in Bundles : b \in Promise!Bundles
  BY DEF Promise!Bundles, Bundles
<1>2. \A p \in Policies : p \in Promise!Policies
  BY DEF Promise!Policies, Policies
<1>3. ASSUME NEW b \in Bundles, Promise!Deposit(b) \/ Promise!Withdraw(b)
      PROVE  Goal
  BY <1>1, <1>3, Zenon DEF Promise!Next
<1>4. ASSUME NEW p \in Policies,
             Promise!Pay(p) \/ Promise!Release(p) \/ \E b \in Bundles : Promise!Underwrite(p, b)
      PROVE  Goal
  BY <1>1, <1>2, <1>4, Zenon DEF Promise!Next
<1>5. ASSUME bundleBook' = bundleBook, SamePolicies
      PROVE  UNCHANGED Promise!promise
  BY <1>5, PromisedStutter DEF CapitalOf
<1> SUFFICES Goal
  OBVIOUS
<1> HIDE DEF Goal
<1>6. CASE PoolNext /\ UNCHANGED productVars
  <2>1. SamePolicies
    BY <1>6 DEF productVars, SamePolicies, BackerOf, ReserveOf
  <2>2. UNCHANGED Promise!promise \/ \E b \in Bundles : Promise!Deposit(b) \/ Promise!Withdraw(b)
    BY <1>6, <2>1, PoolStepIsPromised
  <2> QED
    BY <1>3, <2>2 DEF Goal
<1>7. ASSUME NEW p \in Policies, NEW t \in Nat,
             \/ Activate(p, t) \/ Expire(p, t)
             \/ t > 0 /\ AdjustActivation(p, t)
      PROVE  Goal
  <2>1. SameCover
    BY <1>7, SalesStepKeepsCover
  <2>2. bundleBook' = bundleBook
    BY <1>7, QuietStepBooks
  <2> QED
    BY <1>5, <2>1, <2>2, SameCoverSamePolicies DEF Goal
<1>8. CASE PolicyNext
  <2>1. PICK p \in Policies, t \in Nat :
          \/ \E premium \in Premiums : CreatePolicy(p, t, premium)
          \/ CollectPremium(p, t) \/ Activate(p, t)
          \/ t > 0 /\ AdjustActivation(p, t)
          \/ Expire(p, t) \/ ClosePolicy(p)
    BY <1>8, PolicyNextSteps
  <2>2. CASE \E premium \in Premiums : CreatePolicy(p, t, premium)
    BY <1>4, <2>2, CreatePolicyIsPromised
  <2>3. CASE CollectPremium(p, t)
    BY <1>3, <2>3, CollectPremiumIsPromised
  <2>4. CASE ClosePolicy(p)
    BY <1>4, <2>4, ClosePolicyIsPromised
  <2> QED
    BY <2>1, <2>2, <2>3, <2>4, <1>7
<1>9. CASE ClaimNext
  <2>1. PICK p \in Policies :
          \/ \E c \in ClaimIds, k \in PayoutIds : ProcessPayout(p, c, k)
          \/ \E a \in ClaimAmounts : SubmitClaim(p, a)
          \/ \E c \in ClaimIds :
               \/ \E a \in ClaimAmounts : ConfirmClaim(p, c, a)
               \/ DeclineClaim(p, c) \/ RevokeClaim(p, c) \/ CancelConfirmedClaim(p, c)
               \/ \E a \in PayoutAmounts : CreatePayout(p, c, a)
               \/ \E k \in PayoutIds : CancelPayout(p, c, k)
    BY <1>9, Zenon DEF ClaimNext
  <2>2. CASE \E c \in ClaimIds, k \in PayoutIds : ProcessPayout(p, c, k)
    BY <1>4, <2>2, ProcessPayoutIsPromised
  <2>3. CASE ~ \E c \in ClaimIds, k \in PayoutIds : ProcessPayout(p, c, k)
    <3>1. SameCover
      BY <2>1, <2>3, ClaimStepKeepsCover
    <3>2. bundleBook' = bundleBook
      <4>1. 0 \in Nat
        OBVIOUS
      <4> QED
        BY <2>1, <2>3, <4>1, QuietStepBooks
    <3> QED
      BY <1>5, <3>1, <3>2, SameCoverSamePolicies DEF Goal
  <2> QED
    BY <2>2, <2>3
<1>10. CASE ApplicationNext
  <2>1. bundleBook' = bundleBook
    BY <1>10, ApplicationStepBooks
  <2>2. SameCover
    BY <1>10, ApplicationStepKeepsCover
  <2> QED
    BY <1>5, <2>1, <2>2, SameCoverSamePolicies DEF Goal
<1>11. CASE RiskNext \/ UNCHANGED vars
  <2>1. UNCHANGED <<bundleBook, policy>>
    BY <1>11 DEF RiskNext, CreateRisk, LockRisk, UnlockRisk, CloseRisk, vars, poolVars, productVars
  <2>2. SamePolicies
    BY <2>1 DEF SamePolicies, BackerOf, ReserveOf
  <2> QED
    BY <1>5, <2>1, <2>2 DEF Goal
<1> QED
  BY <1>6, <1>8, <1>9, <1>10, <1>11 DEF Next

LEMMA NothingIsPromisedAtStart ==
  ASSUME Init
  PROVE  Promise!Init
<1>1. /\ bundleBook = [b \in Bundles |-> EmptyBook]
      /\ policy = [p \in Policies |-> NoPolicy]
  BY DEF Init, PoolInit
<1>2. \A b \in Bundles : bundleBook[b].balance - bundleBook[b].fees = 0
  BY <1>1 DEF EmptyBook
<1>3. \A p \in Policies : policy[p].state # "COLLATERALIZED"
  BY <1>1 DEF NoPolicy, NONE
<1> QED
  BY <1>2, <1>3 DEF Promise!Init, Promise!Bundles, Promise!Policies, Bundles, Policies

\* The services keep the promise of CoverPromise: whoever stakes, sells, claims, pays,
\* withdraws and closes in whatever order, for every number of bundles and policies a step
\* concerns the capital of one bundle or the reserve of one policy and never leaves a
\* policy in force without its capital.
THEOREM ServicesKeepPromise ==
  ASSUME ActivatesOnlyCollateralized, FullyCollateralized
  PROVE  Spec => ImplementsCoverPromise
<1>1. Init => Promise!Init
  BY NothingIsPromisedAtStart
<1>2. Init => LockedIsCover
  BY NoCoverAtStart
<1>3. /\ TypeOK /\ TypeOK' /\ PoliciesAreSound /\ LinkedPoliciesAreInForce /\ LockedIsCover
      /\ [Next]_vars
      => LockedIsCover'
  BY StepKeepsCollateral
<1>4. /\ TypeOK /\ TypeOK' /\ PoliciesAreSound /\ PoliciesAreSound' /\ LinkedPoliciesAreInForce
      /\ LockedIsCover /\ [Next]_vars
      => [Promise!Next]_(Promise!promise)
  BY CoverStepIsPromised
<1> QED
  BY <1>1, <1>2, <1>3, <1>4, TypeCorrect, PoliciesStaySound, LinksCorrect, PTL
  DEF Spec, ImplementsCoverPromise, Promise!Spec
=============================================================================
