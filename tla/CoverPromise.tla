---------------------------- MODULE CoverPromise ----------------------------
(***************************************************************************)
(* What a pool promises its policy holders, without books, wallets, fees,  *)
(* claims or object states.  Every bundle has capital, every policy in     *)
(* force is backed by one bundle that holds a reserve for what the policy  *)
(* may still cost.  The reserves of a bundle never exceed its capital, so  *)
(* every policy in force can be paid in full at any time and in any order, *)
(* whatever investors withdraw and other policy holders are paid.          *)
(***************************************************************************)
EXTENDS Sums

CONSTANTS
  MaxBundles,   \* natural numbers
  MaxPolicies

VARIABLES
  capital,  \* of every bundle
  backer,   \* the bundle that backs a policy, 0: the policy is not in force
  reserve   \* what a policy may still cost its backer

promise == <<capital, backer, reserve>>

Bundles  == 1..MaxBundles
Policies == 1..MaxPolicies

ReservedFor(b) ==
  SumUpTo([p \in Policies |-> IF backer[p] = b THEN reserve[p] ELSE 0], MaxPolicies)

Init ==
  /\ capital = [b \in Bundles |-> 0]
  /\ backer = [p \in Policies |-> 0]
  /\ reserve = [p \in Policies |-> 0]

OnlyCapitalOf(b) == capital' = [capital EXCEPT ![b] = capital'[b]]
OnlyReserveOf(p) == reserve' = [reserve EXCEPT ![p] = reserve'[p]]

\* Investors add capital, premiums are collected.
Deposit(b) ==
  /\ OnlyCapitalOf(b)
  /\ capital'[b] >= capital[b]
  /\ UNCHANGED <<backer, reserve>>

\* Investors take out what is not reserved.
Withdraw(b) ==
  /\ OnlyCapitalOf(b)
  /\ capital'[b] >= ReservedFor(b)
  /\ UNCHANGED <<backer, reserve>>

\* A policy is taken on only with unreserved capital.
Underwrite(p, b) ==
  /\ backer[p] = 0
  /\ backer' = [backer EXCEPT ![p] = b]
  /\ OnlyReserveOf(p)
  /\ reserve'[p] >= 0
  /\ ReservedFor(b) + reserve'[p] <= capital[b]
  /\ UNCHANGED capital

\* A payout uses the policy's own reserve and nothing else.
Pay(p) ==
  LET b == backer[p]
  IN  /\ b # 0
      /\ OnlyReserveOf(p)
      /\ reserve'[p] \in 0..reserve[p]
      /\ capital' = [capital EXCEPT ![b] = @ - (reserve[p] - reserve'[p])]
      /\ UNCHANGED backer

\* The cover ends and frees what is left of the reserve.
Release(p) ==
  /\ backer[p] # 0
  /\ backer' = [backer EXCEPT ![p] = 0]
  /\ reserve' = [reserve EXCEPT ![p] = 0]
  /\ UNCHANGED capital

Next ==
  \/ \E b \in Bundles : Deposit(b) \/ Withdraw(b)
  \/ \E p \in Policies : Pay(p) \/ Release(p) \/ \E b \in Bundles : Underwrite(p, b)

Spec == Init /\ [][Next]_promise
=============================================================================
