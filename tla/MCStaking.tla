----------------------------- MODULE MCStaking -----------------------------
(***************************************************************************)
(* The protocol and an instance with a product in one token.               *)
(***************************************************************************)
EXTENDS Staking, TLC

AlikeStakers == Permutations(Stakers)

Open == [isSupported |-> TRUE, allowNewTargets |-> TRUE, minLockingPeriod |-> 1,
         maxLockingPeriod |-> 2, minRewardRate |-> 0, maxRewardRate |-> 50]

\* No new targets, and no rewards.
Restricted == [Open EXCEPT !.allowNewTargets = FALSE, !.maxRewardRate = 0]

AtDeployment ==
  [type \in Types |-> [Open EXCEPT !.allowNewTargets = type # "PROTOCOL"]]
NewSupports == {Restricted}

SecondUpdate == [updates |-> 2, ratio |-> 200]
EveryUpdate == {[updates |-> 1, ratio |-> 10]}
=============================================================================
