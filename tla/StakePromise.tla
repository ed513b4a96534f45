---------------------------- MODULE StakePromise ----------------------------
(***************************************************************************)
(* What staking promises a staker, without rates, limits and rewards: what *)
(* a staker has, in stakes and in the wallet, changes only by what the     *)
(* reserves of a target pay; no step touches the stakes of two owners; and *)
(* nothing leaves a stake that is locked.                                  *)
(***************************************************************************)
EXTENDS Sums

CONSTANTS Stakers, Targets, MaxStakes, Nobody

VARIABLES
  wallet,    \* tokens of every staker
  owner,     \* owner of every stake, Nobody before it is made
  staked,    \* tokens in every stake
  reserve,   \* reward reserves of every target
  isLocked   \* whether a stake is locked now

vars == <<wallet, owner, staked, reserve, isLocked>>

Stakes == 1..MaxStakes

Init ==
  /\ wallet \in [Stakers -> Nat]
  /\ owner = [s \in Stakes |-> Nobody]
  /\ staked = [s \in Stakes |-> 0]
  /\ reserve = [t \in Targets |-> 0]
  /\ isLocked \in [Stakes -> BOOLEAN]

Wealth(o) ==
  wallet[o] + SumUpTo([s \in Stakes |-> IF owner[s] = o THEN staked[s] ELSE 0], MaxStakes)

\* A staker deals with the own stakes, perhaps gets a new one, and is paid
\* rewards from the reserves of one target.
StakerActs(o) ==
  /\ \A p \in Stakers \ {o} : wallet'[p] = wallet[p]
  /\ \A s \in Stakes : owner'[s] = owner[s] \/ (owner[s] = Nobody /\ owner'[s] = o)
  /\ \A s \in Stakes : owner'[s] # o => staked'[s] = staked[s]
  /\ \A s \in Stakes : isLocked[s] => staked'[s] >= staked[s]
  /\ \E t \in Targets :
       /\ \A u \in Targets \ {t} : reserve'[u] = reserve[u]
       /\ reserve[t] - reserve'[t] >= 0
       /\ Wealth(o)' - Wealth(o) = reserve[t] - reserve'[t]

\* A target owner or sponsor changes the reserves, or time passes.
OthersAct == UNCHANGED <<wallet, owner, staked>>

Spec == Init /\ [][OthersAct \/ \E o \in Stakers : StakerActs(o)]_vars
=============================================================================
