---------------------------- MODULE PlanPromise ----------------------------
(***************************************************************************)
(* What a resumable deployment promises, however often it is stopped: the  *)
(* steps of a plan are completed in their order, by a transaction each     *)
(* that completed no other step and is never replaced.                     *)
(***************************************************************************)
EXTENDS Naturals, Sequences

VARIABLES
  plan,    \* the steps
  results  \* the transactions that completed steps

Init == results = <<>>

Complete(i) ==
  /\ i \notin DOMAIN results
  /\ 1..(i - 1) \subseteq DOMAIN results
  /\ DOMAIN results' = DOMAIN results \union {i}
  /\ \A j \in DOMAIN results : results'[j] = results[j] /\ results[j] # results'[i]
  /\ UNCHANGED plan

Next == \E i \in DOMAIN plan : Complete(i)

Spec == Init /\ [][Next]_<<plan, results>>
=============================================================================
