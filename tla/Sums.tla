-------------------------------- MODULE Sums --------------------------------
(***************************************************************************)
(* Sums over the ids 1..n.  Ids are handed out consecutively by the code   *)
(* (claim and payout numbers, bundle and policy NFTs), so every aggregate  *)
(* the books are compared with is a sum of this form.  A recursive         *)
(* function, not a RECURSIVE operator, so that theorems can speak of it.   *)
(***************************************************************************)
EXTENDS Integers

PartialSums(a, n) ==
  LET S[i \in 0..n] == IF i = 0 THEN 0 ELSE S[i - 1] + a[i]
  IN  S

SumUpTo(a, n) == PartialSums(a, n)[n]
=============================================================================
