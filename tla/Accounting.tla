---------------------------- MODULE Accounting ----------------------------
(***************************************************************************)
(* The arithmetic of the framework: rounding of UFixed products, fees,     *)
(* required collateral, and the books the accounting service keeps for     *)
(* pools, products and bundles.  An Amount is a natural number; Solidity's *)
(* checked arithmetic reverts instead of going below zero, so every        *)
(* decrease comes with the condition under which it does not revert.       *)
(***************************************************************************)
EXTENDS Integers

\* Rates (fractional fees, collateralization and retention levels) are given
\* in parts of Unit: Unit stands for UFixed 1.0.
Unit == 100

\* UFixed.toInt: round half up.
RoundHalfUp(num, den) == (2 * num + den) \div (2 * den)

\* A fee has a fixed part and a fractional part.
Fees == [fixed : Nat, fractional : Nat]

FeeAmount(fee, amount) == RoundHalfUp(amount * fee.fractional, Unit) + fee.fixed

\* Both collateral amounts are rounded from the unrounded total.
TotalCollateral(level, sumInsured) == RoundHalfUp(level * sumInsured, Unit)
LocalCollateral(level, retention, sumInsured) ==
  RoundHalfUp(retention * level * sumInsured, Unit * Unit)

\* A book of a component or bundle.  The balance includes the fees.
BookType == [balance : Nat, fees : Nat, locked : Nat]

EmptyBook == [balance |-> 0, fees |-> 0, locked |-> 0]

Increase(book, amount, fee) ==
  [book EXCEPT !.balance = @ + amount + fee, !.fees = @ + fee]

CanDecrease(book, amount, fee) ==
  /\ amount + fee <= book.balance
  /\ fee <= book.fees

Decrease(book, amount, fee) ==
  [book EXCEPT !.balance = @ - (amount + fee), !.fees = @ - fee]

\* Mutant: the fees are taken for unencumbered capital.
AvailableM(book) == book.balance - book.locked

\* What is neither locked as collateral nor set aside as fees.
Available(book) == book.balance - (book.locked + book.fees)
=============================================================================
