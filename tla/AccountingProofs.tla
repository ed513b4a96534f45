-------------------------- MODULE AccountingProofs --------------------------
(***************************************************************************)
(* Lemmas on amounts, rounding, fees, books and sums that the theorems     *)
(* about the components share.                                             *)
(***************************************************************************)
EXTENDS Accounting, Sums, WellFoundedInduction, TLAPS

----------------------------------------------------------------------------
(* The arithmetic never leaves the natural numbers.                        *)

LEMMA RoundHalfUpType ==
  ASSUME NEW num \in Nat, NEW den \in Nat \ {0}
  PROVE  RoundHalfUp(num, den) \in Nat
<1>1. 2 * num + den \in Nat /\ 2 * den \in Nat /\ 2 * den > 0
  OBVIOUS
<1>2. \A n, d \in Nat : d > 0 => n \div d \in Nat
  OBVIOUS
<1> QED
  BY <1>1, <1>2 DEF RoundHalfUp

LEMMA ProductType == ASSUME NEW m \in Nat, NEW n \in Nat PROVE m * n \in Nat
  OBVIOUS

LEMMA FeeAmountType ==
  ASSUME NEW fee \in Fees, NEW amount \in Nat
  PROVE  FeeAmount(fee, amount) \in Nat
<1>1. fee.fixed \in Nat /\ fee.fractional \in Nat
  BY DEF Fees
<1>2. amount * fee.fractional \in Nat
  BY <1>1, ProductType
<1>3. RoundHalfUp(amount * fee.fractional, Unit) \in Nat
  BY <1>2, RoundHalfUpType DEF Unit
<1> QED
  BY <1>1, <1>3 DEF FeeAmount

LEMMA CollateralType ==
  ASSUME NEW level \in Nat, NEW retention \in Nat, NEW sumInsured \in Nat
  PROVE  /\ TotalCollateral(level, sumInsured) \in Nat
         /\ LocalCollateral(level, retention, sumInsured) \in Nat
<1>1. level * sumInsured \in Nat
  BY ProductType
<1>2. retention * level \in Nat
  BY ProductType
<1>3. (retention * level) * sumInsured \in Nat
  BY <1>2, ProductType
<1>4. Unit \in Nat \ {0} /\ Unit * Unit \in Nat \ {0}
  BY DEF Unit
<1> QED
  BY <1>1, <1>3, <1>4, RoundHalfUpType DEF TotalCollateral, LocalCollateral

LEMMA BookOperations ==
  ASSUME NEW book \in BookType, NEW amount \in Nat, NEW fee \in Nat
  PROVE  /\ Increase(book, amount, fee) \in BookType
         /\ CanDecrease(book, amount, fee) => Decrease(book, amount, fee) \in BookType
         /\ [book EXCEPT !.locked = @ + amount] \in BookType
         /\ amount <= book.locked => [book EXCEPT !.locked = @ - amount] \in BookType
<1>1. /\ book.balance \in Nat
      /\ book.fees \in Nat
      /\ book.locked \in Nat
      /\ book = [balance |-> book.balance, fees |-> book.fees, locked |-> book.locked]
  BY DEF BookType
<1>2. Increase(book, amount, fee) \in BookType
  <2>1. book.balance + amount + fee \in Nat /\ book.fees + fee \in Nat
    BY <1>1
  <2> QED
    BY <1>1, <2>1 DEF BookType, Increase
<1>3. CanDecrease(book, amount, fee) => Decrease(book, amount, fee) \in BookType
  <2>1. SUFFICES ASSUME amount + fee <= book.balance, fee <= book.fees
                 PROVE  Decrease(book, amount, fee) \in BookType
    BY DEF CanDecrease
  <2>2. book.balance - (amount + fee) \in Nat /\ book.fees - fee \in Nat
    BY <1>1, <2>1
  <2> QED
    BY <1>1, <2>2 DEF BookType, Decrease
<1>4. [book EXCEPT !.locked = @ + amount] \in BookType
  BY <1>1 DEF BookType
<1>5. amount <= book.locked => [book EXCEPT !.locked = @ - amount] \in BookType
  BY <1>1 DEF BookType
<1> QED
  BY <1>2, <1>3, <1>4, <1>5

----------------------------------------------------------------------------
(* Sums: facts about SumUpTo for every summand function and every number   *)
(* of summands.  They are proved by induction in the form of SetInduction: *)
(* a set of natural numbers that has 0 and every successor of its members  *)
(* is all of them, because its complement has no least element.            *)

\* Induction, for a set instead of an operator.
LEMMA SetInduction ==
  ASSUME NEW T, 0 \in T, \A n \in Nat : n \in T => n + 1 \in T
  PROVE  Nat \subseteq T
<1>1. SUFFICES ASSUME Nat \ T # {}
               PROVE  FALSE
  OBVIOUS
<1>2. PICK m \in Nat \ T : \A y \in Nat \ T : ~(<<y, m>> \in OpToRel(<, Nat))
  BY NatLessThanWellFounded, WFMin, <1>1
<1>3. \A y \in Nat \ T : ~(y < m)
  BY <1>2 DEF OpToRel
<1>4. m \in Nat /\ m \notin T
  BY <1>2
<1>5. m # 0 /\ m - 1 \in Nat /\ m - 1 < m /\ (m - 1) + 1 = m
  BY <1>4
<1>6. m - 1 \in T
  BY <1>3, <1>5
<1>7. m \in T
  BY <1>5, <1>6
<1> QED
  BY <1>4, <1>7

\* There is a function that satisfies the recursion of PartialSums, and
\* PartialSums is one.
LEMMA PartialSumsExist ==
  ASSUME NEW a, NEW n \in Nat
  PROVE  \E S : S = [i \in 0..n |-> IF i = 0 THEN 0 ELSE S[i - 1] + a[i]]
<1> DEFINE IsPartialSums(S, m) == S = [i \in 0..m |-> IF i = 0 THEN 0 ELSE S[i - 1] + a[i]]
<1> DEFINE T == {m \in Nat : \E S : IsPartialSums(S, m)}
<1>1. 0 \in T
  <2>1. IsPartialSums([i \in 0..0 |-> 0], 0)
    OBVIOUS
  <2> QED
    BY <2>1
<1>2. ASSUME NEW m \in Nat, m \in T
      PROVE  m + 1 \in T
  <2>1. PICK S : IsPartialSums(S, m)
    BY <1>2
  <2> DEFINE R == [i \in 0..(m + 1) |-> IF i = m + 1 THEN S[m] + a[m + 1] ELSE S[i]]
  <2>2. ASSUME NEW i \in 0..(m + 1)
        PROVE  R[i] = IF i = 0 THEN 0 ELSE R[i - 1] + a[i]
    <3>1. CASE i = 0
      BY <2>1, <3>1
    <3>2. CASE i = m + 1
      BY <3>2
    <3>3. CASE i \in 1..m
      <4>1. S[i] = S[i - 1] + a[i]
        BY <2>1, <3>3
      <4>2. R[i] = S[i] /\ R[i - 1] = S[i - 1]
        BY <3>3
      <4> QED
        BY <3>3, <4>1, <4>2
    <3> QED
      BY <3>1, <3>2, <3>3
  <2>3. IsPartialSums(R, m + 1)
    <3> HIDE DEF R
    <3>1. R = [i \in 0..(m + 1) |-> R[i]]
      BY DEF R
    <3> QED
      BY <2>2, <3>1
  <2> HIDE DEF R, IsPartialSums
  <2> QED
    BY <2>3
<1> HIDE DEF T
<1>3. n \in T
  BY <1>1, <1>2, SetInduction
<1> QED
  BY <1>3 DEF T

LEMMA PartialSumsEquation ==
  ASSUME NEW a, NEW n \in Nat
  PROVE  PartialSums(a, n) =
           [i \in 0..n |-> IF i = 0 THEN 0 ELSE PartialSums(a, n)[i - 1] + a[i]]
  BY PartialSumsExist DEF PartialSums

\* Partial sums do not depend on how far they are continued.
LEMMA PartialSumsAgree ==
  ASSUME NEW a, NEW n \in Nat, NEW m \in 0..n
  PROVE  PartialSums(a, n)[m] = SumUpTo(a, m)
<1> DEFINE T == {i \in Nat : \A j, k \in Nat : i <= j /\ i <= k =>
                               PartialSums(a, j)[i] = PartialSums(a, k)[i]}
<1>1. \A j \in Nat : \A i \in 0..j :
        PartialSums(a, j)[i] = IF i = 0 THEN 0 ELSE PartialSums(a, j)[i - 1] + a[i]
  BY PartialSumsEquation
<1>2. 0 \in T
  BY <1>1
<1>3. ASSUME NEW i \in Nat, i \in T
      PROVE  i + 1 \in T
  <2>1. ASSUME NEW j \in Nat, NEW k \in Nat, i + 1 <= j, i + 1 <= k
        PROVE  PartialSums(a, j)[i + 1] = PartialSums(a, k)[i + 1]
    <3>1. PartialSums(a, j)[i] = PartialSums(a, k)[i]
      BY <1>3, <2>1
    <3>2. \A l \in {j, k} : PartialSums(a, l)[i + 1] = PartialSums(a, l)[i] + a[i + 1]
      BY <1>1, <2>1
    <3> QED
      BY <3>1, <3>2
  <2> QED
    BY <2>1
<1> HIDE DEF T
<1>4. m \in T
  BY <1>2, <1>3, SetInduction
<1> QED
  BY <1>4 DEF T, SumUpTo

\* The two equations every fact about sums follows from.
LEMMA SumEquations ==
  ASSUME NEW a
  PROVE  /\ SumUpTo(a, 0) = 0
         /\ \A n \in Nat : SumUpTo(a, n + 1) = SumUpTo(a, n) + a[n + 1]
<1>1. SumUpTo(a, 0) = 0
  BY PartialSumsEquation DEF SumUpTo
<1>2. ASSUME NEW n \in Nat
      PROVE  SumUpTo(a, n + 1) = SumUpTo(a, n) + a[n + 1]
  <2>1. PartialSums(a, n + 1)[n + 1] = PartialSums(a, n + 1)[n] + a[n + 1]
    BY PartialSumsEquation
  <2>2. PartialSums(a, n + 1)[n] = SumUpTo(a, n)
    BY PartialSumsAgree
  <2> QED
    BY <2>1, <2>2 DEF SumUpTo
<1> QED
  BY <1>1, <1>2

\* A sum is determined by the summands from 1 to n.
LEMMA SumOfEqual ==
  ASSUME NEW a, NEW b, NEW n \in Nat, \A i \in 1..n : a[i] = b[i]
  PROVE  SumUpTo(a, n) = SumUpTo(b, n)
<1> DEFINE T == {m \in Nat : m <= n => SumUpTo(a, m) = SumUpTo(b, m)}
<1>1. 0 \in T
  BY SumEquations
<1>2. ASSUME NEW m \in Nat, m \in T
      PROVE  m + 1 \in T
  BY <1>2, SumEquations
<1> HIDE DEF T
<1>3. n \in T
  BY <1>1, <1>2, SetInduction
<1> QED
  BY <1>3 DEF T

LEMMA SumIsInteger ==
  ASSUME NEW a, NEW n \in Nat, \A i \in 1..n : a[i] \in Int
  PROVE  SumUpTo(a, n) \in Int
<1> DEFINE T == {m \in Nat : m <= n => SumUpTo(a, m) \in Int}
<1>1. 0 \in T
  BY SumEquations
<1>2. ASSUME NEW m \in Nat, m \in T
      PROVE  m + 1 \in T
  BY <1>2, SumEquations
<1> HIDE DEF T
<1>3. n \in T
  BY <1>1, <1>2, SetInduction
<1> QED
  BY <1>3 DEF T

\* Summing is monotone.
LEMMA SumIsMonotone ==
  ASSUME NEW a, NEW b, NEW n \in Nat,
         \A i \in 1..n : a[i] \in Int /\ b[i] \in Int /\ a[i] <= b[i]
  PROVE  SumUpTo(a, n) <= SumUpTo(b, n)
<1> DEFINE T == {m \in Nat : m <= n => SumUpTo(a, m) <= SumUpTo(b, m)}
<1>0. \A m \in 0..n : SumUpTo(a, m) \in Int /\ SumUpTo(b, m) \in Int
  BY SumIsInteger
<1>1. 0 \in T
  BY SumEquations
<1>2. ASSUME NEW m \in Nat, m \in T
      PROVE  m + 1 \in T
  BY <1>0, <1>2, SumEquations
<1> HIDE DEF T
<1>3. n \in T
  BY <1>1, <1>2, SetInduction
<1> QED
  BY <1>3 DEF T

LEMMA SumOfZeros ==
  ASSUME NEW a, NEW n \in Nat, \A i \in 1..n : a[i] = 0
  PROVE  SumUpTo(a, n) = 0
<1> DEFINE T == {m \in Nat : m <= n => SumUpTo(a, m) = 0}
<1>1. 0 \in T
  BY SumEquations
<1>2. ASSUME NEW m \in Nat, m \in T
      PROVE  m + 1 \in T
  BY <1>2, SumEquations
<1> HIDE DEF T
<1>3. n \in T
  BY <1>1, <1>2, SetInduction
<1> QED
  BY <1>3 DEF T

\* When one summand changes, the sum changes by the difference.
LEMMA SumOfUpdated ==
  ASSUME NEW a, NEW b, NEW n \in Nat, NEW k \in 1..n,
         \A i \in 1..n : a[i] \in Int /\ b[i] \in Int,
         \A i \in 1..n : i # k => b[i] = a[i]
  PROVE  SumUpTo(b, n) = SumUpTo(a, n) + (b[k] - a[k])
<1> DEFINE T == {m \in Nat : m <= n =>
                   SumUpTo(b, m) = SumUpTo(a, m) + (IF k <= m THEN b[k] - a[k] ELSE 0)}
<1>0. \A m \in 0..n : SumUpTo(a, m) \in Int /\ SumUpTo(b, m) \in Int
  BY SumIsInteger
<1>1. 0 \in T
  BY SumEquations
<1>2. ASSUME NEW m \in Nat, m \in T
      PROVE  m + 1 \in T
  <2>1. ASSUME m + 1 <= n
        PROVE  SumUpTo(b, m + 1) = SumUpTo(a, m + 1) + (IF k <= m + 1 THEN b[k] - a[k] ELSE 0)
    <3>1. /\ SumUpTo(a, m + 1) = SumUpTo(a, m) + a[m + 1]
          /\ SumUpTo(b, m + 1) = SumUpTo(b, m) + b[m + 1]
      BY SumEquations
    <3>2. SumUpTo(b, m) = SumUpTo(a, m) + (IF k <= m THEN b[k] - a[k] ELSE 0)
      BY <1>2, <2>1
    <3>3. SumUpTo(a, m) \in Int /\ SumUpTo(b, m) \in Int /\ m + 1 \in 1..n
      BY <1>0, <2>1
    <3>4. CASE k = m + 1
      BY <3>1, <3>2, <3>3, <3>4
    <3>5. CASE k # m + 1
      BY <3>1, <3>2, <3>3, <3>5
    <3> QED
      BY <3>4, <3>5
  <2> QED
    BY <2>1
<1> HIDE DEF T
<1>3. n \in T
  BY <1>1, <1>2, SetInduction
<1> QED
  BY <1>3 DEF T

\* No summand of natural numbers exceeds the sum.
LEMMA SummandBelowSum ==
  ASSUME NEW a, NEW n \in Nat, NEW k \in 1..n, \A i \in 1..n : a[i] \in Nat
  PROVE  a[k] <= SumUpTo(a, n)
<1> DEFINE z == [i \in 1..n |-> 0]
           b == [i \in 1..n |-> IF i = k THEN 0 ELSE a[i]]
<1>1. SumUpTo(z, n) = 0
  BY SumOfZeros
<1>2. SumUpTo(z, n) <= SumUpTo(b, n)
  BY SumIsMonotone
<1>3. SumUpTo(b, n) = SumUpTo(a, n) + (0 - a[k])
  <2>1. \A i \in 1..n : b[i] \in Int /\ a[i] \in Int
    OBVIOUS
  <2>2. \A i \in 1..n : i # k => b[i] = a[i]
    OBVIOUS
  <2>3. b[k] = 0
    OBVIOUS
  <2> HIDE DEF b
  <2>4. SumUpTo(b, n) = SumUpTo(a, n) + (b[k] - a[k])
    BY <2>1, <2>2, SumOfUpdated
  <2> QED
    BY <2>3, <2>4
<1>4. SumUpTo(a, n) \in Int /\ SumUpTo(b, n) \in Int
  BY SumIsInteger
<1> HIDE DEF z, b
<1> QED
  BY <1>1, <1>2, <1>3, <1>4

\* A sum of natural numbers is one.
LEMMA SumIsNatural ==
  ASSUME NEW a, NEW n \in Nat, \A i \in 1..n : a[i] \in Nat
  PROVE  SumUpTo(a, n) \in Nat
<1> DEFINE T == {m \in Nat : m <= n => SumUpTo(a, m) \in Nat}
<1>1. 0 \in T
  BY SumEquations
<1>2. ASSUME NEW m \in Nat, m \in T
      PROVE  m + 1 \in T
  BY <1>2, SumEquations
<1> HIDE DEF T
<1>3. n \in T
  BY <1>1, <1>2, SetInduction
<1> QED
  BY <1>3 DEF T

\* The sum of sums is the sum of the two sums.
LEMMA SumOfSums ==
  ASSUME NEW a, NEW b, NEW c, NEW n \in Nat,
         \A i \in 1..n : a[i] \in Int /\ b[i] \in Int /\ c[i] = a[i] + b[i]
  PROVE  SumUpTo(c, n) = SumUpTo(a, n) + SumUpTo(b, n)
<1> DEFINE T == {m \in Nat : m <= n => SumUpTo(c, m) = SumUpTo(a, m) + SumUpTo(b, m)}
<1>0. \A m \in 0..n : SumUpTo(a, m) \in Int /\ SumUpTo(b, m) \in Int
  BY SumIsInteger
<1>1. 0 \in T
  BY SumEquations
<1>2. ASSUME NEW m \in Nat, m \in T
      PROVE  m + 1 \in T
  BY <1>0, <1>2, SumEquations
<1> HIDE DEF T
<1>3. n \in T
  BY <1>1, <1>2, SetInduction
<1> QED
  BY <1>3 DEF T

\* The sum of multiples is the multiple of the sum.
LEMMA SumOfMultiples ==
  ASSUME NEW a, NEW b, NEW k \in Int, NEW n \in Nat,
         \A i \in 1..n : a[i] \in Int /\ b[i] = k * a[i]
  PROVE  SumUpTo(b, n) = k * SumUpTo(a, n)
<1> DEFINE T == {m \in Nat : m <= n => SumUpTo(b, m) = k * SumUpTo(a, m)}
<1>0. \A m \in 0..n : SumUpTo(a, m) \in Int
  BY SumIsInteger
<1>1. 0 \in T
  BY SumEquations
<1>2. ASSUME NEW m \in Nat, m \in T
      PROVE  m + 1 \in T
  <2>1. ASSUME m + 1 <= n
        PROVE  SumUpTo(b, m + 1) = k * SumUpTo(a, m + 1)
    <3>1. /\ SumUpTo(a, m + 1) = SumUpTo(a, m) + a[m + 1]
          /\ SumUpTo(b, m + 1) = SumUpTo(b, m) + b[m + 1]
      BY SumEquations
    <3>2. SumUpTo(b, m) = k * SumUpTo(a, m) /\ b[m + 1] = k * a[m + 1]
      BY <1>2, <2>1
    <3>3. SumUpTo(a, m) \in Int /\ a[m + 1] \in Int
      BY <1>0, <2>1
    <3> QED
      BY <3>1, <3>2, <3>3
  <2> QED
    BY <2>1
<1> HIDE DEF T
<1>3. n \in T
  BY <1>1, <1>2, SetInduction
<1> QED
  BY <1>3 DEF T
=============================================================================
