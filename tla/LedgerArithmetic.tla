-------------------------- MODULE LedgerArithmetic --------------------------
(***************************************************************************)
(* The pieces of Decimal arithmetic the M035 ledgers and queues rely on:   *)
(* the pro-rata share of an amount, the part of a quantity that fits, and  *)
(* the sum of one amount per record.                                       *)
(*                                                                         *)
(* Amounts are integers counted in the last digit the Decimal context      *)
(* keeps, so addition and subtraction are exact and only the division of   *)
(* a pro-rata share rounds.  `Total' is a recursive function rather than a  *)
(* fold of the community modules because LedgerArithmeticProofs proves its *)
(* algebra from the recursion equation.                                    *)
(***************************************************************************)
EXTENDS Integers

\* a * s / q rounded to the last digit, ties to even (the rounding mode of
\* the default Decimal context).
ProRata(a, s, q) ==
    LET floor == (a * s) \div q
        rest  == (a * s) % q
        up    == 2 * rest > q \/ (2 * rest = q /\ floor % 2 = 1)
    IN  IF up THEN floor + 1 ELSE floor

\* As much of x as fits between nothing and high: max(0, min(x, high)).
Clamp(x, high) == IF x < 0 THEN 0 ELSE IF x < high THEN x ELSE high

\* Sigma(h)[n] = h[1] + ... + h[n]
Sigma(h) ==
    LET sum[n \in Nat] == IF n = 0 THEN 0 ELSE sum[n - 1] + h[n]
    IN  sum

\* The amounts h[i] of the identifiers in S, and zero for every other number.
Masked(S, h) == [i \in Nat |-> IF i \in S THEN h[i] ELSE 0]

\* The sum of h[i] over the identifiers i \in S, S a subset of 1..n.
Total(S, h, n) == Sigma(Masked(S, h))[n]
=============================================================================
