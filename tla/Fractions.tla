----------------------------- MODULE Fractions ------------------------------
(***************************************************************************)
(* Python's fractions.Fraction as the ledger uses it: exact rationals in   *)
(* lowest terms, <<numerator, denominator>> with a positive denominator.   *)
(***************************************************************************)
EXTENDS Domain

Divides(d, n) == n % d = 0

GreatestCommonDivisor(n, d) ==
  LET common == {c \in 1 .. d : Divides(c, Absolute(n)) /\ Divides(c, d)}
  IN CHOOSE c \in common : \A e \in common : e <= c

Fraction(n, d) ==
  LET g == GreatestCommonDivisor(n, d)
  IN <<IF n < 0 THEN -((-n) \div g) ELSE n \div g, d \div g>>

Whole(n) == <<n, 1>>

Plus(a, b) == Fraction(a[1] * b[2] + b[1] * a[2], a[2] * b[2])

Minus(a, b) == Fraction(a[1] * b[2] - b[1] * a[2], a[2] * b[2])

Scaled(a, n) == Fraction(a[1] * n, a[2])

DividedBy(a, n) == Fraction(a[1], a[2] * n)
=============================================================================
