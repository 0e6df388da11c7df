--------------------------- MODULE ExchangeProofs ---------------------------
(***************************************************************************)
(* The invariants of Exchange, for every set of accounts, ids and prices,  *)
(* every limits and every stream of commands: what the risk gateway, the   *)
(* ledger and the trade log say of an account agree, and the limits hold;  *)
(* and what its journal, the replays of it and its files promise.          *)
(*                                                                         *)
(* The book is not proved again: it is an instance of OrderBook for any    *)
(* requests, and every command of the gateway is a step of that instance,  *)
(* whose invariant is proved in OrderBookProofs.                           *)
(* First comes the arithmetic of the ledger: fractions in lowest terms,    *)
(* and positions whose profit they keep exactly; last, the journal.        *)
(***************************************************************************)
EXTENDS Recovery, DataLemmas

(* Cancellation, in the form the arithmetic below needs it.                *)
LEMMA Cancels ==
  ASSUME NEW a \in Int, NEW b \in Int, NEW c \in Int, c # 0, a * c = b * c
  PROVE  a = b
OBVIOUS

(* Some common divisor is the greatest.                                    *)
LEMMA GreatestExists ==
  ASSUME NEW n \in Int, NEW d \in Nat \ {0}
  PROVE  LET common == {c \in 1 .. d : Divides(c, Absolute(n)) /\ Divides(c, d)}
             g == GreatestCommonDivisor(n, d)
         IN g \in common /\ \A e \in common : e <= g
<1> DEFINE common == {c \in 1 .. d : Divides(c, Absolute(n)) /\ Divides(c, d)}
           R == {x \in common \X common : x[1] > x[2]}
<1>1. 1 \in common
  <2>1. Absolute(n) \in Nat /\ d \in Nat /\ 1 \in 1 .. d
    BY DEF Absolute
  <2>2. \A m \in Nat : m % 1 = 0
    OBVIOUS
  <2> QED
    BY <2>1, <2>2 DEF Divides
<1>2. IsFiniteSet(common)
  <2>1. IsFiniteSet(1 .. d) /\ common \in SUBSET (1 .. d)
    BY FS_Interval
  <2> HIDE DEF common
  <2> QED
    BY <2>1, FS_Subset
<1>3. common \subseteq Int
  OBVIOUS
<1> HIDE DEF common
<1>4. \E m \in common : \A k \in common : k # m => <<m, k>> \in R
  <2>1. \A x, y \in common : x # y => <<x, y>> \in R \/ <<y, x>> \in R
    BY <1>3
  <2>2. \A x, y, z \in common : <<x, y>> \in R /\ <<y, z>> \in R => <<x, z>> \in R
    BY <1>3
  <2>3. common # {}
    BY <1>1
  <2> HIDE DEF R
  <2> QED
    BY <1>2, <2>1, <2>2, <2>3, FirstExists
<1>5. \E m \in common : \A k \in common : k <= m
  <2>1. PICK m \in common : \A k \in common : k # m => <<m, k>> \in R
    BY <1>4
  <2>2. \A k \in common : k # m => m > k
    BY <2>1
  <2>3. \A k \in common : k <= m
    BY <1>3, <2>2
  <2> QED
    BY <2>3
<1>6. GreatestCommonDivisor(n, d) = CHOOSE c \in common : \A e \in common : e <= c
  BY DEF GreatestCommonDivisor, common
<1>7. /\ GreatestCommonDivisor(n, d) \in common
      /\ \A e \in common : e <= GreatestCommonDivisor(n, d)
  BY <1>5, <1>6
<1> QED
  BY <1>7 DEF common

(* Dividing n and d by g leaves x and y; x over y is n over d; and that g is
   the greatest such divisor, y the least such denominator.                *)
DividesInto(n, d, g, x, y) == n = x * g /\ d = y * g

SameRatio(n, d, x, y) == x * d = n * y

Greatest(n, d, g) ==
  \A h \in Nat \ {0}, u \in Int, v \in Nat \ {0} : DividesInto(n, d, h, u, v) => h <= g

Least(n, d, y) ==
  \A u \in Int, v \in Nat \ {0} : SameRatio(n, d, u, v) => y <= v

(* The terms of a fraction are the numbers it is made of, divided by their
   greatest common divisor.                                                *)
LEMMA FractionTerms ==
  ASSUME NEW n \in Int, NEW d \in Nat \ {0}
  PROVE  \E g \in Nat \ {0}, x \in Int, y \in Nat \ {0} :
           /\ Fraction(n, d) = <<x, y>>
           /\ DividesInto(n, d, g, x, y) /\ Greatest(n, d, g)
<1> DEFINE g == GreatestCommonDivisor(n, d)
           x == IF n < 0 THEN -((-n) \div g) ELSE n \div g
           y == d \div g
<1>0. \A h \in 1 .. d : Divides(h, Absolute(n)) /\ Divides(h, d) => h <= g
  BY GreatestExists
<1>1. g \in 1 .. d /\ Divides(g, Absolute(n)) /\ Divides(g, d)
  BY GreatestExists
<1>2. Fraction(n, d) = <<x, y>>
  BY DEF Fraction
<1> HIDE DEF g
<1>3. \A m \in Nat : m % g = 0 => m = (m \div g) * g /\ m \div g \in Nat
  BY <1>1
<1>4. d = y * g /\ y \in Nat
  BY <1>1, <1>3 DEF Divides
<1>5. y # 0
  <2>1. g \in Int /\ d # 0
    BY <1>1
  <2> HIDE DEF y
  <2>2. 0 * g = 0
    BY <2>1
  <2> QED
    BY <1>4, <2>1, <2>2
<1>6. n = x * g /\ x \in Int
  <2>1. CASE n < 0
    <3>1. Absolute(n) = -n /\ -n \in Nat
      BY <2>1 DEF Absolute
    <3>2. -n = ((-n) \div g) * g /\ (-n) \div g \in Nat
      BY <1>1, <1>3, <3>1 DEF Divides
    <3>3. x = -((-n) \div g)
      BY <2>1
    <3> QED
      BY <1>1, <3>2, <3>3
  <2>2. CASE ~(n < 0)
    <3>1. Absolute(n) = n /\ n \in Nat
      BY <2>2 DEF Absolute
    <3> QED
      BY <1>1, <1>3, <2>2, <3>1 DEF Divides
  <2> QED
    BY <2>1, <2>2
<1> HIDE DEF x, y
<1>7. ASSUME NEW h \in Nat \ {0}, NEW u \in Int, NEW v \in Nat \ {0}, n = u * h, d = v * h
      PROVE  h <= g
  <2>1. \A m \in Int, j \in Nat \ {0} : (m * j) % j = 0
    OBVIOUS
  <2>2. Divides(h, d) /\ Divides(h, Absolute(n))
    <3>1. Absolute(n) = u * h \/ Absolute(n) = (-u) * h
      BY <1>7 DEF Absolute
    <3> QED
      BY <1>7, <2>1, <3>1 DEF Divides
  <2>3. h \in 1 .. d
    <3>1. \A j \in Nat \ {0}, w \in Nat \ {0} : j <= w * j
      OBVIOUS
    <3> QED
      BY <1>7, <3>1
  <2> QED
    BY <1>0, <2>2, <2>3
<1>8. g \in Nat \ {0} /\ y \in Nat \ {0}
  BY <1>1, <1>4, <1>5
<1>9. DividesInto(n, d, g, x, y) /\ Greatest(n, d, g)
  BY <1>4, <1>6, <1>7 DEF DividesInto, Greatest
<1> QED
  BY <1>2, <1>6, <1>8, <1>9

(* A fraction has the ratio of the numbers it is made of.                  *)
LEMMA FractionRatio ==
  ASSUME NEW n \in Int, NEW d \in Nat \ {0}
  PROVE  \E x \in Int, y \in Nat \ {0} : Fraction(n, d) = <<x, y>> /\ SameRatio(n, d, x, y)
<1>1. PICK g \in Nat \ {0}, x \in Int, y \in Nat \ {0} :
        Fraction(n, d) = <<x, y>> /\ DividesInto(n, d, g, x, y)
  BY FractionTerms
<1>2. x * (y * g) = (x * g) * y
  OBVIOUS
<1>3. SameRatio(n, d, x, y)
  BY <1>1, <1>2 DEF DividesInto, SameRatio
<1> QED
  BY <1>1, <1>3

(* Of the pairs of numbers with a ratio one has the least denominator, and
   every other is a multiple of it: a remainder would be one with a smaller. *)
LEMMA LeastPair ==
  ASSUME NEW n \in Int, NEW d \in Nat \ {0}
  PROVE  \E x \in Int, y \in Nat \ {0}, q \in Nat \ {0} :
           DividesInto(n, d, q, x, y) /\ Least(n, d, y)
<1> DEFINE S == {v \in 1 .. d : \E u \in Int : u * d = n * v}
           R == {p \in S \X S : p[1] < p[2]}
<1>1. d \in S
  OBVIOUS
<1>2. IsFiniteSet(S) /\ S \subseteq Nat \ {0}
  <2>1. IsFiniteSet(1 .. d) /\ S \in SUBSET (1 .. d)
    BY FS_Interval
  <2>2. \A v \in 1 .. d : v \in Nat \ {0}
    OBVIOUS
  <2> HIDE DEF S
  <2> QED
    BY <2>1, <2>2, FS_Subset
<1>3. PICK y \in S : \A v \in S : y <= v
  <2> HIDE DEF S
  <2>1. \A a, b \in S : a # b => <<a, b>> \in R \/ <<b, a>> \in R
    BY <1>2
  <2>2. \A a, b, c \in S : <<a, b>> \in R /\ <<b, c>> \in R => <<a, c>> \in R
    BY <1>2
  <2>3. S # {}
    BY <1>1
  <2>4. \A a, b \in S : <<a, b>> \in R => a <= b
    BY <1>2
  <2>5. IsFiniteSet(S)
    BY <1>2
  <2> HIDE DEF R
  <2>6. PICK m \in S : \A k \in S : k # m => <<m, k>> \in R
    BY <2>1, <2>2, <2>3, <2>5, FirstExists
  <2>7. m <= m
    BY <1>2
  <2>8. \A k \in S : m <= k
    BY <2>4, <2>6, <2>7
  <2> QED
    BY <2>8
<1>4. y \in Nat \ {0} /\ y <= d
  BY <1>1, <1>2, <1>3
<1>5. PICK x \in Int : x * d = n * y
  BY <1>3
<1>6. ASSUME NEW u \in Int, NEW v \in Nat \ {0}, u * d = n * v
      PROVE  y <= v
  <2>1. CASE v <= d
    <3>1. v \in S
      BY <1>6, <2>1
    <3> QED
      BY <1>3, <3>1
  <2>2. CASE ~(v <= d)
    BY <1>4, <2>2
  <2> QED
    BY <2>1, <2>2
<1> HIDE DEF S, R
<1> DEFINE q == d \div y
           r == d % y
<1>7. q \in Nat /\ r \in Nat /\ r < y /\ d = y * q + r
  <2>1. \A a \in Nat, b \in Nat \ {0} :
          a \div b \in Nat /\ a % b \in Nat /\ a % b < b /\ a = b * (a \div b) + (a % b)
    OBVIOUS
  <2> QED
    BY <1>4, <2>1
<1> HIDE DEF q, r
<1>8. (n - x * q) * y = x * r
  <2>1. x * (y * q + r) = n * y
    BY <1>5, <1>7
  <2>2. x * (y * q + r) = (x * q) * y + x * r
    BY <1>4, <1>7
  <2>3. (n - x * q) * y = n * y - (x * q) * y
    BY <1>4, <1>7
  <2>4. x * r \in Int /\ (x * q) * y \in Int /\ n * y \in Int
    BY <1>4, <1>7
  <2> HIDE DEF q, r
  <2> QED
    BY <2>1, <2>2, <2>3, <2>4
<1>9. (n - x * q) * d = n * r
  <2> DEFINE e == n - x * q
  <2>0. e \in Int /\ e * y = x * r
    BY <1>7, <1>8
  <2> HIDE DEF e
  <2>1. (e * d) * y = (e * y) * d
    BY <1>4, <2>0
  <2>2. (x * r) * d = (x * d) * r
    BY <1>7
  <2>3. (n * y) * r = (n * r) * y
    BY <1>4, <1>7
  <2>4. (e * d) * y = (n * r) * y
    BY <1>5, <2>0, <2>1, <2>2, <2>3
  <2>5. e * d \in Int /\ n * r \in Int
    BY <1>7, <2>0
  <2>6. e * d = n * r
    BY <1>4, <2>4, <2>5, Cancels
  <2> QED
    BY <2>6 DEF e
<1>10. r = 0
  <2> SUFFICES ASSUME r # 0 PROVE FALSE
    OBVIOUS
  <2>1. n - x * q \in Int /\ r \in Nat \ {0}
    BY <1>7
  <2>2. y <= r
    BY <1>6, <1>9, <2>1
  <2> QED
    BY <1>4, <1>7, <2>2
<1>11. d = y * q /\ q # 0
  <2>1. d = y * q
    BY <1>4, <1>7, <1>10
  <2>2. y * 0 = 0
    BY <1>4
  <2> QED
    BY <2>1, <2>2
<1>12. n = x * q
  <2>1. x * 0 = 0
    OBVIOUS
  <2>2. (n - x * q) * y = 0 * y
    BY <1>4, <1>8, <1>10, <2>1
  <2>3. n - x * q \in Int
    BY <1>7
  <2>4. n - x * q = 0
    BY <1>4, <2>2, <2>3, Cancels
  <2>5. x * q \in Int
    BY <1>7
  <2> QED
    BY <2>4, <2>5
<1>13. q \in Nat \ {0}
  BY <1>7, <1>11
<1>14. DividesInto(n, d, q, x, y) /\ Least(n, d, y)
  BY <1>6, <1>11, <1>12 DEF DividesInto, Least, SameRatio
<1> QED
  BY <1>4, <1>13, <1>14

(* A fraction is in lowest terms.                                          *)
LEMMA FractionLeast ==
  ASSUME NEW n \in Int, NEW d \in Nat \ {0}
  PROVE  \E x \in Int, y \in Nat \ {0} :
           Fraction(n, d) = <<x, y>> /\ SameRatio(n, d, x, y) /\ Least(n, d, y)
<1>1. PICK g \in Nat \ {0}, x \in Int, y \in Nat \ {0} :
        Fraction(n, d) = <<x, y>> /\ DividesInto(n, d, g, x, y) /\ Greatest(n, d, g)
  BY FractionTerms
<1>2. PICK x0 \in Int, y0 \in Nat \ {0}, q \in Nat \ {0} :
        DividesInto(n, d, q, x0, y0) /\ Least(n, d, y0)
  BY LeastPair
<1>3. q <= g
  BY <1>1, <1>2 DEF Greatest
<1>4. y <= y0
  <2> SUFFICES ASSUME y0 + 1 <= y PROVE FALSE
    OBVIOUS
  <2>1. (y0 + 1) * g <= y * g
    BY <1>1
  <2>2. y0 * q <= y0 * g
    BY <1>3
  <2>3. (y0 + 1) * g = y0 * g + g
    OBVIOUS
  <2>4. y0 * g \in Int /\ y * g = y0 * q
    BY <1>1, <1>2 DEF DividesInto
  <2> QED
    BY <2>1, <2>2, <2>3, <2>4
<1>5. x * (y * g) = (x * g) * y
  OBVIOUS
<1>6. SameRatio(n, d, x, y)
  BY <1>1, <1>5 DEF DividesInto, SameRatio
<1>7. Least(n, d, y)
  BY <1>2, <1>4 DEF Least
<1> QED
  BY <1>1, <1>6, <1>7

(* Numbers of the same ratio make the same fraction.                       *)
LEMMA SameFraction ==
  ASSUME NEW n \in Int, NEW d \in Nat \ {0}, NEW m \in Int, NEW e \in Nat \ {0},
         n * e = m * d
  PROVE  Fraction(n, d) = Fraction(m, e)
<1>1. PICK x \in Int, y \in Nat \ {0} :
        Fraction(n, d) = <<x, y>> /\ SameRatio(n, d, x, y) /\ Least(n, d, y)
  BY FractionLeast
<1>2. PICK w \in Int, z \in Nat \ {0} :
        Fraction(m, e) = <<w, z>> /\ SameRatio(m, e, w, z) /\ Least(m, e, z)
  BY FractionLeast
<1>3. x * e = m * y
  <2>1. (x * e) * d = (x * d) * e
    OBVIOUS
  <2>2. (n * y) * e = (n * e) * y
    OBVIOUS
  <2>3. (m * d) * y = (m * y) * d
    OBVIOUS
  <2>4. (x * e) * d = (m * y) * d
    BY <1>1, <2>1, <2>2, <2>3 DEF SameRatio
  <2>5. x * e \in Int /\ m * y \in Int
    OBVIOUS
  <2> QED
    BY <2>4, <2>5, Cancels
<1>4. w * d = n * z
  <2>1. (w * d) * e = (w * e) * d
    OBVIOUS
  <2>2. (m * z) * d = (m * d) * z
    OBVIOUS
  <2>3. (n * e) * z = (n * z) * e
    OBVIOUS
  <2>4. (w * d) * e = (n * z) * e
    BY <1>2, <2>1, <2>2, <2>3 DEF SameRatio
  <2>5. w * d \in Int /\ n * z \in Int
    OBVIOUS
  <2> QED
    BY <2>4, <2>5, Cancels
<1>5. y = z
  <2>1. y <= z /\ z <= y
    BY <1>1, <1>2, <1>3, <1>4 DEF Least, SameRatio
  <2> QED
    BY <2>1
<1>6. x = w
  <2>1. x * d = w * d
    BY <1>1, <1>4, <1>5 DEF SameRatio
  <2> QED
    BY <2>1, Cancels
<1> QED
  BY <1>1, <1>2, <1>5, <1>6

-----------------------------------------------------------------------------
(* Worths.                                                                 *)

(* The pair p is worth n over d.                                           *)
Worth(p, n, d) == p \in Int \X (Nat \ {0}) /\ p[1] * d = n * p[2]

(* A fraction is worth what it is made of.                                 *)
LEMMA FractionWorth ==
  ASSUME NEW n \in Int, NEW d \in Nat \ {0}
  PROVE  Worth(Fraction(n, d), n, d)
<1>1. PICK x \in Int, y \in Nat \ {0} : Fraction(n, d) = <<x, y>> /\ SameRatio(n, d, x, y)
  BY FractionRatio
<1>2. <<x, y>> \in Int \X (Nat \ {0}) /\ <<x, y>>[1] = x /\ <<x, y>>[2] = y
  OBVIOUS
<1> QED
  BY <1>1, <1>2 DEF Worth, SameRatio

(* A pair is worth itself, and a whole number too.                         *)
LEMMA PairWorth ==
  ASSUME NEW p \in Int \X (Nat \ {0})
  PROVE  Worth(p, p[1], p[2])
BY DEF Worth

(* A whole number is worth itself over one.                                *)
LEMMA WholeWorth ==
  ASSUME NEW n \in Int
  PROVE  Worth(Whole(n), n, 1)
BY DEF Worth, Whole

(* Products of denominators are denominators.                              *)
LEMMA Denominators ==
  ASSUME NEW d \in Nat \ {0}, NEW e \in Nat \ {0}
  PROVE  d * e \in Nat \ {0}
OBVIOUS

(* Two pairs worth the same make the same fraction.                        *)
LEMMA WorthSame ==
  ASSUME NEW n \in Int, NEW d \in Nat \ {0}, NEW p, Worth(p, n, d)
  PROVE  Fraction(p[1], p[2]) = Fraction(n, d)
BY SameFraction DEF Worth

(* The operations compute what their names say.                            *)
LEMMA PlusIs ==
  ASSUME NEW n \in Int, NEW d \in Nat \ {0}, NEW p, Worth(p, n, d),
         NEW m \in Int, NEW e \in Nat \ {0}, NEW r, Worth(r, m, e)
  PROVE  Plus(p, r) = Fraction(n * e + m * d, d * e)
<1> DEFINE a == p[1]  b == p[2]  u == r[1]  v == r[2]
<1>1. /\ a \in Int /\ b \in Nat \ {0} /\ u \in Int /\ v \in Nat \ {0}
      /\ a * d = n * b /\ u * e = m * v
  BY DEF Worth
<1>2. Plus(p, r) = Fraction(a * v + u * b, b * v)
  BY DEF Plus
<1> HIDE DEF a, b, u, v
<1>3. (a * v + u * b) * (d * e) = (a * d) * (v * e) + (u * e) * (b * d)
  BY <1>1
<1>4. (n * e + m * d) * (b * v) = (n * b) * (v * e) + (m * v) * (b * d)
  BY <1>1
<1>5. (a * v + u * b) * (d * e) = (n * e + m * d) * (b * v)
  BY <1>1, <1>3, <1>4
<1>6. /\ a * v + u * b \in Int /\ n * e + m * d \in Int
      /\ b * v \in Nat \ {0} /\ d * e \in Nat \ {0}
  BY <1>1, Denominators
<1> QED
  BY <1>2, <1>5, <1>6, SameFraction

(* A difference is the difference of what its parts are worth.             *)
LEMMA MinusIs ==
  ASSUME NEW n \in Int, NEW d \in Nat \ {0}, NEW p, Worth(p, n, d),
         NEW m \in Int, NEW e \in Nat \ {0}, NEW r, Worth(r, m, e)
  PROVE  Minus(p, r) = Fraction(n * e - m * d, d * e)
<1> DEFINE a == p[1]  b == p[2]  u == r[1]  v == r[2]
<1>1. /\ a \in Int /\ b \in Nat \ {0} /\ u \in Int /\ v \in Nat \ {0}
      /\ a * d = n * b /\ u * e = m * v
  BY DEF Worth
<1>2. Minus(p, r) = Fraction(a * v - u * b, b * v)
  BY DEF Minus
<1> HIDE DEF a, b, u, v
<1>3. (a * v - u * b) * (d * e) = (a * d) * (v * e) - (u * e) * (b * d)
  BY <1>1
<1>4. (n * e - m * d) * (b * v) = (n * b) * (v * e) - (m * v) * (b * d)
  BY <1>1
<1>5. (a * v - u * b) * (d * e) = (n * e - m * d) * (b * v)
  BY <1>1, <1>3, <1>4
<1>6. /\ a * v - u * b \in Int /\ n * e - m * d \in Int
      /\ b * v \in Nat \ {0} /\ d * e \in Nat \ {0}
  BY <1>1, Denominators
<1> QED
  BY <1>2, <1>5, <1>6, SameFraction

(* A multiple is worth that many times as much.                            *)
LEMMA ScaledIs ==
  ASSUME NEW n \in Int, NEW d \in Nat \ {0}, NEW p, Worth(p, n, d), NEW k \in Int
  PROVE  Scaled(p, k) = Fraction(n * k, d)
<1> DEFINE a == p[1]  b == p[2]
<1>1. a \in Int /\ b \in Nat \ {0} /\ a * d = n * b
  BY DEF Worth
<1>2. Scaled(p, k) = Fraction(a * k, b)
  BY DEF Scaled
<1> HIDE DEF a, b
<1>3. (a * k) * d = (a * d) * k /\ (n * k) * b = (n * b) * k
  BY <1>1
<1>4. (a * k) * d = (n * k) * b
  BY <1>1, <1>3
<1>5. a * k \in Int /\ n * k \in Int
  BY <1>1
<1> QED
  BY <1>1, <1>2, <1>4, <1>5, SameFraction

(* A quotient is worth that part of it.                                    *)
LEMMA DividedIs ==
  ASSUME NEW n \in Int, NEW d \in Nat \ {0}, NEW p, Worth(p, n, d), NEW k \in Nat \ {0}
  PROVE  DividedBy(p, k) = Fraction(n, d * k)
<1> DEFINE a == p[1]  b == p[2]
<1>1. a \in Int /\ b \in Nat \ {0} /\ a * d = n * b
  BY DEF Worth
<1>2. DividedBy(p, k) = Fraction(a, b * k)
  BY DEF DividedBy
<1> HIDE DEF a, b
<1>3. a * (d * k) = (a * d) * k /\ n * (b * k) = (n * b) * k
  BY <1>1
<1>4. a * (d * k) = n * (b * k)
  BY <1>1, <1>3
<1>5. b * k \in Nat \ {0} /\ d * k \in Nat \ {0}
  BY <1>1, Denominators
<1> QED
  BY <1>1, <1>2, <1>4, <1>5, SameFraction

-----------------------------------------------------------------------------
(* A position's profit is exact: it is what its cash and its holdings at
   their average cost come to.                                             *)
Exact(p) ==
  /\ p \in Position /\ p.average_entry[2] # 0
  /\ p.realized_pnl = Fraction(p.cash * p.average_entry[2] + p.average_entry[1] * p.quantity,
                              p.average_entry[2])
  /\ p.quantity = 0 => p.average_entry = Whole(0)

(* That is what the sum says which AccountsAgree takes.                    *)
LEMMA ExactIs ==
  ASSUME NEW p \in Position, p.average_entry[2] # 0
  PROVE  Plus(Whole(p.cash), Scaled(p.average_entry, p.quantity)) =
           Fraction(p.cash * p.average_entry[2] + p.average_entry[1] * p.quantity,
                    p.average_entry[2])
<1> DEFINE a == p.average_entry[1]  b == p.average_entry[2]  c == p.cash  q == p.quantity
<1>1. a \in Nat /\ b \in Nat \ {0} /\ c \in Int /\ q \in Int
  BY DEF Position
<1>2. Worth(p.average_entry, a, b)
  BY PairWorth DEF Position
<1> HIDE DEF a, b, c, q
<1>3. a * q \in Int
  BY <1>1
<1>4. Scaled(p.average_entry, q) = Fraction(a * q, b)
  BY <1>1, <1>2, ScaledIs
<1>5. Worth(Whole(c), c, 1)
  BY <1>1, WholeWorth
<1>6. Worth(Fraction(a * q, b), a * q, b)
  BY <1>1, <1>3, FractionWorth
<1>7. 1 \in Nat \ {0}
  OBVIOUS
<1>8. Plus(Whole(c), Fraction(a * q, b)) = Fraction(c * b + (a * q) * 1, 1 * b)
  BY <1>1, <1>3, <1>5, <1>6, <1>7, PlusIs
<1>9. (a * q) * 1 = a * q /\ 1 * b = b
  BY <1>1, <1>3
<1> QED
  BY <1>4, <1>8, <1>9 DEF a, b, c, q

(* What is paid goes off the cash.                                         *)
LEMMA CashMoved ==
  ASSUME NEW m \in Position, NEW c \in Int
  PROVE  LET r == [m EXCEPT !.cash = @ - c]
         IN /\ r \in Position
            /\ r.quantity = m.quantity /\ r.average_entry = m.average_entry
            /\ r.realized_pnl = m.realized_pnl /\ r.cash = m.cash - c
<1>1. \A v \in Int : [m EXCEPT !.cash = v] \in Position
  BY DEF Position
<1>2. m.cash - c \in Int
  BY DEF Position
<1>3. [m EXCEPT !.cash = @ - c] \in Position
  BY <1>1, <1>2
<1> QED
  BY <1>3 DEF Position

(* A position that opens or grows: the new average is the cost of all of it
   over its size, so what it is worth moves by what was paid.              *)
LEMMA IncreasedExact ==
  ASSUME NEW p, Exact(p), NEW price \in Nat, NEW s \in Int, s # 0,
         p.quantity = 0 \/ (p.quantity > 0 <=> s > 0)
  PROVE  LET moved == [Increased(p, s, price) EXCEPT !.cash = @ - s * price]
         IN /\ Exact(moved)
            /\ moved.quantity = p.quantity + s /\ moved.cash = p.cash - s * price
<1> DEFINE a == p.average_entry[1]  b == p.average_entry[2]  c == p.cash  q == p.quantity
           A == Absolute(q)  B == Absolute(s)  T == Absolute(q + s)
           avg == DividedBy(Cost(p, s, price), T)
           r == [Increased(p, s, price) EXCEPT !.cash = @ - s * price]
<1>1. /\ a \in Nat /\ b \in Nat \ {0} /\ c \in Int /\ q \in Int
      /\ p \in Position
      /\ p.realized_pnl = Fraction(c * b + a * q, b)
  BY DEF Exact, Position
<1>2. Worth(p.average_entry, a, b)
  BY <1>1, PairWorth DEF Position
<1>3. /\ A \in Nat /\ B \in Nat \ {0} /\ T \in Nat \ {0} /\ T = A + B
      /\ \/ q = A /\ s = B
         \/ q = -A /\ s = -B
  BY <1>1 DEF Absolute
<1>5. avg = DividedBy(Plus(Scaled(p.average_entry, A), Whole(price * B)), T)
  BY DEF Cost
<1>4. avg \in Nat \X Nat =>
        /\ r \in Position
        /\ r.quantity = q + s /\ r.average_entry = avg /\ r.realized_pnl = p.realized_pnl
        /\ r.cash = c - s * price
  <2> DEFINE m == Increased(p, s, price)
  <2>1. m = [p EXCEPT !.quantity = @ + s, !.average_entry = avg]
    BY DEF Increased
  <2> HIDE DEF avg
  <2>2. ASSUME avg \in Nat \X Nat
        PROVE  /\ m \in Position /\ m.quantity = q + s /\ m.average_entry = avg
               /\ m.realized_pnl = p.realized_pnl /\ m.cash = c
    <3>1. \A v \in Int, e \in Nat \X Nat :
            [p EXCEPT !.quantity = v, !.average_entry = e] \in Position
      BY <1>1 DEF Position
    <3>2. q + s \in Int
      BY <1>1
    <3> HIDE DEF m
    <3>3. m \in Position
      BY <2>1, <2>2, <3>1, <3>2
    <3>4. /\ m.quantity = q + s /\ m.average_entry = avg
          /\ m.realized_pnl = p.realized_pnl /\ m.cash = c
      BY <1>1, <2>1, <2>2 DEF Position
    <3> QED
      BY <3>3, <3>4
  <2>3. r = [m EXCEPT !.cash = @ - s * price] /\ s * price \in Int
    OBVIOUS
  <2> HIDE DEF m, r, q, c
  <2> QED
    BY <2>2, <2>3, CashMoved
<1> HIDE DEF a, b, c, q, A, B, T, avg, r
<1> DEFINE M == a * A + (price * B) * b
<1>6. a * A \in Nat /\ price * B \in Nat /\ (price * B) * b \in Nat /\ M \in Nat
      /\ b * T \in Nat \ {0}
  BY <1>1, <1>3, Denominators
<1>7. avg = Fraction(M, b * T)
  <2>1. Scaled(p.average_entry, A) = Fraction(a * A, b)
    BY <1>1, <1>2, <1>3, ScaledIs
  <2>2. Worth(Fraction(a * A, b), a * A, b)
    BY <1>1, <1>6, FractionWorth
  <2>3. Worth(Whole(price * B), price * B, 1) /\ 1 \in Nat \ {0}
    BY <1>6, WholeWorth
  <2>4. Plus(Fraction(a * A, b), Whole(price * B)) = Fraction((a * A) * 1 + (price * B) * b, b * 1)
    BY <1>1, <1>6, <2>2, <2>3, PlusIs
  <2>5. (a * A) * 1 = a * A /\ b * 1 = b
    BY <1>1, <1>6
  <2>6. Worth(Fraction(M, b), M, b)
    BY <1>1, <1>6, FractionWorth
  <2>7. DividedBy(Fraction(M, b), T) = Fraction(M, b * T)
    BY <1>1, <1>3, <1>6, <2>6, DividedIs
  <2> QED
    BY <1>5, <2>1, <2>4, <2>5, <2>7
<1> DEFINE x == avg[1]  y == avg[2]
<1>8. avg \in Int \X (Nat \ {0}) /\ x * (b * T) = M * y
  <2>1. Worth(avg, M, b * T)
    BY <1>6, <1>7, FractionWorth
  <2> QED
    BY <2>1 DEF Worth
<1>9. x \in Int /\ y \in Nat \ {0} /\ avg = <<x, y>>
  BY <1>8
<1> HIDE DEF x, y, M
<1>10. x \in Nat
  <2>1. M * y \in Nat
    BY <1>6, <1>9
  <2>2. x < 0 => x * (b * T) < 0
    BY <1>6, <1>9
  <2> QED
    BY <1>8, <1>9, <2>1, <2>2
<1>11. (c * b + a * q) * y = ((c - s * price) * y + x * (q + s)) * b
  <2>1. (x * T) * b = a * A * y + price * B * b * y
    <3>1. (x * T) * b = x * (b * T)
      BY <1>1, <1>3, <1>9
    <3>2. M * y = a * A * y + price * B * b * y
      BY <1>1, <1>3, <1>9 DEF M
    <3> QED
      BY <1>8, <3>1, <3>2
  <2>2. CASE q = A /\ s = B
    <3>1. ((c - s * price) * y + x * (q + s)) * b
            = c * y * b - B * price * y * b + (x * T) * b
      BY <1>1, <1>3, <1>9, <2>2
    <3>2. (c * b + a * q) * y = c * y * b + a * A * y
      BY <1>1, <1>3, <1>9, <2>2
    <3>3. price * B * b * y = B * price * y * b
      BY <1>1, <1>3, <1>9
    <3>4. c * y * b \in Int /\ B * price * y * b \in Int /\ a * A * y \in Int
      BY <1>1, <1>3, <1>9
    <3> QED
      BY <2>1, <3>1, <3>2, <3>3, <3>4
  <2>3. CASE q = -A /\ s = -B
    <3>1. ((c - s * price) * y + x * (q + s)) * b
            = c * y * b + B * price * y * b - (x * T) * b
      BY <1>1, <1>3, <1>9, <2>3
    <3>2. (c * b + a * q) * y = c * y * b - a * A * y
      BY <1>1, <1>3, <1>9, <2>3
    <3>3. price * B * b * y = B * price * y * b
      BY <1>1, <1>3, <1>9
    <3>4. c * y * b \in Int /\ B * price * y * b \in Int /\ a * A * y \in Int
      BY <1>1, <1>3, <1>9
    <3> QED
      BY <2>1, <3>1, <3>2, <3>3, <3>4
  <2> QED
    BY <1>3, <2>2, <2>3
<1>12. p.realized_pnl = Fraction((c - s * price) * y + x * (q + s), y)
  <2>1. c * b + a * q \in Int /\ (c - s * price) * y + x * (q + s) \in Int
    BY <1>1, <1>9
  <2> QED
    BY <1>1, <1>9, <1>11, <2>1, SameFraction
<1>13. q + s # 0
  BY <1>3
<1>14. /\ r \in Position /\ r.average_entry = <<x, y>> /\ r.quantity = q + s
       /\ r.cash = c - s * price /\ r.realized_pnl = p.realized_pnl
  BY <1>4, <1>9, <1>10
<1>16. Exact(r)
  BY <1>9, <1>12, <1>13, <1>14 DEF Exact
<1> QED
  BY <1>14, <1>16 DEF r, q, c

(* A trade against the position realizes the difference to the average on
   what it closes; what it turns into is worth what was paid for it.       *)
LEMMA ReducedExact ==
  ASSUME NEW p, Exact(p), NEW price \in Nat, NEW s \in Int, s # 0,
         p.quantity # 0, ~(p.quantity > 0 <=> s > 0)
  PROVE  LET moved == [Reduced(p, s, price) EXCEPT !.cash = @ - s * price]
         IN /\ Exact(moved)
            /\ moved.quantity = p.quantity + s /\ moved.cash = p.cash - s * price
<1> DEFINE a == p.average_entry[1]  b == p.average_entry[2]  c == p.cash  q == p.quantity
           k == (IF q > 0 THEN 1 ELSE -1) * Smaller(Absolute(q), Absolute(s))
           avg == AverageAfter(p, s, price)
           pnl == Plus(p.realized_pnl, Scaled(Minus(Whole(price), p.average_entry), k))
           r == [Reduced(p, s, price) EXCEPT !.cash = @ - s * price]
<1>1. /\ a \in Nat /\ b \in Nat \ {0} /\ c \in Int /\ q \in Int
      /\ p \in Position /\ p.average_entry = <<a, b>>
      /\ p.realized_pnl = Fraction(c * b + a * q, b)
  BY DEF Exact, Position
<1>2. Worth(p.average_entry, a, b)
  BY <1>1, PairWorth DEF Position
<1>3. /\ k \in Int
      /\ \/ q + s = 0 /\ k = q /\ avg = <<0, 1>>
         \/ q + s # 0 /\ k = q /\ avg = <<price, 1>>
         \/ q + s # 0 /\ k = -s /\ avg = <<a, b>>
  <2>1. q # 0 /\ (q > 0 => s < 0) /\ (q < 0 => s > 0)
    BY <1>1
  <2>2. avg = IF q + s = 0 THEN <<0, 1>>
              ELSE IF Absolute(s) > Absolute(q) THEN <<price, 1>> ELSE <<a, b>>
    BY <1>1 DEF AverageAfter, Whole
  <2>3. k = IF q > 0 THEN Smaller(q, -s) ELSE -Smaller(-q, s)
    <3>1. CASE q > 0
      <4>1. Absolute(q) = q /\ Absolute(s) = -s
        BY <1>1, <2>1, <3>1 DEF Absolute
      <4>2. 1 * Smaller(q, -s) = Smaller(q, -s)
        BY <1>1 DEF Smaller
      <4> QED
        BY <3>1, <4>1, <4>2
    <3>2. CASE q < 0
      <4>1. Absolute(q) = -q /\ Absolute(s) = s
        BY <1>1, <2>1, <3>2 DEF Absolute
      <4>2. (-1) * Smaller(-q, s) = -Smaller(-q, s)
        BY <1>1 DEF Smaller
      <4> QED
        BY <1>1, <3>2, <4>1, <4>2
    <3> QED
      BY <1>1, <2>1, <3>1, <3>2
  <2> HIDE DEF k, avg, q, a, b
  <2> QED
    BY <1>1, <2>1, <2>2, <2>3 DEF Absolute, Smaller
<1>4. avg \in Nat \X Nat /\ pnl \in Int \X Nat =>
        /\ r \in Position
        /\ r.quantity = q + s /\ r.average_entry = avg /\ r.realized_pnl = pnl
        /\ r.cash = c - s * price
  <2> DEFINE m == Reduced(p, s, price)
  <2>1. m = [p EXCEPT !.quantity = @ + s, !.average_entry = avg, !.realized_pnl = pnl]
    BY DEF Reduced
  <2> HIDE DEF avg, pnl
  <2>2. ASSUME avg \in Nat \X Nat, pnl \in Int \X Nat
        PROVE  /\ m \in Position /\ m.quantity = q + s /\ m.average_entry = avg
               /\ m.realized_pnl = pnl /\ m.cash = c
    <3>1. \A v \in Int, e \in Nat \X Nat, w \in Int \X Nat :
            [p EXCEPT !.quantity = v, !.average_entry = e, !.realized_pnl = w] \in Position
      BY <1>1 DEF Position
    <3>2. q + s \in Int
      BY <1>1
    <3> HIDE DEF m
    <3>3. m \in Position
      BY <2>1, <2>2, <3>1, <3>2
    <3>4. /\ m.quantity = q + s /\ m.average_entry = avg
          /\ m.realized_pnl = pnl /\ m.cash = c
      BY <1>1, <2>1, <2>2 DEF Position
    <3> QED
      BY <3>3, <3>4
  <2>3. r = [m EXCEPT !.cash = @ - s * price] /\ s * price \in Int
    OBVIOUS
  <2> HIDE DEF m, r, q, c
  <2> QED
    BY <2>2, <2>3, CashMoved
<1> HIDE DEF a, b, c, q, k, avg, r
<1> DEFINE gain == (price * b - a) * k
           N == c * b + a * q
<1>5. gain \in Int /\ N \in Int /\ price * b - a \in Int /\ N * b + gain * b \in Int
      /\ b * b \in Nat \ {0} /\ 1 \in Nat \ {0} /\ N + gain \in Int
  BY <1>1, <1>3, Denominators
<1>6. pnl = Fraction(N + gain, b)
  <2>1. Worth(Whole(price), price, 1)
    BY WholeWorth
  <2>2. Minus(Whole(price), p.average_entry) = Fraction(price * b - a * 1, 1 * b)
    BY <1>1, <1>2, <1>5, <2>1, MinusIs
  <2>3. price * b - a * 1 = price * b - a /\ 1 * b = b
    BY <1>1
  <2>4. Worth(Fraction(price * b - a, b), price * b - a, b)
    BY <1>1, <1>5, FractionWorth
  <2>5. Scaled(Fraction(price * b - a, b), k) = Fraction(gain, b)
    BY <1>1, <1>3, <1>5, <2>4, ScaledIs
  <2>6. Worth(Fraction(gain, b), gain, b) /\ Worth(Fraction(N, b), N, b)
    BY <1>1, <1>5, FractionWorth
  <2>7. p.realized_pnl = Fraction(N, b)
    BY <1>1
  <2> HIDE DEF gain, N
  <2>8. Plus(Fraction(N, b), Fraction(gain, b)) = Fraction(N * b + gain * b, b * b)
    BY <1>1, <1>5, <2>6, PlusIs
  <2>9. (N * b + gain * b) * b = (N + gain) * (b * b)
    BY <1>1, <1>5
  <2>10. Fraction(N * b + gain * b, b * b) = Fraction(N + gain, b)
    BY <1>1, <1>5, <2>9, SameFraction
  <2> QED
    BY <2>2, <2>3, <2>5, <2>7, <2>8, <2>10
<1>7. pnl \in Int \X Nat
  <2> HIDE DEF gain, N
  <2>1. Worth(Fraction(N + gain, b), N + gain, b)
    BY <1>1, <1>5, FractionWorth
  <2> QED
    BY <1>6, <2>1 DEF Worth
<1> HIDE DEF pnl
<1>8. avg \in Nat \X Nat /\ avg[2] # 0
  BY <1>1, <1>3
<1>9. pnl = Fraction((c - s * price) * avg[2] + avg[1] * (q + s), avg[2])
  <2>1. CASE k = q /\ ((q + s = 0 /\ avg = <<0, 1>>) \/ avg = <<price, 1>>)
    <3> DEFINE v == (c - s * price) * avg[2] + avg[1] * (q + s)
    <3>1. v = c + price * q
      <4>1. CASE q + s = 0 /\ avg = <<0, 1>>
        <5>1. s = -q
          BY <1>1, <4>1
        <5>2. c - (-q) * price = c + price * q
          BY <1>1
        <5> QED
          BY <1>1, <4>1, <5>1, <5>2
      <4>2. CASE avg = <<price, 1>>
        <5>1. (c - s * price) * 1 + price * (q + s) = c + price * q
          BY <1>1
        <5> QED
          BY <4>2, <5>1
      <4> QED
        BY <2>1, <4>1, <4>2
    <3>2. N + gain = (c + price * q) * b
      BY <1>1, <2>1
    <3>3. avg[2] = 1 /\ v \in Int
      BY <1>1, <2>1, <3>1
    <3> HIDE DEF v, N, gain
    <3>4. (N + gain) * 1 = v * b
      BY <1>1, <1>5, <3>1, <3>2
    <3>5. Fraction(N + gain, b) = Fraction(v, 1)
      BY <1>1, <1>5, <3>3, <3>4, SameFraction
    <3> QED
      BY <1>6, <3>3, <3>5 DEF v
  <2>2. CASE k = -s /\ avg = <<a, b>>
    <3>1. (c - s * price) * b + a * (q + s) = N + gain
      BY <1>1, <2>2
    <3> QED
      BY <1>6, <2>2, <3>1
  <2> QED
    BY <1>3, <2>1, <2>2
<1>10. /\ r \in Position /\ r.quantity = q + s /\ r.average_entry = avg
       /\ r.realized_pnl = pnl /\ r.cash = c - s * price
  BY <1>4, <1>7, <1>8
<1>11. q + s = 0 => avg = Whole(0)
  BY <1>3 DEF Whole
<1>12. Exact(r)
  BY <1>8, <1>9, <1>10, <1>11 DEF Exact
<1> QED
  BY <1>10, <1>12 DEF r, q, c

(* A trade keeps a position exact and moves its quantity and its cash.     *)
LEMMA AppliedExact ==
  ASSUME NEW p, Exact(p), NEW side \in Side, NEW price \in Nat, NEW quantity \in Nat \ {0}
  PROVE  LET s == Signed(side, quantity)
             moved == Applied(p, side, price, quantity)
         IN /\ Exact(moved) /\ s \in Int
            /\ moved.quantity = p.quantity + s /\ moved.cash = p.cash - s * price
<1>1. Signed(side, quantity) \in Int /\ Signed(side, quantity) # 0
  BY DEF Signed
<1> QED
  BY <1>1, IncreasedExact, ReducedExact DEF Applied

(* An account that never traded owns nothing.                              *)
LEMMA NothingExact == Exact(NoPosition)
<1>1. Worth(Fraction(0, 1), 0, 1)
  BY FractionWorth
<1>2. PICK x \in Int, y \in Nat \ {0} :
        Fraction(0, 1) = <<x, y>> /\ SameRatio(0, 1, x, y) /\ Least(0, 1, y)
  BY FractionLeast
<1>3. x = 0
  BY <1>2 DEF SameRatio
<1>4. SameRatio(0, 1, 0, 1)
  BY DEF SameRatio
<1>5. y <= 1
  BY <1>2, <1>4 DEF Least
<1>6. Fraction(0, 1) = <<0, 1>>
  BY <1>2, <1>3, <1>5
<1> QED
  BY <1>6 DEF Exact, NoPosition, Position, Whole

-----------------------------------------------------------------------------
(* The book.                                                               *)

(* The requests of the gateway are any that type-check: the theorems about the
   book hold for every set of requests, so for this one.                   *)
AnyRequest ==
  [account : Accounts, side : Side, type : OrderType, tif : TimeInForce,
   price : Prices \cup {NoPrice}, quantity : Nat]

(* The book of the gateway, with the theorems about it.                    *)
B == INSTANCE OrderBookProofs
       WITH Requests <- AnyRequest, RiskRequests <- AnyRequest,
            ModifyQuantities <- Nat, ModifyPrices <- Prices \cup {NoPrice}

(* What the theorems about the book assume of its constants.               *)
LEMMA BookAssumptions ==
  /\ B!FiniteAssumption /\ B!PricesAssumption /\ B!PolicyAssumption
  /\ B!RequestsAssumption /\ B!ModifyAssumption /\ B!SentinelsAssumption
<1>1. B!IsFiniteSet(OrderIds)
  BY BookAssumption DEF IsFiniteSet, B!IsFiniteSet
<1>2. B!Order = Book!Order
  BY DEF B!Order, Book!Order, B!Side, B!OrderType, B!TimeInForce, B!OrderStatus, B!NoPrice,
      Book!Side, Book!OrderType, Book!TimeInForce, Book!OrderStatus, Book!NoPrice
<1>3. B!Request = AnyRequest
  BY DEF B!Request, AnyRequest, B!Side, B!OrderType, B!TimeInForce, B!NoPrice,
         Side, OrderType, TimeInForce, NoPrice
<1>4. NoPrice = B!NoPrice
  BY DEF NoPrice, B!NoPrice
<1>5. SelfTradePolicy = B!SelfTradePolicy
  BY DEF SelfTradePolicy, B!SelfTradePolicy
<1> QED
  BY <1>1, <1>2, <1>3, <1>4, <1>5, BookAssumption
  DEF B!FiniteAssumption, B!PricesAssumption, B!PolicyAssumption,
      B!RequestsAssumption, B!ModifyAssumption, B!SentinelsAssumption

(* The operations of the book, as the theorems about it know them.         *)
LEMMA SameCrosses ==
  ASSUME NEW o
  PROVE  Book!CrossesBook(o) <=> B!CrossesBook(o)
BY DEF Book!CrossesBook, Book!Crosses, Book!Opposite, B!CrossesBook, B!Crosses, B!Opposite

(* The quantity an all-or-nothing order could take is the same.            *)
LEMMA SameAvailable ==
  ASSUME NEW o
  PROVE  Book!AvailableLiquidity(o) = B!AvailableLiquidity(o)
BY DEF Book!AvailableLiquidity, Book!MapThenSumSet, Book!MapThenFoldSet, Book!Occupant,
       Book!Places, Book!Crosses, Book!NoLater, Book!Better, Book!Opposite,
       B!AvailableLiquidity, B!MapThenSumSet, B!MapThenFoldSet, B!Occupant,
       B!Places, B!Crosses, B!NoLater, B!Better, B!Opposite

(* The same requests are refused.                                          *)
LEMMA SameRefused ==
  ASSUME NEW id, NEW r
  PROVE  Book!Refused(id, r) <=> B!Refused(id, r)
<1>1. Book!Invalid(id, r) <=> B!Invalid(id, r)
  BY DEF Book!Invalid, Book!Known, Book!NoPrice, B!Invalid, B!Known, B!NoPrice
<1> QED
  BY <1>1, SameCrosses, SameAvailable DEF Book!Refused, B!Refused

(* An order leaves its level in the same way.                              *)
LEMMA SameUnlink ==
  ASSUME NEW id, NEW i
  PROVE  Book!Unlink(id, i) <=> B!Unlink(id, i)
BY DEF Book!Unlink, Book!LevelOf, Book!Dequeue, Book!Decremented, Book!RemoveAt,
       B!Unlink, B!LevelOf, B!Dequeue, B!Decremented, B!RemoveAt

(* The same modifications are allowed.                                     *)
LEMMA SameModifiable ==
  ASSUME NEW id, NEW who, NEW quantity, NEW price
  PROVE  Book!Modifiable(id, who, quantity, price) <=> B!Modifiable(id, who, quantity, price)
BY SameCrosses DEF Book!Modifiable, Book!MayTouch, Book!NoPrice,
                   B!Modifiable, B!MayTouch, B!NoPrice

(* A new order's way into the book.                                        *)
LEMMA SubmitMoves ==
  ASSUME NEW id \in OrderIds, NEW r \in AnyRequest,
         Book!Accept(id, r) \/ Book!RejectSubmit(id, r) \/ Book!RejectByRisk(id, r)
  PROVE  B!Accept(id, r) \/ B!RejectSubmit(id, r) \/ B!RejectByRisk(id, r)
<1>1. CASE Book!Accept(id, r)
  BY <1>1, SameRefused DEF Book!Accept, Book!CanStart, Book!NewOrder,
                           B!Accept, B!CanStart, B!NewOrder
<1>2. CASE Book!RejectSubmit(id, r)
  BY <1>2, SameRefused DEF Book!RejectSubmit, Book!CanStart, B!RejectSubmit, B!CanStart
<1>3. CASE Book!RejectByRisk(id, r)
  BY <1>3 DEF Book!RejectByRisk, Book!CanStart, Book!NewOrder, Book!Known,
              B!RejectByRisk, B!CanStart, B!NewOrder, B!Known
<1> QED
  BY <1>1, <1>2, <1>3

(* What a cancellation does to the book.                                   *)
LEMMA CancelMoves ==
  ASSUME NEW id \in OrderIds, NEW who \in Accounts \cup {None},
         Book!Cancel(id, who) \/ Book!RejectCancel(id, who)
  PROVE  B!Cancel(id, who) \/ B!RejectCancel(id, who)
<1>1. CASE Book!Cancel(id, who)
  BY <1>1, SameUnlink DEF Book!Cancel, Book!CanStart, Book!MayTouch, Book!LevelOf,
                          B!Cancel, B!CanStart, B!MayTouch, B!LevelOf
<1>2. CASE Book!RejectCancel(id, who)
  BY <1>2 DEF Book!RejectCancel, Book!CanStart, Book!MayTouch,
              B!RejectCancel, B!CanStart, B!MayTouch
<1> QED
  BY <1>1, <1>2

(* What a modification does to the book.                                   *)
LEMMA ModifyMoves ==
  ASSUME NEW id \in OrderIds, NEW who \in Accounts \cup {None},
         NEW q \in Nat, NEW p \in Prices \cup {NoPrice},
         \/ Book!ModifyInPlace(id, who, q, p)
         \/ Book!ModifyAndRequeue(id, who, q, p)
         \/ Book!RejectModify(id, who, q, p)
  PROVE  \/ B!ModifyInPlace(id, who, q, p)
         \/ B!ModifyAndRequeue(id, who, q, p)
         \/ B!RejectModify(id, who, q, p)
<1>1. CASE Book!ModifyInPlace(id, who, q, p)
  BY <1>1, SameModifiable
  DEF Book!ModifyInPlace, Book!CanStart, Book!LosesPriority, Book!Resized,
      B!ModifyInPlace, B!CanStart, B!LosesPriority, B!Resized
<1>2. CASE Book!ModifyAndRequeue(id, who, q, p)
  BY <1>2, SameModifiable, SameUnlink
  DEF Book!ModifyAndRequeue, Book!CanStart, Book!LosesPriority, Book!Resized,
      Book!Requeued, Book!LevelOf,
      B!ModifyAndRequeue, B!CanStart, B!LosesPriority, B!Resized, B!Requeued, B!LevelOf
<1>3. CASE Book!RejectModify(id, who, q, p)
  BY <1>3, SameModifiable DEF Book!RejectModify, Book!CanStart, B!RejectModify, B!CanStart
<1> QED
  BY <1>1, <1>2, <1>3

(* A turn of the matching loop.                                            *)
LEMMA MatchMoves ==
  ASSUME Book!Match
  PROVE  B!Match
<1>1. /\ Book!Opposing = B!Opposing
      /\ \A p : Book!Maker(p) = B!Maker(p) /\ Book!TradeQuantity(p) = B!TradeQuantity(p)
  BY DEF Book!Opposing, Book!Opposite, Book!Maker, Book!TradeQuantity, Book!Smaller,
         B!Opposing, B!Opposite, B!Maker, B!TradeQuantity, B!Smaller
<1>2. \A p : /\ Book!Meets(p) <=> B!Meets(p)
             /\ Book!OwnMaker(p) <=> B!OwnMaker(p)
  BY <1>1 DEF Book!Meets, Book!Executing, Book!BestPrice, Book!Better, Book!Crosses,
              Book!OwnMaker, B!Meets, B!Executing, B!BestPrice, B!Better, B!Crosses,
              B!OwnMaker
<1>3. \A p : Book!Executes(p) <=> B!Executes(p)
  BY <1>1, <1>2 DEF Book!Executes, Book!Filled, B!Executes, B!Filled
<1>4. CASE Book!PreventSelfTrade
  BY <1>2, <1>4 DEF Book!PreventSelfTrade, B!PreventSelfTrade, B!Match
<1>5. CASE Book!Trade
  <2>1. PICK p \in Prices : Book!TradePartOfMaker(p) \/ Book!TradeAllOfMaker(p)
    BY <1>5 DEF Book!Trade
  <2>2. CASE Book!TradePartOfMaker(p)
    BY <1>1, <1>3, <2>2 DEF Book!TradePartOfMaker, B!TradePartOfMaker, B!Trade, B!Match
  <2>3. CASE Book!TradeAllOfMaker(p)
    BY <1>1, <1>3, <2>3, SameUnlink
    DEF Book!TradeAllOfMaker, B!TradeAllOfMaker, B!Trade, B!Match
  <2> QED
    BY <2>1, <2>2, <2>3
<1>6. CASE Book!CompleteFilled
  BY <1>6 DEF Book!CompleteFilled, B!CompleteFilled, B!Match
<1>7. CASE Book!CancelRemainder
  BY <1>7, SameCrosses DEF Book!CancelRemainder, Book!Executing, Book!NeverRests,
     B!CancelRemainder, B!Executing, B!NeverRests, B!Match
<1>8. CASE Book!RestRemainder
  BY <1>8, SameCrosses DEF Book!RestRemainder, Book!Executing, Book!NeverRests, Book!Rest,
     Book!EmptyLevel, Book!Enqueue,
     B!RestRemainder, B!Executing, B!NeverRests, B!Rest, B!EmptyLevel, B!Enqueue, B!Match
<1> QED
  BY <1>4, <1>5, <1>6, <1>7, <1>8 DEF Book!Match

-----------------------------------------------------------------------------
(* A command is a command of the book, whatever the risk check says.       *)
LEMMA ProcessMoves ==
  ASSUME NEW c \in Command, Process(c)
  PROVE  B!Command /\ UNCHANGED <<positions, limits, settled>> /\ settled = Len(trades)
<1>1. CASE c.kind = "NEW" /\ Submit(c.id, c.order)
  <2>1. c.id \in OrderIds /\ c.order \in AnyRequest
    BY <1>1 DEF Command, NewCommand, CancelCommand, ModifyCommand, AnyRequest
  <2>2. \/ Book!Accept(c.id, c.order)
        \/ Book!RejectSubmit(c.id, c.order)
        \/ Book!RejectByRisk(c.id, c.order)
    BY <1>1 DEF Submit
  <2> QED
    BY <2>1, <2>2, SubmitMoves DEF B!Command, Process
<1>2. CASE /\ c.kind = "CANCEL"
           /\ Book!Cancel(c.id, c.who) \/ Book!RejectCancel(c.id, c.who)
  <2>1. c.id \in OrderIds /\ c.who \in Accounts \cup {None}
    BY <1>2 DEF Command, NewCommand, CancelCommand, ModifyCommand
  <2> QED
    BY <1>2, <2>1, CancelMoves DEF B!Command, Process
<1>3. CASE /\ c.kind = "MODIFY"
           /\ \/ Book!ModifyInPlace(c.id, c.who, c.quantity, c.price)
              \/ Book!ModifyAndRequeue(c.id, c.who, c.quantity, c.price)
              \/ Book!RejectModify(c.id, c.who, c.quantity, c.price)
  <2>1. /\ c.id \in OrderIds /\ c.who \in Accounts \cup {None}
        /\ c.quantity \in Nat /\ c.price \in Prices \cup {NoPrice}
    BY <1>3 DEF Command, NewCommand, CancelCommand, ModifyCommand
  <2> QED
    BY <1>3, <2>1, ModifyMoves DEF B!Command, Process
<1> QED
  BY <1>1, <1>2, <1>3 DEF Process

(* What is served is a command.                                            *)
LEMMA ServedIsCommand ==
  ASSUME pending \in Seq(NewCommand)
  PROVE  /\ \A c \in Commands : c \in Command
         /\ pending # << >> => Head(pending) \in Command
BY CommandsAssumption DEF Command

-----------------------------------------------------------------------------
(* What the theorems about the book say of the gateway's book.             *)
BookInv == B!IInv /\ B!NumbersOK

(* An empty book satisfies the invariant of the book.                      *)
LEMMA EmptyBook == B!Init => BookInv
  BY B!InitInv, B!InitNumbers, BookAssumptions DEF BookInv

(* So does a book that a step has emptied, as Reset does.                  *)
LEMMA EmptyBookPrimed == B!Init' => BookInv'
  BY EmptyBook, PTL

-----------------------------------------------------------------------------
(* What the book's invariant says of its variables, in the terms of this
   module.                                                                 *)
OrdersTyped ==
  \A id \in OrderIds : orders[id] # NoOrder =>
    /\ orders[id].account \in Accounts
    /\ orders[id].side \in Side
    /\ orders[id].remaining \in Nat

BookTyped ==
  /\ live_orders \subseteq OrderIds
  /\ incoming \in OrderIds \cup {None}
  /\ incoming # None => orders[incoming] # NoOrder /\ incoming \notin live_orders
  /\ \A x \in live_orders : orders[x] # NoOrder
  /\ live_order_counts \in [Accounts -> Nat]
  /\ trades \in Seq([maker : OrderIds, taker : OrderIds, price : Prices, quantity : Nat])

(* The invariant of the book says so.                                      *)
LEMMA BookFacts == BookInv => OrdersTyped /\ BookTyped
<1> SUFFICES ASSUME BookInv PROVE OrdersTyped /\ BookTyped
  OBVIOUS
<1>1. B!TypeOK
  BY DEF BookInv, B!IInv
<1>2. incoming # None => orders[incoming] # NoOrder /\ incoming \notin live_orders
  BY B!IncomingFacts, BookAssumptions DEF BookInv, B!Known
<1>3. \A x \in live_orders : orders[x] # NoOrder
  BY B!LiveFacts, BookAssumptions DEF BookInv, B!Known
<1>4. \A id \in OrderIds : orders[id] # NoOrder => orders[id] \in B!Order
  BY B!Types, BookAssumptions DEF BookInv, B!IInv, B!Known
<1> QED
  BY <1>1, <1>2, <1>3, <1>4
  DEF B!TypeOK, B!Order, B!Side, Side, OrdersTyped, BookTyped

(* And says so after a step.                                               *)
LEMMA BookFactsPrimed == BookInv' => OrdersTyped' /\ BookTyped'
  BY BookFacts, PTL

(* A trade: the order in execution and a resting one of the other side,
   each of which has the quantity left and keeps everything else.          *)
Trades(m, q, price) ==
  /\ m \in live_orders /\ incoming # None /\ m # incoming
  /\ q \in Nat \ {0} /\ price \in Prices
  /\ q <= orders[m].remaining /\ q <= orders[incoming].remaining
  /\ orders[m].side = Opposite(orders[incoming].side)
  /\ trades' = Append(trades, [maker |-> m, taker |-> incoming, price |-> price,
                               quantity |-> q])
  /\ \A x \in {m, incoming} : /\ orders'[x].remaining = orders[x].remaining - q
                              /\ orders'[x].side = orders[x].side
                              /\ orders'[x].account = orders[x].account
  /\ \A x \in OrderIds \ {m, incoming} : orders'[x] = orders[x]
  /\ live_orders' \subseteq live_orders /\ incoming' = incoming
  /\ \A a \in Accounts : live_order_counts'[a] <= live_order_counts[a]

(* Both ways _execute_accepted fills a resting order are such a trade.     *)
LEMMA TradeFacts ==
  ASSUME BookInv, NEW p \in Prices, B!TradePartOfMaker(p) \/ B!TradeAllOfMaker(p)
  PROVE  Trades(B!Maker(p), B!TradeQuantity(p), p)
<1> DEFINE m == B!Maker(p)
           q == B!TradeQuantity(p)
<1>1. B!Executes(p) /\ B!Meets(p)
  BY DEF B!TradePartOfMaker, B!TradeAllOfMaker, B!Executes
<1>2. /\ m \in live_orders /\ incoming # None /\ m # incoming
      /\ q \in Nat /\ q > 0 /\ q <= orders[m].remaining /\ q <= orders[incoming].remaining
      /\ orders[m].side = B!Opposing
  BY <1>1, B!MakerFacts, BookAssumptions DEF BookInv
<1>3. /\ orders'[m] = B!Filled(orders[m], q)
      /\ orders'[incoming] = B!Filled(orders[incoming], q)
      /\ \A x \in OrderIds : x # m /\ x # incoming => orders'[x] = orders[x]
  BY <1>1, B!ExecutesFacts, BookAssumptions DEF BookInv
<1>4. /\ trades' = Append(trades, [maker |-> m, taker |-> incoming, price |-> p,
                                   quantity |-> q])
      /\ incoming' = incoming
  BY <1>1 DEF B!Executes
<1>5. orders[m] \in B!Order /\ orders[incoming] \in B!Order
      /\ orders[m].account \in Accounts
  BY <1>2, B!LiveFacts, B!IncomingFacts, BookAssumptions DEF BookInv
<1> HIDE DEF m, q
<1>6. \A x \in {m, incoming} : /\ orders'[x].remaining = orders[x].remaining - q
                              /\ orders'[x].side = orders[x].side
                              /\ orders'[x].account = orders[x].account
  BY <1>2, <1>3, <1>5, B!FilledFacts, BookAssumptions
<1>7. live_order_counts \in [Accounts -> Nat]
  BY BookFacts DEF BookTyped
<1>8. /\ live_orders' \subseteq live_orders
      /\ \A a \in Accounts : live_order_counts'[a] <= live_order_counts[a]
  <2>1. CASE B!TradePartOfMaker(p)
    BY <1>7, <2>1 DEF B!TradePartOfMaker
  <2>2. CASE B!TradeAllOfMaker(p)
    <3>1. /\ live_orders' = live_orders \ {m}
          /\ live_order_counts' = B!Decremented(live_order_counts, orders[m].account)
      BY <2>2 DEF B!TradeAllOfMaker, B!Unlink, m
    <3> QED
      BY <1>5, <1>7, <3>1 DEF B!Decremented
  <2> QED
    BY <2>1, <2>2
<1>9. orders[m].side = Opposite(orders[incoming].side)
  BY <1>2 DEF B!Opposing, B!Opposite, Opposite
<1> QED
  BY <1>2, <1>3, <1>4, <1>6, <1>8, <1>9 DEF Trades, m, q

(* A step of the book adds a trade or leaves the trades as they are.       *)
LEMMA TradesGrow ==
  ASSUME BookInv, [B!Next]_(B!vars)
  PROVE  \/ trades' = trades
         \/ \E m \in live_orders, q \in Nat \ {0}, price \in Prices : Trades(m, q, price)
<1>1. CASE trades' = trades
  BY <1>1
<1>2. CASE trades' # trades
  <2>1. PICK p \in Prices : B!TradePartOfMaker(p) \/ B!TradeAllOfMaker(p)
    BY <1>2, B!TradesGrow, BookAssumptions DEF BookInv
  <2>2. Trades(B!Maker(p), B!TradeQuantity(p), p)
    BY <2>1, TradeFacts
  <2>3. B!Maker(p) \in live_orders /\ B!TradeQuantity(p) \in Nat \ {0}
    BY <2>2 DEF Trades
  <2> QED
    BY <2>2, <2>3
<1> QED
  BY <1>1, <1>2

(* A step of the book keeps the account and the side of every order.       *)
LEMMA OrdersKept ==
  ASSUME BookInv, [B!Next]_(B!vars), NEW id \in OrderIds, orders[id] # NoOrder
  PROVE  /\ orders'[id] # NoOrder
         /\ orders'[id].account = orders[id].account
         /\ orders'[id].side = orders[id].side
BY B!OrderKept, BookAssumptions DEF BookInv, B!Known, B!Kept

-----------------------------------------------------------------------------
(* The trade log.                                                          *)
TradeLog ==
  Seq([maker : OrderIds, taker : OrderIds, price : Prices, quantity : Nat])

(* The orders of every trade are recorded, and something was traded.       *)
Logged(log, ord) ==
  /\ log \in TradeLog
  /\ \A k \in DOMAIN log :
       /\ ord[log[k].taker] # NoOrder
       /\ ord[log[k].maker] # NoOrder
       /\ log[k].quantity > 0

TradersOK == Logged(trades, orders)

(* An entry of the log.                                                    *)
LEMMA LogEntry ==
  ASSUME NEW log, NEW ord, Logged(log, ord), NEW k \in Nat, k < Len(log)
  PROVE  /\ log[k + 1].taker \in OrderIds /\ log[k + 1].maker \in OrderIds
         /\ log[k + 1].price \in Prices /\ log[k + 1].quantity \in Nat \ {0}
         /\ ord[log[k + 1].taker] # NoOrder /\ ord[log[k + 1].maker] # NoOrder
<1> DEFINE R == [maker : OrderIds, taker : OrderIds, price : Prices, quantity : Nat]
<1>1. log \in Seq(R)
  BY DEF Logged, TradeLog
<1> HIDE DEF R
<1>2. k + 1 \in DOMAIN log /\ log[k + 1] \in R
  BY <1>1
<1>3. /\ ord[log[k + 1].taker] # NoOrder /\ ord[log[k + 1].maker] # NoOrder
      /\ log[k + 1].quantity > 0
  BY <1>2 DEF Logged
<1> QED
  BY <1>2, <1>3 DEF R

(* A step of the book keeps the beginning of the log and what it says.     *)
LogKept ==
  /\ Len(trades) <= Len(trades')
  /\ \A k \in DOMAIN trades :
       /\ trades'[k] = trades[k]
       /\ \A x \in {trades[k].taker, trades[k].maker} :
            orders'[x].account = orders[x].account /\ orders'[x].side = orders[x].side

(* Every step of the book does: the trades are only appended to, and the
   orders they name keep account and side.                                 *)
LEMMA LogStep ==
  ASSUME BookInv, TradersOK, [B!Next]_(B!vars)
  PROVE  TradersOK' /\ LogKept
<1> DEFINE R == [maker : OrderIds, taker : OrderIds, price : Prices, quantity : Nat]
<1>1. /\ trades \in Seq(R)
      /\ \A k \in DOMAIN trades :
           /\ trades[k].taker \in OrderIds /\ trades[k].maker \in OrderIds
           /\ orders[trades[k].taker] # NoOrder /\ orders[trades[k].maker] # NoOrder
           /\ trades[k].quantity > 0
  <2>1. trades \in Seq(R)
    BY DEF TradersOK, Logged, TradeLog
  <2>2. \A k \in DOMAIN trades : trades[k] \in R
    <3> HIDE DEF R
    <3> QED
      BY <2>1
  <2> QED
    BY <2>1, <2>2 DEF TradersOK, Logged
<1>2. \A k \in DOMAIN trades : \A x \in {trades[k].taker, trades[k].maker} :
        /\ orders'[x] # NoOrder
        /\ orders'[x].account = orders[x].account /\ orders'[x].side = orders[x].side
  BY <1>1, OrdersKept
<1>3. CASE trades' = trades
  BY <1>1, <1>2, <1>3 DEF TradersOK, Logged, TradeLog, LogKept
<1>4. ASSUME NEW m \in live_orders, NEW q \in Nat \ {0}, NEW price \in Prices,
             Trades(m, q, price)
      PROVE  TradersOK' /\ LogKept
  <2> DEFINE t == [maker |-> m, taker |-> incoming, price |-> price, quantity |-> q]
  <2>1. m \in OrderIds /\ incoming \in OrderIds /\ orders[m] # NoOrder /\ orders[incoming] # NoOrder
    BY <1>4, BookFacts DEF BookTyped, Trades
  <2>2. t \in R /\ trades' = Append(trades, t)
    BY <1>4, <2>1 DEF Trades
  <2>3. orders'[m] # NoOrder /\ orders'[incoming] # NoOrder
    BY <2>1, OrdersKept
  <2>4. t.maker = m /\ t.taker = incoming /\ t.quantity > 0
    BY <1>4
  <2> HIDE DEF t, R
  <2>5. /\ trades' \in Seq(R) /\ Len(trades') = Len(trades) + 1
        /\ Len(trades) \in Nat /\ DOMAIN trades = 1 .. Len(trades)
        /\ DOMAIN trades' = 1 .. Len(trades) + 1
        /\ trades'[Len(trades) + 1] = t
        /\ \A k \in 1 .. Len(trades) : trades'[k] = trades[k]
    BY <1>1, <2>2
  <2>6. LogKept
    BY <1>2, <2>5 DEF LogKept
  <2>7. ASSUME NEW k \in DOMAIN trades'
        PROVE  /\ orders'[trades'[k].taker] # NoOrder
               /\ orders'[trades'[k].maker] # NoOrder
               /\ trades'[k].quantity > 0
    <3>1. CASE k \in DOMAIN trades
      BY <1>1, <1>2, <2>5, <3>1
    <3>2. CASE k = Len(trades) + 1
      BY <2>3, <2>4, <2>5, <3>2
    <3> QED
      BY <2>5, <3>1, <3>2
  <2> QED
    BY <2>5, <2>6, <2>7 DEF TradersOK, Logged, TradeLog, R
<1> QED
  BY <1>3, <1>4, TradesGrow

(* What a trade brings an account, and what the first j trades did.        *)
GainOf(log, ord, a, k) ==
  LET q == Signed(ord[log[k].taker].side, log[k].quantity)
  IN (IF ord[log[k].taker].account = a THEN q ELSE 0)
     - (IF ord[log[k].maker].account = a THEN q ELSE 0)

Gains(log, ord, a) == [k \in DOMAIN log |-> GainOf(log, ord, a, k)]

HeldOf(log, ord, a, j) == Total(Gains(log, ord, a), 1 .. j)

(* What the trades of a stretch of the log bring are integers.             *)
LEMMA GainsInt ==
  ASSUME NEW log \in TradeLog, NEW ord, NEW a, NEW j \in 0 .. Len(log)
  PROVE  /\ IsFiniteSet(1 .. j) /\ 1 .. j \subseteq DOMAIN log
         /\ \A k \in 1 .. j : /\ Gains(log, ord, a)[k] = GainOf(log, ord, a, k)
                              /\ Gains(log, ord, a)[k] \in Int
<1>1. DOMAIN log = 1 .. Len(log) /\ Len(log) \in Nat
      /\ \A k \in DOMAIN log : log[k].quantity \in Nat
  <2> DEFINE R == [maker : OrderIds, taker : OrderIds, price : Prices, quantity : Nat]
  <2>1. log \in Seq(R)
    BY DEF TradeLog
  <2>2. \A k \in DOMAIN log : log[k] \in R
    <3> HIDE DEF R
    <3> QED
      BY <2>1
  <2> QED
    BY <2>1, <2>2
<1>2. IsFiniteSet(1 .. j) /\ 1 .. j \subseteq DOMAIN log
  BY <1>1, FS_Interval
<1>3. \A k \in 1 .. j : Gains(log, ord, a)[k] = GainOf(log, ord, a, k)
  BY <1>2 DEF Gains
<1>4. \A k \in 1 .. j : GainOf(log, ord, a, k) \in Int
  BY <1>1, <1>2 DEF GainOf, Signed
<1> QED
  BY <1>2, <1>3, <1>4

(* Before any trade nothing is held.                                       *)
LEMMA HeldNone ==
  ASSUME NEW log, NEW ord, NEW a
  PROVE  HeldOf(log, ord, a, 0) = 0
<1>1. 1 .. 0 = {}
  OBVIOUS
<1> QED
  BY <1>1, TotalEmpty DEF HeldOf

(* What is held is an integer.                                             *)
LEMMA HeldInt ==
  ASSUME NEW log \in TradeLog, NEW ord, NEW a, NEW j \in 0 .. Len(log)
  PROVE  HeldOf(log, ord, a, j) \in Int
<1> DEFINE f == Gains(log, ord, a)
           S == 1 .. j
<1>1. IsFiniteSet(S) /\ \A k \in S : f[k] \in Int
  BY GainsInt
<1> HIDE DEF f, S
<1>2. Total(f, S) \in Int
  BY <1>1, TotalInt
<1> QED
  BY <1>2 DEF HeldOf, f, S

(* Every trade adds what it brings.                                        *)
LEMMA HeldNext ==
  ASSUME NEW log \in TradeLog, NEW ord, NEW a, NEW j \in Nat, j + 1 <= Len(log)
  PROVE  HeldOf(log, ord, a, j + 1) = HeldOf(log, ord, a, j) + GainOf(log, ord, a, j + 1)
<1> DEFINE f == Gains(log, ord, a)
           S == 1 .. j
           x == j + 1
           g == GainOf(log, ord, a, x)
<1>0. Len(log) \in Nat
  BY DEF TradeLog
<1>1. IsFiniteSet(S) /\ \A k \in S : f[k] \in Int
  <2>1. j \in 0 .. Len(log)
    BY <1>0
  <2> QED
    BY <2>1, GainsInt
<1>2. f[x] \in Int /\ f[x] = g
  <2>1. x \in 0 .. Len(log) /\ x \in 1 .. x
    BY <1>0
  <2> HIDE DEF x
  <2> QED
    BY <2>1, GainsInt
<1>3. x \notin S /\ 1 .. x = S \cup {x}
  OBVIOUS
<1>4. HeldOf(log, ord, a, x) = Total(f, 1 .. x) /\ HeldOf(log, ord, a, j) = Total(f, S)
  BY DEF HeldOf
<1> HIDE DEF f, S, x, g
<1>5. Total(f, S \cup {x}) = f[x] + Total(f, S)
  BY <1>1, <1>2, <1>3, TotalAdd
<1>6. Total(f, S) \in Int
  BY <1>1, TotalInt
<1>7. Total(f, 1 .. x) = g + Total(f, S)
  BY <1>2, <1>3, <1>5
<1>8. g \in Int
  BY <1>2
<1>9. HeldOf(log, ord, a, x) = HeldOf(log, ord, a, j) + g
  BY <1>4, <1>6, <1>7, <1>8
<1> QED
  BY <1>9 DEF x, g

(* A log that goes on from another, of orders that kept account and side,
   says the same of what was held then.                                    *)
LEMMA HeldSame ==
  ASSUME NEW log \in TradeLog, NEW ord, NEW log2 \in TradeLog, NEW ord2, NEW a,
         NEW j \in 0 .. Len(log), Len(log) <= Len(log2),
         \A k \in DOMAIN log :
           /\ log2[k] = log[k]
           /\ \A x \in {log[k].taker, log[k].maker} :
                ord2[x].account = ord[x].account /\ ord2[x].side = ord[x].side
  PROVE  HeldOf(log2, ord2, a, j) = HeldOf(log, ord, a, j)
<1> DEFINE f == Gains(log, ord, a)
           g == Gains(log2, ord2, a)
           S == 1 .. j
<1>0. Len(log) \in Nat /\ Len(log2) \in Nat /\ j \in 0 .. Len(log2)
  BY DEF TradeLog
<1>1. /\ IsFiniteSet(S) /\ S \subseteq DOMAIN log
      /\ \A k \in S : f[k] = GainOf(log, ord, a, k) /\ f[k] \in Int
  BY GainsInt
<1>2. \A k \in S : g[k] = GainOf(log2, ord2, a, k)
  BY <1>0, GainsInt
<1>3. \A k \in S : GainOf(log2, ord2, a, k) = GainOf(log, ord, a, k)
  BY <1>1 DEF GainOf
<1> HIDE DEF f, g, S
<1>4. Total(g, S) = Total(f, S)
  BY <1>1, <1>2, <1>3, TotalSame
<1> QED
  BY <1>4 DEF HeldOf, f, g, S

-----------------------------------------------------------------------------
(* The ledger.                                                             *)
Cash(l) == [a \in Accounts |-> l[a].cash]

ExactLedger(l) == l \in [Accounts -> Position] /\ \A a \in Accounts : Exact(l[a])

(* Half a trade: apply_fill for one of the two accounts.                   *)
HalfTrade(l, a, side, price, q, l2) ==
  l2 = [l EXCEPT ![a] = Applied(@, side, price, q)]

(* One account moves, exactly, and so does the money of all of them.       *)
LEMMA OneApplied ==
  ASSUME NEW l, ExactLedger(l), NEW a \in Accounts, NEW side \in Side,
         NEW price \in Nat, NEW q \in Nat \ {0}, NEW s, s = Signed(side, q),
         NEW l2, HalfTrade(l, a, side, price, q, l2)
  PROVE  /\ ExactLedger(l2)
         /\ \A x \in Accounts :
              l2[x].quantity = l[x].quantity + (IF x = a THEN s ELSE 0)
         /\ Total(Cash(l2), Accounts) = Total(Cash(l), Accounts) - s * price
         /\ Total(Cash(l), Accounts) \in Int
<1> DEFINE p == l[a]
           moved == Applied(p, side, price, q)
           f == Cash(l)
           g == Cash(l2)
<1>1. Exact(p) /\ l \in [Accounts -> Position] /\ l2 = [l EXCEPT ![a] = moved]
  BY DEF ExactLedger, HalfTrade
<1>2. /\ Exact(moved) /\ s \in Int
      /\ moved.quantity = p.quantity + s /\ moved.cash = p.cash - s * price
  <2> HIDE DEF p
  <2> QED
    BY <1>1, AppliedExact
<1>3. moved \in Position /\ p \in Position
  BY <1>1, <1>2 DEF Exact
<1> HIDE DEF moved
<1>4. /\ l2 \in [Accounts -> Position] /\ l2[a] = moved
      /\ \A x \in Accounts : x # a => l2[x] = l[x]
  BY <1>1, <1>3
<1>5. ExactLedger(l2)
  BY <1>2, <1>4 DEF ExactLedger
<1>6. \A x \in Accounts : l2[x].quantity = l[x].quantity + (IF x = a THEN s ELSE 0)
  <2> TAKE x \in Accounts
  <2>1. l[x].quantity \in Int
    BY <1>1 DEF Position
  <2> QED
    BY <1>2, <1>4, <2>1
<1>7. /\ \A x \in Accounts : f[x] \in Int /\ f[x] = l[x].cash
      /\ \A x \in Accounts : g[x] \in Int /\ g[x] = l2[x].cash
  BY <1>1, <1>4 DEF Cash, Position
<1>8. \A x \in Accounts : x # a => g[x] = f[x]
  BY <1>4, <1>7
<1>9. g[a] = f[a] - s * price
  BY <1>2, <1>4, <1>7
<1>10. s * price \in Int
  BY <1>2
<1> HIDE DEF f, g
<1>11. Total(g, Accounts) = Total(f, Accounts) - f[a] + g[a]
  BY <1>7, <1>8, AccountsAssumption, TotalChange
<1>12. Total(f, Accounts) \in Int
  BY <1>7, AccountsAssumption, TotalInt
<1>13. Total(g, Accounts) = Total(f, Accounts) - s * price
  <2> DEFINE c == s * price
  <2>1. c \in Int /\ g[a] = f[a] - c /\ f[a] \in Int
    BY <1>7, <1>9, <1>10
  <2> HIDE DEF c
  <2>2. Total(g, Accounts) = Total(f, Accounts) - c
    BY <1>11, <1>12, <2>1
  <2> QED
    BY <2>2 DEF c
<1> QED
  BY <1>5, <1>6, <1>12, <1>13 DEF f, g

(* A trade: what the taker gets the maker gives, in lots and in money.     *)
LEMMA TradeExact ==
  ASSUME NEW l, ExactLedger(l), NEW taker \in Accounts, NEW maker \in Accounts,
         NEW side \in Side, NEW price \in Nat, NEW q \in Nat \ {0},
         NEW l2, l2 = TradeApplied(l, taker, maker, side, price, q)
  PROVE  /\ ExactLedger(l2)
         /\ \A x \in Accounts :
              l2[x].quantity = l[x].quantity + (IF taker = x THEN Signed(side, q) ELSE 0)
                                             - (IF maker = x THEN Signed(side, q) ELSE 0)
         /\ Total(Cash(l2), Accounts) = Total(Cash(l), Accounts)
<1> DEFINE s == Signed(side, q)
           l1 == [l EXCEPT ![taker] = Applied(@, side, price, q)]
           n == Signed(Opposite(side), q)
<1>1. /\ HalfTrade(l, taker, side, price, q, l1)
      /\ HalfTrade(l1, maker, Opposite(side), price, q, l2)
  BY DEF TradeApplied, HalfTrade
<1>2. Opposite(side) \in Side /\ s \in Int /\ n = -s
  BY DEF Opposite, Signed, Side
<1> HIDE DEF l1, s, n
<1>3. /\ ExactLedger(l1)
      /\ \A x \in Accounts : l1[x].quantity = l[x].quantity + (IF x = taker THEN s ELSE 0)
      /\ Total(Cash(l1), Accounts) = Total(Cash(l), Accounts) - s * price
      /\ Total(Cash(l), Accounts) \in Int
  <2>1. s = Signed(side, q)
    BY DEF s
  <2> QED
    BY <1>1, <2>1, OneApplied
<1>4. /\ ExactLedger(l2)
      /\ \A x \in Accounts : l2[x].quantity = l1[x].quantity + (IF x = maker THEN n ELSE 0)
      /\ Total(Cash(l2), Accounts) = Total(Cash(l1), Accounts) - n * price
  <2> DEFINE o == Opposite(side)
  <2>1. n = Signed(o, q) /\ o \in Side
    BY <1>2 DEF n
  <2>2. ExactLedger(l1) /\ HalfTrade(l1, maker, o, price, q, l2)
    BY <1>1, <1>3
  <2> HIDE DEF o
  <2> QED
    BY <2>1, <2>2, OneApplied
<1>5. n * price = -(s * price) /\ s * price \in Int
  BY <1>2
<1>6. Total(Cash(l2), Accounts) = Total(Cash(l), Accounts)
  <2> DEFINE c == s * price
             T == Total(Cash(l), Accounts)
  <2>1. c \in Int /\ T \in Int /\ Total(Cash(l2), Accounts) = (T - c) - (-c)
    BY <1>3, <1>4, <1>5
  <2> HIDE DEF c, T
  <2>2. Total(Cash(l2), Accounts) = T
    BY <2>1
  <2> QED
    BY <2>2 DEF T
<1>7. ASSUME NEW x \in Accounts
      PROVE  l2[x].quantity = l[x].quantity + (IF taker = x THEN s ELSE 0)
                                            - (IF maker = x THEN s ELSE 0)
  <2>1. l[x].quantity \in Int
    BY DEF ExactLedger, Exact, Position
  <2>2. /\ l1[x].quantity = l[x].quantity + (IF x = taker THEN s ELSE 0)
        /\ l2[x].quantity = l1[x].quantity + (IF x = maker THEN n ELSE 0)
    BY <1>3, <1>4
  <2> QED
    BY <1>2, <2>1, <2>2
<1> QED
  BY <1>4, <1>6, <1>7 DEF s

(* The positions the risk check reads move in the same way.                *)
LEMMA PositionsMove ==
  ASSUME NEW p \in [Accounts -> Int], NEW taker \in Accounts, NEW maker \in Accounts,
         NEW side \in Side, NEW q \in Nat \ {0},
         NEW p2, p2 = PositionsAfter(p, taker, maker, side, q)
  PROVE  /\ p2 \in [Accounts -> Int]
         /\ \A x \in Accounts :
              p2[x] = p[x] + (IF taker = x THEN Signed(side, q) ELSE 0)
                           - (IF maker = x THEN Signed(side, q) ELSE 0)
<1> DEFINE s == Signed(side, q)
           p1 == [p EXCEPT ![taker] = @ + s]
<1>1. p2 = [p1 EXCEPT ![maker] = @ - s] /\ s \in Int
  BY DEF PositionsAfter, Signed
<1> HIDE DEF s
<1>2. /\ p1 \in [Accounts -> Int]
      /\ \A x \in Accounts : p1[x] = p[x] + (IF taker = x THEN s ELSE 0)
  BY <1>1
<1> HIDE DEF p1
<1>3. /\ p2 \in [Accounts -> Int]
      /\ \A x \in Accounts : p2[x] = p1[x] - (IF maker = x THEN s ELSE 0)
  BY <1>1, <1>2
<1> QED
  BY <1>1, <1>2, <1>3 DEF s

-----------------------------------------------------------------------------
(* The gateway.                                                            *)
Typed ==
  /\ positions \in [Accounts -> Int]
  /\ limits \in RiskLimits /\ loosest \in RiskLimits
  /\ settled \in 0 .. Len(trades)
  /\ pending \in Seq(NewCommand)
  /\ exposed \subseteq Accounts

(* The limits have never been looser than the loosest.                     *)
LimitsOK ==
  /\ limits.max_live_orders <= loosest.max_live_orders
  /\ limits.max_position <= loosest.max_position

(* The three places where positions are kept agree on the settled trades.  *)
AccountsOK ==
  /\ ExactLedger(ledger)
  /\ \A a \in Accounts :
       /\ ledger[a].quantity = positions[a]
       /\ positions[a] = HeldOf(trades, orders, a, settled)
  /\ Total(Cash(ledger), Accounts) = 0

(* Limits only get looser.                                                 *)
LEMMA LooserFacts ==
  ASSUME NEW l \in RiskLimits, NEW m \in RiskLimits
  PROVE  /\ Looser(l, m) \in RiskLimits
         /\ l.max_live_orders <= Looser(l, m).max_live_orders
         /\ m.max_live_orders <= Looser(l, m).max_live_orders
         /\ l.max_position <= Looser(l, m).max_position
         /\ m.max_position <= Looser(l, m).max_position
<1> DEFINE F == {"max_order_quantity", "max_notional", "max_live_orders",
                 "max_position", "max_exposure", "price_collar_bps"}
<1>1. DOMAIN l = F
  BY DEF RiskLimits
<1>2. \A f \in F : l[f] \in Nat /\ m[f] \in Nat
  BY DEF RiskLimits
<1>3. \A f \in F : Looser(l, m)[f] = IF l[f] < m[f] THEN m[f] ELSE l[f]
  BY <1>1 DEF Looser
<1>4. \A f \in F : Looser(l, m)[f] \in Nat /\ l[f] <= Looser(l, m)[f] /\ m[f] <= Looser(l, m)[f]
  BY <1>2, <1>3
<1>5. Looser(l, m) = [f \in F |-> Looser(l, m)[f]]
  BY <1>1 DEF Looser
<1>6. Looser(l, m) \in RiskLimits
  BY <1>4, <1>5 DEF RiskLimits
<1> QED
  BY <1>4, <1>6

(* What configure_risk does to the limits and their history.               *)
LEMMA Configured ==
  ASSUME Typed, NEW l \in OtherLimits, ConfigureRisk(l)
  PROVE  /\ limits' \in RiskLimits /\ loosest' \in RiskLimits
         /\ limits'.max_live_orders <= loosest'.max_live_orders
         /\ limits'.max_position <= loosest'.max_position
         /\ loosest.max_live_orders <= loosest'.max_live_orders
         /\ loosest.max_position <= loosest'.max_position
         /\ UNCHANGED <<bookVars, positions, settled, ledger, pending, exposed>>
         /\ incoming = None
<1>1. limits' = [l EXCEPT !.max_exposure = limits.max_exposure] /\ l \in RiskLimits
  BY LimitsAssumption DEF ConfigureRisk
<1>2. limits' \in RiskLimits
  BY <1>1 DEF Typed, RiskLimits
<1>3. loosest' = Looser(loosest, limits') /\ loosest \in RiskLimits
  BY DEF ConfigureRisk, Typed
<1>4. /\ loosest' \in RiskLimits
      /\ limits'.max_live_orders <= loosest'.max_live_orders
      /\ limits'.max_position <= loosest'.max_position
      /\ loosest.max_live_orders <= loosest'.max_live_orders
      /\ loosest.max_position <= loosest'.max_position
  BY <1>2, <1>3, LooserFacts
<1> QED
  BY <1>2, <1>4 DEF ConfigureRisk, Idle, AtRest

(* The steps of the gateway: a command, a turn of the matching loop, a trade
   carried on, or a step between two commands.                             *)
Served(c) ==
  /\ Process(c)
  /\ exposed' = exposed \cup Exposing(c)
  /\ pending' = pending \/ (pending # << >> /\ pending' = Tail(pending))
  /\ UNCHANGED <<ledger, loosest>>

(* What may happen to the gateway, whoever sends it commands.              *)
GatewayStep ==
  \/ \E c \in Command : Served(c)
  \/ Match
  \/ Settle
  \/ \E l \in OtherLimits : ConfigureRisk(l)
  \/ Reset
  \/ UNCHANGED vars

(* Every step of the gateway is of one of these kinds.                     *)
LEMMA StepKinds ==
  ASSUME Typed, [Next]_vars
  PROVE  GatewayStep
<1>1. pending \in Seq(NewCommand)
  BY DEF Typed
<1>2. CASE Request
  BY <1>1, <1>2, ServedIsCommand DEF Request, Serve, Served, GatewayStep
<1>3. CASE Seed
  BY <1>1, <1>3, ServedIsCommand DEF Seed, Served, GatewayStep
<1> QED
  BY <1>2, <1>3 DEF Next, GatewayStep

(* Commands and turns move the book and leave the rest alone.              *)
BookOnly ==
  /\ [B!Next]_(B!vars)
  /\ UNCHANGED <<positions, limits, settled, ledger, loosest>>
  /\ pending' = pending \/ (pending # << >> /\ pending' = Tail(pending))
  /\ exposed \subseteq exposed' /\ exposed' \subseteq Accounts

(* A command is such a step.                                               *)
LEMMA ServedMoves ==
  ASSUME BookInv, Typed, NEW c \in Command, Served(c)
  PROVE  BookOnly
<1>1. Exposing(c) \subseteq Accounts
  <2>1. CASE c.kind = "NEW"
    <3>1. c.order.account \in Accounts
      BY <2>1 DEF Command, NewCommand, CancelCommand, ModifyCommand
    <3> QED
      BY <2>1, <3>1 DEF Exposing
  <2>2. CASE c.kind # "NEW" /\ c.kind = "MODIFY" /\ Book!Known(c.id)
    <3>1. c.id \in OrderIds
      BY DEF Command, NewCommand, CancelCommand, ModifyCommand
    <3> QED
      BY <2>2, <3>1, BookFacts DEF Exposing, OrdersTyped, Book!Known
  <2>3. CASE c.kind # "NEW" /\ ~(c.kind = "MODIFY" /\ Book!Known(c.id))
    BY <2>3 DEF Exposing
  <2> QED
    BY <2>1, <2>2, <2>3
<1>2. B!Next /\ UNCHANGED <<positions, limits, settled>>
  BY ProcessMoves DEF Served, B!Next
<1> QED
  BY <1>1, <1>2 DEF BookOnly, Served, Typed

(* So is a turn of the matching loop.                                      *)
LEMMA MatchMovesOnly ==
  ASSUME Typed, Match \/ UNCHANGED vars
  PROVE  BookOnly
<1>1. CASE Match
  BY <1>1, MatchMoves DEF Match, Turn, gatewayVars, BookOnly, B!Next, Typed
<1>2. CASE UNCHANGED vars
  BY <1>2 DEF vars, bookVars, gatewayVars, BookOnly, B!vars, Typed
<1> QED
  BY <1>1, <1>2

(* A step between two commands leaves the book alone or empties it.        *)
LEMMA BookStep ==
  ASSUME BookInv, Typed, GatewayStep
  PROVE  BookInv'
<1>1. CASE [B!Next]_(B!vars)
  BY <1>1, B!NextInv, B!NumbersStep, BookAssumptions DEF BookInv
<1>2. CASE Settle \/ \E l \in OtherLimits : ConfigureRisk(l)
  <2>1. UNCHANGED B!vars
    BY <1>2 DEF Settle, SettleRisk, ConfigureRisk, bookVars, B!vars
  <2> QED
    BY <1>1, <2>1
<1>3. CASE Reset
  <2>1. B!Init'
    BY <1>3 DEF Reset, Idle, AtRest, B!Init, B!EmptyLevel, B!Side, Book!EmptyLevel, Side
  <2> QED
    BY <2>1, EmptyBookPrimed
<1> QED
  BY <1>1, <1>2, <1>3, ServedMoves, MatchMovesOnly DEF BookOnly, GatewayStep

(* Types and limits.                                                       *)
LEMMA TypedStep ==
  ASSUME BookInv, TradersOK, Typed, LimitsOK, GatewayStep
  PROVE  Typed' /\ LimitsOK'
<1>1. Len(trades) \in Nat /\ trades \in TradeLog
  BY DEF TradersOK, Logged, TradeLog
<1>2. CASE BookOnly
  <2>1. Len(trades') \in Nat /\ Len(trades) <= Len(trades')
    BY <1>2, LogStep DEF BookOnly, LogKept, TradersOK, Logged, TradeLog
  <2>2. settled' \in 0 .. Len(trades')
    BY <1>1, <1>2, <2>1 DEF BookOnly, Typed
  <2>3. pending' \in Seq(NewCommand)
    BY <1>2 DEF BookOnly, Typed
  <2> QED
    BY <1>2, <2>2, <2>3 DEF BookOnly, Typed, LimitsOK
<1>3. CASE Settle
  <2> DEFINE t == trades[settled + 1]
  <2>1. settled' = settled + 1 /\ settled < Len(trades) /\ trades' = trades
    BY <1>3 DEF Settle, SettleRisk, bookVars
  <2>2. settled' \in 0 .. Len(trades')
    BY <1>1, <2>1 DEF Typed
  <2>3. /\ t.taker \in OrderIds /\ t.maker \in OrderIds /\ t.quantity \in Nat \ {0}
        /\ orders[t.taker] # NoOrder /\ orders[t.maker] # NoOrder
    BY <2>1, LogEntry DEF TradersOK, Typed
  <2>4. positions' \in [Accounts -> Int]
    <3>1. /\ orders[t.taker].account \in Accounts /\ orders[t.maker].account \in Accounts
          /\ orders[t.taker].side \in Side
      BY <2>3, BookFacts DEF OrdersTyped
    <3>2. positions' = PositionsAfter(positions, orders[t.taker].account,
                                      orders[t.maker].account,
                                      orders[t.taker].side, t.quantity)
      BY <1>3 DEF Settle, SettleRisk
    <3> DEFINE T == orders[t.taker].account
               M == orders[t.maker].account
               s == orders[t.taker].side
               q == t.quantity
    <3>3. /\ positions \in [Accounts -> Int] /\ T \in Accounts /\ M \in Accounts
          /\ s \in Side /\ q \in Nat \ {0}
          /\ positions' = PositionsAfter(positions, T, M, s, q)
      BY <2>3, <3>1, <3>2 DEF Typed
    <3> HIDE DEF T, M, s, q
    <3> QED
      BY <3>3, PositionsMove
  <2> QED
    BY <1>3, <2>2, <2>4 DEF Settle, SettleRisk, Typed, LimitsOK
<1>4. ASSUME NEW l \in OtherLimits, ConfigureRisk(l)
      PROVE  Typed' /\ LimitsOK'
  <2>1. UNCHANGED <<positions, settled, pending, exposed, trades>>
    BY <1>4, Configured DEF bookVars
  <2> QED
    BY <1>4, <2>1, Configured DEF Typed, LimitsOK
<1>5. CASE Reset
  BY <1>5, SeedAssumption DEF Reset, Typed, LimitsOK
<1> QED
  BY <1>2, <1>3, <1>4, <1>5, ServedMoves, MatchMovesOnly DEF GatewayStep

(* A step of the book changes nothing the settled trades say.              *)
LEMMA HeldKept ==
  ASSUME BookInv, TradersOK, [B!Next]_(B!vars), NEW a, NEW j \in 0 .. Len(trades)
  PROVE  HeldOf(trades', orders', a, j) = HeldOf(trades, orders, a, j)
<1>1. Logged(trades, orders) /\ Logged(trades', orders') /\ LogKept
  BY LogStep DEF TradersOK
<1>2. /\ trades \in TradeLog /\ trades' \in TradeLog
      /\ Len(trades) <= Len(trades')
      /\ \A k \in DOMAIN trades :
           /\ trades'[k] = trades[k]
           /\ \A x \in {trades[k].taker, trades[k].maker} :
                orders'[x].account = orders[x].account /\ orders'[x].side = orders[x].side
  BY <1>1 DEF Logged, LogKept
<1> QED
  BY <1>2, HeldSame

(* The trade that is carried on moves the ledger and the positions alike,
   and both as the log says.                                               *)
LEMMA SettleAccounts ==
  ASSUME BookInv, TradersOK, Typed, AccountsOK, Settle
  PROVE  AccountsOK'
<1> DEFINE t == trades[settled + 1]
           T == orders[t.taker].account
           M == orders[t.maker].account
           s == orders[t.taker].side
           q == t.quantity
           d == Signed(s, q)
<1>1. /\ settled \in Nat /\ settled < Len(trades) /\ settled' = settled + 1
      /\ trades' = trades /\ orders' = orders
      /\ positions' = PositionsAfter(positions, T, M, s, q)
      /\ ledger' = TradeApplied(ledger, T, M, s, t.price, q)
  BY DEF Settle, SettleRisk, Settled, bookVars, Typed
<1>2. /\ t.taker \in OrderIds /\ t.maker \in OrderIds /\ q \in Nat \ {0}
      /\ t.price \in Prices
      /\ orders[t.taker] # NoOrder /\ orders[t.maker] # NoOrder
  BY <1>1, LogEntry DEF TradersOK
<1>3. T \in Accounts /\ M \in Accounts /\ s \in Side /\ t.price \in Nat
  BY <1>2, BookFacts, BookAssumption DEF OrdersTyped
<1>4. trades \in TradeLog /\ settled + 1 <= Len(trades) /\ Len(trades) \in Nat
  BY <1>1 DEF TradersOK, Logged, TradeLog
<1>5. d \in Int
  BY <1>2 DEF Signed
<1>6. \A a : GainOf(trades, orders, a, settled + 1) =
               (IF T = a THEN d ELSE 0) - (IF M = a THEN d ELSE 0)
  BY DEF GainOf
<1>7. /\ positions \in [Accounts -> Int] /\ ExactLedger(ledger)
      /\ Total(Cash(ledger), Accounts) = 0
  BY DEF Typed, AccountsOK
<1> DEFINE price == t.price
<1>8. T \in Accounts /\ M \in Accounts /\ s \in Side /\ q \in Nat \ {0} /\ price \in Nat
      /\ positions' = PositionsAfter(positions, T, M, s, q)
      /\ ledger' = TradeApplied(ledger, T, M, s, price, q)
      /\ d = Signed(s, q)
  BY <1>1, <1>2, <1>3
<1> HIDE DEF t, T, M, s, q, d, price
<1>9. \A a \in Accounts : positions'[a] = positions[a] + (IF T = a THEN d ELSE 0)
                                                       - (IF M = a THEN d ELSE 0)
  BY <1>7, <1>8, PositionsMove
<1>10. /\ ExactLedger(ledger')
       /\ \A a \in Accounts :
            ledger'[a].quantity = ledger[a].quantity + (IF T = a THEN d ELSE 0)
                                                     - (IF M = a THEN d ELSE 0)
       /\ Total(Cash(ledger'), Accounts) = 0
  BY <1>7, <1>8, TradeExact
<1>11. ASSUME NEW a \in Accounts
       PROVE  /\ ledger'[a].quantity = positions'[a]
              /\ positions'[a] = HeldOf(trades', orders', a, settled')
  <2>1. /\ ledger[a].quantity = positions[a]
        /\ positions[a] = HeldOf(trades, orders, a, settled)
        /\ positions[a] \in Int
    BY <1>7 DEF AccountsOK
  <2>2. HeldOf(trades, orders, a, settled + 1) =
          HeldOf(trades, orders, a, settled) + GainOf(trades, orders, a, settled + 1)
    BY <1>1, <1>4, HeldNext
  <2>3. HeldOf(trades', orders', a, settled') = HeldOf(trades, orders, a, settled + 1)
    BY <1>1
  <2> QED
    BY <1>5, <1>6, <1>9, <1>10, <2>1, <2>2, <2>3
<1> QED
  BY <1>10, <1>11 DEF AccountsOK

(* After a reset nobody owns anything.                                     *)
LEMMA ClearedAccounts ==
  ASSUME NEW l, NEW p, NEW log, NEW ord,
         l = [a \in Accounts |-> NoPosition], p = [a \in Accounts |-> 0]
  PROVE  /\ ExactLedger(l)
         /\ \A a \in Accounts : l[a].quantity = p[a] /\ p[a] = HeldOf(log, ord, a, 0)
         /\ Total(Cash(l), Accounts) = 0
<1>1. \A a \in Accounts : l[a] = NoPosition /\ p[a] = 0
  OBVIOUS
<1>2. Exact(NoPosition) /\ NoPosition \in Position
  BY NothingExact DEF Exact
<1>3. ExactLedger(l)
  BY <1>1, <1>2 DEF ExactLedger
<1>4. NoPosition.quantity = 0 /\ NoPosition.cash = 0
  BY DEF NoPosition
<1>5. Total(Cash(l), Accounts) = 0
  <2> DEFINE f == Cash(l)
             z == [a \in {} |-> 0]
             Good == {S \in SUBSET Accounts : Total(f, S) = 0}
  <2>1. \A a \in Accounts : f[a] = 0
    BY <1>1, <1>4 DEF Cash
  <2> HIDE DEF f
  <2>2. ASSUME NEW S \in SUBSET Accounts, \A U \in SUBSET S : U # S => U \in Good
        PROVE  S \in Good
    <3>1. IsFiniteSet(S)
      BY AccountsAssumption, FS_Subset
    <3>2. CASE S = {}
      BY <3>2, TotalEmpty
    <3>3. CASE S # {}
      <4>1. PICK x \in S : TRUE
        BY <3>3
      <4>2. S \ {x} \in Good
        BY <2>2, <4>1
      <4>3. \A y \in S : f[y] = 0 /\ f[y] \in Int
        BY <2>1
      <4>4. Total(f, S) = f[x] + Total(f, S \ {x})
        BY <3>1, <4>3, TotalRemove
      <4> QED
        BY <4>2, <4>3, <4>4
    <3> QED
      BY <3>2, <3>3
  <2>3. Good \in SUBSET SUBSET Accounts
    OBVIOUS
  <2>4. \A S \in SUBSET Accounts : (\A U \in SUBSET S : U # S => U \in Good) => S \in Good
    BY <2>2
  <2> HIDE DEF Good
  <2>5. \A S \in SUBSET Accounts : S \in Good
    BY <2>3, <2>4, AccountsAssumption, SubsetInduction
  <2> QED
    BY <2>5 DEF Good, f
<1> QED
  BY <1>1, <1>3, <1>4, <1>5, HeldNone

(* The accounts stay in agreement through every step of the gateway.       *)
LEMMA AccountsStep ==
  ASSUME BookInv, TradersOK, Typed, AccountsOK, GatewayStep
  PROVE  AccountsOK'
<1>1. CASE BookOnly
  <2>1. /\ ledger' = ledger /\ positions' = positions /\ settled' = settled
        /\ settled \in 0 .. Len(trades) /\ [B!Next]_(B!vars)
    BY <1>1 DEF BookOnly, Typed
  <2>2. \A a \in Accounts :
          HeldOf(trades', orders', a, settled) = HeldOf(trades, orders, a, settled)
    BY <2>1, HeldKept
  <2> QED
    BY <2>1, <2>2 DEF AccountsOK
<1>2. ASSUME NEW l \in OtherLimits, ConfigureRisk(l)
      PROVE  AccountsOK'
  BY <1>2 DEF ConfigureRisk, bookVars, AccountsOK
<1>3. CASE Reset
  <2>1. /\ ledger' = [a \in Accounts |-> NoPosition]
        /\ positions' = [a \in Accounts |-> 0] /\ settled' = 0
    BY <1>3 DEF Reset, LedgerCleared
  <2>2. /\ ExactLedger(ledger')
        /\ \A a \in Accounts : /\ ledger'[a].quantity = positions'[a]
                               /\ positions'[a] = HeldOf(trades', orders', a, 0)
        /\ Total(Cash(ledger'), Accounts) = 0
    BY <2>1, ClearedAccounts
  <2> QED
    BY <2>1, <2>2 DEF AccountsOK
<1> QED
  BY <1>1, <1>2, <1>3, ServedMoves, MatchMovesOnly, SettleAccounts DEF GatewayStep

(* The log through every step of the gateway.                              *)
LEMMA TradersStep ==
  ASSUME BookInv, TradersOK, Typed, GatewayStep
  PROVE  TradersOK'
<1>1. CASE BookOnly
  BY <1>1, LogStep DEF BookOnly
<1>2. CASE Settle \/ \E l \in OtherLimits : ConfigureRisk(l)
  BY <1>2 DEF Settle, SettleRisk, ConfigureRisk, bookVars, TradersOK
<1>3. CASE Reset
  BY <1>3 DEF Reset, TradersOK, Logged, TradeLog
<1> QED
  BY <1>1, <1>2, <1>3, ServedMoves, MatchMovesOnly DEF GatewayStep

-----------------------------------------------------------------------------
(* The live-order limit.                                                   *)

(* The counts leave room for the order being executed, which may rest.     *)
RoomOK ==
  /\ \A a \in Accounts : live_order_counts[a] <= loosest.max_live_orders
  /\ incoming # None =>
       live_order_counts[orders[incoming].account] < loosest.max_live_orders

(* An account without a count has nothing resting.                         *)
LEMMA CountPositive ==
  ASSUME BookInv, NEW id \in live_orders
  PROVE  /\ orders[id].account \in Accounts
         /\ live_order_counts[orders[id].account] \in Nat
         /\ live_order_counts[orders[id].account] > 0
<1> DEFINE a == orders[id].account
           S == {x \in live_orders : orders[x].account = a}
<1>1. a \in Accounts /\ live_order_counts[a] \in Nat /\ live_orders \subseteq OrderIds
  BY BookFacts DEF OrdersTyped, BookTyped
<1>2. live_order_counts[a] = B!Cardinality(S)
  BY <1>1 DEF BookInv, B!NumbersOK, B!CountsOK
<1>3. B!Cardinality(S) = Cardinality(S)
  BY DEF Cardinality, B!Cardinality
<1>4. IsFiniteSet(S) /\ id \in S
  BY <1>1, BookAssumption, FS_Subset
<1> HIDE DEF S
<1>5. Cardinality(S) # 0
  BY <1>4, FS_EmptySet
<1> QED
  BY <1>1, <1>2, <1>3, <1>5

(* An order that leaves takes one off the count of its account.            *)
LEMMA UnlinkCounts ==
  ASSUME BookInv, NEW id \in live_orders, NEW i, Book!Unlink(id, i)
  PROVE  /\ live_orders' = live_orders \ {id}
         /\ \A a \in Accounts :
              live_order_counts'[a] =
                IF a = orders[id].account THEN live_order_counts[a] - 1
                ELSE live_order_counts[a]
<1>1. /\ orders[id].account \in Accounts
      /\ live_order_counts[orders[id].account] \in Nat
      /\ live_order_counts[orders[id].account] > 0
  BY CountPositive
<1>2. live_order_counts \in [Accounts -> Nat]
  BY BookFacts DEF BookTyped
<1>3. /\ live_orders' = live_orders \ {id}
      /\ live_order_counts' = Book!Decremented(live_order_counts, orders[id].account)
  BY DEF Book!Unlink
<1> QED
  BY <1>1, <1>2, <1>3 DEF Book!Decremented

(* No command takes more room than the risk check saw, and a requeued order
   takes the room it left.                                                 *)
LEMMA RoomServed ==
  ASSUME BookInv, Typed, LimitsOK, RoomOK, NEW c \in Command, Served(c)
  PROVE  RoomOK'
<1>0. /\ live_order_counts \in [Accounts -> Nat] /\ loosest.max_live_orders \in Nat
      /\ limits.max_live_orders \in Nat /\ loosest' = loosest
  BY BookFacts DEF BookTyped, Typed, RiskLimits, Served
<1>1. [B!Next]_(B!vars)
  BY ServedMoves DEF BookOnly
<1>2. ASSUME incoming' = None,
             \A a \in Accounts : /\ live_order_counts'[a] \in Int
                                 /\ live_order_counts'[a] <= live_order_counts[a]
      PROVE  RoomOK'
  BY <1>0, <1>2 DEF RoomOK
<1>3. ASSUME NEW id \in live_orders, NEW i, Book!Unlink(id, i)
      PROVE  \A a \in Accounts : /\ live_order_counts'[a] \in Int
                                 /\ live_order_counts'[a] <= live_order_counts[a]
  BY <1>0, <1>3, UnlinkCounts
<1>4. ASSUME NEW id, NEW r, c.kind = "NEW", id = c.id, r = c.order, Submit(id, r)
      PROVE  RoomOK'
  <2>1. CASE Book!RejectSubmit(id, r) \/ Book!RejectByRisk(id, r)
    BY <1>0, <1>2, <2>1 DEF Book!RejectSubmit, Book!RejectByRisk, Book!CanStart
  <2>2. CASE RiskAccepts(r) /\ Book!Accept(id, r)
    <3>1. live_order_counts[r.account] < limits.max_live_orders
      BY <2>2 DEF RiskAccepts, Accepts, RoomForOrder
    <3>2. r.account \in Accounts /\ id \in OrderIds
      BY <1>4 DEF Command, NewCommand, CancelCommand, ModifyCommand
    <3>3. /\ orders' = [orders EXCEPT ![id] = Book!NewOrder(r, "ACCEPTED", sequence + 1)]
          /\ incoming' = id /\ live_order_counts' = live_order_counts
      BY <2>2 DEF Book!Accept
    <3>4. id \in DOMAIN orders
      BY <3>2 DEF BookInv, B!IInv, B!TypeOK
    <3>5. orders'[incoming'].account = r.account
      BY <3>3, <3>4 DEF Book!NewOrder
    <3>6. live_order_counts[r.account] < loosest.max_live_orders
      BY <1>0, <3>1, <3>2 DEF LimitsOK
    <3> QED
      BY <1>0, <3>3, <3>5, <3>6 DEF RoomOK
  <2> QED
    BY <1>4, <2>1, <2>2 DEF Submit
<1>5. ASSUME NEW id, NEW who, Book!Cancel(id, who) \/ Book!RejectCancel(id, who)
      PROVE  RoomOK'
  <2>1. CASE Book!Cancel(id, who)
    <3>1. PICK i \in DOMAIN Book!LevelOf(orders[id]).fifo : Book!Unlink(id, i)
      BY <2>1 DEF Book!Cancel
    <3>2. id \in live_orders /\ incoming' = None
      BY <2>1 DEF Book!Cancel, Book!MayTouch, Book!CanStart
    <3> QED
      BY <1>2, <1>3, <3>1, <3>2
  <2>2. CASE Book!RejectCancel(id, who)
    BY <1>0, <1>2, <2>2 DEF Book!RejectCancel, Book!CanStart
  <2> QED
    BY <1>5, <2>1, <2>2
<1>6. ASSUME NEW id, NEW who, NEW q, NEW p, Book!ModifyAndRequeue(id, who, q, p)
      PROVE  RoomOK'
  <2>1. PICK i \in DOMAIN Book!LevelOf(orders[id]).fifo : Book!Unlink(id, i)
    BY <1>6 DEF Book!ModifyAndRequeue
  <2>2. id \in live_orders /\ incoming' = id
    BY <1>6 DEF Book!ModifyAndRequeue, Book!Modifiable, Book!MayTouch
  <2>3. id \in OrderIds /\ orders[id] # NoOrder
    BY <2>2, BookFacts DEF BookTyped
  <2>4. orders'[id].account = orders[id].account
    BY <1>1, <2>3, OrdersKept
  <2>5. /\ \A a \in Accounts :
             live_order_counts'[a] = IF a = orders[id].account
                                     THEN live_order_counts[a] - 1 ELSE live_order_counts[a]
        /\ orders[id].account \in Accounts
    BY <2>1, <2>2, UnlinkCounts, CountPositive
  <2> QED
    BY <1>0, <2>2, <2>4, <2>5 DEF RoomOK
<1>7. ASSUME NEW id, NEW who, NEW q, NEW p,
             Book!ModifyInPlace(id, who, q, p) \/ Book!RejectModify(id, who, q, p)
      PROVE  RoomOK'
  BY <1>0, <1>2, <1>7 DEF Book!ModifyInPlace, Book!RejectModify, Book!CanStart
<1> QED
  BY <1>4, <1>5, <1>6, <1>7 DEF Served, Process

(* A trade makes room, and the remainder that rests takes what it had.     *)
LEMMA RoomMatched ==
  ASSUME BookInv, Typed, RoomOK, Match
  PROVE  RoomOK'
<1>0. /\ live_order_counts \in [Accounts -> Nat] /\ loosest.max_live_orders \in Nat
      /\ loosest' = loosest
      /\ incoming # None => /\ incoming \in OrderIds /\ orders[incoming] # NoOrder
                            /\ orders[incoming].account \in Accounts
  BY BookFacts DEF OrdersTyped, BookTyped, Typed, RiskLimits, Match, gatewayVars
<1>1. [B!Next]_(B!vars) /\ Book!Match
  BY MatchMovesOnly DEF BookOnly, Match, Turn
<1>2. CASE Book!PreventSelfTrade \/ Book!CompleteFilled \/ Book!CancelRemainder
  BY <1>0, <1>2 DEF Book!PreventSelfTrade, Book!CompleteFilled, Book!CancelRemainder, RoomOK
<1>3. CASE Book!RestRemainder
  <2>1. /\ live_order_counts' =
             [live_order_counts EXCEPT ![orders[incoming].account] = @ + 1]
        /\ incoming # None /\ incoming' = None
    BY <1>3 DEF Book!RestRemainder, Book!Rest, Book!Executing
  <2> QED
    BY <1>0, <2>1 DEF RoomOK
<1>4. CASE Book!Trade
  <2>1. trades' # trades
    <3>1. PICK t : trades' = Append(trades, t)
      BY <1>4 DEF Book!Trade, Book!TradePartOfMaker, Book!TradeAllOfMaker, Book!Executes
    <3>2. Len(Append(trades, t)) # Len(trades)
      <4> DEFINE R == [maker : OrderIds, taker : OrderIds, price : Prices, quantity : Nat]
      <4>1. trades \in Seq(R)
        BY BookFacts DEF BookTyped
      <4> HIDE DEF R
      <4> QED
        BY <4>1
    <3> QED
      BY <3>1, <3>2
  <2>2. PICK m \in live_orders, q \in Nat \ {0}, price \in Prices : Trades(m, q, price)
    BY <1>1, <2>1, TradesGrow
  <2>3. /\ incoming # None /\ incoming' = incoming
        /\ orders'[incoming].account = orders[incoming].account
        /\ \A a \in Accounts : live_order_counts'[a] <= live_order_counts[a]
    BY <2>2 DEF Trades
  <2>4. live_order_counts' \in [Accounts -> Nat]
    BY <1>1, B!NextInv, BookAssumptions DEF BookInv, B!IInv, B!TypeOK
  <2> QED
    BY <1>0, <2>3, <2>4 DEF RoomOK
<1> QED
  BY <1>1, <1>2, <1>3, <1>4 DEF Book!Match

(* The live-order limit holds through every step of the gateway.           *)
LEMMA RoomStep ==
  ASSUME BookInv, Typed, LimitsOK, RoomOK, GatewayStep
  PROVE  RoomOK'
<1>1. CASE Settle \/ UNCHANGED vars
  BY <1>1 DEF Settle, SettleRisk, vars, gatewayVars, bookVars, RoomOK
<1>2. ASSUME NEW l \in OtherLimits, ConfigureRisk(l)
      PROVE  RoomOK'
  <2>1. /\ loosest.max_live_orders <= loosest'.max_live_orders
        /\ loosest.max_live_orders \in Nat /\ loosest'.max_live_orders \in Nat
    BY <1>2, Configured DEF Typed, RiskLimits
  <2>2. UNCHANGED <<live_order_counts, incoming, orders>> /\ incoming = None
    BY <1>2, Configured DEF bookVars
  <2>3. live_order_counts \in [Accounts -> Nat]
    BY BookFacts DEF BookTyped
  <2> QED
    BY <2>1, <2>2, <2>3 DEF RoomOK
<1>3. CASE Reset
  BY <1>3 DEF Reset, Idle, AtRest, Typed, RiskLimits, RoomOK
<1> QED
  BY <1>1, <1>2, <1>3, RoomServed, RoomMatched DEF GatewayStep

-----------------------------------------------------------------------------
(* The position limit.                                                     *)

(* The orders of an account that may still trade.                          *)
OpenOf(a) == {x \in live_orders \cup ({incoming} \ {None}) : orders[x].account = a}

Within(n) == Absolute(n) <= loosest.max_position

(* What an account with one order at a time holds now, held after each trade
   that is still to be carried on, and would hold if its order filled.     *)
OnPath(a) ==
  /\ \A x, y \in OpenOf(a) : x = y
  /\ \A j \in settled .. Len(trades) : Within(HeldOf(trades, orders, a, j))
  /\ \A x \in OpenOf(a) :
       Within(HeldOf(trades, orders, a, Len(trades))
              + Signed(orders[x].side, orders[x].remaining))

PathOK == \A a \in Accounts \ exposed : OnPath(a)

(* An open order is a recorded one.                                        *)
LEMMA OpenFacts ==
  ASSUME BookInv, NEW a, NEW x \in OpenOf(a)
  PROVE  /\ x \in OrderIds /\ orders[x] # NoOrder
         /\ orders[x].side \in Side /\ orders[x].remaining \in Nat
         /\ orders[x].account = a
<1>1. x \in OrderIds /\ orders[x] # NoOrder /\ orders[x].account = a
  BY BookFacts DEF OpenOf, BookTyped
<1> QED
  BY <1>1, BookFacts DEF OrdersTyped

(* An account stays on its path when there is no trade and none of its open
   orders is new or different.                                             *)
LEMMA Calm ==
  ASSUME BookInv, TradersOK, Typed, BookOnly, trades' = trades,
         NEW a \in Accounts, OnPath(a),
         \A x \in OpenOf(a)' : /\ x \in OpenOf(a)
                               /\ orders'[x].side = orders[x].side
                               /\ orders'[x].remaining = orders[x].remaining
  PROVE  OnPath(a)'
<1>0. Len(trades) \in Nat /\ settled \in 0 .. Len(trades)
      /\ settled' = settled /\ loosest' = loosest /\ [B!Next]_(B!vars)
  BY DEF Typed, BookOnly, TradersOK, Logged, TradeLog
<1>1. \A j \in 0 .. Len(trades) :
        HeldOf(trades', orders', a, j) = HeldOf(trades, orders, a, j)
  BY <1>0, HeldKept
<1>2. /\ \A j \in settled .. Len(trades) :
           HeldOf(trades', orders', a, j) = HeldOf(trades, orders, a, j)
      /\ HeldOf(trades', orders', a, Len(trades)) = HeldOf(trades, orders, a, Len(trades))
  BY <1>0, <1>1
<1>3. \A x, y \in OpenOf(a)' : x = y
  BY DEF OnPath
<1>4. \A j \in settled' .. Len(trades') : Within(HeldOf(trades, orders, a, j))'
  BY <1>0, <1>2 DEF OnPath, Within
<1>5. \A x \in OpenOf(a)' :
        Within(HeldOf(trades, orders, a, Len(trades))
               + Signed(orders[x].side, orders[x].remaining))'
  BY <1>0, <1>2 DEF OnPath, Within
<1> QED
  BY <1>3, <1>4, <1>5 DEF OnPath

(* A new order of an account that has none starts from the settled position
   and was checked against it.                                             *)
LEMMA PathAccepted ==
  ASSUME BookInv, TradersOK, Typed, LimitsOK, AccountsOK, PathOK,
         NEW c \in Command, Served(c), c.kind = "NEW",
         RiskAccepts(c.order), Book!Accept(c.id, c.order),
         NEW a \in Accounts, a \notin exposed'
  PROVE  OnPath(a)'
<1> DEFINE id == c.id
           r == c.order
           n == Len(trades)
<1>1. id \in OrderIds /\ r.account \in Accounts /\ r.side \in Side /\ r.quantity \in Nat
  BY DEF Command, NewCommand, CancelCommand, ModifyCommand
<1>2. /\ incoming = None /\ incoming' = id /\ ~Book!Known(id)
      /\ orders' = [orders EXCEPT ![id] = Book!NewOrder(r, "ACCEPTED", sequence + 1)]
      /\ live_orders' = live_orders /\ trades' = trades /\ settled = n
      /\ exposed' = exposed \cup Exposing(c)
  BY DEF Book!Accept, Book!CanStart, Book!Refused, Book!Invalid, Served, Process
<1>3. BookOnly
  BY ServedMoves
<1>4. id \notin live_orders /\ id # None /\ orders \in [OrderIds -> B!Order \cup {NoOrder}]
  BY <1>1, <1>2, BookFacts, BookAssumption
  DEF BookTyped, Book!Known, BookInv, B!IInv, B!TypeOK
<1>5. /\ orders'[id].account = r.account /\ orders'[id].side = r.side
      /\ orders'[id].remaining = r.quantity
      /\ \A x \in OrderIds : x # id => orders'[x] = orders[x]
  BY <1>1, <1>2, <1>4 DEF Book!NewOrder
<1>6. \A x \in live_orders : x \in OrderIds /\ x # id /\ orders'[x] = orders[x]
  BY <1>4, <1>5, BookFacts DEF BookTyped
<1>7. OnPath(a)
  BY <1>2 DEF PathOK
<1>8. CASE a # r.account
  <2>1. \A x \in OpenOf(a)' : x \in OpenOf(a) /\ orders'[x] = orders[x]
    BY <1>2, <1>5, <1>6, <1>8 DEF OpenOf
  <2> QED
    BY <1>2, <1>3, <1>7, <2>1, Calm
<1>9. CASE a = r.account
  <2>1. ~(live_order_counts[a] > 0)
    BY <1>2, <1>9 DEF Exposing
  <2>2. \A x \in live_orders : orders[x].account # a
    BY <2>1, CountPositive
  <2>3. OpenOf(a)' = {id}
    BY <1>2, <1>4, <1>5, <1>6, <1>9, <2>2 DEF OpenOf
  <2>4. positions[a] = HeldOf(trades, orders, a, n) /\ positions[a] \in Int
    BY <1>2 DEF AccountsOK, Typed
  <2>5. n \in Nat /\ settled' = n /\ loosest' = loosest /\ [B!Next]_(B!vars)
    BY <1>2, <1>3 DEF BookOnly, TradersOK, Logged, TradeLog
  <2>6. HeldOf(trades', orders', a, n) = positions[a]
    <3>1. n \in 0 .. Len(trades)
      BY <2>5
    <3>2. HeldOf(trades', orders', a, n) = HeldOf(trades, orders, a, n)
      BY <2>5, <3>1, HeldKept
    <3> QED
      BY <2>4, <3>2
  <2>7. Absolute(Projected(r, positions[a])) <= limits.max_position
    BY <1>9 DEF RiskAccepts, Accepts
  <2>8. Projected(r, positions[a]) = positions[a] + Signed(r.side, r.quantity)
    BY <1>1, <2>4 DEF Projected, Signed
  <2>9. Absolute(positions[a] + Signed(r.side, r.quantity)) <= loosest.max_position
    <3>1. positions[a] + Signed(r.side, r.quantity) \in Int
      BY <1>1, <2>4 DEF Signed
    <3>2. limits.max_position \in Nat /\ loosest.max_position \in Nat
      BY DEF Typed, RiskLimits
    <3>3. limits.max_position <= loosest.max_position
      BY DEF LimitsOK
    <3> QED
      BY <2>7, <2>8, <3>1, <3>2, <3>3 DEF Absolute
  <2>10. Within(positions[a])
    <3>1. n \in settled .. Len(trades)
      BY <1>2, <2>5
    <3> QED
      BY <1>7, <2>4, <3>1 DEF OnPath
  <2>11. \A j \in settled' .. Len(trades') : Within(HeldOf(trades, orders, a, j))'
    <3>1. \A j \in settled' .. Len(trades') : j = n
      BY <1>2, <2>5
    <3> QED
      BY <2>5, <2>6, <2>10, <3>1 DEF Within
  <2>12. \A x \in OpenOf(a)' :
           Within(HeldOf(trades, orders, a, Len(trades))
                  + Signed(orders[x].side, orders[x].remaining))'
    BY <1>2, <1>5, <2>3, <2>5, <2>6, <2>9 DEF Within
  <2> QED
    BY <2>3, <2>11, <2>12 DEF OnPath
<1> QED
  BY <1>8, <1>9

(* The other commands leave the orders of an account that is not exposed
   as they are or take one out of the book.                                *)
LEMMA PathServed ==
  ASSUME BookInv, TradersOK, Typed, LimitsOK, AccountsOK, PathOK,
         NEW c \in Command, Served(c)
  PROVE  PathOK'
<1> SUFFICES ASSUME NEW a \in Accounts, a \notin exposed' PROVE OnPath(a)'
  BY DEF PathOK
<1>1. BookOnly /\ [B!Next]_(B!vars) /\ loosest' = loosest
  BY ServedMoves DEF BookOnly
<1>2. OnPath(a)
  BY <1>1 DEF PathOK, BookOnly
<1>3. orders \in [OrderIds -> B!Order \cup {NoOrder}] /\ live_orders \subseteq OrderIds
      /\ \A x \in live_orders : orders[x] # NoOrder
  BY BookFacts DEF BookTyped, BookInv, B!IInv, B!TypeOK
<1>4. ASSUME trades' = trades,
             \A x \in live_orders' : /\ x \in live_orders
                                     /\ orders[x].account = a \/ orders'[x].account = a
                                          => orders'[x] = orders[x],
             incoming' = None \/ orders'[incoming'].account # a
      PROVE  OnPath(a)'
  <2>1. \A x \in OpenOf(a)' : x \in OpenOf(a) /\ orders'[x] = orders[x]
    BY <1>4 DEF OpenOf
  <2> QED
    BY <1>1, <1>2, <1>4, <2>1, Calm
<1>5. CASE c.kind = "NEW" /\ Submit(c.id, c.order)
  <2>1. CASE Book!RejectSubmit(c.id, c.order)
    BY <1>4, <2>1 DEF Book!RejectSubmit, Book!CanStart
  <2>2. CASE Book!RejectByRisk(c.id, c.order)
    <3>1. \A x \in live_orders : orders'[x] = orders[x]
      <4>1. CASE Book!Known(c.id)
        BY <2>2, <4>1 DEF Book!RejectByRisk
      <4>2. CASE ~Book!Known(c.id)
        <5>1. /\ orders' = [orders EXCEPT ![c.id] = Book!NewOrder(c.order, "REJECTED", 0)]
              /\ c.id \notin live_orders
          BY <1>3, <2>2, <4>2 DEF Book!RejectByRisk, Book!Known
        <5> QED
          BY <1>3, <5>1
      <4> QED
        BY <4>1, <4>2
    <3> QED
      BY <1>4, <2>2, <3>1 DEF Book!RejectByRisk, Book!CanStart
  <2> QED
    BY <1>5, <2>1, <2>2, PathAccepted DEF Submit
<1>6. ASSUME NEW id, NEW who, Book!Cancel(id, who) \/ Book!RejectCancel(id, who)
      PROVE  OnPath(a)'
  <2>1. CASE Book!RejectCancel(id, who)
    BY <1>4, <2>1 DEF Book!RejectCancel, Book!CanStart
  <2>2. CASE Book!Cancel(id, who)
    <3>1. /\ live_orders' = live_orders \ {id} /\ incoming' = None /\ trades' = trades
          /\ orders' = [orders EXCEPT ![id].status = "CANCELLED"]
      BY <2>2 DEF Book!Cancel, Book!CanStart, Book!Unlink
    <3>2. \A x \in live_orders' : x \in live_orders /\ orders'[x] = orders[x]
      BY <1>3, <3>1
    <3> QED
      BY <1>4, <3>1, <3>2
  <2> QED
    BY <1>6, <2>1, <2>2
<1>7. ASSUME NEW who, NEW q, NEW p, c.kind = "MODIFY",
             \/ Book!ModifyInPlace(c.id, who, q, p)
             \/ Book!ModifyAndRequeue(c.id, who, q, p)
             \/ Book!RejectModify(c.id, who, q, p)
      PROVE  OnPath(a)'
  <2> DEFINE id == c.id
  <2>1. CASE Book!RejectModify(id, who, q, p)
    BY <1>4, <2>1 DEF Book!RejectModify, Book!CanStart
  <2>2. CASE Book!ModifyInPlace(id, who, q, p) \/ Book!ModifyAndRequeue(id, who, q, p)
    <3>1. id \in live_orders /\ trades' = trades
      BY <2>2 DEF Book!ModifyInPlace, Book!ModifyAndRequeue, Book!Modifiable, Book!MayTouch
    <3>2. id \in OrderIds /\ orders[id] # NoOrder
      BY <1>3, <3>1
    <3>3. orders[id].account # a
      BY <1>7, <3>2 DEF Served, Exposing, Book!Known
    <3>4. orders'[id].account # a
      BY <1>1, <3>2, <3>3, OrdersKept
    <3>5. /\ live_orders' \subseteq live_orders
          /\ \A x \in OrderIds : x # id => orders'[x] = orders[x]
          /\ incoming' = None \/ incoming' = id
      <4>1. CASE Book!ModifyInPlace(id, who, q, p)
        BY <1>3, <4>1 DEF Book!ModifyInPlace, Book!CanStart
      <4>2. CASE Book!ModifyAndRequeue(id, who, q, p)
        BY <1>3, <4>2 DEF Book!ModifyAndRequeue, Book!CanStart, Book!Unlink
      <4> QED
        BY <2>2, <4>1, <4>2
    <3>6. \A x \in live_orders' : x \in live_orders /\ (x # id => orders'[x] = orders[x])
      BY <1>3, <3>5
    <3> QED
      BY <1>4, <3>1, <3>3, <3>4, <3>5, <3>6
  <2> QED
    BY <1>7, <2>1, <2>2
<1> QED
  BY <1>5, <1>6, <1>7 DEF Served, Process

(* A fill takes an account part of the way its open order leads.           *)
LEMMA PartOfTheWay ==
  ASSUME NEW h \in Int, NEW side \in Side, NEW q \in Nat, NEW rest \in Nat, q <= rest,
         NEW bound \in Nat, Absolute(h) <= bound,
         Absolute(h + Signed(side, rest)) <= bound
  PROVE  /\ Absolute(h + Signed(side, q)) <= bound
         /\ (h + Signed(side, q)) + Signed(side, rest - q) = h + Signed(side, rest)
<1>1. CASE side = "BUY"
  BY <1>1 DEF Signed, Absolute
<1>2. CASE side = "SELL"
  BY <1>2 DEF Signed, Absolute
<1> QED
  BY <1>1, <1>2 DEF Side

(* A trade fills at most one order of an account on its path.              *)
LEMMA PathTraded ==
  ASSUME BookInv, TradersOK, Typed, BookOnly, NEW m, NEW q, NEW price,
         Trades(m, q, price), NEW a \in Accounts, OnPath(a)
  PROVE  OnPath(a)'
<1> DEFINE n == Len(trades)
           t == [maker |-> m, taker |-> incoming, price |-> price, quantity |-> q]
           H(j) == HeldOf(trades, orders, a, j)
           K(j) == HeldOf(trades', orders', a, j)
           b == loosest.max_position
<1>1. /\ m \in live_orders /\ incoming # None /\ m # incoming /\ q \in Nat \ {0}
      /\ q <= orders[m].remaining /\ q <= orders[incoming].remaining
      /\ orders[m].side = Opposite(orders[incoming].side)
      /\ trades' = Append(trades, t)
      /\ \A x \in {m, incoming} : /\ orders'[x].remaining = orders[x].remaining - q
                                  /\ orders'[x].side = orders[x].side
                                  /\ orders'[x].account = orders[x].account
      /\ \A x \in OrderIds \ {m, incoming} : orders'[x] = orders[x]
      /\ live_orders' \subseteq live_orders /\ incoming' = incoming
  BY DEF Trades
<1>2. /\ t.maker = m /\ t.taker = incoming /\ t.quantity = q
  OBVIOUS
<1> HIDE DEF t
<1>3. /\ n \in Nat /\ Len(trades') = n + 1 /\ trades'[n + 1] = t
      /\ trades \in TradeLog /\ trades' \in TradeLog
      /\ settled' = settled /\ settled \in 0 .. n
      /\ loosest' = loosest /\ b \in Nat /\ [B!Next]_(B!vars)
  <2>1. trades \in TradeLog /\ trades' \in TradeLog
    BY LogStep DEF BookOnly, TradersOK, Logged
  <2>2. n \in Nat /\ Len(trades') = n + 1 /\ trades'[n + 1] = t
    <3> DEFINE R == [maker : OrderIds, taker : OrderIds, price : Prices, quantity : Nat]
    <3>1. trades \in Seq(R)
      BY <2>1 DEF TradeLog
    <3> HIDE DEF R
    <3> QED
      BY <1>1, <3>1
  <2> QED
    BY <2>1, <2>2 DEF BookOnly, Typed, RiskLimits
<1>4. \A j \in 0 .. n : K(j) = H(j) /\ H(j) \in Int
  BY <1>3, HeldKept, HeldInt
<1>5. /\ incoming \in OrderIds /\ m \in OrderIds
      /\ orders[incoming].side \in Side /\ orders[m].side \in Side
      /\ orders[incoming].remaining \in Nat /\ orders[m].remaining \in Nat
      /\ live_orders \subseteq OrderIds
  BY <1>1, BookFacts DEF BookTyped, OrdersTyped
<1> DEFINE d == Signed(orders[incoming].side, q)
           gain == (IF orders[incoming].account = a THEN d ELSE 0)
                   - (IF orders[m].account = a THEN d ELSE 0)
<1>6. K(n + 1) = H(n) + gain
  <2>1. K(n + 1) = K(n) + GainOf(trades', orders', a, n + 1)
    BY <1>3, HeldNext
  <2>2. GainOf(trades', orders', a, n + 1) = gain
    BY <1>1, <1>2, <1>3 DEF GainOf
  <2>3. K(n) = H(n)
    BY <1>3, <1>4
  <2> QED
    BY <2>1, <2>2, <2>3
<1>7. Within(H(n)) /\ H(n) \in Int
  BY <1>3, <1>4 DEF OnPath
<1>8. \A x \in OpenOf(a)' : x \in OpenOf(a)
  BY <1>1, <1>5 DEF OpenOf
<1>9. \A x, y \in OpenOf(a)' : x = y
  BY <1>8 DEF OnPath
<1> HIDE DEF H, K, gain, d
<1>10. /\ Absolute(K(n + 1)) <= b
       /\ \A x \in OpenOf(a)' :
            Absolute(K(n + 1) + Signed(orders'[x].side, orders'[x].remaining)) <= b
  <2>1. CASE orders[incoming].account # a /\ orders[m].account # a
    <3>1. gain = 0
      BY <2>1 DEF gain
    <3>2. K(n + 1) = H(n)
      BY <1>6, <1>7, <3>1
    <3>3. \A x \in OpenOf(a)' : orders'[x] = orders[x]
      BY <1>1, <1>5, <1>8, <2>1 DEF OpenOf
    <3>4. \A x \in OpenOf(a) : Within(H(n) + Signed(orders[x].side, orders[x].remaining))
      BY DEF OnPath, H
    <3> QED
      BY <1>7, <1>8, <3>2, <3>3, <3>4 DEF Within
  <2>2. ASSUME NEW x \in {incoming, m}, orders[x].account = a
        PROVE  /\ Absolute(K(n + 1)) <= b
               /\ \A y \in OpenOf(a)' :
                    Absolute(K(n + 1) + Signed(orders'[y].side, orders'[y].remaining)) <= b
    <3>1. x \in OpenOf(a) /\ \A y \in OpenOf(a)' : y = x
      <4>1. x \in OpenOf(a)
        BY <1>1, <2>2 DEF OpenOf
      <4> QED
        BY <1>8, <4>1 DEF OnPath
    <3>2. \A z \in {incoming, m} : z # x => orders[z].account # a
      <4>1. incoming \in live_orders \cup ({incoming} \ {None})
            /\ m \in live_orders \cup ({incoming} \ {None})
        BY <1>1
      <4>2. \A z \in {incoming, m} : orders[z].account = a => z \in OpenOf(a)
        BY <4>1 DEF OpenOf
      <4> QED
        BY <3>1, <4>2 DEF OnPath
    <3>3. gain = Signed(orders[x].side, q)
      <4>1. CASE x = incoming
        <5>1. orders[m].account # a
          BY <1>1, <3>2, <4>1
        <5>2. d \in Int
          BY <1>1 DEF d, Signed
        <5> QED
          BY <2>2, <4>1, <5>1, <5>2 DEF gain, d
      <4>2. CASE x = m
        <5>1. orders[incoming].account # a
          BY <1>1, <3>2, <4>2
        <5>2. gain = 0 - d
          BY <2>2, <4>2, <5>1 DEF gain
        <5>3. Signed(orders[m].side, q) = 0 - d
          BY <1>1, <1>5 DEF d, Signed, Opposite, Side
        <5> QED
          BY <4>2, <5>2, <5>3
      <4> QED
        BY <4>1, <4>2
    <3> DEFINE h == H(n)
               side == orders[x].side
               rest == orders[x].remaining
    <3>4. /\ h \in Int /\ side \in Side /\ q \in Nat /\ rest \in Nat /\ q <= rest /\ b \in Nat
          /\ Absolute(h) <= b /\ Absolute(h + Signed(side, rest)) <= b
      <4>1. Within(H(n) + Signed(orders[x].side, orders[x].remaining))
        BY <3>1 DEF OnPath, H
      <4>2. orders[x].side \in Side /\ orders[x].remaining \in Nat /\ q <= orders[x].remaining
        BY <1>1, <1>5
      <4> QED
        BY <1>1, <1>3, <1>7, <4>1, <4>2 DEF Within
    <3>5. K(n + 1) = h + Signed(side, q)
      BY <1>6, <3>3
    <3>6. orders'[x].side = side /\ orders'[x].remaining = rest - q
      BY <1>1
    <3> HIDE DEF h, side, rest, b
    <3>7. /\ Absolute(h + Signed(side, q)) <= b
          /\ (h + Signed(side, q)) + Signed(side, rest - q) = h + Signed(side, rest)
      BY <3>4, PartOfTheWay
    <3> QED
      BY <3>1, <3>4, <3>5, <3>6, <3>7
  <2> QED
    BY <2>1, <2>2
<1>11. \A j \in settled' .. Len(trades') : Within(HeldOf(trades, orders, a, j))'
  <2> SUFFICES ASSUME NEW j \in settled .. n + 1 PROVE Absolute(K(j)) <= b
    BY <1>3 DEF K, Within
  <2>1. CASE j = n + 1
    BY <1>10, <2>1
  <2>2. CASE j # n + 1
    <3>1. j \in settled .. n /\ j \in 0 .. n
      BY <1>3, <2>2
    <3>2. Within(H(j))
      BY <3>1 DEF OnPath, H
    <3> QED
      BY <1>4, <3>1, <3>2 DEF Within
  <2> QED
    BY <2>1, <2>2
<1>12. \A x \in OpenOf(a)' :
         Within(HeldOf(trades, orders, a, Len(trades))
                + Signed(orders[x].side, orders[x].remaining))'
  BY <1>3, <1>10 DEF K, Within
<1> QED
  BY <1>9, <1>11, <1>12 DEF OnPath

(* A turn of the matching loop trades, or takes orders out of execution.   *)
LEMMA PathMatched ==
  ASSUME BookInv, TradersOK, Typed, PathOK, Match
  PROVE  PathOK'
<1> SUFFICES ASSUME NEW a \in Accounts, a \notin exposed PROVE OnPath(a)'
  BY DEF PathOK, Match, gatewayVars
<1>1. BookOnly /\ [B!Next]_(B!vars) /\ Book!Match
  BY MatchMovesOnly DEF BookOnly, Match, Turn
<1>2. OnPath(a)
  BY DEF PathOK
<1>3. /\ orders \in [OrderIds -> B!Order \cup {NoOrder}] /\ live_orders \subseteq OrderIds
      /\ incoming \in OrderIds \cup {None} /\ incoming # None => incoming \notin live_orders
      /\ \A x \in live_orders : orders[x] # NoOrder
  BY BookFacts DEF BookTyped, BookInv, B!IInv, B!TypeOK
<1>4. CASE trades' # trades
  <2>1. PICK m \in live_orders, q \in Nat \ {0}, price \in Prices : Trades(m, q, price)
    BY <1>1, <1>4, TradesGrow
  <2> QED
    BY <1>1, <1>2, <2>1, PathTraded
<1>5. CASE trades' = trades
  <2>1. CASE Book!Trade
    <3>1. PICK t : trades' = Append(trades, t)
      BY <2>1 DEF Book!Trade, Book!TradePartOfMaker, Book!TradeAllOfMaker, Book!Executes
    <3>2. Len(Append(trades, t)) # Len(trades)
      <4> DEFINE R == [maker : OrderIds, taker : OrderIds, price : Prices, quantity : Nat]
      <4>1. trades \in Seq(R)
        BY BookFacts DEF BookTyped
      <4> HIDE DEF R
      <4> QED
        BY <4>1
    <3> QED
      BY <1>5, <3>1, <3>2
  <2>2. CASE Book!PreventSelfTrade \/ Book!CancelRemainder \/ Book!CompleteFilled
    <3>1. live_orders' = live_orders /\ incoming' = None
      BY <2>2 DEF Book!PreventSelfTrade, Book!CancelRemainder, Book!CompleteFilled
    <3>2. \A x \in live_orders : orders'[x] = orders[x]
      <4>1. CASE Book!CompleteFilled
        BY <4>1 DEF Book!CompleteFilled
      <4>2. CASE Book!PreventSelfTrade \/ Book!CancelRemainder
        <5>1. /\ orders' = [orders EXCEPT ![incoming].status = "CANCELLED"]
              /\ incoming # None
          BY <4>2 DEF Book!PreventSelfTrade, Book!CancelRemainder, Book!Meets, Book!Executing
        <5> QED
          BY <1>3, <5>1
      <4> QED
        BY <2>2, <4>1, <4>2
    <3>3. \A x \in OpenOf(a)' : x \in OpenOf(a) /\ orders'[x] = orders[x]
      BY <3>1, <3>2 DEF OpenOf
    <3> QED
      BY <1>1, <1>2, <1>5, <3>3, Calm
  <2>3. CASE Book!RestRemainder
    <3>1. /\ live_orders' = live_orders \cup {incoming} /\ incoming # None
          /\ incoming' = None /\ orders' = orders
      BY <2>3 DEF Book!RestRemainder, Book!Rest, Book!Executing
    <3>2. \A x \in OpenOf(a)' : x \in OpenOf(a) /\ orders'[x] = orders[x]
      BY <3>1 DEF OpenOf
    <3> QED
      BY <1>1, <1>2, <1>5, <3>2, Calm
  <2> QED
    BY <1>1, <2>1, <2>2, <2>3 DEF Book!Match
<1> QED
  BY <1>4, <1>5

(* The position limit holds through every step of the gateway.             *)
LEMMA PathStep ==
  ASSUME BookInv, TradersOK, Typed, LimitsOK, AccountsOK, PathOK, GatewayStep
  PROVE  PathOK'
<1>1. CASE UNCHANGED vars
  BY <1>1 DEF vars, gatewayVars, bookVars, PathOK, OnPath, OpenOf, Within
<1>2. CASE Settle
  <2>1. /\ settled' = settled + 1 /\ settled \in Nat /\ Len(trades) \in Nat
        /\ UNCHANGED <<orders, live_orders, incoming, trades, exposed, loosest>>
    BY <1>2 DEF Settle, SettleRisk, bookVars, Typed, TradersOK, Logged, TradeLog
  <2>2. \A j \in settled' .. Len(trades') : j \in settled .. Len(trades)
    BY <2>1
  <2> QED
    BY <2>1, <2>2 DEF PathOK, OnPath, OpenOf, Within
<1>3. ASSUME NEW l \in OtherLimits, ConfigureRisk(l)
      PROVE  PathOK'
  <2>1. /\ loosest.max_position <= loosest'.max_position
        /\ loosest.max_position \in Nat /\ loosest'.max_position \in Nat
        /\ UNCHANGED <<orders, live_orders, incoming, trades, settled, exposed>>
    BY <1>3, Configured DEF Typed, RiskLimits, bookVars
  <2>2. trades \in TradeLog /\ Len(trades) \in Nat /\ settled \in 0 .. Len(trades)
    BY DEF Typed, TradersOK, Logged, TradeLog
  <2>3. \A n \in Int : Within(n) => Within(n)'
    BY <2>1 DEF Within, Absolute
  <2>4. ASSUME NEW a \in Accounts, OnPath(a)
        PROVE  OnPath(a)'
    <3>1. \A j \in 0 .. Len(trades) : HeldOf(trades, orders, a, j) \in Int
      BY <2>2, HeldInt
    <3>2. \A j \in settled .. Len(trades) : Within(HeldOf(trades, orders, a, j))'
      <4> TAKE j \in settled .. Len(trades)
      <4>1. HeldOf(trades, orders, a, j) \in Int /\ Within(HeldOf(trades, orders, a, j))
        BY <2>2, <2>4, <3>1 DEF OnPath
      <4>2. UNCHANGED HeldOf(trades, orders, a, j)
        BY <2>1
      <4> QED
        BY <2>3, <4>1, <4>2 DEF Within
    <3>3. \A x \in OpenOf(a) :
            LET n == HeldOf(trades, orders, a, Len(trades))
                     + Signed(orders[x].side, orders[x].remaining)
            IN n \in Int /\ Within(n)
      <4> TAKE x \in OpenOf(a)
      <4>1. orders[x].remaining \in Nat
        BY OpenFacts
      <4>2. Signed(orders[x].side, orders[x].remaining) \in Int
        BY <4>1 DEF Signed
      <4>3. HeldOf(trades, orders, a, Len(trades)) \in Int
        BY <2>2, <3>1
      <4> QED
        BY <2>4, <4>2, <4>3 DEF OnPath
    <3>4. OpenOf(a)' = OpenOf(a)
      BY <2>1 DEF OpenOf
    <3>5. \A x \in OpenOf(a)' :
            Within(HeldOf(trades, orders, a, Len(trades))
                   + Signed(orders[x].side, orders[x].remaining))'
      BY <2>1, <2>3, <3>3, <3>4 DEF Within
    <3> QED
      BY <2>1, <2>4, <3>2, <3>4, <3>5 DEF OnPath
  <2> QED
    BY <2>1, <2>4 DEF PathOK
<1>4. CASE Reset
  <2>1. /\ live_orders' = {} /\ incoming' = None /\ trades' = << >> /\ settled' = 0
        /\ loosest' = loosest /\ loosest.max_position \in Nat
    BY <1>4 DEF Reset, Idle, AtRest, Typed, RiskLimits
  <2>2. ASSUME NEW a \in Accounts PROVE OnPath(a)'
    <3>1. OpenOf(a)' = {}
      BY <2>1 DEF OpenOf
    <3>2. \A j \in settled' .. Len(trades') : j = 0
      BY <2>1
    <3>3. HeldOf(trades', orders', a, 0) = 0
      BY HeldNone
    <3>4. \A j \in settled' .. Len(trades') : Within(HeldOf(trades, orders, a, j))'
      BY <2>1, <3>2, <3>3 DEF Within, Absolute
    <3> QED
      BY <3>1, <3>4 DEF OnPath
  <2> QED
    BY <2>2 DEF PathOK
<1> QED
  BY <1>1, <1>2, <1>3, <1>4, PathServed, PathMatched DEF GatewayStep

-----------------------------------------------------------------------------
(* The inductive invariant: the book's own, through whose proof its steps go;
   the types; what the limits were; the trade log; the accounts; the room for
   the order being executed; and the way every account's open order leads. *)
IInv ==
  /\ BookInv
  /\ Typed
  /\ LimitsOK
  /\ TradersOK
  /\ AccountsOK
  /\ RoomOK
  /\ PathOK

(* The gateway starts with an empty book, flat accounts and its limits.    *)
LEMMA InitInv == Init => IInv
<1> SUFFICES ASSUME Init PROVE IInv
  OBVIOUS
<1>1. BookInv
  <2>1. B!Init
    BY DEF Init, Book!Init, Book!EmptyLevel, Book!Side, B!Init, B!EmptyLevel, B!Side
  <2> QED
    BY <2>1, EmptyBook
<1>2. /\ live_orders = {} /\ incoming = None /\ trades = << >> /\ settled = 0
      /\ live_order_counts = [a \in Accounts |-> 0]
  BY DEF Init, Book!Init
<1>3. Typed /\ LimitsOK
  BY <1>2, LimitsAssumption, SeedAssumption DEF Init, Typed, LimitsOK, RiskLimits
<1>4. TradersOK
  BY <1>2 DEF TradersOK, Logged, TradeLog
<1>5. AccountsOK
  <2>1. ledger = [a \in Accounts |-> NoPosition] /\ positions = [a \in Accounts |-> 0]
    BY DEF Init
  <2>2. /\ ExactLedger(ledger)
        /\ \A a \in Accounts : /\ ledger[a].quantity = positions[a]
                               /\ positions[a] = HeldOf(trades, orders, a, 0)
        /\ Total(Cash(ledger), Accounts) = 0
    BY <2>1, ClearedAccounts
  <2> QED
    BY <1>2, <2>2 DEF AccountsOK
<1>6. RoomOK
  BY <1>2, <1>3 DEF Typed, RiskLimits, RoomOK
<1>7. PathOK
  <2> SUFFICES ASSUME NEW a \in Accounts PROVE OnPath(a)
    BY DEF PathOK
  <2>1. OpenOf(a) = {}
    BY <1>2 DEF OpenOf
  <2>2. \A j \in settled .. Len(trades) : j = 0
    BY <1>2
  <2>3. HeldOf(trades, orders, a, 0) = 0 /\ loosest.max_position \in Nat
    BY <1>3, HeldNone DEF Typed, RiskLimits
  <2> QED
    BY <2>1, <2>2, <2>3 DEF OnPath, Within, Absolute
<1> QED
  BY <1>1, <1>3, <1>4, <1>5, <1>6, <1>7 DEF IInv

(* Whatever may happen to the gateway keeps the invariant.                 *)
LEMMA GatewayInv == IInv /\ GatewayStep => IInv'
  BY BookStep, TypedStep, TradersStep, AccountsStep, RoomStep, PathStep DEF IInv

(* So does every step of its specification.                                *)
LEMMA NextInv == IInv /\ [Next]_vars => IInv'
  BY StepKinds, GatewayInv DEF IInv

(* The inductive invariant of the gateway.                                 *)
THEOREM Invariant == Spec => []IInv
  BY InitInv, NextInv, PTL DEF Spec

(* What the inductive invariant says, first of types.                      *)
LEMMA TypesHold == IInv => TypeOK
<1>1. B!TypeOK => Book!TypeOK
  BY DEF B!TypeOK, B!Order, B!Side, B!OrderType, B!TimeInForce, B!OrderStatus, B!NoPrice,
         Book!TypeOK, Book!Order, Book!Side, Book!OrderType, Book!TimeInForce,
         Book!OrderStatus, Book!NoPrice
<1> QED
  BY <1>1 DEF IInv, BookInv, B!IInv, Typed, AccountsOK, ExactLedger, TypeOK

(* Every variable of the gateway keeps its type.                           *)
THEOREM TypeCorrect == Spec => []TypeOK
  BY TypesHold, Invariant, PTL

(* What the trade log says an account bought is what the gain of its trades
   sums up to.                                                             *)
LEMMA BoughtIsHeld ==
  ASSUME IInv, NEW a \in Accounts
  PROVE  MapThenSumSet(LAMBDA k : Bought(a, k), 1 .. settled) =
           HeldOf(trades, orders, a, settled)
<1> DEFINE S == 1 .. settled
           f == [k \in S |-> Bought(a, k)]
<1>1. MapThenSumSet(LAMBDA k : Bought(a, k), S) = Total(f, S)
  BY DEF MapThenSumSet, MapThenFoldSet, Total, SumOf, SumStep, AnyOf
<1>2. trades \in TradeLog /\ settled \in 0 .. Len(trades)
  BY DEF IInv, TradersOK, Logged, Typed
<1>3. /\ IsFiniteSet(S)
      /\ \A k \in S : /\ Gains(trades, orders, a)[k] = GainOf(trades, orders, a, k)
                      /\ Gains(trades, orders, a)[k] \in Int
  BY <1>2, GainsInt
<1>4. \A k \in S : f[k] = GainOf(trades, orders, a, k)
  BY DEF Bought, GainOf
<1> HIDE DEF S, f
<1>5. Total(f, S) = Total(Gains(trades, orders, a), S)
  BY <1>3, <1>4, TotalSame
<1> QED
  BY <1>1, <1>5 DEF HeldOf, S

(* Then of accounts.                                                       *)
LEMMA AccountsHold == IInv => AccountsAgree
<1> SUFFICES ASSUME IInv PROVE AccountsAgree
  OBVIOUS
<1>1. MapThenSumSet(LAMBDA a : ledger[a].cash, Accounts) = 0
  <2> DEFINE f == [a \in Accounts |-> ledger[a].cash]
  <2>1. MapThenSumSet(LAMBDA a : ledger[a].cash, Accounts) = Total(f, Accounts)
    BY DEF MapThenSumSet, MapThenFoldSet, Total, SumOf, SumStep, AnyOf
  <2> QED
    BY <2>1 DEF IInv, AccountsOK, Cash
<1>2. ASSUME NEW a \in Accounts
      PROVE  LET p == ledger[a]
             IN /\ p.quantity = positions[a]
                /\ p.quantity = MapThenSumSet(LAMBDA k : Bought(a, k), 1 .. settled)
                /\ p.realized_pnl = Plus(Whole(p.cash), Scaled(p.average_entry, p.quantity))
                /\ p.quantity = 0 => p.average_entry = Whole(0)
  <2> DEFINE p == ledger[a]
  <2>1. Exact(p) /\ p.quantity = positions[a]
        /\ positions[a] = HeldOf(trades, orders, a, settled)
    BY DEF IInv, AccountsOK, ExactLedger
  <2>2. p.quantity = MapThenSumSet(LAMBDA k : Bought(a, k), 1 .. settled)
    BY <2>1, BoughtIsHeld
  <2> HIDE DEF p
  <2>3. p.realized_pnl = Plus(Whole(p.cash), Scaled(p.average_entry, p.quantity))
    BY <2>1, ExactIs DEF Exact
  <2>4. p.quantity = 0 => p.average_entry = Whole(0)
    BY <2>1 DEF Exact
  <2> QED
    BY <2>1, <2>2, <2>3, <2>4 DEF p
<1> QED
  BY <1>1, <1>2 DEF AccountsAgree

(* And of limits.                                                          *)
LEMMA WithinHold == IInv => WithinLimits
<1> SUFFICES ASSUME IInv PROVE WithinLimits
  OBVIOUS
<1>1. ASSUME NEW a \in Accounts \ exposed
      PROVE  Absolute(positions[a]) <= loosest.max_position
  <2>1. settled \in settled .. Len(trades)
    BY DEF IInv, Typed, TradersOK, Logged, TradeLog
  <2>2. Within(HeldOf(trades, orders, a, settled))
    BY <2>1 DEF IInv, PathOK, OnPath
  <2> QED
    BY <2>2 DEF IInv, AccountsOK, Within
<1> QED
  BY <1>1 DEF IInv, RoomOK, WithinLimits

(* The risk positions, the ledger and the trade log agree on what every
   account owns, its realized profit is exact, and what one account gains
   another one lost, after every trade and across resets.                  *)
THEOREM AccountsAreInAgreement == Spec => []AccountsAgree
  BY AccountsHold, Invariant, PTL

(* Resting orders stay within the live-order limit, and an account with one
   order at a time within the position limit.                              *)
THEOREM LimitsHold == Spec => []WithinLimits
  BY WithinHold, Invariant, PTL
-----------------------------------------------------------------------------
(* The journal.                                                            *)

(* A step of the gateway with its journal is one of the gateway, or leaves it
   as it is.                                                               *)
LEMMA RecoverySteps == [RecoveryNext]_recoveryVars => [Next]_vars
<1>1. Live => Next
  BY DEF Live, Next, Request
<1>2. Restart => Next
  BY DEF Restart, Next
<1>3. TakePoint => UNCHANGED vars
  BY DEF TakePoint
<1>4. Verify \/ (\E count \in 0 .. Len(journal) : Replay(count)) => UNCHANGED vars
  BY DEF Verify, Replay, liveVars
<1>5. ReplayEntry \/ ReplayOn \/ Report \/ Respond => UNCHANGED vars
  BY DEF ReplayEntry, ReplayOn, Report, Respond, liveVars
<1>6. UNCHANGED recoveryVars => UNCHANGED vars
  BY DEF recoveryVars, liveVars
<1> QED
  BY <1>1, <1>2, <1>3, <1>4, <1>5, <1>6 DEF RecoveryNext

(* So the gateway keeps its invariant.                                     *)
LEMMA RecoveryInvariant == RecoverySpec => []IInv
<1>1. RecoveryInit => IInv
  BY InitInv DEF RecoveryInit
<1>2. IInv /\ [RecoveryNext]_recoveryVars => IInv'
  BY RecoverySteps, NextInv
<1> QED
  BY <1>1, <1>2, PTL DEF RecoverySpec

-----------------------------------------------------------------------------
(* What the journal holds.                                                 *)
WrittenOrder ==
  [account : Accounts, side : Side, type : OrderType, tif : TimeInForce,
   price : Prices \cup {NoPrice}, quantity : Nat,
   status : OrderStatus, remaining : Int, filled : Int, priority : Int]

Executed == [status : OrderStatus, remaining : Int, filled : Int, priority : Int]

WrittenCommand ==
  [kind : {"NEW"}, id : OrderIds, order : WrittenOrder] \cup CancelCommand \cup ModifyCommand

ToldOrder ==
  [price : Prices \cup {NoPrice}, quantity : Nat, remaining : Int, filled : Int, priority : Int]

Entry ==
  [command : WrittenCommand, limits : RiskLimits, sequence : Nat, trades : Nat,
   resting : UNION {[ids -> ToldOrder] : ids \in SUBSET OrderIds}]

(* An order with what became of it, at first and later.                    *)
LEMMA FoundTyped ==
  ASSUME NEW o \in AnyRequest \cup WrittenOrder, NEW e \in Executed
  PROVE  AsFound(o, e) \in WrittenOrder
BY DEF AnyRequest, Executed, WrittenOrder, AsFound

(* What is read back is a command.                                         *)
LEMMA ReadBackIsCommand ==
  ASSUME NEW c \in WrittenCommand
  PROVE  ReadBack(c) \in Command
<1>1. CASE c.kind # "NEW"
  <2>1. c \in CancelCommand \cup ModifyCommand
    BY <1>1 DEF WrittenCommand
  <2>2. [c EXCEPT !.who = None] \in CancelCommand \cup ModifyCommand
    BY <2>1 DEF CancelCommand, ModifyCommand
  <2>3. ReadBack(c) = c \/ ReadBack(c) = [c EXCEPT !.who = None]
    BY <1>1 DEF ReadBack
  <2> QED
    BY <2>1, <2>2, <2>3 DEF Command
<1>2. CASE c.kind = "NEW"
  <2>1. c \in [kind : {"NEW"}, id : OrderIds, order : WrittenOrder]
    BY <1>2 DEF WrittenCommand, CancelCommand, ModifyCommand
  <2>2. c.order \in WrittenOrder
    BY <2>1
  <2>3. AsOrdered(c.order) =
          [account |-> c.order.account, side |-> c.order.side, type |-> c.order.type,
           tif |-> c.order.tif, price |-> c.order.price, quantity |-> c.order.quantity]
    BY DEF AsOrdered
  <2>4. AsOrdered(c.order) \in AnyRequest
    BY <2>2, <2>3 DEF WrittenOrder, AnyRequest
  <2>5. ReadBack(c) = [kind |-> "NEW", id |-> c.id, order |-> AsOrdered(c.order)]
    BY <1>2, <2>1 DEF ReadBack
  <2> QED
    BY <2>1, <2>4, <2>5 DEF Command, NewCommand, AnyRequest
<1> QED
  BY <1>1, <1>2
-----------------------------------------------------------------------------
(* The inductive invariant of the journal: its entries are numbered upwards,
   the last one below the book's own number, and that one is of the order in
   execution if it is of a new order; nothing is executed while a replica is
   rebuilt, and a replay does not go beyond its end; and what an answer came to
   is in the journal, and is not the entry that is still being written.    *)
JournalOK ==
  /\ journal \in Seq(Entry)
  /\ \A k \in 1 .. Len(journal) - 1 : journal[k].sequence < journal[k + 1].sequence
  /\ Len(journal) > 0 => journal[Len(journal)].sequence < sequence

LastOK ==
  incoming # None =>
    /\ Len(journal) > 0
    /\ LET c == journal[Len(journal)].command IN c.kind = "NEW" => c.id = incoming

RebuildOK ==
  /\ {"taken", "journal_position"} \subseteq DOMAIN point
  /\ point.taken \in BOOLEAN /\ point.journal_position \in Nat
  /\ task \in {"none", "verification", "replay"}
  /\ position \in Nat /\ target \in 0 .. Len(journal) /\ diverged \in BOOLEAN
  /\ task = "replay" => position <= target
  /\ task = "none" => target = 0
  /\ task # "none" => incoming = None

AnswerOK ==
  /\ answer \in [total : Nat, replayed : Entry \cup {None}, outlived : BOOLEAN]
  /\ answer # NoAnswer /\ ~answer.outlived =>
       /\ answer.total \in 1 .. Len(journal)
       /\ journal[answer.total] = answer.replayed
       /\ incoming # None => answer.total < Len(journal)

RInv == JournalOK /\ LastOK /\ RebuildOK /\ AnswerOK

(* Every command numbers an event, and a turn none backwards.              *)
LEMMA CommandsNumberEvents ==
  ASSUME sequence \in Nat
  PROVE  /\ B!Command => sequence < sequence'
         /\ B!Match => sequence <= sequence'
<1>1. ASSUME B!Command
      PROVE  sequence' = sequence + 1 \/ sequence' = sequence + 2
  <2>1. PICK id \in OrderIds :
          \/ \E r \in AnyRequest : B!Accept(id, r) \/ B!RejectSubmit(id, r)
          \/ \E r \in AnyRequest : B!RejectByRisk(id, r)
          \/ \E who \in Accounts \cup {None} : B!Cancel(id, who) \/ B!RejectCancel(id, who)
          \/ \E who \in Accounts \cup {None}, q \in Nat, p \in Prices \cup {NoPrice} :
               \/ B!ModifyInPlace(id, who, q, p)
               \/ B!ModifyAndRequeue(id, who, q, p)
               \/ B!RejectModify(id, who, q, p)
    BY <1>1 DEF B!Command
  <2>2. \A r : B!Accept(id, r) \/ B!RejectSubmit(id, r) \/ B!RejectByRisk(id, r) =>
          sequence' = sequence + 1
    BY DEF B!Accept, B!RejectSubmit, B!RejectByRisk
  <2>3. \A who : B!Cancel(id, who) \/ B!RejectCancel(id, who) =>
          sequence' = sequence + 1 \/ sequence' = sequence + 2
    BY DEF B!Cancel, B!RejectCancel
  <2>4. \A who, q, p :
          \/ B!ModifyInPlace(id, who, q, p)
          \/ B!ModifyAndRequeue(id, who, q, p)
          \/ B!RejectModify(id, who, q, p)
          => sequence' = sequence + 1 \/ sequence' = sequence + 2
    BY DEF B!ModifyInPlace, B!ModifyAndRequeue, B!RejectModify
  <2> QED
    BY <2>1, <2>2, <2>3, <2>4
<1>2. B!Match => sequence' \in {sequence + 1, sequence + 2, sequence + 3}
  BY DEF B!Match, B!PreventSelfTrade, B!Trade, B!TradePartOfMaker, B!TradeAllOfMaker,
         B!Executes, B!CompleteFilled, B!CancelRemainder, B!RestRemainder
<1> QED
  BY <1>1, <1>2

(* A new order is the one in execution afterwards, if any is.              *)
LEMMA NewIsIncoming ==
  ASSUME NEW c \in Command, Process(c), incoming' # None, c.kind = "NEW"
  PROVE  incoming' = c.id
BY DEF Process, Submit, Book!Accept, Book!RejectSubmit, Book!RejectByRisk, Book!CanStart

(* What a recorded order came to can be written.                           *)
LEMMA ExecutionTyped ==
  ASSUME BookInv, NEW id \in OrderIds, orders[id] # NoOrder
  PROVE  Execution(orders[id]) \in Executed
<1>1. orders[id] \in B!Order
  BY B!Types, BookAssumptions DEF BookInv, B!IInv, B!Known
<1>2. /\ orders[id].status \in OrderStatus /\ orders[id].remaining \in Int
      /\ orders[id].filled \in Int /\ orders[id].priority \in Int
  BY <1>1 DEF B!Order, B!OrderStatus, OrderStatus
<1> QED
  BY <1>2 DEF Execution, Executed

(* And after a step.                                                       *)
LEMMA ExecutionTypedPrimed ==
  ASSUME BookInv', NEW id \in OrderIds, orders'[id] # NoOrder
  PROVE  Execution(orders'[id]) \in Executed
<1>1. B!TypeOK'
  BY DEF BookInv, B!IInv
<1>2. orders'[id] \in B!Order
  BY <1>1 DEF B!TypeOK
<1>3. /\ orders'[id].status \in OrderStatus /\ orders'[id].remaining \in Int
      /\ orders'[id].filled \in Int /\ orders'[id].priority \in Int
  BY <1>2 DEF B!Order, B!OrderStatus, OrderStatus
<1> QED
  BY <1>3 DEF Execution, Executed

(* What is told of the resting orders.                                     *)
LEMMA RestingTyped ==
  ASSUME BookInv
  PROVE  [id \in live_orders |-> Told(orders[id])] \in
           UNION {[ids -> ToldOrder] : ids \in SUBSET OrderIds}
<1>1. live_orders \in SUBSET OrderIds
  BY DEF BookInv, B!IInv, B!TypeOK
<1>2. ASSUME NEW id \in live_orders
      PROVE  Told(orders[id]) \in ToldOrder
  <2>1. orders[id] \in B!Order
    <3>1. orders[id] # NoOrder
      BY BookFacts DEF BookTyped
    <3> QED
      BY <1>1, <3>1, B!Types, BookAssumptions DEF BookInv, B!IInv, B!Known
  <2>2. /\ orders[id].price \in Prices \cup {NoPrice} /\ orders[id].quantity \in Nat
        /\ orders[id].remaining \in Int /\ orders[id].filled \in Int
        /\ orders[id].priority \in Int
    BY <2>1 DEF B!Order, B!NoPrice, NoPrice
  <2> QED
    BY <2>2 DEF Told, ToldOrder
<1>3. [id \in live_orders |-> Told(orders[id])] \in [live_orders -> ToldOrder]
  BY <1>2
<1> QED
  BY <1>1, <1>3

(* What is written of a command.                                           *)
LEMMA WrittenTyped ==
  ASSUME BookInv', NEW c \in Command, Process(c)
  PROVE  /\ Written(c) \in WrittenCommand
         /\ Written(c).kind = c.kind
         /\ c.kind = "NEW" => Written(c).id = c.id
<1>1. CASE c.kind # "NEW"
  BY <1>1 DEF Written, Command, NewCommand, WrittenCommand
<1>2. CASE c.kind = "NEW"
  <2> DEFINE e == IF incoming' = c.id THEN Execution(orders'[c.id]) ELSE Refusal(c.order)
  <2>1. c \in [kind : {"NEW"}, id : OrderIds, order : AnyRequest]
    BY <1>2 DEF Command, NewCommand, CancelCommand, ModifyCommand, AnyRequest
  <2>2. c.order \in AnyRequest /\ c.id \in OrderIds
    BY <2>1
  <2>3. e \in Executed
    <3>1. CASE incoming' = c.id
      <4>1. incoming' # None
        BY <2>2, <3>1, BookAssumption
      <4>2. orders'[c.id] # NoOrder
        BY <3>1, <4>1, BookFactsPrimed DEF BookTyped
      <4> QED
        BY <2>2, <3>1, <4>2, ExecutionTypedPrimed
    <3>2. CASE incoming' # c.id
      BY <2>2, <3>2 DEF Refusal, Executed, AnyRequest, OrderStatus
    <3> QED
      BY <3>1, <3>2
  <2>4. Written(c) = [c EXCEPT !.order = AsFound(c.order, e)]
    BY <1>2, <2>1 DEF Written
  <2> HIDE DEF e
  <2>5. AsFound(c.order, e) \in WrittenOrder
    BY <2>2, <2>3, FoundTyped
  <2> QED
    BY <1>2, <2>1, <2>4, <2>5 DEF WrittenCommand
<1> QED
  BY <1>1, <1>2
-----------------------------------------------------------------------------
(* A command is recorded.                                                  *)
LEMMA RecordedKept ==
  ASSUME IInv, BookInv', RInv, NEW c \in Command, Process(c), journal' = Recorded(c),
         task = "none", UNCHANGED <<point, rebuildVars, answer>>
  PROVE  RInv'
<1> DEFINE n == Len(journal)
           e == [command |-> Written(c), limits |-> limits,
                 sequence |-> sequence, trades |-> Len(trades),
                 resting |-> [id \in live_orders |-> Told(orders[id])]]
<1>1. /\ journal' = Append(journal, e) /\ journal \in Seq(Entry) /\ n \in Nat
  BY DEF Recorded, Extended, RInv, JournalOK
<1>2. e \in Entry /\ e.sequence = sequence /\ sequence \in Nat
  <2>1. sequence \in Nat
    BY DEF IInv, BookInv, B!IInv, B!TypeOK
  <2>2. Len(trades) \in Nat /\ limits \in RiskLimits
    BY DEF IInv, TradersOK, Logged, TradeLog, Typed
  <2>3. Written(c) \in WrittenCommand
    BY WrittenTyped
  <2>4. [id \in live_orders |-> Told(orders[id])] \in
          UNION {[ids -> ToldOrder] : ids \in SUBSET OrderIds}
    BY RestingTyped DEF IInv
  <2> DEFINE w == Written(c)
             r == [id \in live_orders |-> Told(orders[id])]
             R == UNION {[ids -> ToldOrder] : ids \in SUBSET OrderIds}
  <2> HIDE DEF w, r, R
  <2>5. e = [command |-> w, limits |-> limits, sequence |-> sequence,
             trades |-> Len(trades), resting |-> r]
    BY DEF w, r
  <2>6. w \in WrittenCommand /\ r \in R
    BY <2>3, <2>4 DEF w, r, R
  <2>7. Entry = [command : WrittenCommand, limits : RiskLimits, sequence : Nat,
                 trades : Nat, resting : R]
    BY DEF Entry, R
  <2> HIDE DEF e
  <2> QED
    BY <2>1, <2>2, <2>5, <2>6, <2>7
<1>3. e.command.kind = "NEW" => c.kind = "NEW" /\ e.command.id = c.id
  BY WrittenTyped
<1>4. sequence < sequence'
  BY <1>2, ProcessMoves, CommandsNumberEvents
<1>5. \A k \in 1 .. n : journal[k] \in Entry
  BY <1>1
<1> HIDE DEF e
<1>6. /\ journal' \in Seq(Entry) /\ Len(journal') = n + 1 /\ journal'[n + 1] = e
      /\ \A k \in 1 .. n : journal'[k] = journal[k]
  BY <1>1, <1>2
<1>7. JournalOK'
  <2>1. ASSUME NEW k \in 1 .. n
        PROVE  journal'[k].sequence < journal'[k + 1].sequence
    <3>1. CASE k = n
      BY <1>1, <1>2, <1>6, <3>1 DEF RInv, JournalOK
    <3>2. CASE k # n
      <4>1. k \in 1 .. n - 1 /\ k \in 1 .. n /\ k + 1 \in 1 .. n
        BY <1>1, <3>2
      <4> QED
        BY <1>6, <4>1 DEF RInv, JournalOK
    <3> QED
      BY <3>1, <3>2
  <2>2. \A k \in 1 .. Len(journal') - 1 : journal'[k].sequence < journal'[k + 1].sequence
    BY <1>1, <1>6, <2>1
  <2>3. journal'[Len(journal')].sequence < sequence'
    BY <1>2, <1>4, <1>6
  <2> QED
    BY <1>6, <2>2, <2>3 DEF JournalOK
<1>8. LastOK'
  BY <1>1, <1>3, <1>6, NewIsIncoming DEF LastOK
<1>9. RebuildOK'
  BY <1>1, <1>6 DEF RInv, RebuildOK, rebuildVars
<1>10. AnswerOK'
  BY <1>1, <1>6 DEF RInv, AnswerOK
<1> QED
  BY <1>7, <1>8, <1>9, <1>10 DEF RInv

(* A turn of the matching loop goes on with the last entry.                *)
LEMMA RecordedLaterKept ==
  ASSUME IInv, BookInv', RInv, Match, journal' = RecordedLater,
         task = "none", UNCHANGED <<point, rebuildVars, answer>>
  PROVE  RInv'
<1> DEFINE n == Len(journal)
           c == journal[n].command
           Rewritten ==
             /\ journal' \in Seq(Entry) /\ Len(journal') = n
             /\ \A k \in 1 .. n : k # n => journal'[k] = journal[k]
             /\ journal'[n].sequence = journal[n].sequence
             /\ journal'[n].command.kind = "NEW" => journal'[n].command.id = incoming
<1>1. incoming # None /\ (incoming' = incoming \/ incoming' = None)
  BY DEF Match, Turn, Book!Match, Book!PreventSelfTrade, Book!Trade, Book!TradePartOfMaker,
         Book!TradeAllOfMaker, Book!Executes, Book!CompleteFilled, Book!CancelRemainder,
         Book!RestRemainder, Book!Meets, Book!Executing
<1>2. journal \in Seq(Entry) /\ n \in Nat \ {0} /\ (c.kind = "NEW" => c.id = incoming)
  BY <1>1 DEF RInv, JournalOK, LastOK
<1>3. sequence <= sequence' /\ sequence \in Nat /\ sequence' \in Nat
  BY MatchMoves, CommandsNumberEvents
  DEF Match, Turn, IInv, BookInv, B!IInv, B!TypeOK
<1>4. journal[n] \in Entry
  BY <1>2
<1>5. c \in WrittenCommand
  BY <1>4 DEF Entry
<1>6. ASSUME c.kind # "NEW" PROVE Rewritten
  <2>1. journal' = journal
    BY <1>6 DEF RecordedLater
  <2> QED
    BY <1>2, <1>6, <2>1
<1>7. ASSUME c.kind = "NEW" PROVE Rewritten
  <2> DEFINE x == Execution(orders'[c.id])
             w == [c EXCEPT !.order = AsFound(c.order, x)]
             e == [journal[n] EXCEPT !.command = w]
  <2>1. c \in [kind : {"NEW"}, id : OrderIds, order : WrittenOrder] /\ c.id = incoming
    BY <1>2, <1>5, <1>7 DEF WrittenCommand, CancelCommand, ModifyCommand
  <2>2. orders[incoming] # NoOrder /\ incoming \in OrderIds
    BY <1>1, BookFacts DEF IInv, BookTyped
  <2>3. orders'[incoming] # NoOrder
    BY <2>2, MatchMovesOnly, OrdersKept DEF IInv, BookOnly
  <2>4. x \in Executed
    BY <2>1, <2>2, <2>3, ExecutionTypedPrimed
  <2>5. journal' = [journal EXCEPT ![n] = e]
    BY <1>7 DEF RecordedLater
  <2> HIDE DEF x, c
  <2>6. AsFound(c.order, x) \in WrittenOrder
    BY <2>1, <2>4, FoundTyped
  <2>7. w \in WrittenCommand /\ w.id = incoming
    BY <2>1, <2>6 DEF WrittenCommand
  <2> HIDE DEF w
  <2>8. e \in Entry /\ e.command = w /\ e.sequence = journal[n].sequence
    BY <1>4, <2>7 DEF Entry
  <2> HIDE DEF e
  <2>9. /\ journal' \in Seq(Entry) /\ Len(journal') = n /\ journal'[n] = e
        /\ \A k \in 1 .. n : k # n => journal'[k] = journal[k]
    BY <1>2, <2>5, <2>8
  <2> QED
    BY <2>7, <2>8, <2>9
<1>8. Rewritten
  BY <1>6, <1>7
<1> HIDE DEF c
<1>9. \A k \in 1 .. n : journal'[k].sequence = journal[k].sequence
  BY <1>8
<1>10. JournalOK'
  <2>1. journal[n].sequence < sequence /\ journal[n].sequence \in Nat
    BY <1>2, <1>4 DEF RInv, JournalOK, Entry
  <2>2. \A k \in 1 .. n - 1 : k \in 1 .. n /\ k + 1 \in 1 .. n
    BY <1>2
  <2>3. \A k \in 1 .. n - 1 : journal'[k].sequence < journal'[k + 1].sequence
    BY <1>9, <2>2 DEF RInv, JournalOK
  <2>4. journal'[n].sequence < sequence'
    BY <1>2, <1>3, <1>9, <2>1
  <2> QED
    BY <1>8, <2>3, <2>4 DEF JournalOK
<1>11. LastOK'
  BY <1>1, <1>2, <1>8 DEF LastOK
<1>12. RebuildOK'
  BY <1>8 DEF RInv, RebuildOK, rebuildVars
<1>13. AnswerOK'
  BY <1>1, <1>2, <1>8 DEF RInv, AnswerOK
<1> QED
  BY <1>10, <1>11, <1>12, <1>13 DEF RInv

(* The steps of the live gateway keep the invariant.                       *)
LEMMA LiveKept ==
  ASSUME IInv, BookInv', RInv, Live
  PROVE  RInv'
<1>1. task = "none" /\ UNCHANGED <<point, rebuildVars, answer>>
  BY DEF Live
<1>2. pending \in Seq(NewCommand)
  BY DEF IInv, Typed
<1>3. ASSUME NEW c \in Commands, Serve(c), journal' = Recorded(c)
      PROVE  RInv'
  <2>1. c \in Command /\ Process(c)
    BY <1>2, <1>3, ServedIsCommand DEF Serve
  <2> QED
    BY <1>1, <1>3, <2>1, RecordedKept
<1>4. CASE Seed /\ journal' = Recorded(Head(pending))
  <2>1. Head(pending) \in Command /\ Process(Head(pending))
    BY <1>2, <1>4, ServedIsCommand DEF Seed
  <2> QED
    BY <1>1, <1>4, <2>1, RecordedKept
<1>5. CASE Match /\ journal' = RecordedLater
  BY <1>1, <1>5, RecordedLaterKept
<1>6. CASE (Settle \/ \E l \in OtherLimits : ConfigureRisk(l)) /\ UNCHANGED journal
  <2>1. UNCHANGED <<incoming, sequence, journal>>
    BY <1>6 DEF Settle, SettleRisk, ConfigureRisk, bookVars
  <2> QED
    BY <1>1, <2>1
    DEF RInv, JournalOK, LastOK, RebuildOK, AnswerOK, rebuildVars
<1> QED
  BY <1>3, <1>4, <1>5, <1>6 DEF Live

(* So does a reset, which an answer that waits outlives.                   *)
LEMMA RestartKept ==
  ASSUME RInv, Restart
  PROVE  RInv'
<1>1. journal' = << >> /\ incoming' = None /\ task = "none" /\ target = 0
  BY DEF Restart, NewJournal, Reset, Idle, AtRest, RInv, RebuildOK
<1>2. JournalOK' /\ LastOK'
  BY <1>1 DEF JournalOK, LastOK
<1>3. RebuildOK'
  <2>1. /\ {"taken", "journal_position"} \subseteq DOMAIN point'
        /\ point'.taken = point.taken /\ point'.journal_position = point.journal_position
    BY DEF Restart, RInv, RebuildOK
  <2> QED
    BY <1>1, <2>1 DEF Restart, RInv, RebuildOK, rebuildVars
<1>4. AnswerOK'
  <2>1. CASE answer = NoAnswer
    BY <2>1 DEF Restart, RInv, AnswerOK
  <2>2. CASE answer # NoAnswer
    <3>1. answer' = [answer EXCEPT !.outlived = TRUE]
      BY <2>2 DEF Restart
    <3>2. /\ answer' \in [total : Nat, replayed : Entry \cup {None}, outlived : BOOLEAN]
          /\ answer'.outlived
      BY <3>1 DEF RInv, AnswerOK
    <3> QED
      BY <3>2 DEF AnswerOK
  <2> QED
    BY <2>1, <2>2
<1> QED
  BY <1>2, <1>3, <1>4 DEF RInv

(* Rebuilding touches neither the journal nor the book it is of.           *)
LEMMA RebuildKept ==
  ASSUME RInv,
         \/ TakePoint \/ Verify \/ \E count \in 0 .. Len(journal) : Replay(count)
         \/ ReplayEntry \/ ReplayOn \/ Report \/ Respond
  PROVE  RInv'
<1>1. UNCHANGED <<journal, incoming, sequence>>
  BY DEF TakePoint, Verify, Replay, ReplayEntry, ReplayOn, Report, Respond, liveVars, vars, bookVars
<1>2. JournalOK' /\ LastOK'
  BY <1>1 DEF RInv, JournalOK, LastOK
<1>3. Len(journal) \in Nat
  BY DEF RInv, JournalOK
<1>0. diverged' \in BOOLEAN
  <2>1. diverged \in BOOLEAN
    BY DEF RInv, RebuildOK
  <2>2. Diverged \in BOOLEAN
    BY <2>1, Zenon DEF Diverged
  <2>3. diverged' = diverged \/ diverged' = Diverged \/ diverged' = FALSE
    BY DEF TakePoint, Verify, Replay, ReplayEntry, ReplayOn, Report, Respond, rebuildVars
  <2> QED
    BY <2>1, <2>2, <2>3, Zenon
<1>4. CASE TakePoint
  <2>1. /\ {"taken", "journal_position"} \subseteq DOMAIN point'
        /\ point'.taken = TRUE /\ point'.journal_position = Len(journal)
    BY <1>4 DEF TakePoint
  <2> QED
    BY <1>1, <1>2, <1>3, <1>4, <2>1
    DEF TakePoint, RInv, RebuildOK, AnswerOK, rebuildVars
<1>5. CASE Verify
  <2>1. RebuildOK'
    <3>1. /\ task' = "verification" /\ UNCHANGED point /\ incoming = None
          /\ position' = point.journal_position /\ target' = Len(journal)
      BY <1>5 DEF Verify, Idle, AtRest, liveVars
    <3> QED
      BY <1>0, <1>1, <1>3, <3>1 DEF RInv, RebuildOK
  <2>2. AnswerOK'
    BY <1>1, <1>5 DEF Verify, RInv, AnswerOK
  <2> QED
    BY <1>2, <2>1, <2>2 DEF RInv
<1>6. ASSUME NEW count \in 0 .. Len(journal), Replay(count)
      PROVE  RInv'
  BY <1>0, <1>1, <1>2, <1>3, <1>6
  DEF Replay, Idle, AtRest, RInv, RebuildOK, AnswerOK, liveVars
<1>7. CASE ReplayEntry \/ ReplayOn
  <2>1. /\ UNCHANGED <<point, task, target, answer>>
        /\ position' \in Nat /\ (task = "replay" => position' <= target)
    BY <1>1, <1>3, <1>7 DEF ReplayEntry, ReplayOn, RInv, RebuildOK, liveVars
  <2> QED
    BY <1>0, <1>1, <1>2, <2>1 DEF RInv, RebuildOK, AnswerOK
<1>8. CASE Report
  <2>1. RebuildOK'
    BY <1>0, <1>1, <1>3, <1>8 DEF Report, RInv, RebuildOK, liveVars
  <2>2. AnswerOK'
    <3>1. CASE task = "replay" /\ target > 0
      <4>1. answer' = [total |-> target, replayed |-> journal[target], outlived |-> FALSE]
        BY <1>8, <3>1 DEF Report
      <4>2. target \in 1 .. Len(journal) /\ incoming = None
        BY <1>3, <3>1 DEF RInv, RebuildOK
      <4>3. journal[target] \in Entry
        BY <4>2 DEF RInv, JournalOK
      <4> QED
        BY <1>1, <4>1, <4>2, <4>3 DEF AnswerOK
    <3>2. CASE ~(task = "replay" /\ target > 0)
      BY <1>1, <1>8, <3>2 DEF Report, RInv, AnswerOK
    <3> QED
      BY <3>1, <3>2
  <2> QED
    BY <1>2, <2>1, <2>2 DEF RInv
<1>9. CASE Respond
  BY <1>1, <1>2, <1>9
  DEF Respond, NoAnswer, RInv, RebuildOK, AnswerOK, liveVars, rebuildVars
<1> QED
  BY <1>4, <1>5, <1>6, <1>7, <1>8, <1>9

(* The inductive invariant of the journal and what is rebuilt from it.     *)
THEOREM JournalInvariant == RecoverySpec => []RInv
<1>1. RecoveryInit => RInv
  <2> SUFFICES ASSUME RecoveryInit
               PROVE  RInv
    OBVIOUS
  <2>1. diverged \in BOOLEAN
    BY Zenon DEF RecoveryInit
  <2> QED
    BY <2>1 DEF RecoveryInit, Init, Book!Init, NoPoint, NoAnswer,
                RInv, JournalOK, LastOK, RebuildOK, AnswerOK
<1>2. IInv /\ IInv' /\ RInv /\ [RecoveryNext]_recoveryVars => RInv'
  <2> SUFFICES ASSUME IInv, IInv', RInv, [RecoveryNext]_recoveryVars
               PROVE  RInv'
    OBVIOUS
  <2>1. BookInv'
    BY DEF IInv
  <2>2. CASE UNCHANGED recoveryVars
    BY <2>2 DEF recoveryVars, liveVars, vars, bookVars, rebuildVars,
                RInv, JournalOK, LastOK, RebuildOK, AnswerOK
  <2> QED
    BY <2>1, <2>2, LiveKept, RestartKept, RebuildKept DEF RecoveryNext
<1> QED
  BY <1>1, <1>2, RecoveryInvariant, PTL DEF RecoverySpec

(* Every entry of the journal reads back as a command, with limits of its
   time, and the entries are numbered upwards.                             *)
THEOREM JournalIsTyped == RecoverySpec => []JournalTypeOK
<1>1. RInv => JournalTypeOK
  <2> SUFFICES ASSUME RInv PROVE JournalTypeOK
    OBVIOUS
  <2>1. ASSUME NEW k \in DOMAIN journal
        PROVE  ReadBack(journal[k].command) \in Command /\ journal[k].limits \in RiskLimits
    <3>1. journal[k] \in Entry
      BY <2>1 DEF RInv, JournalOK
    <3>2. journal[k].command \in WrittenCommand /\ journal[k].limits \in RiskLimits
      BY <3>1 DEF Entry
    <3> QED
      BY <3>2, ReadBackIsCommand
  <2> QED
    BY <2>1 DEF RInv, JournalOK, RebuildOK, AnswerOK, JournalTypeOK
<1> QED
  BY <1>1, JournalInvariant, PTL

(* The answer to a replay shows the entry the replay came to, whatever was
   recorded, matched, rested or refused while it waited; unless a reset put
   another journal in its place.                                           *)
THEOREM ReplaysAreAnswered == RecoverySpec => []AnswersWhatItReplayed
<1>1. RInv => AnswersWhatItReplayed
  BY DEF RInv, AnswerOK, AnswersWhatItReplayed, LatestEntry
<1> QED
  BY <1>1, JournalInvariant, PTL
-----------------------------------------------------------------------------
(* The journal's file.                                                     *)

(* The first m of some entries.                                           *)
FirstOf(entries, m) == [k \in 1 .. m |-> entries[k]]

(* The lines a file may hold that was made of an export of these entries:
   its own and torn ones.                                                  *)
Lines(entries, checksums) ==
  {File!Header, File!Torn, File!Footer(checksums)}
    \cup {File!Entry(n, entries[n]) : n \in 1 .. Len(entries)}

(* What may be known of such a file after some lines.                      *)
Known(entries, checksums) ==
  [opened : BOOLEAN, valid : BOOLEAN, entries : {FirstOf(entries, m) : m \in 0 .. Len(entries)},
   checksums : {{}, checksums}]

(* One more line: no command is there that was not, and a footer that is
   accepted is kept.                                                       *)
LEMMA LineFacts ==
  ASSUME NEW S, NEW entries \in Seq(S), NEW checksums,
         NEW j \in Known(entries, checksums), NEW line \in Lines(entries, checksums)
  PROVE  /\ File!LoadLine(j, line) \in Known(entries, checksums)
         /\ File!LoadLine(j, line).valid =>
              /\ j.valid
              /\ line.record = "footer" => File!LoadLine(j, line).checksums = checksums
              /\ line.record # "footer" => File!LoadLine(j, line).checksums = j.checksums
<1> DEFINE K == Known(entries, checksums)
           N == Len(entries)
           Firsts == {FirstOf(entries, m) : m \in 0 .. N}
           next == File!LoadLine(j, line)
<1>0. N \in Nat
  OBVIOUS
<1>1. /\ j.opened \in BOOLEAN /\ j.valid \in BOOLEAN /\ j.entries \in Firsts
      /\ j.checksums \in {{}, checksums}
      /\ j = [opened |-> j.opened, valid |-> j.valid, entries |-> j.entries,
              checksums |-> j.checksums]
  BY DEF Known
<1> HIDE DEF Firsts
<1>2. File!Invalid(j) \in K /\ File!Invalid(j).valid = FALSE
  BY <1>1 DEF Known, File!Invalid, Firsts
<1>3. CASE ~j.valid
  BY <1>3 DEF File!LoadLine
<1>4. CASE j.valid /\ line = File!Header
  <2>1. line.record = "header"
    BY <1>4 DEF File!Header
  <2>2. next = File!LoadHeader(j)
    BY <1>4, <2>1 DEF File!LoadLine
  <2>3. [j EXCEPT !.opened = TRUE] \in K /\ [j EXCEPT !.opened = TRUE].checksums = j.checksums
    BY <1>1 DEF Known, Firsts
  <2> QED
    BY <1>2, <1>4, <2>1, <2>2, <2>3 DEF File!LoadHeader
<1>5. CASE j.valid /\ line = File!Torn
  <2>1. line.record = "torn"
    BY <1>5 DEF File!Torn
  <2>2. next = File!Invalid(j)
    BY <1>5, <2>1 DEF File!LoadLine
  <2> QED
    BY <1>2, <2>2
<1>6. CASE j.valid /\ line = File!Footer(checksums)
  <2>1. line.record = "footer" /\ line.checksums = checksums
    BY <1>6 DEF File!Footer
  <2>2. next = File!LoadFooter(j, line)
    BY <1>6, <2>1 DEF File!LoadLine
  <2>3. /\ [j EXCEPT !.checksums = line.checksums] \in K
        /\ [j EXCEPT !.checksums = line.checksums].checksums = checksums
    BY <1>1, <2>1 DEF Known, Firsts
  <2> QED
    BY <1>2, <1>6, <2>1, <2>2, <2>3 DEF File!LoadFooter
<1>7. ASSUME j.valid, NEW n \in 1 .. N, line = File!Entry(n, entries[n])
      PROVE  /\ next \in K
             /\ next.valid => next.checksums = j.checksums /\ line.record # "footer"
  <2>1. line.record = "entry" /\ line.command_sequence = n /\ line.entry = entries[n]
    BY <1>7 DEF File!Entry
  <2>2. next = File!LoadEntry(j, line)
    BY <1>7, <2>1 DEF File!LoadLine
  <2>3. PICK m \in 0 .. N : j.entries = FirstOf(entries, m)
    BY <1>1 DEF Firsts
  <2>4. Len(j.entries) = m
    BY <2>3 DEF FirstOf
  <2>5. ASSUME n = m + 1
        PROVE  Append(j.entries, entries[n]) \in Firsts
    <3>1. Append(FirstOf(entries, m), entries[n]) = FirstOf(entries, n)
      BY <2>5 DEF FirstOf
    <3> QED
      BY <2>3, <3>1, <2>5 DEF Firsts
  <2>6. n = m + 1 =>
          /\ [j EXCEPT !.entries = Append(@, line.entry)] \in K
          /\ [j EXCEPT !.entries = Append(@, line.entry)].checksums = j.checksums
    BY <1>1, <2>1, <2>5 DEF Known, Firsts
  <2>7. \/ next = File!Invalid(j)
        \/ n = m + 1 /\ next = [j EXCEPT !.entries = Append(@, line.entry)]
    BY <2>1, <2>2, <2>4 DEF File!LoadEntry
  <2> QED
    BY <1>2, <2>1, <2>6, <2>7
<1> QED
  BY <1>3, <1>4, <1>5, <1>6, <1>7 DEF Lines

LoadStep(g, file, s) ==
  IF s = {} THEN File!Unread ELSE File!LoadLine(g[s \ {Max(s)}], file[Max(s)])

LoadFold(file) == CHOOSE g : g = [s \in SUBSET DOMAIN file |-> LoadStep(g, file, s)]

(* A file is loaded line by line.                                          *)
LEMMA LoadedByLine ==
  ASSUME NEW S, NEW entries \in Seq(S), NEW checksums,
         NEW file \in Seq(Lines(entries, checksums))
  PROVE  \E h \in [0 .. Len(file) -> Known(entries, checksums)] :
           /\ h[0] = File!Unread
           /\ File!Load(file) = [h[Len(file)] EXCEPT !.valid = @ /\ h[Len(file)].opened]
           /\ \A k \in 1 .. Len(file) : h[k] = File!LoadLine(h[k - 1], file[k])
<1> DEFINE K == Known(entries, checksums)
           L == Lines(entries, checksums)
           base == File!Unread
           n == Len(file)
           P == 1 .. n
           F == [p \in K \X P |-> File!LoadLine(p[1], file[p[2]])]
           iter == LoadFold(file)
<1>1. n \in Nat /\ DOMAIN file = P /\ \A k \in P : file[k] \in L
  <2>1. file \in Seq(L)
    OBVIOUS
  <2> HIDE DEF L
  <2> QED
    BY <2>1
<1>0. base \in K
  <2>1. 0 \in 0 .. Len(entries) /\ FirstOf(entries, 0) = << >>
    BY DEF FirstOf
  <2> QED
    BY <2>1 DEF Known, File!Unread
<1>2. File!Load(file) = [iter[DOMAIN file] EXCEPT !.valid = @ /\ iter[DOMAIN file].opened]
  BY DEF File!Load, File!FoldLeft, File!MapThenFoldSet, File!Max, Max, LoadFold, LoadStep
<1> HIDE DEF n, base, L
<1>3. /\ F \in [K \X P -> K]
      /\ \A j \in K, k \in P : F[<<j, k>>] = File!LoadLine(j, file[k])
  <2>1. \A j \in K, k \in P : File!LoadLine(j, file[k]) \in K
    BY <1>1, LineFacts DEF L
  <2> HIDE DEF K
  <2> QED
    BY <2>1
<1>4. \A s \in SUBSET P : s # {} => Max(s) \in P
  BY <1>1, MaxIn
<1> HIDE DEF F, K
<1>5. iter = [s \in SUBSET P |-> LoadStep(iter, file, s)]
  <2>1. PICK g : IsLeftFold(g, F, base, K, n)
    BY <1>1, <1>3, <1>0, LeftFoldExists
  <2>2. g \in [SUBSET P -> K]
    BY <2>1 DEF IsLeftFold
  <2>3. \A s \in SUBSET P : g[s] = IF s = {} THEN base ELSE F[<<g[s \ {Max(s)}], Max(s)>>]
    BY <2>1 DEF IsLeftFold
  <2> HIDE DEF P
  <2>4. \A s \in SUBSET P : g[s] = LoadStep(g, file, s)
    BY <1>3, <1>4, <2>2, <2>3 DEF LoadStep, base
  <2>5. g = [s \in SUBSET P |-> LoadStep(g, file, s)]
    BY <2>2, <2>4
  <2> QED
    BY <1>1, <2>5 DEF LoadFold
<1> HIDE DEF iter
<1>6. IsLeftRecursion(iter, F, base, K, n)
  <2>1. /\ iter[{}] = base
        /\ \A s \in SUBSET P : s # {} /\ iter[s \ {Max(s)}] \in K
             => iter[s] = F[<<iter[s \ {Max(s)}], Max(s)>>]
    <3> HIDE DEF P
    <3> QED
      BY <1>3, <1>4, <1>5 DEF LoadStep, base
  <2> QED
    BY <2>1 DEF IsLeftRecursion
<1>7. PICK h : IsByElement(h, iter, F, base, K, n)
  BY <1>1, <1>3, <1>6, <1>0, FoldByElement
<1>8. \A k \in 1 .. n : h[k] = File!LoadLine(h[k - 1], file[k])
  <2> TAKE k \in 1 .. n
  <2>1. k - 1 \in 0 .. n
    BY <1>1
  <2>2. h[k - 1] \in K
    BY <1>7, <2>1 DEF IsByElement
  <2> QED
    BY <1>3, <1>7, <2>2 DEF IsByElement
<1> QED
  BY <1>1, <1>2, <1>7, <1>8 DEF IsByElement, n, base, K

(* What the export of some entries is.                                    *)
LEMMA ExportedLines ==
  ASSUME NEW S, NEW entries \in Seq(S), NEW checksums
  PROVE  LET file == File!Exported(entries, checksums)
             N == Len(entries)
         IN /\ file \in Seq(Lines(entries, checksums)) /\ Len(file) = N + 2 /\ N \in Nat
            /\ file[1] = File!Header /\ file[N + 2] = File!Footer(checksums)
            /\ \A k \in 1 .. N : file[k + 1] = File!Entry(k, entries[k])
<1> DEFINE N == Len(entries)
           L == Lines(entries, checksums)
           lines == [n \in DOMAIN entries |-> File!Entry(n, entries[n])]
           header == File!Header
           footer == File!Footer(checksums)
<1>1. N \in Nat /\ DOMAIN entries = 1 .. N
  OBVIOUS
<1>2. header \in L /\ footer \in L /\ \A k \in 1 .. N : File!Entry(k, entries[k]) \in L
  BY DEF Lines
<1>3. /\ lines \in Seq(L) /\ Len(lines) = N
      /\ \A k \in 1 .. N : lines[k] = File!Entry(k, entries[k])
  <2> HIDE DEF L
  <2> QED
    BY <1>1, <1>2
<1>4. File!Exported(entries, checksums) = <<header>> \o lines \o <<footer>>
  BY DEF File!Exported
<1> HIDE DEF lines, header, footer, L, N
<1>5. /\ <<header>> \o lines \in Seq(L) /\ Len(<<header>> \o lines) = N + 1
      /\ (<<header>> \o lines)[1] = header
      /\ \A k \in 1 .. N : (<<header>> \o lines)[k + 1] = lines[k]
  BY <1>1, <1>2, <1>3
<1> DEFINE front == <<header>> \o lines
<1> HIDE DEF front
<1>6. /\ front \o <<footer>> \in Seq(L) /\ Len(front \o <<footer>>) = N + 2
      /\ (front \o <<footer>>)[N + 2] = footer
      /\ \A k \in 1 .. N + 1 : (front \o <<footer>>)[k] = front[k]
  BY <1>1, <1>2, <1>5 DEF front
<1>7. File!Exported(entries, checksums) = front \o <<footer>>
  BY <1>4 DEF front
<1>8. 1 \in 1 .. N + 1 /\ \A k \in 1 .. N : k + 1 \in 1 .. N + 1
  BY <1>1
<1>9. /\ (front \o <<footer>>)[1] = header
      /\ \A k \in 1 .. N : (front \o <<footer>>)[k + 1] = File!Entry(k, entries[k])
  BY <1>3, <1>5, <1>6, <1>8 DEF front
<1> QED
  BY <1>1, <1>6, <1>7, <1>9 DEF N, L, header, footer

(* Damage brings in no line but a torn one.                                *)
LEMMA DamagedLines ==
  ASSUME NEW L, File!Torn \in L, NEW file \in Seq(L), NEW damaged \in File!Damaged(file)
  PROVE  damaged \in Seq(L)
<1> DEFINE N == Len(file)
<1>1. N \in Nat /\ DOMAIN file = 1 .. N /\ \A i \in 1 .. N : file[i] \in L
  OBVIOUS
<1>2. \A part \in File!Cut(file) : part \in Seq(L)
  BY <1>1 DEF File!Cut
<1>3. \A part \in File!TornOff(file) : part \in Seq(L)
  BY <1>2 DEF File!TornOff
<1>4. ASSUME NEW i \in 1 .. N
      PROVE  File!RemoveAt(file, i) \in Seq(L)
  BY <1>1, RemoveAtFacts DEF File!RemoveAt, RemoveAt
<1>5. ASSUME NEW i \in 1 .. N
      PROVE  File!InsertAt(file, i, file[i]) \in Seq(L)
  <2>1. SubSeq(file, 1, i - 1) \in Seq(L) /\ SubSeq(file, i, Len(file)) \in Seq(L)
    BY <1>1
  <2>2. <<file[i]>> \in Seq(L)
    BY <1>1
  <2> QED
    BY <2>1, <2>2 DEF File!InsertAt
<1>6. ASSUME NEW i \in 1 .. N - 1
      PROVE  [file EXCEPT ![i] = file[i + 1], ![i + 1] = file[i]] \in Seq(L)
  <2>1. i \in 1 .. N /\ i + 1 \in 1 .. N
    BY <1>1
  <2>2. file \in [1 .. N -> L]
    BY <1>1
  <2>3. [file EXCEPT ![i] = file[i + 1], ![i + 1] = file[i]] \in [1 .. N -> L]
    BY <1>1, <2>1, <2>2
  <2> QED
    BY <1>1, <2>3, SeqDef
<1> QED
  BY <1>1, <1>2, <1>3, <1>4, <1>5, <1>6
  DEF File!Damaged, File!Missing, File!Repeated, File!Swapped

(* What is loaded from a file made of an export's lines: some of the first
   entries, and the checksums if the file has a footer.                    *)
LEMMA WhatIsLoaded ==
  ASSUME NEW S, NEW entries \in Seq(S), NEW checksums,
         NEW file \in Seq(Lines(entries, checksums)), File!Load(file).valid
  PROVE  /\ \E m \in 0 .. Len(entries) : File!Load(file).entries = FirstOf(entries, m)
         /\ File!Load(file).checksums \in {{}, checksums}
         /\ (\E i \in DOMAIN file : file[i].record = "footer")
              => File!Load(file).checksums = checksums
<1> DEFINE n == Len(file)
           L == Lines(entries, checksums)
           K == Known(entries, checksums)
           loaded == File!Load(file)
<1>1. PICK h \in [0 .. n -> K] :
        /\ h[0] = File!Unread
        /\ File!Load(file) = [h[n] EXCEPT !.valid = @ /\ h[n].opened]
        /\ \A k \in 1 .. n : h[k] = File!LoadLine(h[k - 1], file[k])
  BY LoadedByLine
<1>2. n \in Nat /\ DOMAIN file = 1 .. n /\ \A k \in 1 .. n : file[k] \in L
  <2>1. file \in Seq(L)
    OBVIOUS
  <2> HIDE DEF L
  <2> QED
    BY <2>1
<1> HIDE DEF n
<1>3. h[n] \in K
  BY <1>1, <1>2
<1>4. /\ loaded.valid = (h[n].valid /\ h[n].opened) /\ loaded.entries = h[n].entries
      /\ loaded.checksums = h[n].checksums
  BY <1>1, <1>3 DEF Known
<1> DEFINE Footed(k) == \E i \in 1 .. k : file[i].record = "footer"
           Good == {k \in 0 .. n : h[k].valid /\ Footed(k) => h[k].checksums = checksums}
<1>5. ASSUME NEW k \in 0 .. n - 1, k \in Good
      PROVE  k + 1 \in Good
  <2>1. k + 1 \in 1 .. n /\ (k + 1) - 1 = k /\ k \in 0 .. n /\ k + 1 \in 0 .. n
    BY <1>2
  <2>2. h[k + 1] = File!LoadLine(h[k], file[k + 1]) /\ h[k] \in K /\ file[k + 1] \in L
    BY <1>1, <1>2, <2>1
  <2>3. h[k + 1].valid =>
          /\ h[k].valid
          /\ file[k + 1].record = "footer" => h[k + 1].checksums = checksums
          /\ file[k + 1].record # "footer" => h[k + 1].checksums = h[k].checksums
    BY <2>2, LineFacts
  <2>4. Footed(k + 1) => Footed(k) \/ file[k + 1].record = "footer"
    <3>1. \A i \in 1 .. k + 1 : i \in 1 .. k \/ i = k + 1
      BY <2>1
    <3> QED
      BY <3>1
  <2>5. h[k].valid /\ Footed(k) => h[k].checksums = checksums
    BY <1>5
  <2> HIDE DEF Footed
  <2> QED
    BY <2>1, <2>3, <2>4, <2>5
<1>6. 0 \in Good /\ Good \in SUBSET Nat
  BY <1>2
<1>7. n \in Good
  <2>1. \A k \in 0 .. n - 1 : k \in Good => k + 1 \in Good
    BY <1>5
  <2> HIDE DEF Good
  <2>2. \A k \in 0 .. n : k \in Good
    BY <1>2, <1>6, <2>1, UpTo
  <2> QED
    BY <1>2, <2>2
<1>8. h[n].valid
  BY <1>4
<1>9. /\ \E m \in 0 .. Len(entries) : h[n].entries = FirstOf(entries, m)
      /\ h[n].checksums \in {{}, checksums}
  BY <1>3 DEF Known
<1> QED
  BY <1>2, <1>4, <1>7, <1>8, <1>9

(* No entry of a journal but those to come begins where the book is.       *)
LEMMA EntriesBeginEarlier ==
  ASSUME JournalOK, sequence \in Nat, NEW m \in 0 .. Len(journal) - 1
  PROVE  journal[m + 1].sequence < sequence
<1> DEFINE n == Len(journal)
           Good == {k \in 0 .. n - 1 : journal[n - k].sequence < sequence}
<1>1. /\ n \in Nat /\ \A k \in 1 .. n : journal[k].sequence \in Nat
      /\ \A k \in 1 .. n - 1 : journal[k].sequence < journal[k + 1].sequence
      /\ n > 0 => journal[n].sequence < sequence
  <2>1. journal \in Seq(Entry) /\ \A k \in 1 .. n : journal[k] \in Entry
    BY DEF JournalOK
  <2>2. \A e \in Entry : e.sequence \in Nat
    BY DEF Entry
  <2> QED
    BY <2>1, <2>2 DEF JournalOK
<1>0. m \in 0 .. n - 1
  OBVIOUS
<1> HIDE DEF n
<1>2. \A k \in 0 .. n - 1 : k \in Good
  <2>1. 0 \in Good /\ Good \in SUBSET Nat /\ n - 1 \in Nat
    BY <1>0, <1>1
  <2>2. ASSUME NEW k \in 0 .. (n - 1) - 1, k \in Good
        PROVE  k + 1 \in Good
    <3>1. /\ k + 1 \in 0 .. n - 1 /\ n - (k + 1) \in 1 .. n - 1
          /\ (n - (k + 1)) + 1 = n - k /\ n - (k + 1) \in 1 .. n /\ n - k \in 1 .. n
      BY <1>1, <2>2
    <3>2. journal[n - (k + 1)].sequence < journal[n - k].sequence
      BY <1>1, <3>1
    <3>3. journal[n - k].sequence < sequence
      BY <2>2
    <3>4. journal[n - (k + 1)].sequence < sequence
      BY <1>1, <3>1, <3>2, <3>3
    <3> QED
      BY <3>1, <3>4
  <2> HIDE DEF Good
  <2> QED
    BY <2>1, <2>2, UpTo
<1>3. (n - 1) - m \in 0 .. n - 1 /\ n - ((n - 1) - m) = m + 1
  BY <1>0, <1>1
<1>4. (n - 1) - m \in Good
  BY <1>2, <1>3
<1> QED
  BY <1>3, <1>4

(* The entries of an audit are the first ones of the journal.             *)
LEMMA FirstOfFacts ==
  ASSUME NEW S, NEW entries \in Seq(S), NEW m \in 0 .. Len(entries)
  PROVE  /\ Len(FirstOf(entries, m)) = m
         /\ IsPrefix(FirstOf(entries, m), entries)
         /\ m = Len(entries) => FirstOf(entries, m) = entries
<1> DEFINE part == FirstOf(entries, m)
<1>1. /\ part \in Seq(S) /\ Len(part) = m /\ \A k \in 1 .. m : part[k] = entries[k]
  BY DEF FirstOf
<1>2. m = Len(entries) => part = entries
  BY DEF FirstOf
<1> HIDE DEF part
<1>3. SubSeq(part, 1, m) = SubSeq(entries, 1, m)
  BY <1>1
<1> QED
  BY <1>1, <1>2, <1>3 DEF IsPrefix, part

(* A damaged file of the journal does not load, or holds the first of its
   entries; and the audit's replay of these, under whatever limits they ran,
   does not pass unless they are all there are, or the footer is missing.   *)
THEOREM AuditIsSound == RecoverySpec => []AuditCatchesDamage
<1>1. IInv /\ RInv => AuditCatchesDamage
  <2> DEFINE n == Len(journal)
             sums == {Checksum}
             L == Lines(journal, sums)
  <2> SUFFICES ASSUME IInv, RInv, task = "replay", Rebuilt,
                      NEW file \in File!Damaged(Export), File!Load(file).valid
               PROVE  LET loaded == File!Load(file)
                      IN /\ IsPrefix(loaded.entries, journal)
                         /\ /\ Len(loaded.entries) = target /\ PassesAudit(loaded)
                            /\ \E i \in DOMAIN file : file[i].record = "footer"
                            => loaded.entries = journal
    BY DEF AuditCatchesDamage
  <2>1. JournalOK /\ sequence \in Nat /\ journal \in Seq(Entry) /\ n \in Nat
    BY DEF RInv, JournalOK, IInv, BookInv, B!IInv, B!TypeOK
  <2>2. Export = File!Exported(journal, sums)
    BY DEF Export
  <2> DEFINE loaded == File!Load(file)
  <2>3. /\ \E m \in 0 .. n : loaded.entries = FirstOf(journal, m)
        /\ (\E i \in DOMAIN file : file[i].record = "footer") => loaded.checksums = sums
    <3> HIDE DEF sums
    <3>1. Export \in Seq(L)
      BY <2>1, <2>2, ExportedLines
    <3>2. File!Torn \in L
      BY DEF Lines
    <3>3. file \in Seq(L)
      <4> HIDE DEF L
      <4> QED
        BY <3>1, <3>2, DamagedLines
    <3> QED
      BY <2>1, <3>3, WhatIsLoaded
  <2> HIDE DEF loaded
  <2>4. PICK m \in 0 .. n : loaded.entries = FirstOf(journal, m)
    BY <2>3
  <2>5. /\ Len(FirstOf(journal, m)) = m
        /\ IsPrefix(FirstOf(journal, m), journal)
        /\ m = n => FirstOf(journal, m) = journal
    BY <2>1, FirstOfFacts
  <2>6. ASSUME Len(loaded.entries) = target, PassesAudit(loaded),
               \E i \in DOMAIN file : file[i].record = "footer"
        PROVE  loaded.entries = journal
    <3>1. loaded.entries # << >> /\ Checksum = RebuiltChecksum /\ ~Diverged
      BY <2>3, <2>6 DEF PassesAudit
    <3>2. m > 0
      <4>1. m = 0 => FirstOf(journal, m) = << >>
        BY DEF FirstOf
      <4> QED
        BY <2>4, <3>1, <4>1
    <3>3. position = m
      <4>1. target = m
        BY <2>4, <2>5, <2>6
      <4>2. position \in Nat /\ position <= target /\ position >= target
        BY DEF RInv, RebuildOK, Rebuilt
      <4> QED
        BY <4>1, <4>2
    <3>4. r_sequence = sequence
      BY <3>1 DEF Checksum, RebuiltChecksum, CanonicalState
    <3>5. r_sequence = Expected.sequence
      <4>1. Start = 0
        BY DEF Start
      <4> QED
        BY <3>1, <3>2, <3>3, <4>1 DEF Diverged, SameEvents
    <3>6. m = n
      <4>1. ASSUME m # n
            PROVE  FALSE
        <5>1. m \in 0 .. n - 1
          BY <2>1, <4>1
        <5>2. r_sequence = journal[m + 1].sequence
          BY <3>3, <3>5, <5>1 DEF Expected
        <5>3. journal[m + 1].sequence < sequence
          BY <2>1, <5>1, EntriesBeginEarlier
        <5> QED
          BY <2>1, <3>4, <5>2, <5>3
      <4> QED
        BY <4>1
    <3> QED
      BY <2>4, <2>5, <3>6
  <2> QED
    BY <2>4, <2>5, <2>6 DEF loaded
<1> QED
  BY <1>1, RecoveryInvariant, JournalInvariant, PTL
=============================================================================
