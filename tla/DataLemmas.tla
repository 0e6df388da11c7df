----------------------------- MODULE DataLemmas -----------------------------
(***************************************************************************)
(* Facts about the data the models are built from: removal from a queue,   *)
(* finite induction, and the arithmetic of sums over sets.                 *)
(*                                                                         *)
(* The induction theorems of the library take the induction formula as an  *)
(* operator, which no installed prover can instantiate.  SubsetInduction   *)
(* takes it as the set of the subsets that satisfy it: it follows from the *)
(* library's fact that strict inclusion of finite sets is well-founded.    *)
(* Every sum of the models (MapThenSumSet) is a Total of this module.      *)
(***************************************************************************)
EXTENDS Integers, SequencesExt, SequenceTheorems, FiniteSetTheorems, TLAPS

(* Removing place i of a sequence keeps the others in their order.         *)
LEMMA RemoveAtFacts ==
  ASSUME NEW S, NEW s \in Seq(S), NEW i \in DOMAIN s
  PROVE  /\ RemoveAt(s, i) \in Seq(S)
         /\ Len(RemoveAt(s, i)) = Len(s) - 1
         /\ \A j \in 1 .. Len(s) - 1 :
              RemoveAt(s, i)[j] = IF j < i THEN s[j] ELSE s[j + 1]
<1> DEFINE front == SubSeq(s, 1, i - 1)
           back  == SubSeq(s, i + 1, Len(s))
<1>1. i \in Nat /\ 1 <= i /\ i <= Len(s) /\ Len(s) \in Nat
  OBVIOUS
<1>2. /\ front \in Seq(S)
      /\ Len(front) = i - 1
      /\ \A j \in 1 .. i - 1 : front[j] = s[j]
  BY <1>1
<1>3. /\ back \in Seq(S)
      /\ Len(back) = Len(s) - i
      /\ \A j \in 1 .. Len(s) - i : back[j] = s[i + j]
  BY <1>1
<1> HIDE DEF front, back
<1>4. /\ front \o back \in Seq(S)
      /\ Len(front \o back) = Len(front) + Len(back)
      /\ \A j \in 1 .. Len(front) + Len(back) :
           (front \o back)[j] = IF j <= Len(front) THEN front[j]
                                ELSE back[j - Len(front)]
  BY <1>2, <1>3, ConcatProperties, Zenon
<1>5. ASSUME NEW j \in Int, 1 <= j, j <= Len(s) - 1
      PROVE  (front \o back)[j] = IF j < i THEN s[j] ELSE s[j + 1]
  <2>0. Len(front) + Len(back) = Len(s) - 1 /\ j \in 1 .. Len(front) + Len(back)
    BY <1>1, <1>2, <1>3, <1>5
  <2>1. CASE j < i
    <3>1. j \in 1 .. i - 1 /\ j <= Len(front)
      BY <1>1, <1>2, <1>5, <2>1
    <3> QED
      BY <1>2, <1>4, <2>0, <2>1, <3>1
  <2>2. CASE ~(j < i)
    <3>1. /\ j - Len(front) \in 1 .. Len(s) - i
          /\ i + (j - Len(front)) = j + 1
          /\ ~(j <= Len(front))
      BY <1>1, <1>2, <1>5, <2>2
    <3> QED
      BY <1>3, <1>4, <2>0, <2>2, <3>1
  <2> QED
    BY <2>1, <2>2
<1>6. RemoveAt(s, i) = front \o back
  BY DEF RemoveAt, front, back
<1>7. \A j \in 1 .. Len(s) - 1 :
        (front \o back)[j] = IF j < i THEN s[j] ELSE s[j + 1]
  <2> TAKE j \in 1 .. Len(s) - 1
  <2>1. j \in Int /\ 1 <= j /\ j <= Len(s) - 1
    BY <1>1
  <2> QED
    BY <1>5, <2>1
<1>8. Len(front \o back) = Len(s) - 1
  BY <1>1, <1>2, <1>3, <1>4
<1> QED
  BY <1>4, <1>6, <1>7, <1>8

-----------------------------------------------------------------------------
(* Finite induction.                                                       *)

(* What holds of a subset whenever it holds of all smaller ones holds of
   every subset.                                                           *)
LEMMA SubsetInduction ==
  ASSUME NEW S, IsFiniteSet(S), NEW Good \in SUBSET SUBSET S,
         \A T \in SUBSET S : (\A U \in SUBSET T : U # T => U \in Good) => T \in Good
  PROVE  \A T \in SUBSET S : T \in Good
<1> DEFINE Bad == (SUBSET S) \ Good
<1> SUFFICES ASSUME Bad # {} PROVE FALSE
  OBVIOUS
<1>1. IsWellFoundedOn(StrictSubsetOrdering(S), SUBSET S)
  <2>1. FiniteSubsetsOf(S) = SUBSET S
    BY FS_FiniteSubsetsOfFinite
  <2>2. IsWellFoundedOn(StrictSubsetOrdering(S), FiniteSubsetsOf(S))
    BY FS_StrictSubsetOrderingWellFounded
  <2> QED
    BY <2>1, <2>2
<1>2. PICK T \in Bad : \A U \in Bad : ~(<<U, T>> \in StrictSubsetOrdering(S))
  <2>1. Bad \subseteq SUBSET S
    OBVIOUS
  <2> HIDE DEF Bad
  <2> QED
    BY <1>1, <2>1, WFMin
<1>3. \A U \in SUBSET T : U # T => U \in Good
  BY <1>2 DEF StrictSubsetOrdering
<1> QED
  BY <1>3

(* A finite set that a relation orders has a first element.                *)
LEMMA FirstExists ==
  ASSUME NEW S, IsFiniteSet(S), S # {}, NEW R,
         \A x, y \in S : x # y => <<x, y>> \in R \/ <<y, x>> \in R,
         \A x, y, z \in S : <<x, y>> \in R /\ <<y, z>> \in R => <<x, z>> \in R
  PROVE  \E m \in S : \A n \in S : n # m => <<m, n>> \in R
<1> DEFINE Good == {T \in SUBSET S : T # {} => \E m \in T : \A n \in T : n # m => <<m, n>> \in R}
<1>1. ASSUME NEW T \in SUBSET S, \A U \in SUBSET T : U # T => U \in Good, T # {}
      PROVE  \E m \in T : \A n \in T : n # m => <<m, n>> \in R
  <2>1. PICK x \in T : TRUE
    BY <1>1
  <2>2. CASE T \ {x} = {}
    BY <2>1, <2>2
  <2>3. CASE T \ {x} # {}
    <3>1. T \ {x} \in SUBSET T /\ T \ {x} # T
      BY <2>1
    <3>2. PICK m \in T \ {x} : \A n \in T \ {x} : n # m => <<m, n>> \in R
      BY <1>1, <2>3, <3>1
    <3>3. CASE <<m, x>> \in R
      BY <3>2, <3>3
    <3>4. CASE <<x, m>> \in R
      <4>1. \A n \in T : n # x => <<x, n>> \in R
        BY <1>1, <3>2, <3>4
      <4> QED
        BY <4>1
    <3> QED
      BY <1>1, <3>2, <3>3, <3>4
  <2> QED
    BY <2>2, <2>3
<1>2. \A T \in SUBSET S : (\A U \in SUBSET T : U # T => U \in Good) => T \in Good
  BY <1>1
<1>3. Good \in SUBSET SUBSET S
  OBVIOUS
<1> HIDE DEF Good
<1>4. S \in Good
  BY <1>2, <1>3, SubsetInduction
<1> QED
  BY <1>4 DEF Good

-----------------------------------------------------------------------------
(* Folds.  The community modules fold by a recursion over subsets; it has a
   solution, and from the left it goes element by element.                 *)

(* A fold over the subsets of S: c names the element each leaves for last. *)
FoldStep(g, F, c, base, s) == IF s = {} THEN base ELSE F[<<g[s \ {c[s]}], c[s]>>]

IsFold(g, F, c, base, X, S) ==
  /\ g \in [SUBSET S -> X]
  /\ \A s \in SUBSET S : g[s] = FoldStep(g, F, c, base, s)

(* Two functions of the subsets agree if they agree wherever they agree on
   everything smaller.                                                     *)
LEMMA FoldsAgree ==
  ASSUME NEW S, IsFiniteSet(S), NEW g, NEW h,
         \A s \in SUBSET S : (\A u \in SUBSET s : u # s => g[u] = h[u]) => g[s] = h[s]
  PROVE  \A s \in SUBSET S : g[s] = h[s]
<1> DEFINE Good == {s \in SUBSET S : g[s] = h[s]}
<1>1. Good \in SUBSET SUBSET S
  OBVIOUS
<1>2. \A s \in SUBSET S : (\A u \in SUBSET s : u # s => u \in Good) => s \in Good
  OBVIOUS
<1> HIDE DEF Good
<1>3. \A s \in SUBSET S : s \in Good
  BY <1>1, <1>2, SubsetInduction
<1> QED
  BY <1>3 DEF Good

(* Two folds agree on a set both cover.                                    *)
LEMMA FoldsSame ==
  ASSUME NEW S, NEW T, NEW X, NEW F, NEW c, NEW base, NEW g, NEW h,
         IsFold(g, F, c, base, X, S), IsFold(h, F, c, base, X, T),
         NEW R \in SUBSET S, R \in SUBSET T, IsFiniteSet(R),
         \A s \in SUBSET R : s # {} => c[s] \in s
  PROVE  g[R] = h[R]
<1>1. ASSUME NEW s \in SUBSET R, \A u \in SUBSET s : u # s => g[u] = h[u]
      PROVE  g[s] = h[s]
  <2>1. g[s] = FoldStep(g, F, c, base, s) /\ h[s] = FoldStep(h, F, c, base, s)
    BY DEF IsFold
  <2>2. CASE s = {}
    BY <2>1, <2>2 DEF FoldStep
  <2>3. CASE s # {}
    <3>1. s \ {c[s]} \in SUBSET s /\ s \ {c[s]} # s
      BY <2>3
    <3>2. g[s \ {c[s]}] = h[s \ {c[s]}]
      BY <1>1, <3>1
    <3> QED
      BY <2>1, <2>3, <3>2 DEF FoldStep
  <2> QED
    BY <2>2, <2>3
<1>2. \A s \in SUBSET R : g[s] = h[s]
  BY <1>1, FoldsAgree
<1> QED
  BY <1>2

(* A fold with a step from values to values has a solution: those of the
   smaller sets make that of the next.                                     *)
LEMMA FoldExists ==
  ASSUME NEW S, IsFiniteSet(S), NEW X, NEW base \in X, NEW F \in [X \X S -> X],
         NEW c, \A s \in SUBSET S : s # {} => c[s] \in s
  PROVE  \E g : IsFold(g, F, c, base, X, S)
<1> DEFINE Good == {T \in SUBSET S : \E g : IsFold(g, F, c, base, X, T)}
<1>1. ASSUME NEW T \in SUBSET S, \A U \in SUBSET T : U # T => U \in Good
      PROVE  T \in Good
  <2> DEFINE G(U) == CHOOSE g : IsFold(g, F, c, base, X, U)
             v(s) == IF s = T THEN IF T = {} THEN base ELSE F[<<G(T \ {c[T]})[T \ {c[T]}], c[T]>>]
                     ELSE G(s)[s]
             fold == [s \in SUBSET T |-> v(s)]
  <2>1. \A U \in SUBSET T : U # T => IsFold(G(U), F, c, base, X, U) /\ IsFiniteSet(U)
    <3>1. \A U \in SUBSET T : U # T => \E g : IsFold(g, F, c, base, X, U)
      BY <1>1
    <3>2. \A U \in SUBSET T : IsFiniteSet(U)
      BY FS_Subset
    <3> QED
      BY <3>1, <3>2
  <2> HIDE DEF G
  <2>2. ASSUME NEW U \in SUBSET T, U # T
        PROVE  G(U)[U] \in X
    <3>1. G(U) \in [SUBSET U -> X] /\ U \in SUBSET U
      BY <2>1, <2>2 DEF IsFold
    <3> QED
      BY <3>1
  <2>3. T # {} => c[T] \in S /\ T \ {c[T]} \in SUBSET T /\ T \ {c[T]} # T
    <3> SUFFICES ASSUME T # {} PROVE c[T] \in S /\ T \ {c[T]} \in SUBSET T /\ T \ {c[T]} # T
      OBVIOUS
    <3>1. c[T] \in T
      OBVIOUS
    <3> QED
      BY <3>1
  <2>4. \A s \in SUBSET T : v(s) \in X
    <3> TAKE s \in SUBSET T
    <3>1. CASE s = T /\ T = {}
      BY <3>1
    <3>2. CASE s = T /\ T # {}
      <4>1. G(T \ {c[T]})[T \ {c[T]}] \in X
        BY <2>2, <2>3, <3>2
      <4> QED
        BY <2>3, <3>2, <4>1
    <3>3. CASE s # T
      BY <2>2, <3>3
    <3> QED
      BY <3>1, <3>2, <3>3
  <2>5. \A s \in SUBSET T : fold[s] = v(s)
    OBVIOUS
  <2>6. fold \in [SUBSET T -> X]
    BY <2>4
  (* Below a proper subset the chosen folds say the same.                  *)
  <2>7. ASSUME NEW s \in SUBSET T, s # {}
        PROVE  fold[s] = F[<<fold[s \ {c[s]}], c[s]>>]
    <3> DEFINE r == s \ {c[s]}
    <3>1. r \in SUBSET T /\ r # T /\ r \in SUBSET s /\ r # s
      BY <2>7
    <3>2. fold[r] = G(r)[r] /\ IsFold(G(r), F, c, base, X, r) /\ IsFiniteSet(r)
      BY <2>1, <2>5, <3>1
    <3>3. CASE s = T
      BY <2>5, <2>7, <3>2, <3>3
    <3>4. CASE s # T
      <4>1. fold[s] = G(s)[s] /\ IsFold(G(s), F, c, base, X, s)
        BY <2>1, <2>5, <3>4
      <4>2. G(s)[s] = F[<<G(s)[r], c[s]>>]
        BY <2>7, <4>1 DEF IsFold, FoldStep
      <4>3. G(s)[r] = G(r)[r]
        <5>1. /\ r \in SUBSET s /\ r \in SUBSET r
              /\ \A u \in SUBSET r : u # {} => c[u] \in u
          BY <3>1
        <5> HIDE DEF r
        <5> QED
          BY <3>2, <4>1, <5>1, FoldsSame
      <4> QED
        BY <3>2, <4>1, <4>2, <4>3
    <3> QED
      BY <3>3, <3>4
  <2>8. fold[{}] = base
    <3>1. CASE T = {}
      BY <2>5, <3>1
    <3>2. CASE T # {}
      <4>1. fold[{}] = G({})[{}] /\ IsFold(G({}), F, c, base, X, {})
        BY <2>1, <2>5, <3>2
      <4> QED
        BY <4>1 DEF IsFold, FoldStep
    <3> QED
      BY <3>1, <3>2
  <2> HIDE DEF fold
  <2>9. IsFold(fold, F, c, base, X, T)
    BY <2>6, <2>7, <2>8 DEF IsFold, FoldStep
  <2> QED
    BY <2>9
<1>2. Good \in SUBSET SUBSET S
  OBVIOUS
<1>3. \A T \in SUBSET S : (\A U \in SUBSET T : U # T => U \in Good) => T \in Good
  BY <1>1
<1> HIDE DEF Good
<1>4. S \in Good
  BY <1>2, <1>3, SubsetInduction
<1> QED
  BY <1>4 DEF Good

(* A nonempty set of places has a last one.                                *)
LEMMA MaxIn ==
  ASSUME NEW n \in Nat, NEW s \in SUBSET (1 .. n), s # {}
  PROVE  Max(s) \in s /\ \A x \in s : x <= Max(s)
<1> DEFINE R == {p \in s \X s : p[1] > p[2]}
<1>1. IsFiniteSet(s)
  <2>1. IsFiniteSet(1 .. n)
    BY FS_Interval
  <2> QED
    BY <2>1, FS_Subset
<1>0. \A x \in s : x \in Int
  OBVIOUS
<1>2. \A x, y \in s : x # y => <<x, y>> \in R \/ <<y, x>> \in R
  BY <1>0
<1>3. \A x, y, z \in s : <<x, y>> \in R /\ <<y, z>> \in R => <<x, z>> \in R
  BY <1>0
<1>4. \A x, y : <<x, y>> \in R => x > y
  OBVIOUS
<1> HIDE DEF R
<1>5. \E m \in s : \A k \in s : k # m => <<m, k>> \in R
  BY <1>1, <1>2, <1>3, FirstExists
<1>6. \E m \in s : \A k \in s : m >= k
  <2>1. PICK m \in s : \A k \in s : k # m => <<m, k>> \in R
    BY <1>5
  <2>2. \A k \in s : m >= k
    <3> TAKE k \in s
    <3>1. k = m \/ m > k
      BY <1>4, <2>1
    <3>2. m \in Int /\ k \in Int
      BY <1>0
    <3> QED
      BY <3>1, <3>2
  <2> QED
    BY <2>2
<1> QED
  BY <1>0, <1>6 DEF Max

(* Along the numbers from 0 to n.                                          *)
LEMMA UpTo ==
  ASSUME NEW n \in Nat, NEW Good \in SUBSET Nat, 0 \in Good,
         \A k \in 0 .. n - 1 : k \in Good => k + 1 \in Good
  PROVE  \A k \in 0 .. n : k \in Good
<1> DEFINE Sets == {s \in SUBSET (1 .. n) : \A k \in 0 .. n : s = 1 .. k => k \in Good}
<1>1. ASSUME NEW s \in SUBSET (1 .. n), \A u \in SUBSET s : u # s => u \in Sets,
             NEW k \in 0 .. n, s = 1 .. k
      PROVE  k \in Good
  <2>1. CASE k = 0
    BY <2>1
  <2>2. CASE k # 0
    <3>1. k - 1 \in 0 .. n - 1 /\ k - 1 \in 0 .. n /\ k = (k - 1) + 1
      BY <2>2
    <3>2. 1 .. k - 1 \in SUBSET s /\ 1 .. k - 1 # s
      BY <1>1, <2>2
    <3>3. k - 1 \in Good
      BY <1>1, <3>1, <3>2
    <3> QED
      BY <3>1, <3>3
  <2> QED
    BY <2>1, <2>2
<1>2. Sets \in SUBSET SUBSET (1 .. n)
  OBVIOUS
<1>3. \A s \in SUBSET (1 .. n) : (\A u \in SUBSET s : u # s => u \in Sets) => s \in Sets
  BY <1>1
<1>4. IsFiniteSet(1 .. n)
  BY FS_Interval
<1>5. \A s \in Sets : \A k \in 0 .. n : s = 1 .. k => k \in Good
  OBVIOUS
<1> DEFINE N == 1 .. n
<1>6. \A s \in SUBSET N : s \in Sets
  <2> HIDE DEF Sets
  <2>1. /\ IsFiniteSet(N) /\ Sets \in SUBSET SUBSET N
        /\ \A s \in SUBSET N : (\A u \in SUBSET s : u # s => u \in Sets) => s \in Sets
    BY <1>2, <1>3, <1>4
  <2> HIDE DEF N
  <2> QED
    BY <2>1, SubsetInduction
<1> HIDE DEF Sets
<1>7. \A k \in 0 .. n : 1 .. k \in SUBSET N
  OBVIOUS
<1> QED
  BY <1>5, <1>6, <1>7

(* It leaves the last place for last.                                      *)
IsLeftFold(g, F, base, X, n) ==
  /\ g \in [SUBSET (1 .. n) -> X]
  /\ \A s \in SUBSET (1 .. n) :
       g[s] = IF s = {} THEN base ELSE F[<<g[s \ {Max(s)}], Max(s)>>]

(* A fold that leaves the last place for last has a solution.              *)
LEMMA LeftFoldExists ==
  ASSUME NEW n \in Nat, NEW X, NEW base \in X, NEW F \in [X \X (1 .. n) -> X]
  PROVE  \E g : IsLeftFold(g, F, base, X, n)
<1> DEFINE S == 1 .. n
           c == [s \in SUBSET S |-> Max(s)]
<1>1. \A s \in SUBSET S : c[s] = Max(s) /\ (s # {} => c[s] \in s)
  BY MaxIn
<1>2. IsFiniteSet(S) /\ F \in [X \X S -> X]
  BY FS_Interval
<1> HIDE DEF c, S
<1>3. PICK g : IsFold(g, F, c, base, X, S)
  BY <1>1, <1>2, FoldExists
<1>4. g \in [SUBSET S -> X]
  BY <1>3 DEF IsFold
<1>5. \A s \in SUBSET S : g[s] = IF s = {} THEN base ELSE F[<<g[s \ {Max(s)}], Max(s)>>]
  BY <1>1, <1>3 DEF IsFold, FoldStep
<1> QED
  BY <1>4, <1>5 DEF S, IsLeftFold

(* What is known of such a recursion while its values are not known to be in
   X, and what it comes to: one element after the other.                   *)
IsLeftRecursion(iter, F, base, X, n) ==
  /\ iter[{}] = base
  /\ \A s \in SUBSET (1 .. n) : s # {} /\ iter[s \ {Max(s)}] \in X
       => iter[s] = F[<<iter[s \ {Max(s)}], Max(s)>>]

IsByElement(h, iter, F, base, X, n) ==
  /\ h \in [0 .. n -> X]
  /\ h[0] = base /\ h[n] = iter[1 .. n]
  /\ \A k \in 1 .. n : h[k] = F[<<h[k - 1], k>>]

(* A recursion that leaves the last place for last goes from the left.     *)
LEMMA FoldByElement ==
  ASSUME NEW n \in Nat, NEW X, NEW base \in X, NEW F \in [X \X (1 .. n) -> X], NEW iter,
         IsLeftRecursion(iter, F, base, X, n)
  PROVE  \E h : IsByElement(h, iter, F, base, X, n)
<1> DEFINE h == [k \in 0 .. n |-> iter[1 .. k]]
           Good == {k \in 0 .. n : h[k] \in X}
<1>1. h[0] = base
  <2>1. 1 .. 0 = {} /\ 0 \in 0 .. n
    OBVIOUS
  <2>2. h[0] = iter[{}]
    BY <2>1
  <2> QED
    BY <2>2 DEF IsLeftRecursion
<1>2. ASSUME NEW k \in 1 .. n, h[k - 1] \in X
      PROVE  h[k] = F[<<h[k - 1], k>>]
  <2>1. k \in Int /\ 1 <= k /\ k <= n
    OBVIOUS
  <2>2. k \in 1 .. k /\ \A x \in 1 .. k : x \in 1 .. n
    BY <2>1
  <2>3. 1 .. k \in SUBSET (1 .. n) /\ 1 .. k # {}
    BY <2>2
  <2>4. Max(1 .. k) = k
    <3>1. Max(1 .. k) \in 1 .. k /\ \A x \in 1 .. k : x <= Max(1 .. k)
      BY <2>3, MaxIn
    <3> QED
      BY <2>2, <3>1
  <2>5. (1 .. k) \ {k} = 1 .. (k - 1)
    BY <2>1
  <2>6. h[k - 1] = iter[1 .. (k - 1)] /\ h[k] = iter[1 .. k]
    BY <2>1
  <2> QED
    BY <1>2, <2>3, <2>4, <2>5, <2>6 DEF IsLeftRecursion
<1>3. ASSUME NEW k \in 0 .. n - 1, k \in Good
      PROVE  k + 1 \in Good
  <2>1. k + 1 \in 1 .. n /\ (k + 1) - 1 = k /\ k + 1 \in 0 .. n
    OBVIOUS
  <2>2. h[k] \in X
    BY <1>3
  <2> HIDE DEF h
  <2>3. h[k + 1] = F[<<h[k], k + 1>>]
    BY <1>2, <2>1, <2>2
  <2> QED
    BY <2>1, <2>2, <2>3
<1>4. \A k \in 0 .. n : h[k] \in X
  <2>1. 0 \in Good /\ Good \in SUBSET Nat
    BY <1>1
  <2>2. \A k \in 0 .. n - 1 : k \in Good => k + 1 \in Good
    BY <1>3
  <2>3. \A k \in Good : h[k] \in X
    OBVIOUS
  <2> HIDE DEF Good
  <2>4. \A k \in 0 .. n : k \in Good
    BY <2>1, <2>2, UpTo
  <2> QED
    BY <2>3, <2>4
<1>5. h \in [0 .. n -> X]
  BY <1>4
<1>6. \A k \in 1 .. n : h[k] = F[<<h[k - 1], k>>]
  <2> TAKE k \in 1 .. n
  <2>1. k - 1 \in 0 .. n
    OBVIOUS
  <2> QED
    BY <1>2, <1>4, <2>1
<1>7. h[n] = iter[1 .. n]
  OBVIOUS
<1> HIDE DEF h
<1> QED
  BY <1>1, <1>5, <1>6, <1>7 DEF IsByElement

-----------------------------------------------------------------------------
(* The recursion behind the sums: take any element, add its value.         *)
AnyOf(s) == CHOOSE x \in s : TRUE

SumStep(g, f, s) == IF s = {} THEN 0 ELSE f[AnyOf(s)] + g[s \ {AnyOf(s)}]

IsSum(g, f, S) ==
  /\ g \in [SUBSET S -> Int]
  /\ \A s \in SUBSET S : g[s] = SumStep(g, f, s)

SumOf(f, S) == CHOOSE g : g = [s \in SUBSET S |-> SumStep(g, f, s)]

(* AnyOf picks an element.                                                *)
LEMMA AnyOfIn ==
  ASSUME NEW s, s # {}
  PROVE  AnyOf(s) \in s
BY DEF AnyOf

(* Two sums agree on a set both cover, if the values over it do.           *)
LEMMA SumsAgree ==
  ASSUME NEW S, NEW T, NEW f, NEW k, NEW g, NEW h,
         IsSum(g, f, S), IsSum(h, k, T),
         NEW R \in SUBSET S, R \in SUBSET T, IsFiniteSet(R),
         \A x \in R : f[x] = k[x]
  PROVE  g[R] = h[R]
<1>1. ASSUME NEW s \in SUBSET R, \A u \in SUBSET s : u # s => g[u] = h[u]
      PROVE  g[s] = h[s]
  <2>1. g[s] = SumStep(g, f, s) /\ h[s] = SumStep(h, k, s)
    BY DEF IsSum
  <2>2. CASE s = {}
    BY <2>1, <2>2 DEF SumStep
  <2>3. CASE s # {}
    <3>1. AnyOf(s) \in s
      BY <2>3, AnyOfIn
    <3>2. s \ {AnyOf(s)} \in SUBSET s /\ s \ {AnyOf(s)} # s
      BY <3>1
    <3>3. g[s \ {AnyOf(s)}] = h[s \ {AnyOf(s)}]
      BY <1>1, <3>2
    <3>4. f[AnyOf(s)] = k[AnyOf(s)]
      BY <3>1
    <3> QED
      BY <2>1, <2>3, <3>3, <3>4 DEF SumStep
  <2> QED
    BY <2>2, <2>3
<1>2. \A s \in SUBSET R : g[s] = h[s]
  BY <1>1, FoldsAgree
<1> QED
  BY <1>2

(* The recursion has a solution: it is a fold.                             *)
LEMMA SumExists ==
  ASSUME NEW S, IsFiniteSet(S), NEW f, \A x \in S : f[x] \in Int
  PROVE  \E g : IsSum(g, f, S)
<1> DEFINE c == [s \in SUBSET S |-> AnyOf(s)]
           F == [p \in Int \X S |-> f[p[2]] + p[1]]
<1>1. \A s \in SUBSET S : c[s] = AnyOf(s) /\ (s # {} => c[s] \in s)
  BY AnyOfIn
<1>2. F \in [Int \X S -> Int] /\ \A n \in Int, x \in S : F[<<n, x>>] = f[x] + n
  OBVIOUS
<1> HIDE DEF c, F
<1>3. PICK g : IsFold(g, F, c, 0, Int, S)
  BY <1>1, <1>2, FoldExists
<1>4. ASSUME NEW s \in SUBSET S
      PROVE  g[s] = SumStep(g, f, s)
  <2>1. g[s] = FoldStep(g, F, c, 0, s)
    BY <1>3 DEF IsFold
  <2>2. CASE s = {}
    BY <2>1, <2>2 DEF FoldStep, SumStep
  <2>3. CASE s # {}
    <3>1. c[s] = AnyOf(s) /\ c[s] \in S /\ s \ {c[s]} \in SUBSET S
      BY <1>1, <2>3
    <3>2. g[s \ {c[s]}] \in Int
      BY <1>3, <3>1 DEF IsFold
    <3> QED
      BY <1>2, <2>1, <2>3, <3>1, <3>2 DEF FoldStep, SumStep
  <2> QED
    BY <2>2, <2>3
<1> QED
  BY <1>3, <1>4 DEF IsFold, IsSum

(* The function the sum is defined by satisfies its recursion.             *)
LEMMA SumOfIsSum ==
  ASSUME NEW S, IsFiniteSet(S), NEW f, \A x \in S : f[x] \in Int
  PROVE  IsSum(SumOf(f, S), f, S)
<1>1. PICK g : IsSum(g, f, S)
  BY SumExists
<1>2. g = [s \in SUBSET S |-> SumStep(g, f, s)]
  BY <1>1 DEF IsSum
<1>3. SumOf(f, S) = [s \in SUBSET S |-> SumStep(SumOf(f, S), f, s)]
  BY <1>2 DEF SumOf
<1>4. \A s \in SUBSET S : SumOf(f, S)[s] = SumStep(SumOf(f, S), f, s)
  BY <1>3
<1> DEFINE h == SumOf(f, S)
<1>5. \A s \in SUBSET S : h[s] = SumStep(h, f, s)
  BY <1>4
<1> HIDE DEF h
<1>6. ASSUME NEW s \in SUBSET S, \A u \in SUBSET s : u # s => h[u] = g[u]
      PROVE  h[s] = g[s]
  <2>1. g[s] = SumStep(g, f, s) /\ h[s] = SumStep(h, f, s)
    BY <1>1, <1>5 DEF IsSum
  <2>2. CASE s = {}
    BY <2>1, <2>2 DEF SumStep
  <2>3. CASE s # {}
    <3>1. s \ {AnyOf(s)} \in SUBSET s /\ s \ {AnyOf(s)} # s
      BY <2>3, AnyOfIn
    <3>2. h[s \ {AnyOf(s)}] = g[s \ {AnyOf(s)}]
      BY <1>6, <3>1
    <3> QED
      BY <2>1, <2>3, <3>2 DEF SumStep
  <2> QED
    BY <2>2, <2>3
<1>7. \A s \in SUBSET S : h[s] = g[s]
  BY <1>6, FoldsAgree
<1>8. h = g
  <2>1. h = [s \in SUBSET S |-> SumStep(h, f, s)]
    BY <1>3 DEF h
  <2>2. \A s \in SUBSET S : h[s] = g[s]
    BY <1>7
  <2> QED
    BY <1>2, <1>4, <2>1, <2>2, <1>5, <1>1 DEF IsSum
<1> QED
  BY <1>1, <1>8 DEF h
-----------------------------------------------------------------------------
(* The sums as functions of a function and a set.                          *)
Total(f, S) == SumOf(f, S)[S]

(* They are what the community modules compute.                            *)
LEMMA TotalIsSum ==
  ASSUME NEW f, NEW S
  PROVE  SumFunctionOnSet(f, S) = Total(f, S)
BY DEF SumFunctionOnSet, FoldFunctionOnSet, MapThenFoldSet, Total, SumOf, SumStep, AnyOf

(* A sum of integers is an integer.                                        *)
LEMMA TotalInt ==
  ASSUME NEW S, IsFiniteSet(S), NEW f, \A x \in S : f[x] \in Int
  PROVE  Total(f, S) \in Int
BY SumOfIsSum DEF Total, IsSum

(* The empty sum is zero.                                                  *)
LEMMA TotalEmpty ==
  ASSUME NEW f
  PROVE  Total(f, {}) = 0
<1>1. IsSum(SumOf(f, {}), f, {})
  BY SumOfIsSum, FS_EmptySet
<1> QED
  BY <1>1 DEF IsSum, SumStep, Total

(* A sum depends on the values over its set only.                          *)
LEMMA TotalSame ==
  ASSUME NEW S, IsFiniteSet(S), NEW f, NEW k,
         \A x \in S : f[x] \in Int, \A x \in S : k[x] = f[x]
  PROVE  Total(k, S) = Total(f, S)
<1>1. IsSum(SumOf(f, S), f, S) /\ IsSum(SumOf(k, S), k, S)
  BY SumOfIsSum
<1>2. SumOf(k, S)[S] = SumOf(f, S)[S]
  BY <1>1, SumsAgree
<1> QED
  BY <1>2 DEF Total

(* The sum of a subset, read off the sums of the whole.                    *)
LEMMA TotalOfSubset ==
  ASSUME NEW S, IsFiniteSet(S), NEW f, \A x \in S : f[x] \in Int,
         NEW T \in SUBSET S
  PROVE  SumOf(f, S)[T] = Total(f, T)
<1>1. IsFiniteSet(T)
  BY FS_Subset
<1>2. IsSum(SumOf(f, S), f, S) /\ IsSum(SumOf(f, T), f, T)
  BY <1>1, SumOfIsSum
<1>3. SumOf(f, S)[T] = SumOf(f, T)[T]
  BY <1>1, <1>2, SumsAgree
<1> QED
  BY <1>3 DEF Total

(* Any element may be split off, not only the one the recursion takes.     *)
LEMMA TotalRemove ==
  ASSUME NEW S, IsFiniteSet(S), NEW f, \A x \in S : f[x] \in Int, NEW x \in S
  PROVE  Total(f, S) = f[x] + Total(f, S \ {x})
<1> DEFINE Good == {T \in SUBSET S : \A y \in T : Total(f, T) = f[y] + Total(f, T \ {y})}
<1>1. \A T \in SUBSET S : IsFiniteSet(T) /\ Total(f, T) \in Int
  <2> TAKE T \in SUBSET S
  <2>1. IsFiniteSet(T)
    BY FS_Subset
  <2> QED
    BY <2>1, TotalInt
<1>2. ASSUME NEW T \in SUBSET S, T # {}
      PROVE  AnyOf(T) \in T /\ Total(f, T) = f[AnyOf(T)] + Total(f, T \ {AnyOf(T)})
  <2>1. AnyOf(T) \in T
    BY <1>2, AnyOfIn
  <2>2. IsSum(SumOf(f, T), f, T)
    BY <1>1, SumOfIsSum
  <2>3. SumOf(f, T)[T] = f[AnyOf(T)] + SumOf(f, T)[T \ {AnyOf(T)}]
    BY <1>2, <2>2 DEF IsSum, SumStep
  <2>4. SumOf(f, T)[T \ {AnyOf(T)}] = Total(f, T \ {AnyOf(T)})
    BY <1>1, TotalOfSubset
  <2> QED
    BY <2>1, <2>3, <2>4 DEF Total
<1> HIDE DEF Good
<1>3. ASSUME NEW T \in SUBSET S, \A U \in SUBSET T : U # T => U \in Good
      PROVE  T \in Good
  <2> SUFFICES ASSUME NEW y \in T
               PROVE  Total(f, T) = f[y] + Total(f, T \ {y})
    BY DEF Good
  <2> DEFINE z == AnyOf(T)
  <2>1. z \in T /\ Total(f, T) = f[z] + Total(f, T \ {z})
    BY <1>2
  <2> HIDE DEF z
  <2>2. CASE y = z
    BY <2>1, <2>2
  <2>3. CASE y # z
    <3>1. T \ {z} \in Good /\ T \ {y} \in Good
      <4>1. T \ {z} \in SUBSET T /\ T \ {z} # T /\ T \ {y} \in SUBSET T /\ T \ {y} # T
        BY <2>1
      <4> QED
        BY <1>3, <4>1
    <3>2. /\ Total(f, T \ {z}) = f[y] + Total(f, (T \ {z}) \ {y})
          /\ Total(f, T \ {y}) = f[z] + Total(f, (T \ {y}) \ {z})
      BY <2>1, <2>3, <3>1 DEF Good
    <3>3. (T \ {z}) \ {y} = (T \ {y}) \ {z}
      OBVIOUS
    <3>4. /\ f[y] \in Int /\ f[z] \in Int
          /\ Total(f, (T \ {y}) \ {z}) \in Int
      BY <1>1, <2>1
    <3>5. Total(f, T \ {z}) = f[y] + Total(f, (T \ {y}) \ {z})
      BY <3>2, <3>3
    <3>6. f[z] + (f[y] + Total(f, (T \ {y}) \ {z})) = f[y] + (f[z] + Total(f, (T \ {y}) \ {z}))
      BY <3>4
    <3> QED
      BY <2>1, <3>2, <3>5, <3>6
  <2> QED
    BY <2>2, <2>3
<1>4. \A T \in SUBSET S : T \in Good
  <2>1. Good \in SUBSET SUBSET S
    BY DEF Good
  <2> QED
    BY <1>3, <2>1, SubsetInduction
<1>5. S \in Good
  BY <1>4
<1> QED
  BY <1>5 DEF Good

(* Adding an element.                                                      *)
LEMMA TotalAdd ==
  ASSUME NEW S, IsFiniteSet(S), NEW f, \A y \in S : f[y] \in Int,
         NEW x, x \notin S, f[x] \in Int
  PROVE  Total(f, S \cup {x}) = f[x] + Total(f, S)
<1>1. IsFiniteSet(S \cup {x})
  BY FS_AddElement
<1>2. (S \cup {x}) \ {x} = S /\ x \in S \cup {x} /\ \A y \in S \cup {x} : f[y] \in Int
  OBVIOUS
<1>3. Total(f, S \cup {x}) = f[x] + Total(f, (S \cup {x}) \ {x})
  BY <1>1, <1>2, TotalRemove
<1> QED
  BY <1>2, <1>3

(* Changing the value of one element.                                      *)
LEMMA TotalChange ==
  ASSUME NEW S, IsFiniteSet(S), NEW f, NEW k, NEW x \in S,
         \A y \in S : f[y] \in Int, k[x] \in Int,
         \A y \in S : y # x => k[y] = f[y]
  PROVE  Total(k, S) = Total(f, S) - f[x] + k[x]
<1>1. IsFiniteSet(S \ {x})
  BY FS_RemoveElement
<1>2. \A y \in S : k[y] \in Int
  OBVIOUS
<1>3. /\ Total(f, S) = f[x] + Total(f, S \ {x})
      /\ Total(k, S) = k[x] + Total(k, S \ {x})
  BY <1>2, TotalRemove
<1>4. Total(k, S \ {x}) = Total(f, S \ {x}) /\ Total(f, S \ {x}) \in Int
  BY <1>1, TotalSame, TotalInt
<1> QED
  BY <1>3, <1>4

(* A sum of naturals is a natural, and no element exceeds it.              *)
LEMMA TotalNat ==
  ASSUME NEW S, IsFiniteSet(S), NEW f, \A x \in S : f[x] \in Nat
  PROVE  /\ Total(f, S) \in Nat
         /\ \A x \in S : f[x] <= Total(f, S)
<1> DEFINE Good == {T \in SUBSET S : Total(f, T) \in Nat}
<1>1. \A T \in SUBSET S : IsFiniteSet(T)
  BY FS_Subset
<1> HIDE DEF Good
<1>2. ASSUME NEW T \in SUBSET S, \A U \in SUBSET T : U # T => U \in Good
      PROVE  T \in Good
  <2>1. CASE T = {}
    BY <2>1, TotalEmpty DEF Good
  <2>2. CASE T # {}
    <3>1. PICK x \in T : TRUE
      BY <2>2
    <3>2. T \ {x} \in Good
      BY <1>2
    <3>3. Total(f, T) = f[x] + Total(f, T \ {x})
      BY <1>1, TotalRemove
    <3> QED
      BY <3>2, <3>3 DEF Good
  <2> QED
    BY <2>1, <2>2
<1>3. \A T \in SUBSET S : T \in Good
  <2>1. Good \in SUBSET SUBSET S
    BY DEF Good
  <2> QED
    BY <1>2, <2>1, SubsetInduction
<1>4. \A T \in SUBSET S : Total(f, T) \in Nat
  BY <1>3 DEF Good
<1>5. ASSUME NEW x \in S PROVE f[x] <= Total(f, S)
  <2>1. Total(f, S) = f[x] + Total(f, S \ {x})
    BY TotalRemove
  <2>2. Total(f, S \ {x}) \in Nat /\ f[x] \in Nat
    BY <1>4
  <2> QED
    BY <2>1, <2>2
<1> QED
  BY <1>4, <1>5

(* Renaming the elements does not change the sum.                          *)
LEMMA TotalRenamed ==
  ASSUME NEW S, IsFiniteSet(S), NEW f, NEW k, NEW h,
         \A x \in S : f[x] \in Int,
         \A x \in S : k[h[x]] = f[x],
         \A x, y \in S : h[x] = h[y] => x = y
  PROVE  Total(k, {h[x] : x \in S}) = Total(f, S)
<1> DEFINE Image(T) == {h[x] : x \in T}
           Good == {T \in SUBSET S : IsFiniteSet(Image(T)) /\ Total(k, Image(T)) = Total(f, T)}
<1>1. \A T \in SUBSET S : IsFiniteSet(T)
  BY FS_Subset
<1>2. ASSUME NEW T \in SUBSET S, \A U \in SUBSET T : U # T => U \in Good
      PROVE  T \in Good
  <2>1. CASE T = {}
    <3>1. Image(T) = {}
      BY <2>1
    <3> QED
      BY <2>1, <3>1, FS_EmptySet, TotalEmpty
  <2>2. CASE T # {}
    <3>1. PICK x \in T : TRUE
      BY <2>2
    <3>2. T \ {x} \in Good
      BY <1>2
    <3>3. Total(f, T) = f[x] + Total(f, T \ {x})
      BY <1>1, TotalRemove
    <3>4. Image(T) = Image(T \ {x}) \cup {h[x]} /\ h[x] \notin Image(T \ {x})
      OBVIOUS
    <3>5. \A y \in Image(T \ {x}) : k[y] \in Int
      OBVIOUS
    <3>6. IsFiniteSet(Image(T \ {x})) /\ Total(k, Image(T \ {x})) = Total(f, T \ {x})
      BY <3>2
    <3>7. k[h[x]] = f[x] /\ f[x] \in Int
      OBVIOUS
    <3> DEFINE rest == Image(T \ {x})
    <3>8. Image(T) = rest \cup {h[x]} /\ h[x] \notin rest /\ IsFiniteSet(rest)
          /\ (\A y \in rest : k[y] \in Int) /\ k[h[x]] \in Int
      BY <3>4, <3>5, <3>6, <3>7
    <3> HIDE DEF rest
    <3>9. IsFiniteSet(rest \cup {h[x]}) /\ Total(k, rest \cup {h[x]}) = k[h[x]] + Total(k, rest)
      BY <3>8, FS_AddElement, TotalAdd
    <3>10. Total(k, rest) = Total(f, T \ {x})
      BY <3>6 DEF rest
    <3> QED
      BY <3>3, <3>7, <3>8, <3>9, <3>10
  <2> QED
    BY <2>1, <2>2
<1>3. \A T \in SUBSET S : T \in Good
  <2>1. Good \in SUBSET SUBSET S
    OBVIOUS
  <2>2. \A T \in SUBSET S : (\A U \in SUBSET T : U # T => U \in Good) => T \in Good
    BY <1>2
  <2> HIDE DEF Good
  <2> QED
    BY <2>1, <2>2, SubsetInduction
<1> QED
  BY <1>3
=============================================================================
