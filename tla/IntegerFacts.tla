---------------------------- MODULE IntegerFacts ----------------------------
(***************************************************************************)
(* Facts that the proofs of this project share: induction on natural       *)
(* numbers and functions defined by recursion on them, stated with sets    *)
(* and functions in place of operators, and some arithmetic.               *)
(***************************************************************************)
EXTENDS Integers, WellFoundedInduction, TLAPS

\* A set of natural numbers has a least element.
LEMMA LeastNat ==
    ASSUME NEW T \in SUBSET Nat, T # {}
    PROVE  \E x \in T : \A y \in T : x <= y
<1>1. PICK x \in T : \A y \in T : ~(<<y, x>> \in OpToRel(<, Nat))
  BY NatLessThanWellFounded, WFMin
<1>2. \A y \in T : ~(y < x)
  BY <1>1 DEF OpToRel
<1> QED BY <1>2

\* A bounded set of natural numbers has a greatest element.
LEMMA GreatestNat ==
    ASSUME NEW N \in Nat, NEW T \in SUBSET (0..N), T # {}
    PROVE  \E x \in T : \A y \in T : x >= y
<1> DEFINE U == {n \in 0..N : N - n \in T}
<1>1. U \in SUBSET Nat /\ U # {}
  <2>1. PICK t \in T : TRUE
    OBVIOUS
  <2>2. N - t \in 0..N /\ N - (N - t) = t
    BY <2>1
  <2> QED BY <2>1, <2>2
<1>2. PICK u \in U : \A v \in U : u <= v
  BY <1>1, LeastNat
<1>3. N - u \in T
  BY <1>2
<1>4. ASSUME NEW y \in T PROVE N - u >= y
  <2>1. N - y \in U /\ y \in 0..N
    <3>1. y \in 0..N
      OBVIOUS
    <3>2. N - y \in 0..N /\ N - (N - y) = y
      BY <3>1
    <3> QED BY <3>1, <3>2
  <2>2. u <= N - y /\ u \in 0..N
    BY <1>2, <2>1
  <2> QED BY <2>1, <2>2
<1> QED BY <1>3, <1>4

\* What holds of 0, and of n if it holds of n - 1, holds up to N.
LEMMA InductionTo ==
    ASSUME NEW N \in Nat, NEW S, 0 \in S,
           \A n \in 1..N : n - 1 \in S => n \in S
    PROVE  0..N \subseteq S
<1> DEFINE T == (0..N) \ S
<1>1. SUFFICES ASSUME T # {} PROVE FALSE
  OBVIOUS
<1>2. T \in SUBSET Nat
  OBVIOUS
<1> HIDE DEF T
<1>3. PICK x \in T : \A y \in T : x <= y
  BY <1>1, <1>2, LeastNat
<1>4. x \in 1..N /\ x \notin S
  BY <1>3 DEF T
<1>5. x - 1 \notin T
  BY <1>3, <1>4
<1> QED BY <1>4, <1>5 DEF T

\* A value in X for each of 0..N: base, and then the step from the one before.
Steppable(N, X, base, step) == N \in Nat /\ base \in X /\ step \in [X \X (1..N) -> X]
Steps(f, N, X, base, step) ==
    /\ f \in [0..N -> X]
    /\ f[0] = base
    /\ \A n \in 1..N : f[n] = step[<<f[n - 1], n>>]

LEMMA StepsExist ==
    ASSUME NEW N, NEW X, NEW base, NEW step, Steppable(N, X, base, step)
    PROVE  \E f : Steps(f, N, X, base, step)
<1>0. N \in Nat /\ base \in X /\ step \in [X \X (1..N) -> X]
  BY DEF Steppable
<1> DEFINE Upto(f, k) == /\ f[0] = base
                         /\ \A n \in 1..k : f[n] = step[<<f[n - 1], n>>]
           S == {k \in 0..N : \E f \in [0..k -> X] : Upto(f, k)}
<1>1. 0 \in S
  <2> DEFINE g == [n \in 0..0 |-> base]
  <2>1. g \in [0..0 -> X] /\ Upto(g, 0)
    BY <1>0
  <2>2. 0 \in 0..N
    BY <1>0
  <2> HIDE DEF g, Upto
  <2> QED BY <2>1, <2>2
<1>2. ASSUME NEW k \in 1..N, k - 1 \in S PROVE k \in S
  <2>1. PICK f \in [0..(k - 1) -> X] : Upto(f, k - 1)
    BY <1>2
  <2> DEFINE g == [n \in 0..k |-> IF n = k THEN step[<<f[k - 1], k>>] ELSE f[n]]
  <2>2. step[<<f[k - 1], k>>] \in X
    <3>1. k - 1 \in 0..(k - 1)
      OBVIOUS
    <3>2. f[k - 1] \in X
      BY <2>1, <3>1
    <3>3. <<f[k - 1], k>> \in X \X (1..N)
      BY <3>2
    <3> QED BY <1>0, <3>3
  <2>3. g \in [0..k -> X]
    BY <2>1, <2>2
  <2>4. ASSUME NEW n \in 1..k PROVE g[n] = step[<<g[n - 1], n>>]
    <3>1. CASE n = k
      BY <3>1
    <3>2. CASE n # k
      <4>1. n \in 1..(k - 1) /\ n - 1 \in 0..k /\ n - 1 # k /\ n \in 0..k
        BY <3>2
      <4> QED BY <2>1, <3>2, <4>1
    <3> QED BY <3>1, <3>2
  <2>5. g[0] = base
    BY <2>1
  <2>6. Upto(g, k)
    BY <2>4, <2>5
  <2> HIDE DEF g, Upto
  <2> QED BY <2>3, <2>6
<1> HIDE DEF S
<1>3. N \in S
  <2>1. 0..N \subseteq S
    BY <1>0, <1>1, <1>2, InductionTo
  <2> QED BY <1>0, <2>1
<1> QED BY <1>3 DEF S, Steps

-----------------------------------------------------------------------------
\* An interval whose bounds the provers do not look at.
Between(a, b) == a..b

LEMMA InBetween ==
    ASSUME NEW a \in Int, NEW b \in Int, NEW x
    PROVE  x \in Between(a, b) <=> x \in Int /\ a <= x /\ x <= b
BY DEF Between

LEMMA Distribute ==
    ASSUME NEW a \in Int, NEW b \in Int, NEW m \in Int
    PROVE  m * (a - b) = m * a - m * b /\ m * (a + b) = m * a + m * b
<1>1. m * (a - b) = m * a - m * b
  OBVIOUS
<1>2. m * (a + b) = m * a + m * b
  OBVIOUS
<1> QED BY <1>1, <1>2

LEMMA Monotonic ==
    ASSUME NEW a \in Int, NEW b \in Int, NEW m \in Nat, a <= b
    PROVE  m * a <= m * b
OBVIOUS

\* Division with remainder.
LEMMA Division ==
    ASSUME NEW n \in Int, NEW m \in Nat \ {0}
    PROVE  /\ n % m \in 0..(m - 1)
           /\ n = m * (n \div m) + (n % m)
           /\ n \div m \in Int
OBVIOUS

\* Its result is the only one of its kind.
LEMMA DivisionUnique ==
    ASSUME NEW m \in Nat \ {0}, NEW q \in Int, NEW r \in 0..(m - 1)
    PROVE  (m * q + r) \div m = q /\ (m * q + r) % m = r
<1> DEFINE n == m * q + r
           d == (n \div m) - q
<1>1. n \in Int /\ n % m \in 0..(m - 1) /\ n = m * (n \div m) + (n % m) /\ n \div m \in Int
  BY Division
<1>2. m * d = m * (n \div m) - m * q /\ d \in Int
  BY <1>1, Distribute
<1>3. m * d = r - (n % m)
  BY <1>1, <1>2
<1> HIDE DEF n, d
<1>4. d = 0
  <2>1. CASE d >= 1
    <3>1. m * 1 <= m * d
      BY <1>2, <2>1, Monotonic
    <3> QED BY <1>1, <1>3, <3>1
  <2>2. CASE d <= -1
    <3>1. m * d <= m * (-1)
      BY <1>2, <2>2, Monotonic
    <3> QED BY <1>1, <1>3, <3>1
  <2> QED BY <1>2, <2>1, <2>2
<1>5. n \div m = q
  BY <1>1, <1>4 DEF d
<1>6. n % m = r
  BY <1>1, <1>3, <1>4
<1> QED BY <1>5, <1>6 DEF n
=============================================================================
