------------------------- MODULE CabacDecoding_proofs -------------------------
(***************************************************************************)
(* The arithmetic decoder undoes the encoder, for all models and symbols.  *)
(* The bytes of a substream are a number, and so are its first bits.  What *)
(* an encoder has coded is a number too, low, of as many bits as it has    *)
(* shifted out, with the interval above it: the code.  Each symbol narrows *)
(* the interval, and a substream decodes to what was coded because at each *)
(* symbol its first bits lie in the interval.  They do, because they lie   *)
(* in the last one, which the end of the substream writes out.             *)
(***************************************************************************)
EXTENDS CabacChannel_proofs, FiniteSetTheorems

-----------------------------------------------------------------------------
(* Powers and the numbers that bytes are. *)
LEMMA PowerSum ==
    ASSUME NEW a \in Nat, NEW b \in Nat, a + b <= 32
    PROVE  Power(a + b) = Power(a) * Power(b)
<1> DEFINE S == {n \in 0..b : Power(a + n) = Power(a) * Power(n)}
<1>0. Power(a) \in Nat
  <2>1. a \in 0..32
    OBVIOUS
  <2> QED BY <2>1, PowerType
<1>1. 0 \in S
  <2>1. a + 0 = a /\ Power(a) * 1 = Power(a) /\ 0 \in 0..b
    BY <1>0
  <2> QED BY <2>1, Powers
<1>2. ASSUME NEW n \in 1..b, n - 1 \in S PROVE n \in S
  <2>1. n - 1 \in 0..31 /\ a + (n - 1) \in 0..31 /\ n \in 0..b
    OBVIOUS
  <2>2. /\ Power((n - 1) + 1) = 2 * Power(n - 1) /\ Power(n - 1) \in Nat
        /\ Power((a + (n - 1)) + 1) = 2 * Power(a + (n - 1))
    BY <2>1, PowerNext
  <2>3. Power(a + (n - 1)) = Power(a) * Power(n - 1)
    BY <1>2
  <2>4. (n - 1) + 1 = n /\ (a + (n - 1)) + 1 = a + n
    OBVIOUS
  <2> DEFINE p == Power(a)
             q == Power(n - 1)
  <2>5. 2 * (p * q) = p * (2 * q)
    BY <1>0, <2>2
  <2>6. Power(a + n) = 2 * (p * q) /\ Power(n) = 2 * q
    BY <2>2, <2>3, <2>4
  <2>7. Power(a + n) = p * Power(n)
    <3> HIDE DEF p, q
    <3> QED BY <2>5, <2>6
  <2> QED BY <2>1, <2>7
<1> HIDE DEF S
<1>3. 0..b \subseteq S
  BY <1>1, <1>2, InductionTo
<1>4. b \in S
  BY <1>3
<1> QED BY <1>4 DEF S

\* Rounding.
LEMMA FloorAtLeast ==
    ASSUME NEW x \in Int, NEW m \in Nat \ {0}, NEW a \in Int
    PROVE  x \div m >= a <=> x >= m * a
<1> DEFINE q == x \div m
           r == x % m
<1>1. q \in Int /\ r \in 0..(m - 1) /\ x = m * q + r
  BY Division
<1> HIDE DEF q, r
<1>2. ASSUME q >= a PROVE x >= m * a
  <2>1. m * a <= m * q
    BY <1>1, <1>2, Monotonic
  <2>2. m * a \in Int /\ m * q \in Int
    BY <1>1
  <2> QED BY <1>1, <2>1, <2>2
<1>3. ASSUME ~(q >= a) PROVE ~(x >= m * a)
  <2>1. m * (q + 1) <= m * a
    BY <1>1, <1>3, Monotonic
  <2>2. m * (q + 1) = m * q + m
    BY <1>1, Distribute
  <2>3. m * a \in Int /\ m * q \in Int
    BY <1>1
  <2> QED BY <1>1, <2>1, <2>2, <2>3
<1> QED BY <1>2, <1>3 DEF q

LEMMA FloorFloor ==
    ASSUME NEW x \in Int, NEW m \in Nat \ {0}, NEW n \in Nat \ {0}
    PROVE  (x \div m) \div n = x \div (m * n)
<1> DEFINE q == x \div m
           r == x % m
           p == q \div n
           t == q % n
<1>1. q \in Int /\ r \in 0..(m - 1) /\ x = m * q + r
  BY Division
<1>2. p \in Int /\ t \in 0..(n - 1) /\ q = n * p + t
  <2> HIDE DEF q
  <2> QED BY <1>1, Division
<1> HIDE DEF q, r, p, t
<1> DEFINE k == m * n
           l == m * t + r
<1>3. k \in Nat \ {0}
  <2>1. m * n \in Int /\ m * 1 <= m * n
    BY Monotonic
  <2> QED BY <2>1
<1>4. l \in 0..(k - 1)
  <2>1. m * t <= m * (n - 1)
    BY <1>2, Monotonic
  <2>2. m * (n - 1) = m * n - m * 1
    BY Distribute
  <2>3. m * t \in Nat /\ m * n \in Int
    BY <1>2
  <2> QED BY <1>1, <2>1, <2>2, <2>3
<1>5. x = k * p + l
  <2>1. m * (n * p + t) = m * (n * p) + m * t
    <3>1. n * p \in Int /\ t \in Int
      BY <1>2
    <3> DEFINE np == n * p
    <3> HIDE DEF np
    <3> QED BY <3>1, Distribute DEF np
  <2>2. m * (n * p) = k * p
    BY <1>2
  <2>3. k * p \in Int /\ m * t \in Int
    BY <1>2
  <2> QED BY <1>1, <1>2, <2>1, <2>2, <2>3
<1> HIDE DEF k, l
<1>6. (k * p + l) \div k = p
  BY <1>2, <1>3, <1>4, DivisionUnique
<1> QED BY <1>5, <1>6 DEF k, p, q

-----------------------------------------------------------------------------
\* The number that a sequence of bytes is.
Number(s) ==
    LET v[n \in 0..Len(s)] == IF n = 0 THEN 0 ELSE 256 * v[n - 1] + s[n]
    IN  v[Len(s)]

Counts(v, s) ==
    /\ v \in [0..Len(s) -> Nat]
    /\ v[0] = 0
    /\ \A n \in 1..Len(s) : v[n] = 256 * v[n - 1] + s[n]

LEMMA NumberCounts ==
    ASSUME NEW s \in Seq(Nat)
    PROVE  \E v : Counts(v, s) /\ Number(s) = v[Len(s)]
<1> DEFINE N == Len(s)
           step == [xn \in Nat \X (1..N) |-> 256 * xn[1] + s[xn[2]]]
           v[n \in 0..N] == IF n = 0 THEN 0 ELSE 256 * v[n - 1] + s[n]
<1>0. N \in Nat /\ \A n \in 1..N : s[n] \in Nat
  OBVIOUS
<1>1. Number(s) = v[N]
  BY Zenon DEF Number
<1> HIDE DEF N
<1>2. step \in [Nat \X (1..N) -> Nat]
  BY <1>0
<1>3. PICK f \in [0..N -> Nat] : f[0] = 0 /\ \A n \in 1..N : f[n] = step[<<f[n - 1], n>>]
  <2> HIDE DEF step
  <2>1. Steppable(N, Nat, 0, step)
    BY <1>0, <1>2 DEF Steppable
  <2>2. \E f : Steps(f, N, Nat, 0, step)
    BY <2>1, StepsExist
  <2> QED BY <2>2 DEF Steps
<1>4. ASSUME NEW n \in 1..N PROVE f[n] = 256 * f[n - 1] + s[n]
  <2>1. n - 1 \in 0..N
    BY <1>0
  <2>2. <<f[n - 1], n>> \in Nat \X (1..N)
    BY <1>3, <2>1
  <2> QED BY <1>3, <2>2
<1>5. f = [n \in 0..N |-> IF n = 0 THEN 0 ELSE 256 * f[n - 1] + s[n]]
  <2>1. \A n \in 0..N : n = 0 \/ n \in 1..N
    BY <1>0
  <2>2. \A n \in 0..N : f[n] = IF n = 0 THEN 0 ELSE 256 * f[n - 1] + s[n]
    BY <1>0, <1>3, <1>4, <2>1
  <2> QED BY <1>3, <2>2
<1>6. v = [n \in 0..N |-> IF n = 0 THEN 0 ELSE 256 * v[n - 1] + s[n]]
  BY <1>5
<1> HIDE DEF v, step
<1> DEFINE S == {n \in 0..N : v[n] = f[n]}
<1>7. 0 \in S
  BY <1>0, <1>3, <1>6
<1>8. ASSUME NEW n \in 1..N, n - 1 \in S PROVE n \in S
  <2>1. n \in 0..N /\ n # 0
    BY <1>0
  <2>2. v[n] = 256 * v[n - 1] + s[n]
    BY <1>6, <2>1
  <2> QED BY <1>4, <1>8, <2>1, <2>2
<1> HIDE DEF S
<1>9. 0..N \subseteq S
  BY <1>0, <1>7, <1>8, InductionTo
<1>10. v[N] = f[N]
  BY <1>0, <1>9 DEF S
<1>11. Counts(f, s)
  BY <1>3, <1>4 DEF Counts, N
<1> QED BY <1>1, <1>10, <1>11 DEF N

LEMMA NumberFacts ==
    /\ Number(<<>>) = 0
    /\ \A s \in Seq(Nat) : Number(s) \in Nat
    /\ \A s \in Seq(Nat), x \in Nat : Number(Append(s, x)) = 256 * Number(s) + x
<1>1. Number(<<>>) = 0
  <2>1. <<>> \in Seq(Nat) /\ Len(<<>>) = 0
    OBVIOUS
  <2>2. PICK v : Counts(v, <<>>) /\ Number(<<>>) = v[Len(<<>>)]
    BY <2>1, NumberCounts
  <2> QED BY <2>1, <2>2 DEF Counts
<1>2. ASSUME NEW s \in Seq(Nat) PROVE Number(s) \in Nat
  <2>1. PICK v : Counts(v, s) /\ Number(s) = v[Len(s)]
    BY NumberCounts
  <2>2. Len(s) \in 0..Len(s)
    OBVIOUS
  <2> QED BY <2>1, <2>2 DEF Counts
<1>3. ASSUME NEW s \in Seq(Nat), NEW x \in Nat
      PROVE  Number(Append(s, x)) = 256 * Number(s) + x
  <2> DEFINE t == Append(s, x)
             N == Len(s)
  <2>1. t \in Seq(Nat) /\ Len(t) = N + 1 /\ N \in Nat /\ t[N + 1] = x
        /\ \A n \in 1..N : t[n] = s[n]
    OBVIOUS
  <2> HIDE DEF t
  <2>2. PICK v : Counts(v, s) /\ Number(s) = v[N]
    BY NumberCounts
  <2>3. PICK w : Counts(w, t) /\ Number(t) = w[Len(t)]
    BY <2>1, NumberCounts
  <2> HIDE DEF N
  <2> DEFINE S == {n \in 0..N : v[n] = w[n]}
  <2>4. 0 \in S
    BY <2>1, <2>2, <2>3 DEF Counts
  <2>5. ASSUME NEW n \in 1..N, n - 1 \in S PROVE n \in S
    <3>1. n \in 1..Len(t) /\ n \in 1..Len(s) /\ n \in 0..N
      BY <2>1 DEF N
    <3>2. v[n] = 256 * v[n - 1] + s[n] /\ w[n] = 256 * w[n - 1] + t[n]
      BY <2>2, <2>3, <3>1 DEF Counts
    <3> QED BY <2>1, <2>5, <3>1, <3>2
  <2> HIDE DEF S
  <2>6. 0..N \subseteq S
    BY <2>1, <2>4, <2>5, InductionTo
  <2>7. v[N] = w[N]
    BY <2>1, <2>6 DEF S
  <2>8. N + 1 \in 1..Len(t) /\ (N + 1) - 1 = N
    BY <2>1
  <2>9. w[N + 1] = 256 * w[(N + 1) - 1] + t[N + 1]
    BY <2>3, <2>8 DEF Counts
  <2> QED BY <2>1, <2>2, <2>3, <2>7, <2>8, <2>9 DEF t
<1> QED BY <1>1, <1>2, <1>3

-----------------------------------------------------------------------------
(* The first bytes and the first bits of the substream behind position b. *)
Leading(s, b, i) == Number(SubSeq(s, b + 1, b + i))
Whole(q) == (q + 7) \div 8
First(s, b, q) == Leading(s, b, Whole(q)) \div Power(8 * Whole(q) - q)

LEMMA BytesAreNat == ASSUME NEW s \in Seq(Byte) PROVE s \in Seq(Nat)
<1>1. Len(s) \in Nat /\ s \in [1..Len(s) -> Byte]
  OBVIOUS
<1>2. ASSUME NEW i \in 1..Len(s) PROVE s[i] \in Nat
  <2>1. s[i] \in Byte
    BY <1>1
  <2> QED BY <2>1, ByteValue
<1>3. s \in [1..Len(s) -> Nat]
  BY <1>1, <1>2, Zenon
<1> QED BY <1>1, <1>3

LEMMA LeadingFacts ==
    ASSUME NEW s \in Seq(Byte), NEW b \in Nat
    PROVE  /\ Leading(s, b, 0) = 0
           /\ \A i \in Nat : b + i <= Len(s) => Leading(s, b, i) \in Nat
           /\ \A i \in Nat : b + i + 1 <= Len(s) =>
                 /\ s[b + i + 1] \in Nat /\ s[b + i + 1] <= 255
                 /\ Leading(s, b, i + 1) = 256 * Leading(s, b, i) + s[b + i + 1]
<1>0. s \in Seq(Nat)
  BY BytesAreNat
<1>1. Leading(s, b, 0) = 0
  <2>1. SubSeq(s, b + 1, b + 0) = <<>>
    BY <1>0
  <2> QED BY <2>1, NumberFacts DEF Leading
<1>2. ASSUME NEW i \in Nat, b + i <= Len(s) PROVE SubSeq(s, b + 1, b + i) \in Seq(Nat)
  BY <1>0, <1>2
<1>3. ASSUME NEW i \in Nat, b + i + 1 <= Len(s)
      PROVE  /\ s[b + i + 1] \in Nat /\ s[b + i + 1] <= 255
             /\ Leading(s, b, i + 1) = 256 * Leading(s, b, i) + s[b + i + 1]
  <2> DEFINE t == SubSeq(s, b + 1, b + i)
             u == SubSeq(s, b + 1, b + (i + 1))
             x == s[b + i + 1]
  <2>1. x \in Byte
    <3>1. b + i + 1 \in 1..Len(s)
      BY <1>3
    <3> HIDE DEF Byte
    <3> QED BY <3>1
  <2>2. x \in Nat /\ x <= 255
    BY <2>1, ByteValue
  <2>3. t \in Seq(Nat) /\ Len(t) = i
    BY <1>0, <1>3
  <2>4. u = Append(t, x)
    <3>1. u \in Seq(Nat) /\ Len(u) = i + 1 /\ \A k \in 1..(i + 1) : u[k] = s[b + k]
      BY <1>0, <1>3
    <3>2. \A k \in 1..i : t[k] = s[b + k]
      BY <1>0, <1>3
    <3>3. Append(t, x) \in Seq(Nat) /\ Len(Append(t, x)) = i + 1
      BY <2>2, <2>3
    <3>4. ASSUME NEW k \in 1..(i + 1) PROVE u[k] = Append(t, x)[k]
      <4>1. CASE k = i + 1
        BY <2>2, <2>3, <3>1, <4>1
      <4>2. CASE k # i + 1
        <5>1. k \in 1..i
          BY <4>2
        <5> QED BY <2>2, <2>3, <3>1, <3>2, <5>1
      <4> QED BY <4>1, <4>2
    <3> HIDE DEF t, u, x
    <3> QED BY <3>1, <3>3, <3>4
  <2>5. Number(Append(t, x)) = 256 * Number(t) + x
    <3> HIDE DEF t, x
    <3> QED BY <2>2, <2>3, NumberFacts
  <2> QED BY <2>2, <2>4, <2>5 DEF Leading
<1>4. \A i \in Nat : b + i <= Len(s) => Leading(s, b, i) \in Nat
  BY <1>2, NumberFacts DEF Leading
<1> QED BY <1>1, <1>3, <1>4

LEMMA WholeFacts ==
    ASSUME NEW q \in Nat
    PROVE  /\ Whole(q) \in Nat /\ 8 * Whole(q) - q \in 0..7
           /\ \A n \in 0..8 : /\ Whole(q + n) = Whole(q) \/ Whole(q + n) = Whole(q) + 1
                              /\ Whole(q) <= Whole(q + n)
BY DEF Whole

LEMMA FirstMore ==
    ASSUME NEW s \in Seq(Byte), NEW b \in Nat, NEW q \in Nat, NEW n \in 0..8,
           b + Whole(q + n) <= Len(s)
    PROVE  /\ First(s, b, q) \in Nat /\ First(s, b, q + n) \in Nat
           /\ First(s, b, q) = First(s, b, q + n) \div Power(n)
<1> DEFINE i == Whole(q)
           j == Whole(q + n)
           v == Leading(s, b, i)
           w == Leading(s, b, j)
           k == 8 * i - q
           l == 8 * j - (q + n)
<1>1. i \in Nat /\ j \in Nat /\ k \in 0..7 /\ l \in 0..7 /\ (j = i \/ j = i + 1)
  <2>1. q + n \in Nat
    OBVIOUS
  <2> QED BY <2>1, WholeFacts
<1>a. k \in 0..32 /\ l \in 0..32 /\ n \in 0..32 /\ l \in Nat /\ n \in Nat /\ k \in Nat
      /\ l + n <= 32 /\ 8 + k <= 32 /\ 8 \in Nat
  <2> HIDE DEF k, l
  <2> QED BY <1>1
<1>2. v \in Nat /\ w \in Nat
  <2>1. b + i <= Len(s) /\ b + j <= Len(s)
    BY <1>1
  <2> HIDE DEF i, j
  <2> QED BY <1>1, <2>1, LeadingFacts
<1>3. Power(k) \in Nat \ {0} /\ Power(l) \in Nat \ {0} /\ Power(n) \in Nat \ {0}
  <2> HIDE DEF k, l
  <2> QED BY <1>a, PowerType
<1>4. First(s, b, q) = v \div Power(k) /\ First(s, b, q + n) = w \div Power(l)
  BY DEF First
<1>5. w \div Power(l) \in Nat /\ v \div Power(k) \in Nat
  <2> DEFINE c == Power(k)
             d == Power(l)
  <2> HIDE DEF v, w, c, d, k, l
  <2>1. c \in Nat \ {0} /\ d \in Nat \ {0}
    BY <1>3 DEF c, d
  <2>2. w \div d \in Int /\ v \div c \in Int
    BY <1>2, <2>1, Division
  <2>3. w \div d >= 0 /\ v \div c >= 0
    <3>1. w >= d * 0 /\ v >= c * 0
      BY <1>2, <2>1
    <3> QED BY <1>2, <2>1, <3>1, FloorAtLeast
  <2> QED BY <2>2, <2>3 DEF c, d
<1>6. (w \div Power(l)) \div Power(n) = w \div (Power(l) * Power(n))
  <2> HIDE DEF v, w, k, l
  <2> QED BY <1>2, <1>3, FloorFloor
<1>7. Power(l) * Power(n) = Power(l + n)
  <2> HIDE DEF l, k
  <2> QED BY <1>a, PowerSum
<1>8. CASE j = i
  <2>1. l + n = k /\ w = v
    BY <1>1, <1>8
  <2> HIDE DEF i, j, v, w, k, l
  <2> QED BY <1>4, <1>5, <1>6, <1>7, <2>1
<1>9. CASE j = i + 1
  <2> DEFINE x == s[b + i + 1]
  <2>1. x \in Nat /\ x <= 255 /\ w = 256 * v + x
    <3>1. b + i + 1 <= Len(s)
      BY <1>1, <1>9
    <3>2. \A m \in Nat : b + m + 1 <= Len(s) =>
                 /\ s[b + m + 1] \in Nat /\ s[b + m + 1] <= 255
                 /\ Leading(s, b, m + 1) = 256 * Leading(s, b, m) + s[b + m + 1]
      BY LeadingFacts
    <3> HIDE DEF i, j
    <3> QED BY <1>1, <1>9, <3>1, <3>2
  <2>2. l + n = 8 + k
    BY <1>1, <1>9
  <2>3. Power(8 + k) = 256 * Power(k)
    <3> HIDE DEF k, l
    <3>1. Power(8 + k) = Power(8) * Power(k)
      BY <1>a, PowerSum
    <3> QED BY <3>1, Powers
  <2>4. w \div 256 = v
    <3> HIDE DEF v, w, x
    <3>1. x \in 0..(256 - 1) /\ v \in Int /\ 256 \in Nat \ {0}
      BY <1>2, <2>1
    <3>2. (256 * v + x) \div 256 = v
      BY <3>1, DivisionUnique
    <3> QED BY <2>1, <3>2
  <2>5. (w \div 256) \div Power(k) = w \div (256 * Power(k))
    <3> DEFINE c == Power(k)
               m == 256
    <3> HIDE DEF v, w, k, l, c
    <3>1. m \in Nat \ {0} /\ c \in Nat \ {0} /\ w \in Int
      BY <1>2, <1>3 DEF c
    <3> HIDE DEF m
    <3>2. (w \div m) \div c = w \div (m * c)
      BY <3>1, FloorFloor
    <3> QED BY <3>2, Zenon DEF c, m
  <2> HIDE DEF i, j, v, w, k, l
  <2> QED BY <1>4, <1>5, <1>6, <1>7, <2>2, <2>3, <2>4, <2>5
<1> QED BY <1>1, <1>8, <1>9

\* The first bits of the first bits.
LEMMA FirstPrefix ==
    ASSUME NEW s \in Seq(Byte), NEW b \in Nat, NEW q \in Nat, NEW n \in 0..32,
           b + Whole(q + n) <= Len(s)
    PROVE  /\ b + Whole(q) <= Len(s)
           /\ First(s, b, q) \in Nat /\ First(s, b, q + n) \in Nat
           /\ First(s, b, q) = First(s, b, q + n) \div Power(n)
<1> DEFINE F(m) == First(s, b, q + m)
           S == {m \in 0..n : F(m) \in Nat /\ F(0) = F(m) \div Power(m)}
<1>0. n \in Nat /\ n <= 32 /\ Len(s) \in Nat
  OBVIOUS
<1>1. ASSUME NEW m \in 0..n PROVE b + Whole(q + m) <= Len(s)
  BY <1>0 DEF Whole
<1>2. 0 \in S
  <2>1. b + Whole(q + 0) <= Len(s) /\ 0 \in 0..8 /\ 0 \in 0..n
    BY <1>0, <1>1
  <2>2. First(s, b, q) \in Nat
    BY <2>1, FirstMore
  <2>3. q + 0 = q
    OBVIOUS
  <2>4. F(0) \in Nat
    BY <2>2, <2>3
  <2> HIDE DEF F
  <2>5. F(0) \div 1 = F(0)
    BY <2>4
  <2> QED BY <2>1, <2>4, <2>5, Powers
<1>3. ASSUME NEW m \in 1..n, m - 1 \in S PROVE m \in S
  <2> DEFINE r == q + (m - 1)
  <2>1. m - 1 \in 0..31 /\ m \in 0..n /\ r \in Nat /\ r + 1 = q + m /\ 1 \in 0..8
    BY <1>0
  <2>2. b + Whole(r + 1) <= Len(s)
    BY <1>1, <2>1
  <2>3. First(s, b, r) = First(s, b, r + 1) \div Power(1) /\ First(s, b, r + 1) \in Nat
    <3> HIDE DEF r
    <3> QED BY <2>1, <2>2, FirstMore
  <2>4. F(m) \in Nat /\ F(m - 1) = F(m) \div Power(1)
    BY <2>1, <2>3
  <2>5. F(0) = F(m - 1) \div Power(m - 1)
    BY <1>3
  <2>6. Power(1) \in Nat \ {0} /\ Power(m - 1) \in Nat \ {0}
    <3>1. 1 \in 0..32 /\ m - 1 \in 0..32
      BY <2>1
    <3> QED BY <3>1, PowerType
  <2>7. Power(1) * Power(m - 1) = Power(m)
    <3>1. 1 \in Nat /\ m - 1 \in Nat /\ 1 + (m - 1) <= 32 /\ 1 + (m - 1) = m
      BY <2>1
    <3> QED BY <3>1, PowerSum
  <2> HIDE DEF F
  <2>8. (F(m) \div Power(1)) \div Power(m - 1) = F(m) \div (Power(1) * Power(m - 1))
    <3>1. F(m) \in Int
      BY <2>4
    <3> QED BY <2>6, <3>1, FloorFloor
  <2> QED BY <2>1, <2>4, <2>5, <2>7, <2>8
<1> HIDE DEF S
<1>4. 0..n \subseteq S
  BY <1>0, <1>2, <1>3, InductionTo
<1>5. n \in S /\ 0 \in S
  BY <1>0, <1>4
<1>6. q + 0 = q /\ 0 \in 0..n
  BY <1>0
<1>7. b + Whole(q + 0) <= Len(s)
  BY <1>1, <1>6
<1> QED BY <1>5, <1>6, <1>7 DEF S

-----------------------------------------------------------------------------
(* The window of the decoder: the bytes read, with the bits of them that   *)
(* have been used.                                                         *)
Window(s, b, q) == Leading(s, b, q \div 8) * Power(q % 8)

LEMMA WindowMore ==
    ASSUME NEW s \in Seq(Byte), NEW b \in Nat, NEW q \in Nat, NEW n \in 0..8,
           b + (q + n) \div 8 <= Len(s)
    PROVE  /\ Window(s, b, q) \in Nat
           /\ (q % 8) + n < 8 =>
                 /\ (q + n) \div 8 = q \div 8 /\ (q + n) % 8 = (q % 8) + n
                 /\ Window(s, b, q + n) = Window(s, b, q) * Power(n)
           /\ ~((q % 8) + n < 8) =>
                 /\ (q + n) \div 8 = q \div 8 + 1 /\ (q + n) % 8 = (q % 8) + n - 8
                 /\ b + q \div 8 + 1 <= Len(s)
                 /\ Window(s, b, q + n) = Window(s, b, q) * Power(n)
                        + s[b + q \div 8 + 1] * Power((q + n) % 8)
<1> DEFINE i == q \div 8
           k == q % 8
           j == (q + n) \div 8
           l == (q + n) % 8
           v == Leading(s, b, i)
           w == Leading(s, b, j)
<1>1. /\ i \in Nat /\ k \in 0..7 /\ q = 8 * i + k
      /\ j \in Nat /\ l \in 0..7 /\ q + n = 8 * j + l
  OBVIOUS
<1> HIDE DEF i, j, k, l
<1>2. (k + n < 8 /\ j = i /\ l = k + n) \/ (~(k + n < 8) /\ j = i + 1 /\ l = k + n - 8)
  BY <1>1
<1>3. v \in Nat
  <2>1. b + i <= Len(s)
    BY <1>1, <1>2 DEF j
  <2> QED BY <1>1, <2>1, LeadingFacts
<1>4. Power(k) \in Nat /\ Power(n) \in Nat /\ Power(l) \in Nat
  <2>1. k \in 0..32 /\ n \in 0..32 /\ l \in 0..32
    BY <1>1
  <2> QED BY <2>1, PowerType
<1>5. Power(k) * Power(n) = Power(k + n)
  <2>1. k \in Nat /\ n \in Nat /\ k + n <= 32
    BY <1>1
  <2> QED BY <2>1, PowerSum
<1> DEFINE pk == Power(k)
           pn == Power(n)
           pl == Power(l)
<1>6. Window(s, b, q) = v * pk /\ Window(s, b, q + n) = w * pl
  BY DEF Window, i, j, k, l
<1>7. CASE k + n < 8
  <2>1. w = v /\ pl = pk * pn
    BY <1>2, <1>5, <1>7
  <2> HIDE DEF v, w, pk, pn, pl
  <2>2. v * (pk * pn) = (v * pk) * pn /\ v * pk \in Nat
    BY <1>3, <1>4 DEF pk, pn
  <2>3. Window(s, b, q) \in Nat /\ Window(s, b, q + n) = Window(s, b, q) * Power(n)
    BY <1>6, <2>1, <2>2 DEF pn
  <2> QED BY <1>2, <1>7, <2>3 DEF i, j, k, l
<1>8. CASE ~(k + n < 8)
  <2> DEFINE x == s[b + i + 1]
  <2>1. j = i + 1 /\ b + i + 1 <= Len(s)
    BY <1>1, <1>2, <1>8 DEF j
  <2>2. x \in Nat /\ w = 256 * v + x
    <3>1. \A m \in Nat : b + m + 1 <= Len(s) =>
                 /\ s[b + m + 1] \in Nat /\ s[b + m + 1] <= 255
                 /\ Leading(s, b, m + 1) = 256 * Leading(s, b, m) + s[b + m + 1]
      BY LeadingFacts
    <3> QED BY <1>1, <2>1, <3>1
  <2>3. 256 * pl = pk * pn
    <3>1. 8 \in Nat /\ l \in Nat /\ 8 + l <= 32 /\ 8 + l = k + n
      BY <1>1, <1>2, <1>8
    <3>2. Power(8 + l) = Power(8) * Power(l)
      BY <3>1, PowerSum
    <3> QED BY <1>5, <3>1, <3>2, Powers
  <2> HIDE DEF v, w, x, pk, pn, pl
  <2>4. (256 * v + x) * pl = (v * pk) * pn + x * pl /\ v * pk \in Nat
    <3>1. pk \in Nat /\ pn \in Nat /\ pl \in Nat
      BY <1>4 DEF pk, pn, pl
    <3>2. (256 * v + x) * pl = v * (256 * pl) + x * pl
      BY <1>3, <2>2, <3>1
    <3>3. v * (pk * pn) = (v * pk) * pn
      BY <1>3, <3>1
    <3> QED BY <1>3, <2>3, <3>1, <3>2, <3>3
  <2>5. Window(s, b, q) \in Nat /\ Window(s, b, q + n) = Window(s, b, q) * Power(n) + x * Power(l)
    BY <1>6, <2>2, <2>4 DEF pn, pl
  <2> QED BY <1>2, <1>8, <2>1, <2>5 DEF i, j, k, l, x
<1> QED BY <1>7, <1>8

\* A comparison of the window is one of the first bits.
LEMMA WindowAtLeast ==
    ASSUME NEW s \in Seq(Byte), NEW b \in Nat, NEW q \in Nat, NEW t \in Int,
           b + Whole(q) <= Len(s)
    PROVE  /\ First(s, b, q) \in Nat /\ Window(s, b, q + 7) \in Nat
           /\ Window(s, b, q + 7) >= 128 * t <=> First(s, b, q) >= t
<1> DEFINE i == Whole(q)
           k == (q + 7) % 8
           l == 8 * i - q
           v == Leading(s, b, i)
<1>1. i \in Nat /\ k \in 0..7 /\ l \in 0..7 /\ k + l = 7 /\ (q + 7) \div 8 = i
  BY DEF Whole
<1>2. v \in Nat
  <2> HIDE DEF i
  <2> QED BY <1>1, LeadingFacts DEF i
<1>3. Window(s, b, q + 7) = v * Power(k) /\ First(s, b, q) = v \div Power(l)
  BY <1>1 DEF Window, First
<1> HIDE DEF i, k, l, v
<1> DEFINE pk == Power(k)
           pl == Power(l)
<1>4. pk \in Nat \ {0} /\ pl \in Nat \ {0}
  <2>1. k \in 0..32 /\ l \in 0..32
    BY <1>1
  <2> QED BY <2>1, PowerType
<1>5. pk * pl = 128
  <2>1. k \in Nat /\ l \in Nat /\ k + l <= 32
    BY <1>1
  <2>2. Power(k + l) = Power(k) * Power(l)
    BY <2>1, PowerSum
  <2> QED BY <1>1, <2>2, Powers
<1> HIDE DEF pk, pl
<1>6. v \div pl >= t <=> v >= pl * t
  BY <1>2, <1>4, FloorAtLeast
<1>7. pl * t \in Int
  BY <1>4
<1>8. v >= pl * t <=> pk * v >= pk * (pl * t)
  <2> DEFINE y == pl * t
  <2> HIDE DEF y
  <2>1. ASSUME v >= y PROVE pk * v >= pk * y
    BY <1>2, <1>4, <1>7, <2>1, Monotonic DEF y
  <2>2. ASSUME ~(v >= y) PROVE ~(pk * v >= pk * y)
    <3>1. y >= v + 1 /\ y \in Int
      BY <1>2, <1>7, <2>2 DEF y
    <3>2. pk * y >= pk * (v + 1)
      BY <1>2, <1>4, <3>1, Monotonic
    <3>3. pk * (v + 1) = pk * v + pk
      BY <1>2, <1>4, Distribute
    <3> QED BY <1>2, <1>4, <3>1, <3>2, <3>3
  <2> QED BY <2>1, <2>2 DEF y
<1>9. pk * (pl * t) = 128 * t
  <2>1. pk * (pl * t) = (pk * pl) * t
    BY <1>4
  <2> QED BY <1>5, <2>1
<1>10. v * pk = pk * v /\ v * pk \in Nat /\ v \div pl \in Nat
  <2>1. v \div pl \in Int /\ v * pk \in Nat /\ v * pk = pk * v
    BY <1>2, <1>4, Division
  <2>2. v \div pl >= 0
    <3>1. v >= pl * 0 /\ 0 \in Int
      BY <1>2, <1>4
    <3> QED BY <1>2, <1>4, <3>1, FloorAtLeast
  <2> QED BY <2>1, <2>2
<1> QED BY <1>3, <1>6, <1>8, <1>9, <1>10 DEF pk, pl

\* The registers of the decoder.
Decoder(v, range, k, s, i) ==
    [value |-> v, range |-> range, bitsNeeded |-> k, fifo |-> s, idx |-> i]

\* A decoder that has used q bits of the substream behind b and has x below its
\* interval.
Reader(s, b, q, x, range) ==
    Decoder(Window(s, b, q) - x, range, (q % 8) - 8, s, b + q \div 8)

Taken(v, range, k, s, i, n) ==
    IF k + n < 0 THEN Decoder(v * Power(n), range, k + n, s, i)
    ELSE Decoder(v * Power(n) + ByteAt(s, i) * Power(k + n), range, (k + n) - 8, s, i + 1)

LEMMA ConsumedRegisters ==
    ASSUME NEW v \in Int, NEW range, NEW k \in Int, NEW s, NEW i \in Int, NEW n \in Nat
    PROVE  Consumed(Decoder(v, range, k, s, i), n) = Taken(v, range, k, s, i, n)
<1> DEFINE d == Decoder(v, range, k, s, i)
           y == v * Power(n)
           r == k + n
           next == [d EXCEPT !.value = @ * Power(n), !.bitsNeeded = @ + n]
           z == y + ByteAt(s, i) * Power(r)
           fetched == [next EXCEPT !.value = @ + ByteAt(next.fifo, next.idx) * Power(r), !.idx = @ + 1]
<1>1. Consumed(d, n) = IF next.bitsNeeded < 0 THEN next
                       ELSE [Fetch(next, next.bitsNeeded) EXCEPT !.bitsNeeded = @ - 8]
  BY Zenon DEF Consumed, Power
<1>2. next = Decoder(y, range, r, s, i)
  <2> HIDE DEF y, r
  <2>1. d.value * Power(n) = y /\ d.bitsNeeded + n = r
    BY DEF y, r, Decoder
  <2>2. next = [d EXCEPT !.value = y, !.bitsNeeded = r]
    BY <2>1, Zenon
  <2> HIDE DEF next
  <2> QED BY <2>2 DEF Decoder
<1>3. Fetch(next, r) = fetched
  BY Zenon DEF Fetch, Power
<1> HIDE DEF next, d
<1>4. fetched = Decoder(z, range, r, s, i + 1)
  <2>1. next.value + ByteAt(next.fifo, next.idx) * Power(r) = z /\ next.idx + 1 = i + 1
    <3>1. next.value = y /\ next.fifo = s /\ next.idx = i
      BY <1>2 DEF Decoder
    <3> HIDE DEF y, r
    <3> QED BY <3>1, Zenon
  <2> HIDE DEF z, r, y
  <2>2. fetched = [next EXCEPT !.value = z, !.idx = i + 1]
    BY <2>1, Zenon
  <2> HIDE DEF fetched
  <2> QED BY <1>2, <2>2 DEF Decoder
<1> HIDE DEF fetched, z
<1>5. r \in Int /\ next.bitsNeeded = r
  BY <1>2 DEF Decoder
<1> HIDE DEF r, y
<1>6. CASE r < 0
  <2>1. Consumed(d, n) = next
    BY <1>1, <1>5, <1>6
  <2>2. Consumed(d, n) = IF r < 0 THEN Decoder(y, range, r, s, i)
                         ELSE Decoder(z, range, r - 8, s, i + 1)
    BY <1>2, <1>6, <2>1
  <2> QED BY <2>2, Zenon DEF Taken, r, y, z, d
<1>7. CASE ~(r < 0)
  <2>1. Consumed(d, n) = [fetched EXCEPT !.bitsNeeded = @ - 8]
    BY <1>1, <1>3, <1>5, <1>7, Zenon
  <2>2. [fetched EXCEPT !.bitsNeeded = @ - 8] = Decoder(z, range, r - 8, s, i + 1)
    BY <1>4 DEF Decoder
  <2>3. Consumed(d, n) = IF r < 0 THEN Decoder(y, range, r, s, i)
                         ELSE Decoder(z, range, r - 8, s, i + 1)
    BY <1>7, <2>1, <2>2
  <2> QED BY <2>3, Zenon DEF Taken, r, y, z, d
<1> QED BY <1>6, <1>7

Reads(s, b, q, n, x, range) ==
    Consumed(Reader(s, b, q, x, range), n) = Reader(s, b, q + n, x * Power(n), range)

LEMMA ReaderConsumed ==
    ASSUME NEW s \in Seq(Byte), NEW b \in Nat, NEW q \in Nat, NEW n \in 0..8,
           NEW x \in Int, NEW range, b + (q + n) \div 8 <= Len(s)
    PROVE  Reads(s, b, q, n, x, range)
<1> DEFINE k == q % 8
           i == q \div 8
           l == (q + n) % 8
           j == (q + n) \div 8
           v == Window(s, b, q)
           w == Window(s, b, q + n)
           pn == Power(n)
           byte == ByteAt(s, b + i)
           r == (k - 8) + n
           c == Consumed(Reader(s, b, q, x, range), n)
<1>1. k \in 0..7 /\ i \in Nat /\ n \in Nat /\ n <= 8 /\ l \in 0..7
  OBVIOUS
<1>2. pn \in Nat /\ v \in Nat
  <2>1. n \in 0..32
    OBVIOUS
  <2> QED BY <2>1, PowerType, WindowMore
<1>3. c = IF r < 0 THEN Decoder((v - x) * pn, range, r, s, b + i)
          ELSE Decoder((v - x) * pn + byte * Power(r), range, r - 8, s, b + i + 1)
  <2>1. v - x \in Int /\ k - 8 \in Int /\ b + i \in Int /\ n \in Nat
    BY <1>1, <1>2
  <2>2. Reader(s, b, q, x, range) = Decoder(v - x, range, k - 8, s, b + i)
    BY Zenon DEF Reader
  <2> DEFINE y == v - x
             o == k - 8
             m == b + i
  <2> HIDE DEF v, k, i, y, o, m
  <2>3. Consumed(Decoder(y, range, o, s, m), n) = Taken(y, range, o, s, m, n)
    <3>1. y \in Int /\ o \in Int /\ m \in Int /\ n \in Nat
      BY <2>1 DEF y, o, m
    <3> QED BY <3>1, ConsumedRegisters
  <2> QED BY <2>2, <2>3, Zenon DEF Taken, v, k, i, y, o, m
<1>4. Reader(s, b, q + n, x * pn, range) = Decoder(w - x * pn, range, l - 8, s, b + j)
  BY Zenon DEF Reader
<1>5. /\ k + n < 8 => j = i /\ l = k + n /\ w = v * pn
      /\ ~(k + n < 8) => /\ j = i + 1 /\ l = k + n - 8 /\ b + i + 1 <= Len(s)
                         /\ w = v * pn + s[b + i + 1] * Power(l)
  BY WindowMore
<1>6. ASSUME b + i + 1 <= Len(s) PROVE byte = s[b + i + 1] /\ byte \in Int
  <2> DEFINE o == b + i
  <2>1. \A m \in Nat : b + m + 1 <= Len(s) => s[b + m + 1] \in Nat
    BY LeadingFacts
  <2>2. o \in Nat /\ o < Len(s)
    BY <1>1, <1>6
  <2>3. s[o + 1] \in Nat
    <3> HIDE DEF i
    <3> QED BY <1>1, <1>6, <2>1
  <2> HIDE DEF o
  <2>4. ByteAt(s, o) = s[o + 1]
    BY <2>2, Zenon DEF ByteAt
  <2>5. ByteAt(s, o) \in Int
    BY <2>3, <2>4
  <2> QED BY <2>4, <2>5 DEF o
<1>7. (v - x) * pn = v * pn - x * pn /\ v * pn \in Int /\ x * pn \in Int
  BY <1>2
<1>8. Power(l) \in Int
  <2> HIDE DEF l
  <2>1. l \in 0..32
    BY <1>1
  <2>2. Power(l) \in Nat \ {0}
    BY <2>1, PowerType, Zenon
  <2> QED BY <2>2
<1> HIDE DEF k, i, l, j, v, w, pn, byte, r, c
<1>9. CASE k + n < 8
  <2>1. r < 0 /\ r = l - 8 /\ b + i = b + j /\ (v - x) * pn = w - x * pn
    BY <1>1, <1>5, <1>7, <1>9 DEF r
  <2>2. c = Reader(s, b, q + n, x * pn, range)
    BY <1>3, <1>4, <2>1, Zenon
  <2> QED BY <2>2, Zenon DEF Reads, c, pn
<1>10. CASE ~(k + n < 8)
  <2>1. ~(r < 0) /\ r = l /\ b + i + 1 = b + j
    BY <1>1, <1>5, <1>10 DEF r
  <2>2. (v - x) * pn + byte * Power(l) = w - x * pn
    <3> DEFINE y == byte * Power(l)
    <3>1. y \in Int /\ w = v * pn + y
      BY <1>5, <1>6, <1>8, <1>10
    <3> HIDE DEF y
    <3> QED BY <1>7, <3>1 DEF y
  <2>3. c = Reader(s, b, q + n, x * pn, range)
    BY <1>3, <1>4, <2>1, <2>2, Zenon
  <2> QED BY <2>3, Zenon DEF Reads, c, pn
<1> QED BY <1>9, <1>10

Changes(s, b, q, x, range, y, r) ==
    LET d == Reader(s, b, q, x, range)
    IN  /\ d.value = Window(s, b, q) - x /\ d.range = range
        /\ [d EXCEPT !.value = @ - y, !.range = r] = Reader(s, b, q, x + y, r)
        /\ [d EXCEPT !.value = @ - y] = Reader(s, b, q, x + y, range)
        /\ [d EXCEPT !.range = r] = Reader(s, b, q, x, r)

LEMMA ReaderChanged ==
    ASSUME NEW s, NEW b, NEW q, NEW x \in Int, NEW y \in Int, NEW range, NEW r,
           Window(s, b, q) \in Int
    PROVE  Changes(s, b, q, x, range, y, r)
<1> DEFINE d == Reader(s, b, q, x, range)
           w == Window(s, b, q)
           k == (q % 8) - 8
           i == b + q \div 8
<1>1. d = [value |-> w - x, range |-> range, bitsNeeded |-> k, fifo |-> s, idx |-> i]
  BY Zenon DEF Reader, Decoder
<1>2. /\ Reader(s, b, q, x + y, r)
           = [value |-> w - (x + y), range |-> r, bitsNeeded |-> k, fifo |-> s, idx |-> i]
      /\ Reader(s, b, q, x + y, range)
           = [value |-> w - (x + y), range |-> range, bitsNeeded |-> k, fifo |-> s, idx |-> i]
      /\ Reader(s, b, q, x, r)
           = [value |-> w - x, range |-> r, bitsNeeded |-> k, fifo |-> s, idx |-> i]
  BY Zenon DEF Reader, Decoder
<1>3. (w - x) - y = w - (x + y)
  BY DEF w
<1> DEFINE v == w - x
<1> HIDE DEF d, w, k, i
<1>4. v - y = w - (x + y)
  BY <1>3
<1> HIDE DEF v
<1> DEFINE u == w - (x + y)
<1>5. [d EXCEPT !.value = v - y, !.range = r] = Reader(s, b, q, x + y, r)
      /\ [d EXCEPT !.value = v - y] = Reader(s, b, q, x + y, range)
      /\ [d EXCEPT !.range = r] = Reader(s, b, q, x, r)
  <2>1. v - y = u
    BY <1>4
  <2>2. d = [value |-> v, range |-> range, bitsNeeded |-> k, fifo |-> s, idx |-> i]
        /\ Reader(s, b, q, x, r)
             = [value |-> v, range |-> r, bitsNeeded |-> k, fifo |-> s, idx |-> i]
    BY <1>1, <1>2, Zenon DEF v
  <2>3. /\ Reader(s, b, q, x + y, r)
           = [value |-> u, range |-> r, bitsNeeded |-> k, fifo |-> s, idx |-> i]
        /\ Reader(s, b, q, x + y, range)
           = [value |-> u, range |-> range, bitsNeeded |-> k, fifo |-> s, idx |-> i]
    BY <1>2, Zenon DEF u
  <2> HIDE DEF u
  <2>4. [d EXCEPT !.value = u, !.range = r] = Reader(s, b, q, x + y, r)
    <3> DEFINE e == [d EXCEPT !.value = u]
    <3>1. e = [value |-> u, range |-> range, bitsNeeded |-> k, fifo |-> s, idx |-> i]
      BY <2>2
    <3> HIDE DEF e
    <3>2. [e EXCEPT !.range = r] = [value |-> u, range |-> r, bitsNeeded |-> k, fifo |-> s, idx |-> i]
      BY <3>1
    <3>3. [d EXCEPT !.value = u, !.range = r] = [e EXCEPT !.range = r]
      BY Zenon DEF e
    <3> QED BY <2>3, <3>2, <3>3, Zenon
  <2>5. [d EXCEPT !.value = u] = Reader(s, b, q, x + y, range)
    BY <2>2, <2>3
  <2>6. [d EXCEPT !.range = r] = Reader(s, b, q, x, r)
    BY <2>2
  <2> QED BY <2>1, <2>4, <2>5, <2>6, Zenon
<1>6. d.value = v /\ d.range = range
  BY <1>1 DEF v
<1> QED BY <1>5, <1>6, Zenon DEF Changes, d, v, w

-----------------------------------------------------------------------------
(* What has been coded: low of so many bits, and the interval above it.    *)
Codes == [low : Nat, bits : Nat, range : Nat]

\* A part of the interval, moved up by n bits.
Part(c, add, part, n) ==
    [low |-> (c.low + add) * Power(n), bits |-> c.bits + n, range |-> part * Power(n)]

\* The substream behind b starts with a number of the interval.
Within(c, s, b) ==
    /\ b + Whole(c.bits) <= Len(s)
    /\ c.low <= First(s, b, c.bits) /\ First(s, b, c.bits) < c.low + c.range

\* The decoder when it has decoded what has been coded.
Tracker(c, s, b) == Reader(s, b, c.bits + 7, 128 * c.low, c.range)

LEMMA PartType ==
    ASSUME NEW c \in Codes, NEW add \in Nat, NEW part \in Nat, NEW n \in 0..32
    PROVE  Part(c, add, part, n) \in Codes
<1>1. c.low \in Nat /\ c.bits \in Nat /\ Power(n) \in Nat /\ n \in Nat
  BY PowerType DEF Codes
<1> DEFINE p == Power(n)
<1> HIDE DEF p
<1>2. (c.low + add) * p \in Nat /\ c.bits + n \in Nat /\ part * p \in Nat
  BY <1>1 DEF p
<1> QED BY <1>2 DEF Part, Codes, p

LEMMA PartWithin ==
    ASSUME NEW s \in Seq(Byte), NEW b \in Nat, NEW c \in Codes,
           NEW add \in Nat, NEW part \in Nat, NEW n \in 0..32,
           Within(Part(c, add, part, n), s, b)
    PROVE  /\ b + Whole(c.bits) <= Len(s)
           /\ First(s, b, c.bits) \in Nat
           /\ c.low + add <= First(s, b, c.bits)
           /\ First(s, b, c.bits) < (c.low + add) + part
           /\ add + part <= c.range => Within(c, s, b)
<1> DEFINE q == c.bits
           f == First(s, b, q)
           g == First(s, b, q + n)
           p == Power(n)
           t == c.low + add
<1>1. q \in Nat /\ c.low \in Nat /\ c.range \in Nat /\ t \in Nat
  BY DEF Codes
<1>2. p \in Nat \ {0}
  BY PowerType
<1>3. b + Whole(q + n) <= Len(s) /\ t * p <= g /\ g < t * p + part * p
  BY DEF Within, Part
<1>4. b + Whole(q) <= Len(s) /\ f \in Nat /\ g \in Nat /\ f = g \div p
  <2> HIDE DEF q, p, t
  <2>1. q \in Nat /\ b + Whole(q + n) <= Len(s)
    BY <1>1, <1>3
  <2> QED BY <2>1, FirstPrefix DEF p
<1> HIDE DEF q, f, g, p, t
<1>5. g \div p >= t <=> g >= p * t
  BY <1>1, <1>2, <1>4, FloorAtLeast
<1>6. g \div p >= t + part <=> g >= p * (t + part)
  <2> DEFINE u == t + part
  <2>1. u \in Int
    BY <1>1
  <2> HIDE DEF u
  <2>2. g \div p >= u <=> g >= p * u
    BY <1>2, <1>4, <2>1, FloorAtLeast
  <2> QED BY <2>2 DEF u
<1>7. p * t = t * p /\ p * (t + part) = t * p + part * p /\ t * p \in Nat /\ part * p \in Nat
  BY <1>1, <1>2
<1>8. t <= f /\ f < t + part
  BY <1>1, <1>3, <1>4, <1>5, <1>6, <1>7
<1>9. ASSUME add + part <= c.range PROVE Within(c, s, b)
  <2>1. c.low <= f /\ f < c.low + c.range
    <3>1. f \in Nat /\ t = c.low + add
      BY <1>4 DEF t
    <3> DEFINE l == c.low
               m == c.range
    <3>2. l \in Nat /\ m \in Nat /\ t = l + add /\ add + part <= m
      BY <1>1, <1>9, <3>1
    <3> HIDE DEF l, m
    <3>3. l <= f /\ f < l + m
      BY <1>8, <3>1, <3>2
    <3> QED BY <3>3 DEF l, m
  <2> QED BY <1>4, <2>1 DEF Within, f, q
<1> QED BY <1>4, <1>8, <1>9 DEF f, q, t

LEMMA TrackerCompares ==
    ASSUME NEW s \in Seq(Byte), NEW b \in Nat, NEW c \in Codes, NEW t \in Nat,
           b + Whole(c.bits) <= Len(s)
    PROVE  /\ Window(s, b, c.bits + 7) \in Int /\ First(s, b, c.bits) \in Nat
           /\ Tracker(c, s, b).value \in Int /\ Tracker(c, s, b).range = c.range
           /\ Tracker(c, s, b).value >= t * 128 <=> First(s, b, c.bits) >= c.low + t
<1> DEFINE w == Window(s, b, c.bits + 7)
           f == First(s, b, c.bits)
           l == c.low
           u == c.low + t
<1>1. c.bits \in Nat /\ l \in Nat /\ u \in Int
  BY DEF Codes
<1>2. f \in Nat /\ w \in Nat /\ (w >= 128 * u <=> f >= u)
  <2> HIDE DEF u
  <2> QED BY <1>1, WindowAtLeast
<1>3. Tracker(c, s, b).value = w - 128 * l /\ Tracker(c, s, b).range = c.range
  BY DEF Tracker, Reader, Decoder
<1> HIDE DEF w, f, l
<1>4. 128 * u = 128 * l + t * 128
  BY <1>1 DEF l
<1>5. w - 128 * l >= t * 128 <=> w >= 128 * u
  <2> HIDE DEF u
  <2> QED BY <1>1, <1>2, <1>4
<1>6. w - 128 * l \in Int
  BY <1>1, <1>2
<1> QED BY <1>1, <1>2, <1>3, <1>5, <1>6 DEF w, f

Advances(c, add, part, n, s, b) ==
    Consumed(Reader(s, b, c.bits + 7, 128 * c.low + add * 128, part * Power(n)), n)
        = Tracker(Part(c, add, part, n), s, b)

LEMMA PartTracked ==
    ASSUME NEW s \in Seq(Byte), NEW b \in Nat, NEW c \in Codes,
           NEW add \in Nat, NEW part \in Nat, NEW n \in 0..8,
           b + Whole(c.bits + n) <= Len(s)
    PROVE  Advances(c, add, part, n, s, b)
<1> DEFINE q == c.bits + 7
           x == 128 * c.low + add * 128
           r == part * Power(n)
<1>1. c.bits \in Nat /\ c.low \in Nat /\ q \in Nat /\ x \in Int
  BY DEF Codes
<1>2. q + n = (c.bits + n) + 7 /\ b + (q + n) \div 8 <= Len(s)
  <2> DEFINE o == c.bits
  <2> HIDE DEF o
  <2>1. (o + 7) + n = (o + n) + 7
    BY <1>1 DEF o
  <2>2. Whole(o + n) = ((o + n) + 7) \div 8
    BY Zenon DEF Whole
  <2>3. b + Whole(o + n) <= Len(s)
    BY DEF o
  <2> QED BY <2>1, <2>2, <2>3, Zenon DEF o
<1>3. Consumed(Reader(s, b, q, x, r), n) = Reader(s, b, q + n, x * Power(n), r)
  <2> HIDE DEF q, x, r
  <2>1. q \in Nat /\ x \in Int /\ b + (q + n) \div 8 <= Len(s)
    BY <1>1, <1>2
  <2>2. Reads(s, b, q, n, x, r)
    BY <2>1, ReaderConsumed
  <2> QED BY <2>2, Zenon DEF Reads
<1>4. x * Power(n) = 128 * ((c.low + add) * Power(n))
  <2> DEFINE p == Power(n)
             l == c.low
  <2>1. p \in Nat /\ l \in Nat
    <3>1. n \in 0..32
      OBVIOUS
    <3> QED BY <1>1, <3>1, PowerType
  <2> HIDE DEF p, l
  <2>2. (128 * l + add * 128) * p = 128 * ((l + add) * p)
    BY <2>1
  <2> QED BY <2>2 DEF p, l
<1>5. Tracker(Part(c, add, part, n), s, b)
        = Reader(s, b, (c.bits + n) + 7, 128 * ((c.low + add) * Power(n)), r)
  BY DEF Tracker, Part
<1> QED BY <1>2, <1>3, <1>4, <1>5, Zenon DEF Advances

-----------------------------------------------------------------------------
(* A bin with a context. *)
ContextCode(c, m, bin) ==
    LET lps  == getLPS(m, c.range)
        rest == c.range - lps
    IN  CASE bin # mps(m) -> Part(c, rest, lps, getRenormBitsLPS(lps))
          [] bin = mps(m) /\ rest < 256 -> Part(c, 0, rest, 1)
          [] OTHER -> Part(c, 0, rest, 0)

Answer(bins, d) == [bins |-> bins, dec |-> d]

\* A code whose interval is a part of that of c, and what decodes it.
Decodes(c, x, r, bins, s, b) ==
    Within(x, s, b) => Within(c, s, b) /\ r = Answer(bins, Tracker(x, s, b))

Ranged(c) == c \in Codes /\ 256 <= c.range /\ c.range <= 510

LEMMA ContextDecoded ==
    ASSUME NEW s \in Seq(Byte), NEW b \in Nat, NEW c, Ranged(c),
           NEW m \in ProbModel, NEW bin \in 0..1
    PROVE  /\ Decodes(c, ContextCode(c, m, bin), decodeBin(Tracker(c, s, b), m), bin, s, b)
           /\ Ranged(ContextCode(c, m, bin))
<1> DEFINE lps == getLPS(m, c.range)
           rest == c.range - lps
           n == getRenormBitsLPS(lps)
           small == lps * Power(n)
           double == rest * Power(1)
           d == Tracker(c, s, b)
           x == ContextCode(c, m, bin)
           less == d.value >= rest * 128
           next == CASE less -> Consumed([d EXCEPT !.value = @ - rest * 128, !.range = small], n)
                     [] ~less /\ rest < 256 -> Consumed([d EXCEPT !.range = double], 1)
                     [] OTHER -> [d EXCEPT !.range = rest]
           f == First(s, b, c.bits)
<1>1. /\ c \in Codes /\ c.range \in Nat /\ 256 <= c.range /\ c.range <= 510
      /\ c.low \in Nat /\ c.bits \in Nat
  BY DEF Codes, Ranged
<1>2. lps \in Nat /\ 4 <= lps /\ lps <= 236 /\ rest >= 128
  BY <1>1, LpsBounds
<1> HIDE DEF lps
<1>3. n \in 1..6 /\ small \in Nat /\ 256 <= small /\ small <= 510
  BY <1>2, RenormBits
<1> HIDE DEF n
<1>4. x = CASE bin # mps(m) -> Part(c, rest, lps, n)
            [] bin = mps(m) /\ rest < 256 -> Part(c, 0, rest, 1)
            [] OTHER -> Part(c, 0, rest, 0)
  BY Zenon DEF ContextCode, lps, n
<1>5. mps(m) \in 0..1
  <2>1. state(m) \in Int /\ 0 <= state(m) /\ state(m) <= 255
    BY StateType
  <2> QED BY <2>1 DEF mps
<1>6. rest \in Nat /\ rest + lps = c.range /\ rest <= 506
  BY <1>1, <1>2
<1>7. d.range = c.range
  BY DEF Tracker, Reader, Decoder
<1>8. decodeBin(d, m) = Answer(IF less THEN 1 - mps(m) ELSE mps(m), next)
  <2>1. getLPS(m, d.range) = lps
    BY <1>7 DEF lps
  <2> HIDE DEF d
  <2> QED BY <1>7, <2>1, Zenon DEF decodeBin, Answer, getRenormBitsRange, Power, n
<1>9. Ranged(x)
  <2>1. Power(1) = 2 /\ Power(0) = 1 /\ 0 \in 0..32 /\ 1 \in 0..32 /\ n \in 0..32 /\ 0 \in Nat
    BY <1>3, Powers
  <2>2. /\ Part(c, rest, lps, n).range = small /\ Part(c, 0, rest, 1).range = double
        /\ Part(c, 0, rest, 0).range = rest * Power(0)
    BY DEF Part
  <2>3. /\ Part(c, rest, lps, n) \in Codes /\ Part(c, 0, rest, 1) \in Codes
        /\ Part(c, 0, rest, 0) \in Codes
    <3> HIDE DEF rest
    <3> QED BY <1>1, <1>2, <1>6, <2>1, PartType
  <2>4. CASE bin # mps(m)
    <3>1. x = Part(c, rest, lps, n)
      BY <1>4, <2>4
    <3> HIDE DEF small, x
    <3> QED BY <1>3, <2>2, <2>3, <3>1 DEF Ranged
  <2>5. CASE bin = mps(m) /\ rest < 256
    <3>1. x = Part(c, 0, rest, 1)
      BY <1>4, <2>5
    <3>2. double \in Nat /\ 256 <= double /\ double <= 510
      BY <1>2, <1>6, <2>1, <2>5
    <3> HIDE DEF double, x
    <3> QED BY <2>2, <2>3, <3>1, <3>2 DEF Ranged
  <2>6. CASE ~(bin # mps(m)) /\ ~(rest < 256)
    <3>1. x = Part(c, 0, rest, 0)
      BY <1>4, <2>6
    <3>2. rest * Power(0) = rest /\ 256 <= rest /\ rest <= 510
      BY <1>6, <2>1, <2>6
    <3> HIDE DEF rest, x
    <3> QED BY <2>2, <2>3, <3>1, <3>2 DEF Ranged
  <2> QED BY <2>4, <2>5, <2>6
<1>10. ASSUME Within(x, s, b)
       PROVE  Within(c, s, b) /\ decodeBin(d, m) = Answer(bin, Tracker(x, s, b))
  <2> DEFINE q == c.bits + 7
             l == 128 * c.low
  <2>0. 0 \in 0..32 /\ 1 \in 0..32 /\ n \in 0..32 /\ 0 \in 0..8 /\ 1 \in 0..8 /\ n \in 0..8 /\ 0 \in Nat
        /\ l \in Int /\ rest * 128 \in Int
    BY <1>1, <1>3, <1>6
  <2>1. d = Reader(s, b, q, l, c.range)
    BY DEF Tracker
  <2>2. ASSUME b + Whole(c.bits) <= Len(s)
        PROVE  /\ f \in Nat /\ (less <=> f >= c.low + rest)
               /\ [d EXCEPT !.value = @ - rest * 128, !.range = small] = Reader(s, b, q, l + rest * 128, small)
               /\ [d EXCEPT !.range = double] = Reader(s, b, q, l, double)
               /\ [d EXCEPT !.range = rest] = Reader(s, b, q, l, rest)
    <3>1. Window(s, b, q) \in Int /\ f \in Nat /\ (less <=> f >= c.low + rest)
      <4> HIDE DEF rest
      <4> QED BY <1>1, <1>6, <2>2, TrackerCompares
    <3> HIDE DEF q, l, rest, small, double
    <3>2. ASSUME NEW y \in Int, NEW r
          PROVE  /\ [d EXCEPT !.value = @ - y, !.range = r] = Reader(s, b, q, l + y, r)
                 /\ [d EXCEPT !.range = r] = Reader(s, b, q, l, r)
      <4>1. Changes(s, b, q, l, c.range, y, r)
        BY <2>0, <3>1, ReaderChanged
      <4> QED BY <2>1, <4>1, Zenon DEF Changes
    <3> QED BY <2>0, <3>1, <3>2
  <2>3. CASE bin # mps(m)
    <3>1. x = Part(c, rest, lps, n)
      BY <1>4, <2>3
    <3>2. /\ b + Whole(c.bits) <= Len(s) /\ c.low + rest <= f /\ Within(c, s, b)
      <4> HIDE DEF rest, x
      <4>1. Within(Part(c, rest, lps, n), s, b)
        BY <1>10, <3>1
      <4>2. rest + lps <= c.range
        BY <1>1, <1>6
      <4> QED BY <1>1, <1>2, <1>6, <2>0, <4>1, <4>2, PartWithin
    <3>3. less
      BY <1>1, <1>6, <2>2, <3>2
    <3>4. next = Consumed([d EXCEPT !.value = @ - rest * 128, !.range = small], n)
      BY <3>3
    <3>5. b + Whole(c.bits + n) <= Len(s)
      BY <1>10, <3>1 DEF Within, Part
    <3>6. Consumed(Reader(s, b, q, l + rest * 128, small), n) = Tracker(x, s, b)
      <4> HIDE DEF rest, x
      <4>1. Advances(c, rest, lps, n, s, b)
        BY <1>1, <1>2, <1>6, <2>0, <3>5, PartTracked
      <4> QED BY <3>1, <4>1, Zenon DEF Advances
    <3>7. bin = 1 - mps(m)
      BY <1>5, <2>3
    <3> HIDE DEF next, x, less, d
    <3> QED BY <1>8, <2>2, <3>2, <3>3, <3>4, <3>6, <3>7
  <2>4. CASE bin = mps(m) /\ rest < 256
    <3>1. x = Part(c, 0, rest, 1)
      BY <1>4, <2>4
    <3>2. /\ b + Whole(c.bits) <= Len(s) /\ f < (c.low + 0) + rest /\ Within(c, s, b)
      <4> HIDE DEF rest, x
      <4>1. Within(Part(c, 0, rest, 1), s, b)
        BY <1>10, <3>1
      <4>2. 0 + rest <= c.range
        BY <1>1, <1>2, <1>6
      <4> QED BY <1>1, <1>6, <2>0, <4>1, <4>2, PartWithin
    <3>3. ~less
      BY <1>1, <1>6, <2>2, <3>2
    <3>4. next = Consumed([d EXCEPT !.range = double], 1)
      BY <2>4, <3>3
    <3>5. b + Whole(c.bits + 1) <= Len(s)
      BY <1>10, <3>1 DEF Within, Part
    <3>6. Consumed(Reader(s, b, q, l, double), 1) = Tracker(x, s, b)
      <4>1. l + 0 * 128 = l
        BY <2>0
      <4> HIDE DEF rest, x
      <4>2. Consumed(Reader(s, b, q, l + 0 * 128, double), 1) = Tracker(x, s, b)
        <5>1. Advances(c, 0, rest, 1, s, b)
          BY <1>1, <1>6, <2>0, <3>5, PartTracked
        <5> QED BY <3>1, <5>1, Zenon DEF Advances
      <4> QED BY <4>1, <4>2
    <3> HIDE DEF next, x, less, d
    <3> QED BY <1>8, <2>2, <2>4, <3>2, <3>3, <3>4, <3>6
  <2>5. CASE ~(bin # mps(m)) /\ ~(rest < 256)
    <3>1. x = Part(c, 0, rest, 0)
      BY <1>4, <2>5
    <3>2. /\ b + Whole(c.bits) <= Len(s) /\ f < (c.low + 0) + rest /\ Within(c, s, b)
      <4> HIDE DEF rest, x
      <4>1. Within(Part(c, 0, rest, 0), s, b)
        BY <1>10, <3>1
      <4>2. 0 + rest <= c.range
        BY <1>1, <1>2, <1>6
      <4> QED BY <1>1, <1>6, <2>0, <4>1, <4>2, PartWithin
    <3>3. ~less
      BY <1>1, <1>6, <2>2, <3>2
    <3>4. next = [d EXCEPT !.range = rest]
      BY <2>5, <3>3
    <3>5. Reader(s, b, q, l, rest) = Tracker(x, s, b)
      <4>1. /\ 128 * ((c.low + 0) * Power(0)) = l /\ (c.bits + 0) + 7 = q
            /\ rest * Power(0) = rest
        <5> DEFINE y == c.low
                   o == c.bits
        <5>1. y \in Nat /\ o \in Nat /\ rest \in Nat /\ Power(0) = 1
          BY <1>1, <1>6, Powers
        <5> HIDE DEF y, o, rest
        <5>2. 128 * ((y + 0) * 1) = 128 * y /\ (o + 0) + 7 = o + 7 /\ rest * 1 = rest
          BY <5>1
        <5> QED BY <5>1, <5>2, Zenon DEF y, o
      <4>2. Tracker(x, s, b)
              = Reader(s, b, (c.bits + 0) + 7, 128 * ((c.low + 0) * Power(0)), rest * Power(0))
        BY <3>1 DEF Tracker, Part
      <4> QED BY <4>1, <4>2
    <3> HIDE DEF next, x, less, d
    <3> QED BY <1>8, <2>2, <2>5, <3>2, <3>3, <3>4, <3>5
  <2> QED BY <2>3, <2>4, <2>5
<1> QED BY <1>9, <1>10 DEF Decodes

-----------------------------------------------------------------------------
(* Bypass bins: a value of n bits selects a part of the interval.          *)
Bypass(c, bins, n) ==
    [low |-> c.low * Power(n) + c.range * bins, bits |-> c.bits + n, range |-> c.range]

LEMMA BypassType ==
    ASSUME NEW c, Ranged(c), NEW bins \in Nat, NEW n \in 0..32
    PROVE  Ranged(Bypass(c, bins, n))
<1> DEFINE p == Power(n)
           l == c.low
           m == c.range
<1>1. l \in Nat /\ c.bits \in Nat /\ p \in Nat /\ n \in Nat /\ m \in Nat /\ 256 <= m /\ m <= 510
  BY PowerType DEF Codes, Ranged
<1> HIDE DEF p, l, m
<1>2. l * p + m * bins \in Nat /\ c.bits + n \in Nat
  BY <1>1
<1>3. Bypass(c, bins, n) = [low |-> l * p + m * bins, bits |-> c.bits + n, range |-> m]
  BY Zenon DEF Bypass, p, l, m
<1> DEFINE low == l * p + m * bins
           bits == c.bits + n
<1>4. low \in Nat /\ bits \in Nat
  BY <1>2
<1> HIDE DEF low, bits
<1>5. Bypass(c, bins, n) = [low |-> low, bits |-> bits, range |-> m]
  BY <1>3, Zenon DEF low, bits
<1> QED BY <1>1, <1>4, <1>5 DEF Codes, Ranged

LEMMA BypassWithin ==
    ASSUME NEW s \in Seq(Byte), NEW b \in Nat, NEW c, Ranged(c),
           NEW bins \in Nat, NEW n \in 0..32, bins < Power(n),
           Within(Bypass(c, bins, n), s, b)
    PROVE  Within(c, s, b)
<1> DEFINE q == c.bits
           f == First(s, b, q)
           g == First(s, b, q + n)
           p == Power(n)
           l == c.low
           m == c.range
<1>1. q \in Nat /\ l \in Nat /\ m \in Nat
  BY DEF Codes, Ranged
<1>2. p \in Nat \ {0} /\ bins + 1 <= p
  <2>1. p \in Nat \ {0}
    BY PowerType
  <2> QED BY <2>1
<1>3. b + Whole(q + n) <= Len(s) /\ l * p + m * bins <= g /\ g < (l * p + m * bins) + m
  BY DEF Within, Bypass
<1>4. b + Whole(q) <= Len(s) /\ f \in Nat /\ g \in Nat /\ f = g \div p
  <2> HIDE DEF q, p, l, m
  <2>1. q \in Nat /\ b + Whole(q + n) <= Len(s)
    BY <1>1, <1>3
  <2> QED BY <2>1, FirstPrefix DEF p
<1> HIDE DEF q, f, g, p, l, m
<1>5. g \div p >= l <=> g >= p * l
  BY <1>1, <1>2, <1>4, FloorAtLeast
<1>6. g \div p >= l + m <=> g >= p * (l + m)
  <2> DEFINE u == l + m
  <2>1. u \in Int
    BY <1>1
  <2> HIDE DEF u
  <2>2. g \div p >= u <=> g >= p * u
    BY <1>2, <1>4, <2>1, FloorAtLeast
  <2> QED BY <2>2 DEF u
<1>7. m * (bins + 1) <= m * p
  BY <1>1, <1>2, Monotonic
<1>8. /\ p * l = l * p /\ p * (l + m) = l * p + m * p /\ m * (bins + 1) = m * bins + m
      /\ l * p \in Nat /\ m * bins \in Nat /\ m * p \in Nat
  BY <1>1, <1>2
<1>9. l <= f /\ f < l + m
  <2> DEFINE lp == l * p
             mb == m * bins
             mp == m * p
  <2>1. lp \in Nat /\ mb \in Nat /\ mp \in Nat /\ m \in Nat /\ g \in Nat
        /\ lp + mb <= g /\ g < (lp + mb) + m /\ mb + m <= mp
    BY <1>1, <1>3, <1>4, <1>7, <1>8
  <2>2. (f >= l <=> g >= lp) /\ (f >= l + m <=> g >= lp + mp)
    BY <1>4, <1>5, <1>6, <1>8
  <2>3. f \in Nat /\ l \in Nat
    BY <1>1, <1>4
  <2> HIDE DEF lp, mb, mp
  <2>4. g >= lp /\ ~(g >= lp + mp)
    BY <2>1
  <2>5. f >= l /\ ~(f >= l + m)
    BY <2>2, <2>4
  <2> QED BY <2>1, <2>3, <2>5
<1> QED BY <1>4, <1>9 DEF Within, f, q, l, m

LEMMA BypassSplit ==
    ASSUME NEW c, Ranged(c), NEW a \in Nat, NEW m \in Nat, NEW d \in Nat, NEW n \in Nat, m + n <= 32
    PROVE  Bypass(Bypass(c, a, m), d, n) = Bypass(c, a * Power(n) + d, m + n)
<1> DEFINE pm == Power(m)
           pn == Power(n)
           l == c.low
           r == c.range
           k == c.bits
<1>1. l \in Nat /\ r \in Nat /\ k \in Nat
  BY DEF Codes, Ranged
<1>2. pm \in Nat /\ pn \in Nat
  <2>1. m \in 0..32 /\ n \in 0..32
    OBVIOUS
  <2> QED BY <2>1, PowerType
<1>3. Power(m + n) = pm * pn
  BY PowerSum
<1>4. Bypass(Bypass(c, a, m), d, n)
        = [low |-> (l * pm + r * a) * pn + r * d, bits |-> (k + m) + n, range |-> r]
  BY DEF Bypass
<1>5. Bypass(c, a * pn + d, m + n)
        = [low |-> l * Power(m + n) + r * (a * pn + d), bits |-> k + (m + n), range |-> r]
  BY DEF Bypass
<1> HIDE DEF pm, pn, l, r, k
<1>6. (l * pm + r * a) * pn + r * d = l * (pm * pn) + r * (a * pn + d)
  <2>1. (l * pm + r * a) * pn = (l * pm) * pn + (r * a) * pn
    BY <1>1, <1>2
  <2>2. (l * pm) * pn = l * (pm * pn) /\ (r * a) * pn = r * (a * pn)
    BY <1>1, <1>2
  <2>3. r * (a * pn + d) = r * (a * pn) + r * d
    BY <1>1, <1>2
  <2>4. l * (pm * pn) \in Int /\ r * (a * pn) \in Int /\ r * d \in Int
    BY <1>1, <1>2
  <2> QED BY <2>1, <2>2, <2>3, <2>4
<1>7. (k + m) + n = k + (m + n)
  BY <1>1
<1> QED BY <1>3, <1>4, <1>5, <1>6, <1>7, Zenon DEF pn

\* The quotient of the value and the interval is the bins that were coded.
LEMMA ChunkDecoded ==
    ASSUME NEW s \in Seq(Byte), NEW b \in Nat, NEW c, Ranged(c),
           NEW n \in 0..8, NEW bins \in Nat, bins < Power(n)
    PROVE  Decodes(c, Bypass(c, bins, n), DecodeChunk(Tracker(c, s, b), n), bins, s, b)
<1> SUFFICES ASSUME Within(Bypass(c, bins, n), s, b)
             PROVE  /\ Within(c, s, b)
                    /\ DecodeChunk(Tracker(c, s, b), n) = Answer(bins, Tracker(Bypass(c, bins, n), s, b))
  BY DEF Decodes
<1> DEFINE d == Tracker(c, s, b)
           x == Bypass(c, bins, n)
           p == Power(n)
           l == c.low
           m == c.range
           q == c.bits
           Q == (q + n) + 7
           next == Consumed(d, n)
           v == next.value
           quotient == v \div (d.range * 128)
           coded == IF quotient < p THEN quotient ELSE p - 1
           w == Window(s, b, Q)
           low == l * p + m * bins
           g == First(s, b, q + n)
<1>1. c \in Codes /\ l \in Nat /\ m \in Nat /\ q \in Nat /\ 256 <= m /\ n \in Nat /\ n \in 0..32
  BY DEF Codes, Ranged
<1>2. p \in Nat \ {0}
  BY <1>1, PowerType
<1>3. Within(c, s, b)
  BY <1>1, BypassWithin
<1>4. DecodeChunk(d, n) = Answer(coded, [next EXCEPT !.value = @ - coded * d.range * 128])
  BY Zenon DEF DecodeChunk, Answer, Power
<1>5. b + Whole(q + n) <= Len(s) /\ low <= g /\ g < low + m
  BY DEF Within, Bypass
<1>6. next = Reader(s, b, Q, (128 * l) * p, m)
  <2>1. (q + 7) + n = Q
    <3> HIDE DEF q
    <3> QED BY <1>1
  <2>2. b + Q \div 8 <= Len(s)
    BY <1>5, Zenon DEF Whole
  <2>3. q + 7 \in Nat /\ 128 * l \in Int
    <3> HIDE DEF q, l
    <3> QED BY <1>1
  <2> DEFINE o == q + 7
             y == 128 * l
  <2>4. o \in Nat /\ y \in Int /\ b + (o + n) \div 8 <= Len(s)
    BY <2>1, <2>2, <2>3, Zenon
  <2> HIDE DEF o, y, m
  <2>5. Reads(s, b, o, n, y, m)
    BY <2>4, ReaderConsumed
  <2> QED BY <2>1, <2>5, Zenon DEF Reads, Tracker, o, y, m
<1>7. d.range = m
  BY DEF Tracker, Reader, Decoder
<1>8. w \in Nat /\ (w >= 128 * low <=> g >= low) /\ (w >= 128 * (low + m) <=> g >= low + m)
      /\ low \in Nat /\ low + m \in Nat
  <2>1. low \in Nat /\ low + m \in Nat
    <3> HIDE DEF l, m, p
    <3> QED BY <1>1, <1>2
  <2> DEFINE Q0 == q + n
             u == low + m
  <2>2. Q0 \in Nat /\ low \in Int /\ u \in Int /\ b + Whole(Q0) <= Len(s)
    <3> HIDE DEF low, m, q
    <3>1. low \in Int /\ u \in Int
      BY <2>1
    <3>2. Q0 \in Nat
      BY <1>1
    <3> QED BY <1>5, <3>1, <3>2
  <2> HIDE DEF Q0, low, u
  <2>3. \A t \in Int : Window(s, b, Q0 + 7) \in Nat
                       /\ (Window(s, b, Q0 + 7) >= 128 * t <=> First(s, b, Q0) >= t)
    BY <2>2, WindowAtLeast
  <2>4. Window(s, b, Q0 + 7) \in Nat
        /\ (Window(s, b, Q0 + 7) >= 128 * low <=> First(s, b, Q0) >= low)
        /\ (Window(s, b, Q0 + 7) >= 128 * u <=> First(s, b, Q0) >= u)
    BY <2>2, <2>3
  <2> QED BY <2>1, <2>4 DEF Q0, u
<1>9. g \in Nat
  <2> DEFINE Q0 == q + n
  <2>1. Q0 \in Nat /\ b + Whole(Q0) <= Len(s) /\ 0 \in Int
    <3> HIDE DEF q
    <3> QED BY <1>1, <1>5
  <2> HIDE DEF Q0
  <2>2. First(s, b, Q0) \in Nat
    BY <2>1, WindowAtLeast
  <2> QED BY <2>2 DEF Q0
<1> DEFINE y == (128 * l) * p
<1>a. /\ Changes(s, b, Q, y, m, (bins * m) * 128, m) /\ y \in Int
  <2>1. y \in Int /\ (bins * m) * 128 \in Int
    <3> HIDE DEF l, m, p
    <3> QED BY <1>1, <1>2
  <2> DEFINE z == (bins * m) * 128
  <2> HIDE DEF y, z, Q, m
  <2>2. Window(s, b, Q) \in Int /\ y \in Int /\ z \in Int
    BY <1>8, <2>1 DEF z
  <2> QED BY <2>1, <2>2, ReaderChanged DEF z
<1>b. v = w - y
  <2>1. Reader(s, b, Q, y, m).value = w - y
    BY <1>a, Zenon DEF Changes
  <2> QED BY <1>6, <2>1, Zenon
<1>10. v \div (m * 128) = bins
  <2> DEFINE k == m * 128
             r == v - k * bins
  <2> HIDE DEF l, m, p, w, g, v, next, d, q
  <2>1. 128 * low = y + k * bins /\ 128 * (low + m) = (y + k * bins) + k
    <3>1. 128 * ((l * p) + (m * bins)) = (128 * l) * p + (m * 128) * bins
      <4>1. 128 * (l * p) = (128 * l) * p /\ 128 * (m * bins) = (m * 128) * bins
        BY <1>1, <1>2
      <4>2. l * p \in Int /\ m * bins \in Int
        BY <1>1, <1>2
      <4> DEFINE lp == l * p
                 mb == m * bins
      <4> HIDE DEF lp, mb
      <4>3. 128 * (lp + mb) = 128 * lp + 128 * mb
        BY <4>2 DEF lp, mb
      <4> QED BY <4>1, <4>3 DEF lp, mb
    <3> HIDE DEF low
    <3>2. 128 * (low + m) = 128 * low + m * 128
      BY <1>1, <1>8
    <3> QED BY <3>1, <3>2 DEF low
  <2>2. k \in Nat \ {0} /\ k * bins \in Int /\ y \in Int
    <3>1. k \in Nat \ {0}
      BY <1>1
    <3> QED BY <1>a, <3>1
  <2> HIDE DEF low, y, k
  <2>3. w >= 128 * low /\ ~(w >= 128 * (low + m))
    BY <1>1, <1>5, <1>8, <1>9
  <2>4. r \in 0..(k - 1) /\ v = k * bins + r
    <3> DEFINE kb == k * bins
    <3>1. kb \in Int /\ k \in Nat \ {0} /\ y \in Int /\ w \in Nat /\ v = w - y
          /\ w >= y + kb /\ ~(w >= (y + kb) + k)
      BY <1>8, <1>b, <2>1, <2>2, <2>3
    <3> HIDE DEF kb
    <3>2. v - kb \in 0..(k - 1) /\ v = kb + (v - kb)
      BY <3>1
    <3> QED BY <3>2 DEF kb
  <2> HIDE DEF r
  <2>5. (k * bins + r) \div k = bins
    BY <2>2, <2>4, DivisionUnique
  <2> QED BY <2>4, <2>5 DEF k
<1>11. coded = bins
  <2>1. quotient = bins
    BY <1>7, <1>10
  <2> HIDE DEF quotient
  <2> QED BY <1>2, <2>1
<1>12. [next EXCEPT !.value = @ - (bins * m) * 128] = Tracker(x, s, b)
  <2>1. [Reader(s, b, Q, y, m) EXCEPT !.value = @ - (bins * m) * 128]
          = Reader(s, b, Q, y + (bins * m) * 128, m)
    BY <1>a, Zenon DEF Changes
  <2>2. y + (bins * m) * 128 = 128 * low
    <3> HIDE DEF l, m, p
    <3>1. 128 * (l * p) = (128 * l) * p /\ 128 * (m * bins) = (bins * m) * 128
      BY <1>1, <1>2
    <3>2. l * p \in Int /\ m * bins \in Int
      BY <1>1, <1>2
    <3> DEFINE lp == l * p
               mb == m * bins
    <3> HIDE DEF lp, mb
    <3>3. 128 * (lp + mb) = 128 * lp + 128 * mb
      BY <3>2 DEF lp, mb
    <3> QED BY <3>1, <3>3 DEF lp, mb
  <2>3. Tracker(x, s, b) = Reader(s, b, Q, 128 * low, m)
    BY DEF Tracker, Bypass
  <2> HIDE DEF next, y, Q, low, m, x
  <2> QED BY <1>6, <2>1, <2>2, <2>3, Zenon DEF y
<1>13. DecodeChunk(d, n) = Answer(bins, Tracker(x, s, b))
  <2> HIDE DEF coded, next, d, m, x
  <2> QED BY <1>4, <1>7, <1>11, <1>12, Zenon
<1> QED BY <1>3, <1>13

-----------------------------------------------------------------------------
(* A value of bypass bins without its last l bits. *)
Upper(bins, l) == bins \div Power(l)
Lower(bins, l, n) == Upper(bins, l) % Power(n)
Prefix(c, bins, numBins, l) == Bypass(c, Upper(bins, l), numBins - l)

LEMMA UpperFacts ==
    ASSUME NEW bins \in Nat, NEW l \in Nat, NEW n \in Nat, l + n <= 32
    PROVE  /\ Upper(bins, l) \in Nat /\ Upper(bins, l + n) \in Nat
           /\ Lower(bins, l, n) \in Nat /\ Lower(bins, l, n) < Power(n)
           /\ Upper(bins, l + n) * Power(n) + Lower(bins, l, n) = Upper(bins, l)
<1> DEFINE pl == Power(l)
           pn == Power(n)
           u == Upper(bins, l)
           v == Upper(bins, l + n)
<1>1. pl \in Nat \ {0} /\ pn \in Nat \ {0} /\ Power(l + n) = pl * pn
  <2>1. l \in 0..32 /\ n \in 0..32
    OBVIOUS
  <2> QED BY <2>1, PowerType, PowerSum
<1>2. u \in Int /\ u >= 0
  <2>1. bins >= pl * 0
    BY <1>1
  <2>2. bins \in Int /\ 0 \in Int
    OBVIOUS
  <2> HIDE DEF pl
  <2>3. bins \div pl \in Int /\ bins \div pl >= 0
    BY <1>1, <2>1, <2>2, Division, FloorAtLeast
  <2> QED BY <2>3 DEF Upper, pl
<1>3. v = u \div pn
  <2> HIDE DEF pl, pn
  <2>1. bins \in Int
    OBVIOUS
  <2>2. (bins \div pl) \div pn = bins \div (pl * pn)
    BY <1>1, <2>1, FloorFloor
  <2>3. v = bins \div (pl * pn)
    BY <1>1, Zenon DEF Upper
  <2> QED BY <2>2, <2>3, Zenon DEF Upper, pl
<1> HIDE DEF pl, pn, u, v
<1>4. u % pn \in 0..(pn - 1) /\ u = pn * (u \div pn) + (u % pn) /\ u \div pn \in Int
  BY <1>1, <1>2, Division
<1>5. u \div pn >= 0
  <2>1. u >= pn * 0 /\ 0 \in Int
    BY <1>1, <1>2
  <2> QED BY <1>1, <1>2, <2>1, FloorAtLeast
<1>6. Lower(bins, l, n) = u % pn
  BY DEF Lower, u, pn
<1>7. u % pn \in Nat /\ u % pn < pn
  BY <1>1, <1>4
<1>8. v * pn + (u % pn) = u
  BY <1>1, <1>3, <1>4, <1>5
<1>9. u \in Nat /\ v \in Nat
  BY <1>2, <1>3, <1>4, <1>5
<1> QED BY <1>6, <1>7, <1>8, <1>9 DEF u, v, pn

LEMMA UpperAll ==
    ASSUME NEW numBins \in 0..32, NEW bins \in Nat, bins < Power(numBins)
    PROVE  Upper(bins, 0) = bins /\ Upper(bins, numBins) = 0
<1> DEFINE p == Power(numBins)
<1>1. p \in Nat \ {0} /\ bins < p
  BY PowerType
<1> HIDE DEF p
<1>2. bins \div p = 0
  <2>1. bins \in 0..(p - 1) /\ 0 \in Int
    BY <1>1
  <2>2. (p * 0 + bins) \div p = 0
    BY <1>1, <2>1, DivisionUnique
  <2>3. p * 0 + bins = bins
    BY <1>1
  <2> QED BY <2>2, <2>3
<1>3. bins \div 1 = bins
  OBVIOUS
<1> QED BY <1>2, <1>3, Powers DEF Upper, p

Continues(c, bins, numBins, l, n) ==
    /\ Ranged(Prefix(c, bins, numBins, l)) /\ Ranged(Prefix(c, bins, numBins, l + n))
    /\ Bypass(Prefix(c, bins, numBins, l + n), Lower(bins, l, n), n) = Prefix(c, bins, numBins, l)

LEMMA PrefixNext ==
    ASSUME NEW c, Ranged(c), NEW bins \in Nat, NEW numBins \in Nat, numBins <= 32,
           NEW l \in Nat, NEW n \in Nat, l + n <= numBins
    PROVE  Continues(c, bins, numBins, l, n)
<1> DEFINE u == Upper(bins, l)
           v == Upper(bins, l + n)
           t == Lower(bins, l, n)
           m == numBins - (l + n)
<1>1. u \in Nat /\ v \in Nat /\ t \in Nat /\ v * Power(n) + t = u
  <2>1. l + n <= 32
    OBVIOUS
  <2> QED BY <2>1, UpperFacts
<1>2. m \in Nat /\ m + n <= 32 /\ m + n = numBins - l
  OBVIOUS
<1> HIDE DEF u, v, t, m
<1>3. Bypass(Bypass(c, v, m), t, n) = Bypass(c, v * Power(n) + t, m + n)
  BY <1>1, <1>2, BypassSplit
<1>4. Prefix(c, bins, numBins, l) = Bypass(c, u, m + n)
  BY <1>2, Zenon DEF Prefix, u
<1>5. Prefix(c, bins, numBins, l + n) = Bypass(c, v, m)
  BY Zenon DEF Prefix, v, m
<1>6. Ranged(Bypass(c, v, m)) /\ Ranged(Bypass(c, u, m + n))
  <2>1. m \in 0..32 /\ m + n \in 0..32
    BY <1>2
  <2> DEFINE k == m + n
  <2> HIDE DEF k
  <2>2. Ranged(Bypass(c, v, m)) /\ Ranged(Bypass(c, u, k))
    BY <1>1, <2>1, BypassType DEF k
  <2> QED BY <2>2 DEF k
<1> QED BY <1>1, <1>3, <1>4, <1>5, <1>6, Zenon DEF Continues, t

LEMMA PrefixEnds ==
    ASSUME NEW c, Ranged(c), NEW numBins \in 0..32, NEW bins \in Nat, bins < Power(numBins)
    PROVE  /\ Prefix(c, bins, numBins, 0) = Bypass(c, bins, numBins)
           /\ Prefix(c, bins, numBins, numBins) = c
<1>1. Upper(bins, 0) = bins /\ Upper(bins, numBins) = 0
  BY UpperAll
<1>2. numBins - 0 = numBins /\ numBins - numBins = 0
  OBVIOUS
<1>3. Prefix(c, bins, numBins, 0) = Bypass(c, bins, numBins)
  BY <1>1, <1>2, Zenon DEF Prefix
<1>4. Prefix(c, bins, numBins, numBins) = Bypass(c, 0, 0)
  BY <1>1, <1>2, Zenon DEF Prefix
<1>5. Bypass(c, 0, 0) = c
  <2>1. c.low \in Nat /\ c.bits \in Nat /\ c.range \in Nat /\ c \in Codes
    BY DEF Codes, Ranged
  <2>2. c.low * Power(0) + c.range * 0 = c.low /\ c.bits + 0 = c.bits
    BY <2>1, Powers
  <2>3. Bypass(c, 0, 0) = [low |-> c.low, bits |-> c.bits, range |-> c.range]
    BY <2>2, Zenon DEF Bypass
  <2> QED BY <2>1, <2>3 DEF Codes
<1> QED BY <1>3, <1>4, <1>5

LEMMA PrefixWithin ==
    ASSUME NEW s \in Seq(Byte), NEW b \in Nat, NEW c, Ranged(c),
           NEW numBins \in 0..32, NEW bins \in Nat, bins < Power(numBins),
           Within(Bypass(c, bins, numBins), s, b), NEW l \in 0..numBins
    PROVE  Within(Prefix(c, bins, numBins, l), s, b)
<1>1. l \in Nat /\ numBins \in Nat /\ numBins <= 32 /\ 0 \in Nat /\ 0 + l <= numBins /\ 0 + l = l
      /\ l \in 0..32
  OBVIOUS
<1>2. Continues(c, bins, numBins, 0, l)
  BY <1>1, PrefixNext
<1> DEFINE t == Lower(bins, 0, l)
<1>3. t \in Nat /\ t < Power(l)
  <2>1. 0 + l <= 32
    OBVIOUS
  <2> QED BY <1>1, <2>1, UpperFacts
<1>4. /\ Ranged(Prefix(c, bins, numBins, l))
      /\ Bypass(Prefix(c, bins, numBins, l), t, l) = Bypass(c, bins, numBins)
  BY <1>1, <1>2, PrefixEnds, Zenon DEF Continues
<1> HIDE DEF t
<1>5. Within(Bypass(Prefix(c, bins, numBins, l), t, l), s, b)
  BY <1>4
<1> QED BY <1>1, <1>3, <1>4, <1>5, BypassWithin

\* A chunk of the bins of a value.
Chunked(c, bins, numBins, l, n, s, b) ==
    DecodeChunk(Tracker(Prefix(c, bins, numBins, l + n), s, b), n)
        = Answer(Lower(bins, l, n), Tracker(Prefix(c, bins, numBins, l), s, b))

LEMMA PrefixDecoded ==
    ASSUME NEW s \in Seq(Byte), NEW b \in Nat, NEW c, Ranged(c),
           NEW numBins \in 0..32, NEW bins \in Nat, bins < Power(numBins),
           Within(Bypass(c, bins, numBins), s, b),
           NEW l \in Nat, NEW n \in 0..8, l + n <= numBins
    PROVE  Chunked(c, bins, numBins, l, n, s, b)
<1> DEFINE t == Lower(bins, l, n)
           x == Prefix(c, bins, numBins, l + n)
           y == Prefix(c, bins, numBins, l)
<1>1. numBins \in Nat /\ numBins <= 32 /\ n \in Nat /\ l \in 0..numBins /\ l + n <= 32
  OBVIOUS
<1>2. Ranged(x) /\ Bypass(x, t, n) = y
  <2>1. Continues(c, bins, numBins, l, n)
    BY <1>1, PrefixNext
  <2> QED BY <2>1, Zenon DEF Continues
<1>3. t \in Nat /\ t < Power(n)
  BY <1>1, UpperFacts
<1>4. Within(y, s, b)
  BY <1>1, PrefixWithin
<1> HIDE DEF x, y, t
<1>5. Decodes(x, Bypass(x, t, n), DecodeChunk(Tracker(x, s, b), n), t, s, b)
  BY <1>2, <1>3, ChunkDecoded
<1>6. DecodeChunk(Tracker(x, s, b), n) = Answer(t, Tracker(y, s, b))
  BY <1>2, <1>4, <1>5, Zenon DEF Decodes
<1> QED BY <1>6, Zenon DEF Chunked, x, y, t

-----------------------------------------------------------------------------
(* Values of several chunks. *)
Left(numBins, i) == IF i < Len(Widths(numBins)) THEN numBins - 8 * i ELSE 0

LEMMA LeftFacts ==
    ASSUME NEW numBins \in 0..32
    PROVE  /\ Len(Widths(numBins)) \in Nat
           /\ Left(numBins, 0) = numBins /\ Left(numBins, Len(Widths(numBins))) = 0
           /\ \A i \in 1..Len(Widths(numBins)) :
                 /\ Widths(numBins)[i] \in 0..8 /\ Left(numBins, i) \in Nat
                 /\ Left(numBins, i - 1) = Left(numBins, i) + Widths(numBins)[i]
                 /\ Left(numBins, i) + Widths(numBins)[i] <= numBins
<1> DEFINE full == IF numBins = 0 THEN 0 ELSE (numBins - 1) \div 8
           last == numBins - 8 * full
           widths == [i \in 1..(full + 1) |-> IF i <= full THEN 8 ELSE last]
<1>1. full \in 0..3 /\ last \in 0..8
  OBVIOUS
<1>2. Widths(numBins) = widths
  BY DEF Widths
<1> HIDE DEF full
<1>3. full + 1 \in Nat /\ widths \in [1..(full + 1) -> Int]
  <2>1. \A i \in 1..(full + 1) : (IF i <= full THEN 8 ELSE last) \in Int
    BY <1>1
  <2> QED BY <1>1, <2>1
<1>4. \A i \in 1..(full + 1) : widths[i] = IF i <= full THEN 8 ELSE last
  OBVIOUS
<1> HIDE DEF widths
<1>5. Len(widths) = full + 1
  BY <1>3
<1>6. \A i : Left(numBins, i) = IF i < full + 1 THEN numBins - 8 * i ELSE 0
  BY <1>2, <1>5 DEF Left
<1>7. Left(numBins, 0) = numBins /\ Left(numBins, full + 1) = 0
  BY <1>1, <1>6
<1>8. ASSUME NEW i \in 1..(full + 1)
      PROVE  /\ widths[i] \in 0..8 /\ Left(numBins, i) \in Nat
             /\ Left(numBins, i - 1) = Left(numBins, i) + widths[i]
             /\ Left(numBins, i) + widths[i] <= numBins
  <2>1. CASE i <= full
    <3>1. widths[i] = 8
      BY <1>4, <2>1
    <3>2. i < full + 1 /\ i - 1 < full + 1 /\ i - 1 \in Int
      BY <1>1, <2>1
    <3>3. Left(numBins, i) = numBins - 8 * i /\ Left(numBins, i - 1) = numBins - 8 * (i - 1)
      BY <1>6, <3>2
    <3>4. 8 * full <= numBins
      BY <1>1 DEF last
    <3>5. i <= full /\ i \in Nat /\ full \in Nat
      BY <1>1, <2>1
    <3> HIDE DEF last
    <3>6. numBins - 8 * i \in Nat /\ numBins - 8 * (i - 1) = (numBins - 8 * i) + 8
          /\ (numBins - 8 * i) + 8 <= numBins
      BY <3>4, <3>5
    <3> QED BY <3>1, <3>3, <3>6
  <2>2. CASE ~(i <= full)
    <3>1. i = full + 1
      BY <1>1, <2>2
    <3>2. widths[i] = last /\ Left(numBins, i) = 0 /\ Left(numBins, i - 1) = numBins - 8 * full
      BY <1>1, <1>4, <1>6, <3>1
    <3> QED BY <1>1, <3>2 DEF last
  <2> QED BY <2>1, <2>2
<1> QED BY <1>2, <1>3, <1>5, <1>7, <1>8

LEMMA BinsDecoded ==
    ASSUME NEW s \in Seq(Byte), NEW b \in Nat, NEW c, Ranged(c),
           NEW numBins \in 0..32, NEW bins \in Nat, bins < Power(numBins)
    PROVE  Decodes(c, Bypass(c, bins, numBins), decodeBinsEP(Tracker(c, s, b), numBins), bins, s, b)
<1> SUFFICES ASSUME Within(Bypass(c, bins, numBins), s, b)
             PROVE  /\ Within(c, s, b)
                    /\ decodeBinsEP(Tracker(c, s, b), numBins)
                          = Answer(bins, Tracker(Bypass(c, bins, numBins), s, b))
  BY DEF Decodes
<1> DEFINE widths == Widths(numBins)
           N == Len(widths)
           L(i) == Left(numBins, i)
           d == Tracker(c, s, b)
           A(l) == Answer(Upper(bins, l), Tracker(Prefix(c, bins, numBins, l), s, b))
           f == [i \in 0..N |-> A(L(i))]
           after[i \in 0..N] == IF i = 0 THEN [bins |-> 0, dec |-> d]
                                ELSE Longer(after[i - 1], widths[i])
<1>1. Within(c, s, b)
  BY BypassWithin
<1>2. decodeBinsEP(d, numBins) = after[N]
  BY Zenon DEF decodeBinsEP
<1>3. /\ N \in Nat /\ L(0) = numBins /\ L(N) = 0
      /\ \A i \in 1..N : /\ widths[i] \in 0..8 /\ L(i) \in Nat
                         /\ L(i - 1) = L(i) + widths[i] /\ L(i) + widths[i] <= numBins
  BY LeftFacts, Zenon
<1>4. A(0) = Answer(bins, Tracker(Bypass(c, bins, numBins), s, b)) /\ A(numBins) = Answer(0, d)
  <2>1. Upper(bins, 0) = bins /\ Upper(bins, numBins) = 0
    BY UpperAll
  <2>2. Prefix(c, bins, numBins, 0) = Bypass(c, bins, numBins) /\ Prefix(c, bins, numBins, numBins) = c
    BY PrefixEnds
  <2> QED BY <2>1, <2>2, Zenon
<1> HIDE DEF widths, N, L, d
<1>5. ASSUME NEW i \in 1..N PROVE A(L(i)) = Longer(A(L(i - 1)), widths[i])
  <2> DEFINE l == L(i)
             n == widths[i]
  <2>1. l \in Nat /\ n \in 0..8 /\ n \in Nat /\ L(i - 1) = l + n /\ l + n <= numBins /\ l + n <= 32
    <3>1. l \in Nat /\ n \in 0..8 /\ L(i - 1) = l + n /\ l + n <= numBins
      BY <1>3, Zenon
    <3> HIDE DEF l, n
    <3>2. n \in Nat /\ l + n <= 32
      BY <3>1
    <3> QED BY <3>1, <3>2
  <2> HIDE DEF l, n
  <2>2. DecodeChunk(Tracker(Prefix(c, bins, numBins, l + n), s, b), n)
          = Answer(Lower(bins, l, n), Tracker(Prefix(c, bins, numBins, l), s, b))
    <3>1. Chunked(c, bins, numBins, l, n, s, b)
      BY <2>1, PrefixDecoded
    <3> QED BY <3>1, Zenon DEF Chunked
  <2>3. Upper(bins, l + n) * Power(n) + Lower(bins, l, n) = Upper(bins, l)
    BY <2>1, UpperFacts
  <2> DEFINE x == Tracker(Prefix(c, bins, numBins, l + n), s, b)
             y == Tracker(Prefix(c, bins, numBins, l), s, b)
             u == Upper(bins, l + n)
  <2>4. Longer(Answer(u, x), n) = [bins |-> u * Power(n) + DecodeChunk(x, n).bins,
                                   dec |-> DecodeChunk(x, n).dec]
    <3> HIDE DEF x, u
    <3>1. Answer(u, x).dec = x /\ Answer(u, x).bins = u
      BY DEF Answer
    <3> QED BY <3>1, Zenon DEF Longer, Power
  <2>5. DecodeChunk(x, n).bins = Lower(bins, l, n) /\ DecodeChunk(x, n).dec = y
    <3> HIDE DEF x, y
    <3> QED BY <2>2 DEF Answer, x, y
  <2>6. Longer(A(l + n), n) = A(l)
    BY <2>3, <2>4, <2>5, Zenon DEF Answer
  <2> HIDE DEF A
  <2> QED BY <2>1, <2>6, Zenon DEF l, n
<1>6. A(L(0)) = [bins |-> 0, dec |-> d]
  BY <1>3, <1>4, Zenon DEF Answer
<1> HIDE DEF A
<1>7. f = [i \in 0..N |-> IF i = 0 THEN [bins |-> 0, dec |-> d] ELSE Longer(f[i - 1], widths[i])]
  <2>1. ASSUME NEW i \in 0..N
        PROVE  f[i] = IF i = 0 THEN [bins |-> 0, dec |-> d] ELSE Longer(f[i - 1], widths[i])
    <3>1. CASE i = 0
      BY <1>6, <3>1
    <3>2. CASE i # 0
      <4>1. i \in 1..N /\ i - 1 \in 0..N
        BY <1>3, <3>2
      <4>2. f[i] = A(L(i)) /\ f[i - 1] = A(L(i - 1))
        BY <4>1
      <4> HIDE DEF f
      <4> QED BY <1>5, <3>2, <4>1, <4>2
    <3> QED BY <3>1, <3>2
  <2> QED BY <2>1
<1>8. after = [i \in 0..N |-> IF i = 0 THEN [bins |-> 0, dec |-> d]
                              ELSE Longer(after[i - 1], widths[i])]
  <2> HIDE DEF f
  <2> QED BY <1>7
<1> DEFINE S == {i \in 0..N : after[i] = f[i]}
<1> HIDE DEF after, f
<1>9. 0 \in S
  BY <1>3, <1>7, <1>8
<1>10. ASSUME NEW i \in 1..N, i - 1 \in S PROVE i \in S
  <2>1. i \in 0..N /\ i # 0
    BY <1>3
  <2>2. after[i] = Longer(after[i - 1], widths[i]) /\ f[i] = Longer(f[i - 1], widths[i])
    BY <1>7, <1>8, <2>1
  <2> QED BY <1>10, <2>1, <2>2
<1> HIDE DEF S
<1>11. 0..N \subseteq S
  BY <1>3, <1>9, <1>10, InductionTo
<1>12. N \in S /\ N \in 0..N
  BY <1>3, <1>11
<1>13. after[N] = A(L(N))
  BY <1>12 DEF S, f
<1>14. after[N] = Answer(bins, Tracker(Bypass(c, bins, numBins), s, b))
  BY <1>3, <1>4, <1>13, Zenon
<1> QED BY <1>1, <1>2, <1>14 DEF d

-----------------------------------------------------------------------------
(* Escape codes: ones up to a zero or the longest prefix, then the rest.   *)
Ones(c, i) == Bypass(c, Power(i) - 1, i)
OnesStop(c, i) == Bypass(c, Power(i + 1) - 2, i + 1)
Bits(n, d, stopped) == [bins |-> n, dec |-> d, stopped |-> stopped]

LEMMA OnesFacts ==
    ASSUME NEW c, Ranged(c), NEW i \in 0..17
    PROVE  /\ Ranged(Ones(c, i)) /\ Ones(c, 0) = c
           /\ Bypass(Ones(c, i), 1, 1) = Ones(c, i + 1)
           /\ Bypass(Ones(c, i), 0, 1) = OnesStop(c, i)
<1>1. i \in 0..31 /\ i \in 0..32 /\ i \in Nat /\ 1 \in Nat /\ 0 \in Nat /\ i + 1 <= 32 /\ 0 \in 0..32
  OBVIOUS
<1> DEFINE a == Power(i) - 1
<1>2. a \in Nat /\ Power(i + 1) = 2 * (a + 1) /\ Power(1) = 2
  <2>1. Power(i) \in Nat \ {0} /\ Power(i + 1) = 2 * Power(i)
    BY <1>1, PowerNext
  <2> QED BY <2>1, Powers
<1>3. Ones(c, i) = Bypass(c, a, i)
  BY Zenon DEF Ones
<1> HIDE DEF a
<1>4. Ranged(Ones(c, i))
  BY <1>1, <1>2, <1>3, BypassType
<1>5. ASSUME NEW d \in Nat PROVE Bypass(Ones(c, i), d, 1) = Bypass(c, a * Power(1) + d, i + 1)
  BY <1>1, <1>2, <1>3, BypassSplit
<1>6. a * Power(1) + 1 = Power(i + 1) - 1 /\ a * Power(1) + 0 = Power(i + 1) - 2
  BY <1>2
<1>7. Ones(c, 0) = c
  <2>1. 0 < Power(0) /\ Power(0) - 1 = 0 /\ 0 - 0 = 0
    BY Powers
  <2>2. Prefix(c, 0, 0, 0) = Bypass(c, 0, 0) /\ Prefix(c, 0, 0, 0) = c
    BY <1>1, <2>1, PrefixEnds
  <2>3. Ones(c, 0) = Bypass(c, 0, 0)
    BY <2>1, Zenon DEF Ones
  <2> QED BY <2>2, <2>3
<1>8. Bypass(Ones(c, i), 1, 1) = Ones(c, i + 1)
  BY <1>1, <1>5, <1>6, Zenon DEF Ones
<1>9. Bypass(Ones(c, i), 0, 1) = OnesStop(c, i)
  BY <1>1, <1>5, <1>6, Zenon DEF OnesStop
<1> QED BY <1>4, <1>7, <1>8, <1>9

\* The prefix of an escape code, when p ones can be read and then, unless p is
\* the longest prefix, a zero.
Prefixed(c, p, s, b) ==
    PrefixOf(Tracker(c, s, b)) =
        IF p < LongestPrefix THEN Bits(p, Tracker(OnesStop(c, p), s, b), TRUE)
        ELSE Bits(p, Tracker(Ones(c, p), s, b), FALSE)

ReadsBit(n, x, bin, y) == PrefixBit(Bits(n, x, FALSE)) = Bits(n + bin, y, bin = 0)

LEMMA PrefixBitRead ==
    ASSUME NEW n, NEW x, NEW bin, NEW y, DecodeChunk(x, 1) = Answer(bin, y)
    PROVE  ReadsBit(n, x, bin, y)
<1> DEFINE r == Bits(n, x, FALSE)
<1>1. r.bins = n /\ r.dec = x /\ r.stopped = FALSE
  BY Zenon DEF Bits
<1>2. decodeBinEP(r.dec) = Answer(bin, y)
  BY <1>1, Zenon DEF decodeBinEP
<1>3. Answer(bin, y).bins = bin /\ Answer(bin, y).dec = y
  BY Zenon DEF Answer
<1>4. PrefixBit(r) = IF r.stopped THEN r
                     ELSE [bins |-> r.bins + decodeBinEP(r.dec).bins,
                           dec |-> decodeBinEP(r.dec).dec,
                           stopped |-> decodeBinEP(r.dec).bins = 0]
  BY Zenon DEF PrefixBit
<1> HIDE DEF r
<1>5. PrefixBit(r) = [bins |-> r.bins + decodeBinEP(r.dec).bins,
                      dec |-> decodeBinEP(r.dec).dec,
                      stopped |-> decodeBinEP(r.dec).bins = 0]
  BY <1>1, <1>4
<1>6. PrefixBit(r) = Bits(n + bin, y, bin = 0)
  BY <1>1, <1>2, <1>3, <1>5, Zenon DEF Bits
<1> QED BY <1>6, Zenon DEF ReadsBit, r

LEMMA PrefixRead ==
    ASSUME NEW s \in Seq(Byte), NEW b \in Nat, NEW c, Ranged(c), NEW p \in 0..17,
           \A i \in 0..p : Within(Ones(c, i), s, b),
           p < 17 => Within(OnesStop(c, p), s, b)
    PROVE  Prefixed(c, p, s, b)
<1> DEFINE d == Tracker(c, s, b)
           T(i) == Tracker(Ones(c, i), s, b)
           z == Tracker(OnesStop(c, p), s, b)
           f == [i \in 0..17 |-> IF i <= p THEN Bits(i, T(i), FALSE) ELSE Bits(p, z, TRUE)]
           after[i \in 0..17] == IF i = 0 THEN [bins |-> 0, dec |-> d, stopped |-> FALSE]
                                 ELSE PrefixBit(after[i - 1])
<1>0. LongestPrefix = 17 /\ 1 \in 0..8 /\ 0 \in Nat /\ 1 \in Nat /\ 1 < Power(1) /\ 0 < Power(1)
      /\ p \in Nat
  <2>1. LongestPrefix = 32 - 15
    BY Zenon DEF LongestPrefix, MaxLog2TrDynamicRange
  <2>2. Power(1) = 2
    BY Powers
  <2> QED BY <2>1, <2>2
<1>1. PrefixOf(d) = after[17]
  BY <1>0, Zenon DEF PrefixOf
<1>3. ASSUME NEW i \in 0..17, i < p PROVE PrefixBit(Bits(i, T(i), FALSE)) = Bits(i + 1, T(i + 1), FALSE)
  <2>1. Ranged(Ones(c, i)) /\ Bypass(Ones(c, i), 1, 1) = Ones(c, i + 1)
    BY OnesFacts
  <2>2. Decodes(Ones(c, i), Ones(c, i + 1), DecodeChunk(T(i), 1), 1, s, b)
    BY <1>0, <2>1, ChunkDecoded
  <2>3. Within(Ones(c, i + 1), s, b)
    <3>1. i + 1 \in 0..p
      BY <1>3
    <3> QED BY <3>1
  <2>4. DecodeChunk(T(i), 1) = Answer(1, T(i + 1))
    BY <2>2, <2>3, Zenon DEF Decodes
  <2>5. PrefixBit(Bits(i, T(i), FALSE)) = Bits(i + 1, T(i + 1), 1 = 0)
    <3>1. ReadsBit(i, T(i), 1, T(i + 1))
      <4> HIDE DEF T
      <4> QED BY <2>4, PrefixBitRead, Zenon
    <3> QED BY <3>1, Zenon DEF ReadsBit
  <2>6. (1 = 0) = FALSE
    OBVIOUS
  <2> QED BY <2>5, <2>6, Zenon
<1>4. ASSUME p < 17 PROVE PrefixBit(Bits(p, T(p), FALSE)) = Bits(p, z, TRUE)
  <2>1. Ranged(Ones(c, p)) /\ Bypass(Ones(c, p), 0, 1) = OnesStop(c, p)
    BY OnesFacts
  <2>2. Decodes(Ones(c, p), OnesStop(c, p), DecodeChunk(T(p), 1), 0, s, b)
    BY <1>0, <2>1, ChunkDecoded
  <2>3. DecodeChunk(T(p), 1) = Answer(0, z)
    BY <1>4, <2>2, Zenon DEF Decodes
  <2>4. PrefixBit(Bits(p, T(p), FALSE)) = Bits(p + 0, z, 0 = 0)
    <3>1. ReadsBit(p, T(p), 0, z)
      <4> HIDE DEF T, z
      <4> QED BY <2>3, PrefixBitRead, Zenon
    <3> QED BY <3>1, Zenon DEF ReadsBit
  <2>5. (0 = 0) = TRUE /\ p + 0 = p
    BY <1>0
  <2> QED BY <2>4, <2>5, Zenon
<1>5. PrefixBit(Bits(p, z, TRUE)) = Bits(p, z, TRUE)
  <2>1. Bits(p, z, TRUE).stopped = TRUE
    BY Zenon DEF Bits
  <2> QED BY <2>1, Zenon DEF PrefixBit
<1>6. Bits(0, T(0), FALSE) = [bins |-> 0, dec |-> d, stopped |-> FALSE]
  <2>1. Ones(c, 0) = c
    BY OnesFacts
  <2> QED BY <2>1, Zenon DEF Bits
<1> HIDE DEF T, z, d
<1>7. f = [i \in 0..17 |-> IF i = 0 THEN [bins |-> 0, dec |-> d, stopped |-> FALSE]
                           ELSE PrefixBit(f[i - 1])]
  <2>1. ASSUME NEW i \in 0..17
        PROVE  f[i] = IF i = 0 THEN [bins |-> 0, dec |-> d, stopped |-> FALSE]
                      ELSE PrefixBit(f[i - 1])
    <3>1. CASE i = 0
      <4>1. f[i] = Bits(0, T(0), FALSE)
        BY <1>0, <3>1
      <4> QED BY <1>6, <3>1, <4>1
    <3>2. CASE i # 0
      <4>1. i - 1 \in 0..17 /\ i \in Nat /\ i - 1 \in Nat /\ (i - 1) + 1 = i
        BY <3>2
      <4>2. f[i] = IF i <= p THEN Bits(i, T(i), FALSE) ELSE Bits(p, z, TRUE)
        OBVIOUS
      <4>3. f[i - 1] = IF i - 1 <= p THEN Bits(i - 1, T(i - 1), FALSE) ELSE Bits(p, z, TRUE)
        BY <4>1
      <4> HIDE DEF f
      <4>4. CASE i <= p
        <5>1. i - 1 < p
          BY <1>0, <4>1, <4>4
        <5> DEFINE k == i - 1
        <5>2. k \in 0..17 /\ k < p /\ k + 1 = i
          BY <4>1, <5>1
        <5> HIDE DEF k
        <5>3. PrefixBit(Bits(k, T(k), FALSE)) = Bits(k + 1, T(k + 1), FALSE)
          BY <1>3, <5>2
        <5>4. PrefixBit(Bits(k, T(k), FALSE)) = Bits(i, T(i), FALSE)
          BY <5>2, <5>3, Zenon
        <5>5. f[i - 1] = Bits(k, T(k), FALSE) /\ f[i] = Bits(i, T(i), FALSE)
          <6>1. i - 1 <= p
            BY <1>0, <4>1, <5>1
          <6>2. f[i - 1] = Bits(i - 1, T(i - 1), FALSE)
            BY <4>3, <6>1, Zenon
          <6>3. f[i] = Bits(i, T(i), FALSE)
            BY <4>2, <4>4, Zenon
          <6> QED BY <6>2, <6>3, Zenon DEF k
        <5> QED BY <3>2, <5>4, <5>5
      <4>5. CASE i = p + 1
        <5>1. p < 17 /\ ~(i <= p) /\ i - 1 = p /\ i - 1 <= p
          BY <1>0, <4>5
        <5> QED BY <1>4, <3>2, <4>2, <4>3, <5>1
      <4>6. CASE ~(i <= p) /\ i # p + 1
        <5>1. ~(i - 1 <= p)
          BY <1>0, <4>1, <4>6
        <5> QED BY <1>5, <3>2, <4>2, <4>3, <4>6, <5>1
      <4> QED BY <4>4, <4>5, <4>6
    <3> QED BY <3>1, <3>2
  <2> QED BY <2>1
<1>8. after = [i \in 0..17 |-> IF i = 0 THEN [bins |-> 0, dec |-> d, stopped |-> FALSE]
                               ELSE PrefixBit(after[i - 1])]
  <2> HIDE DEF f
  <2> QED BY <1>7
<1> DEFINE S == {i \in 0..17 : after[i] = f[i]}
<1>a. f[17] = IF 17 <= p THEN Bits(17, T(17), FALSE) ELSE Bits(p, z, TRUE)
  OBVIOUS
<1> HIDE DEF after, f
<1>9. 0 \in S
  <2>1. 0 \in 0..17
    OBVIOUS
  <2> QED BY <1>7, <1>8, <2>1
<1>10. ASSUME NEW i \in 1..17, i - 1 \in S PROVE i \in S
  <2>1. i \in 0..17 /\ i # 0
    OBVIOUS
  <2>2. after[i] = PrefixBit(after[i - 1]) /\ f[i] = PrefixBit(f[i - 1])
    BY <1>7, <1>8, <2>1
  <2> QED BY <1>10, <2>1, <2>2
<1> HIDE DEF S
<1>11. 0..17 \subseteq S
  <2>1. 17 \in Nat
    OBVIOUS
  <2> QED BY <1>9, <1>10, <2>1, InductionTo
<1>12. after[17] = f[17]
  <2>1. 17 \in 0..17
    OBVIOUS
  <2> QED BY <1>11, <2>1 DEF S
<1>13. PrefixOf(d) = IF p < 17 THEN Bits(p, z, TRUE) ELSE Bits(p, T(p), FALSE)
  <2>1. 17 <= p <=> ~(p < 17)
    BY <1>0
  <2>2. ~(p < 17) => p = 17
    BY <1>0
  <2> QED BY <1>1, <1>12, <1>a, <2>1, <2>2
<1> QED BY <1>0, <1>13, Zenon DEF Prefixed, d, T, z

\* An escape code: the value left of the prefix, and the bins behind it.
Offset(p, rice) ==
    IF p < Cutoff THEN p * Power(rice) ELSE (Power(p - Cutoff) + Cutoff - 1) * Power(rice)
Length(p, rice) ==
    CASE p < Cutoff -> rice
      [] p = LongestPrefix -> MaxLog2TrDynamicRange
      [] OTHER -> rice + p - Cutoff
ReadsRem(d, rice, n, y) == decodeRemAbsEP(d, rice) = Answer(n, y)

LEMMA RemRead ==
    ASSUME NEW d, NEW p, NEW rice, NEW x, NEW stopped, PrefixOf(d) = Bits(p, x, stopped),
           NEW v, NEW y, decodeBinsEP(x, Length(p, rice)) = Answer(v, y)
    PROVE  ReadsRem(d, rice, Offset(p, rice) + v, y)
<1>1. PrefixOf(d).bins = p /\ PrefixOf(d).dec = x
  <2>1. Bits(p, x, stopped).bins = p /\ Bits(p, x, stopped).dec = x
    BY Zenon DEF Bits
  <2> QED BY <2>1, Zenon
<1>2. Answer(v, y).bins = v /\ Answer(v, y).dec = y
  BY Zenon DEF Answer
<1>3. decodeRemAbsEP(d, rice)
        = Answer(Offset(PrefixOf(d).bins, rice)
                   + decodeBinsEP(PrefixOf(d).dec, Length(PrefixOf(d).bins, rice)).bins,
                 decodeBinsEP(PrefixOf(d).dec, Length(PrefixOf(d).bins, rice)).dec)
  BY Zenon DEF decodeRemAbsEP, Offset, Length, Power, Answer
<1>4. decodeRemAbsEP(d, rice) = Answer(Offset(p, rice) + v, y)
  BY <1>1, <1>2, <1>3, Zenon
<1> QED BY <1>4, Zenon DEF ReadsRem

\* What the prefix, and a zero behind it, leave to code.
LEMMA OnesWithin ==
    ASSUME NEW s \in Seq(Byte), NEW b \in Nat, NEW c, Ranged(c), NEW p \in 0..17
    PROVE  /\ Within(Ones(c, p), s, b) => \A i \in 0..p : Within(Ones(c, i), s, b)
           /\ Within(OnesStop(c, p), s, b) => Within(Ones(c, p), s, b)
<1>1. Within(OnesStop(c, p), s, b) => Within(Ones(c, p), s, b)
  <2>1. Ranged(Ones(c, p)) /\ Bypass(Ones(c, p), 0, 1) = OnesStop(c, p)
    BY OnesFacts
  <2>2. 0 \in Nat /\ 1 \in 0..32 /\ 0 < Power(1)
    BY Powers
  <2> QED BY <2>1, <2>2, BypassWithin
<1> DEFINE S == {k \in 0..p : Within(Ones(c, p), s, b) => Within(Ones(c, p - k), s, b)}
<1>2. p \in Nat /\ p - 0 = p /\ 0 \in 0..p
  OBVIOUS
<1>3. 0 \in S
  BY <1>2
<1>4. ASSUME NEW k \in 1..p, k - 1 \in S PROVE k \in S
  <2> DEFINE i == p - k
  <2>1. k \in 0..p /\ k - 1 \in 0..p /\ i \in 0..17 /\ p - (k - 1) = i + 1
    BY <1>2
  <2>2. Within(Ones(c, p), s, b) => Within(Ones(c, i + 1), s, b)
    <3>1. Within(Ones(c, p), s, b) => Within(Ones(c, p - (k - 1)), s, b)
      BY <1>4
    <3> HIDE DEF i
    <3> QED BY <2>1, <3>1, Zenon
  <2> HIDE DEF i
  <2>3. Ranged(Ones(c, i)) /\ Bypass(Ones(c, i), 1, 1) = Ones(c, i + 1)
    BY <2>1, OnesFacts
  <2>4. 1 \in Nat /\ 1 \in 0..32 /\ 1 < Power(1)
    BY Powers
  <2>5. Within(Ones(c, i + 1), s, b) => Within(Ones(c, i), s, b)
    BY <2>3, <2>4, BypassWithin
  <2> QED BY <2>1, <2>2, <2>5 DEF i
<1> HIDE DEF S
<1>5. 0..p \subseteq S
  BY <1>2, <1>3, <1>4, InductionTo
<1>6. ASSUME Within(Ones(c, p), s, b), NEW i \in 0..p PROVE Within(Ones(c, i), s, b)
  <2> DEFINE k == p - i
  <2>1. k \in 0..p /\ p - k = i
    BY <1>2
  <2> HIDE DEF k
  <2>2. Within(Ones(c, p - k), s, b)
    BY <1>5, <1>6, <2>1 DEF S
  <2> QED BY <2>1, <2>2, Zenon
<1> QED BY <1>1, <1>6

\* One prefix and the bins behind it, read back.
EscapeReads(c, p, rice, y, v, n, s, b) ==
    Within(Bypass(y, v, n), s, b) =>
        /\ Within(c, s, b)
        /\ ReadsRem(Tracker(c, s, b), rice, Offset(p, rice) + v, Tracker(Bypass(y, v, n), s, b))

LEMMA EscapeRead ==
    ASSUME NEW s \in Seq(Byte), NEW b \in Nat, NEW c, Ranged(c), NEW p \in 0..17,
           NEW rice \in 0..3, NEW n \in 0..32, n = Length(p, rice),
           NEW y, y = (IF p < 17 THEN OnesStop(c, p) ELSE Ones(c, p)),
           NEW v \in Nat, v < Power(n)
    PROVE  EscapeReads(c, p, rice, y, v, n, s, b)
<1>1. p \in Nat /\ p + 1 \in 0..32 /\ p \in 0..p /\ 0 \in 0..p
  OBVIOUS
<1>2. Ranged(Ones(c, p)) /\ Ones(c, 0) = c /\ Bypass(Ones(c, p), 0, 1) = OnesStop(c, p)
  BY OnesFacts
<1>3. Ranged(OnesStop(c, p))
  <2>1. 0 \in Nat /\ 1 \in 0..32
    OBVIOUS
  <2> QED BY <1>2, <2>1, BypassType
<1>4. Ranged(y)
  BY <1>2, <1>3
<1> SUFFICES ASSUME Within(Bypass(y, v, n), s, b)
             PROVE  /\ Within(c, s, b)
                    /\ ReadsRem(Tracker(c, s, b), rice, Offset(p, rice) + v,
                                Tracker(Bypass(y, v, n), s, b))
  BY Zenon DEF EscapeReads
<1>5. Within(y, s, b)
  BY <1>4, BypassWithin
<1>6. /\ p < 17 => Within(OnesStop(c, p), s, b)
      /\ Within(Ones(c, p), s, b)
  BY <1>5, OnesWithin
<1>7. \A i \in 0..p : Within(Ones(c, i), s, b)
  BY <1>6, OnesWithin
<1>8. Prefixed(c, p, s, b)
  BY <1>6, <1>7, PrefixRead
<1>9. LongestPrefix = 17
  <2>1. LongestPrefix = 32 - 15
    BY Zenon DEF LongestPrefix, MaxLog2TrDynamicRange
  <2> QED BY <2>1
<1>10. PrefixOf(Tracker(c, s, b)) = Bits(p, Tracker(y, s, b), p < 17)
  <2>1. CASE p < 17
    <3>1. (p < 17) = TRUE
      BY <2>1
    <3>2. PrefixOf(Tracker(c, s, b)) = Bits(p, Tracker(OnesStop(c, p), s, b), TRUE)
      BY <1>8, <1>9, <2>1, Zenon DEF Prefixed
    <3>3. y = OnesStop(c, p)
      BY <2>1
    <3> QED BY <3>1, <3>2, <3>3, Zenon
  <2>2. CASE ~(p < 17)
    <3>1. (p < 17) = FALSE
      BY <2>2
    <3>2. PrefixOf(Tracker(c, s, b)) = Bits(p, Tracker(Ones(c, p), s, b), FALSE)
      BY <1>8, <1>9, <2>2, Zenon DEF Prefixed
    <3>3. y = Ones(c, p)
      BY <2>2
    <3> QED BY <3>1, <3>2, <3>3, Zenon
  <2> QED BY <2>1, <2>2
<1>11. decodeBinsEP(Tracker(y, s, b), n) = Answer(v, Tracker(Bypass(y, v, n), s, b))
  <2>1. Decodes(y, Bypass(y, v, n), decodeBinsEP(Tracker(y, s, b), n), v, s, b)
    BY <1>4, BinsDecoded
  <2> QED BY <2>1, Zenon DEF Decodes
<1>12. ReadsRem(Tracker(c, s, b), rice, Offset(p, rice) + v, Tracker(Bypass(y, v, n), s, b))
  BY <1>10, <1>11, RemRead, Zenon
<1>13. Within(c, s, b)
  BY <1>1, <1>2, <1>7, Zenon
<1> QED BY <1>12, <1>13

\* encodeRemAbsEP as a code.
EscapeCode(c, bins, rice) ==
    LET quotient  == bins \div 2^rice
        codeValue == quotient - Cutoff
        prefix    == PrefixLength(codeValue)
        suffix    == (codeValue - (2^prefix - 1)) * 2^rice + (bins % 2^rice)
        suffixLength == IF prefix = MaxPrefixLength
                        THEN MaxLog2TrDynamicRange ELSE prefix + rice + 1
    IN  IF bins < Cutoff * 2^rice
        THEN Bypass(Bypass(c, 2^(quotient + 1) - 2, quotient + 1), bins % 2^rice, rice)
        ELSE Bypass(Bypass(c, 2^(prefix + Cutoff) - 1, prefix + Cutoff), suffix, suffixLength)

LEMMA EscapeDecoded ==
    ASSUME NEW s \in Seq(Byte), NEW b \in Nat, NEW c, Ranged(c),
           NEW rice \in 0..3, NEW bins \in Nat, bins <= Power(15)
    PROVE  /\ Decodes(c, EscapeCode(c, bins, rice), decodeRemAbsEP(Tracker(c, s, b), rice), bins, s, b)
           /\ Ranged(EscapeCode(c, bins, rice))
<1> DEFINE m == Power(rice)
           q == bins \div m
           low == bins % m
           cv == q - 5
           P == PrefixLength(cv)
           x == cv - (Power(P) - 1)
           suffix == x * m + low
           code == EscapeCode(c, bins, rice)
<1>0. Cutoff = 5 /\ LongestPrefix = 17 /\ MaxLog2TrDynamicRange = 15 /\ MaxPrefixLength = 12
      /\ rice \in 0..32 /\ rice \in Nat
  <2>1. LongestPrefix = 32 - 15 /\ MaxPrefixLength = 32 - 5 - 15
    BY Zenon DEF LongestPrefix, MaxLog2TrDynamicRange, MaxPrefixLength, Cutoff
  <2>2. Cutoff = 5 /\ MaxLog2TrDynamicRange = 15
    BY Zenon DEF MaxLog2TrDynamicRange, Cutoff
  <2>3. 32 - 15 = 17 /\ 32 - 5 - 15 = 12
    OBVIOUS
  <2> QED BY <2>1, <2>2, <2>3
<1>1. m \in Nat \ {0} /\ m <= 8
  <2>1. rice = 0 \/ rice = 1 \/ rice = 2 \/ rice = 3
    OBVIOUS
  <2>2. Power(0) = 1 /\ Power(1) = 2 /\ Power(2) = 4 /\ Power(3) = 8
    BY Powers
  <2>3. m = 1 \/ m = 2 \/ m = 4 \/ m = 8
    BY <2>1, <2>2, Zenon
  <2> HIDE DEF m
  <2> QED BY <2>3
<1> HIDE DEF m
<1>2. low \in 0..(m - 1) /\ bins = m * q + low /\ q \in Int
  <2>1. bins \in Int
    OBVIOUS
  <2>2. /\ bins % m \in 0..(m - 1) /\ bins = m * (bins \div m) + (bins % m)
        /\ bins \div m \in Int
    BY ONLY <1>1, <2>1, Division
  <2> QED BY <2>2
<1> HIDE DEF low, q
<1>3. q \in Nat /\ low \in Nat /\ low < m
  <2>1. low \in Nat /\ low < m
    BY <1>1, <1>2
  <2>2. CASE q <= -1
    <3> DEFINE h == m * q
    <3>1. h <= m * (-1)
      BY <1>1, <1>2, <2>2, Monotonic
    <3>2. m * (-1) = -m
      BY <1>1
    <3>3. h \in Int /\ bins = h + low
      BY <1>1, <1>2
    <3> HIDE DEF h
    <3> QED BY <1>1, <2>1, <3>1, <3>2, <3>3
  <2> QED BY <1>2, <2>1, <2>2
<1>4. code = IF bins < 5 * m THEN Bypass(OnesStop(c, q), low, rice)
             ELSE Bypass(Ones(c, P + 5), suffix, IF P = 12 THEN 15 ELSE P + rice + 1)
  BY <1>0, Zenon DEF EscapeCode, OnesStop, Ones, Power, m, q, low, cv
<1> HIDE DEF code
<1>5. CASE bins < 5 * m
  <2>1. q < 5
    <3>1. CASE q >= 5
      <4>1. m * 5 <= m * q
        BY <1>1, <1>3, <3>1, Monotonic
      <4> DEFINE h == m * q
      <4>2. m * 5 = 5 * m /\ h \in Nat /\ bins = h + low /\ m * 5 <= h
        BY <1>1, <1>2, <1>3, <4>1
      <4> HIDE DEF h
      <4> QED BY <1>1, <1>3, <1>5, <4>2
    <3> QED BY <1>3, <3>1
  <2>2. q \in 0..17 /\ q < 17 /\ Length(q, rice) = rice /\ Offset(q, rice) = q * m
    <3>1. q \in 0..17 /\ q < 17
      BY <1>3, <2>1
    <3>2. Length(q, rice) = rice
      <4>1. q < Cutoff /\ q # LongestPrefix
        BY <1>0, <2>1
      <4> QED BY <4>1, Zenon DEF Length
    <3>3. Offset(q, rice) = q * m
      BY <1>0, <2>1, Zenon DEF Offset, m
    <3> QED BY <3>1, <3>2, <3>3
  <2> DEFINE y == OnesStop(c, q)
  <2>3. y = IF q < 17 THEN OnesStop(c, q) ELSE Ones(c, q)
    BY <2>2
  <2>4. code = Bypass(y, low, rice)
    BY <1>4, <1>5, Zenon
  <2>5. Ranged(y)
    <3>1. Ranged(Ones(c, q)) /\ Bypass(Ones(c, q), 0, 1) = OnesStop(c, q) /\ 0 \in Nat /\ 1 \in 0..32
      BY <2>2, OnesFacts
    <3> QED BY <3>1, BypassType
  <2> HIDE DEF y
  <2>6. Ranged(code)
    BY <1>0, <1>3, <2>4, <2>5, BypassType
  <2>7. Within(code, s, b) =>
          /\ Within(c, s, b)
          /\ ReadsRem(Tracker(c, s, b), rice, Offset(q, rice) + low, Tracker(code, s, b))
    <3>1. low < Power(rice)
      BY <1>3, Zenon DEF m
    <3>2. EscapeReads(c, q, rice, y, low, rice, s, b)
      BY <1>0, <1>3, <2>2, <2>3, <3>1, EscapeRead
    <3> QED BY <2>4, <3>2, Zenon DEF EscapeReads
  <2>8. Offset(q, rice) + low = bins
    <3>1. q * m = m * q
      BY <1>1, <1>3
    <3> QED BY <1>2, <2>2, <3>1
  <2>9. Decodes(c, code, decodeRemAbsEP(Tracker(c, s, b), rice), bins, s, b)
    BY <2>7, <2>8, Zenon DEF Decodes, ReadsRem
  <2> QED BY <2>6, <2>9, Zenon DEF code
<1>6. CASE ~(bins < 5 * m)
  <2>1. cv \in Nat
    <3>1. CASE q <= 4
      <4>1. m * q <= m * 4
        BY <1>1, <1>3, <3>1, Monotonic
      <4> DEFINE h == m * q
      <4>2. m * 4 = 4 * m /\ h \in Nat /\ bins = h + low /\ h <= m * 4
        BY <1>1, <1>2, <1>3, <4>1
      <4> HIDE DEF h
      <4> QED BY <1>1, <1>3, <1>6, <4>2
    <3> QED BY <1>3, <3>1
  <2>2. P \in 0..12 /\ Power(P) - 1 <= cv /\ (P < 12 => cv <= 2 * Power(P) - 2)
    BY <2>1, PrefixSound
  <2>3. P \in Nat /\ P <= 12 /\ P \in 0..32 /\ P + 5 \in 0..17 /\ (P + 5 < 17 <=> P < 12)
    BY <2>2
  <2>4. Power(P) \in Nat \ {0}
    BY <2>3, PowerType
  <2> HIDE DEF P
  <2>5. x \in Nat /\ (P < 12 => x < Power(P)) /\ (cv = x + Power(P) - 1)
    <3> HIDE DEF cv
    <3> QED BY <2>1, <2>2, <2>4
  <2>6. q = x + Power(P) + 4
    <3>1. cv = q - 5
      OBVIOUS
    <3> HIDE DEF cv, x
    <3> QED BY <1>3, <2>1, <2>4, <2>5, <3>1
  <2> HIDE DEF x
  <2>7. suffix \in Nat
    BY <1>1, <1>3, <2>5
  <2>8. bins = (Power(P) + 4) * m + suffix
    <3> DEFINE w == Power(P)
    <3>1. w \in Nat
      BY <2>4
    <3> HIDE DEF w
    <3>2. m * ((x + w) + 4) = (w + 4) * m + x * m
      BY <1>1, <2>5, <3>1
    <3>3. m * q = m * ((x + w) + 4)
      BY <2>6, <2>5, <3>1 DEF w
    <3> DEFINE g == (w + 4) * m
               h == x * m
               k == m * q
    <3>4. g \in Nat /\ h \in Nat /\ k \in Nat /\ k = g + h /\ suffix = h + low /\ bins = k + low
      BY <1>1, <1>2, <1>3, <2>5, <3>1, <3>2, <3>3
    <3> HIDE DEF g, h, k, suffix
    <3>5. bins = g + suffix
      BY <1>3, <3>4
    <3> QED BY <3>5 DEF g, w
  <2> HIDE DEF suffix
  <2>9. CASE P < 12
    <3> DEFINE n == rice + P
               y == OnesStop(c, P + 5)
    <3>1. n \in 0..32 /\ n \in Nat /\ n = P + rice /\ P + rice <= 32 /\ 1 + n <= 32 /\ 1 + n = P + rice + 1
      BY <1>0, <2>3
    <3>2. suffix < Power(n)
      <4>1. Power(P + rice) = Power(P) * Power(rice)
        BY <1>0, <2>3, <3>1, PowerSum
      <4>2. m * (x + 1) <= m * Power(P)
        BY <1>1, <2>4, <2>5, <2>9, Monotonic
      <4> DEFINE w == Power(P)
                 h == x * m
                 k == w * m
      <4>3. w \in Nat /\ Power(n) = k
        BY <2>4, <3>1, <4>1 DEF m
      <4>4. m * (x + 1) = h + m /\ m * w = k /\ h \in Nat /\ k \in Nat
        BY <1>1, <2>4, <2>5
      <4>5. h + m <= k
        BY <4>2, <4>4
      <4>6. suffix = h + low
        BY DEF suffix
      <4> HIDE DEF h, k
      <4> QED BY <1>1, <1>3, <4>3, <4>4, <4>5, <4>6
    <3>3. y = IF P + 5 < 17 THEN OnesStop(c, P + 5) ELSE Ones(c, P + 5)
      BY <2>3, <2>9
    <3>4. Ranged(Ones(c, P + 5)) /\ Bypass(Ones(c, P + 5), 0, 1) = y
      BY <2>3, OnesFacts
    <3>5. Ranged(y)
      <4>1. 0 \in Nat /\ 1 \in 0..32
        OBVIOUS
      <4> QED BY <3>4, <4>1, BypassType
    <3> HIDE DEF y
    <3>6. code = Bypass(y, suffix, n)
      <4>1. code = Bypass(Ones(c, P + 5), suffix, P + rice + 1)
        <5>1. P # 12
          BY <2>9
        <5> QED BY <1>4, <1>6, <5>1, Zenon
      <4>2. Bypass(Bypass(Ones(c, P + 5), 0, 1), suffix, n)
              = Bypass(Ones(c, P + 5), 0 * Power(n) + suffix, 1 + n)
        <5>1. 0 \in Nat /\ 1 \in Nat
          OBVIOUS
        <5> QED BY <2>7, <3>1, <3>4, <5>1, BypassSplit
      <4>3. 0 * Power(n) + suffix = suffix
        <5>1. Power(n) \in Nat
          BY <3>1, PowerType
        <5> QED BY <2>7, <5>1
      <4> QED BY <3>1, <3>4, <4>1, <4>2, <4>3, Zenon
    <3>7. Length(P + 5, rice) = n /\ Offset(P + 5, rice) = (Power(P) + 4) * m
      <4>1. ~(P + 5 < 5) /\ P + 5 # 17 /\ P + 5 - 5 = P
        BY <2>3, <2>9
      <4>2. Length(P + 5, rice) = rice + ((P + 5) - 5)
        <5>1. ~(P + 5 < Cutoff) /\ P + 5 # LongestPrefix
          BY <1>0, <4>1
        <5> QED BY <1>0, <5>1, Zenon DEF Length
      <4>3. rice + ((P + 5) - 5) = n
        BY <1>0, <2>3
      <4>4. Offset(P + 5, rice) = (Power(P) + 5 - 1) * Power(rice)
        <5>1. Offset(P + 5, rice) = (Power((P + 5) - 5) + 5 - 1) * Power(rice)
          BY <1>0, <4>1, Zenon DEF Offset
        <5>2. (P + 5) - 5 = P
          BY <2>3
        <5> QED BY <5>1, <5>2, Zenon
      <4>5. Power(P) + 5 - 1 = Power(P) + 4
        BY <2>4
      <4> QED BY <4>2, <4>3, <4>4, <4>5, Zenon DEF m
    <3> HIDE DEF n
    <3>8. Ranged(code)
      BY <2>7, <3>1, <3>5, <3>6, BypassType
    <3>9. Within(code, s, b) =>
            /\ Within(c, s, b)
            /\ ReadsRem(Tracker(c, s, b), rice, Offset(P + 5, rice) + suffix, Tracker(code, s, b))
      <4>1. EscapeReads(c, P + 5, rice, y, suffix, n, s, b)
        <5> HIDE DEF suffix
        <5> QED BY <2>3, <2>7, <3>1, <3>2, <3>3, <3>7, EscapeRead
      <4> QED BY <3>6, <4>1, Zenon DEF EscapeReads
    <3>10. Offset(P + 5, rice) + suffix = bins
      BY <2>8, <3>7
    <3>11. Decodes(c, code, decodeRemAbsEP(Tracker(c, s, b), rice), bins, s, b)
      BY <3>9, <3>10, Zenon DEF Decodes, ReadsRem
    <3> QED BY <3>8, <3>11, Zenon DEF code
  <2>10. CASE P = 12
    <3> DEFINE y == Ones(c, P + 5)
    <3>1. P + 5 = 17 /\ Power(P) = 4096 /\ Power(15) = 32768 /\ 15 \in 0..32
      BY <2>10, Powers
    <3>2. suffix < 32768
      <4>1. (Power(P) + 4) * m = 4100 * m
        BY <1>1, <3>1
      <4> DEFINE k == (Power(P) + 4) * m
      <4>2. k = 4100 * m /\ bins = k + suffix
        BY <2>8, <4>1
      <4> HIDE DEF k, suffix
      <4> QED BY <1>1, <2>7, <3>1, <4>2
    <3>3. y = IF P + 5 < 17 THEN OnesStop(c, P + 5) ELSE Ones(c, P + 5)
      BY <3>1
    <3>4. Ranged(y)
      BY <2>3, OnesFacts
    <3> HIDE DEF y
    <3>5. code = Bypass(y, suffix, 15)
      BY <1>4, <1>6, <2>10, Zenon DEF y
    <3>6. Length(P + 5, rice) = 15 /\ Offset(P + 5, rice) = (Power(P) + 4) * m
      <4>1. ~(P + 5 < 5) /\ P + 5 = 17
        BY <2>3, <3>1
      <4>2. Length(P + 5, rice) = 15
        BY <1>0, <4>1, Zenon DEF Length
      <4>3. Offset(P + 5, rice) = (Power((P + 5) - 5) + 5 - 1) * Power(rice)
        BY <1>0, <4>1, Zenon DEF Offset
      <4>4. (P + 5) - 5 = P
        BY <2>3
      <4>5. Power(P) + 5 - 1 = Power(P) + 4
        BY <2>4
      <4> QED BY <4>2, <4>3, <4>4, <4>5, Zenon DEF m
    <3>7. Ranged(code)
      BY <2>7, <3>1, <3>4, <3>5, BypassType
    <3>8. Within(code, s, b) =>
            /\ Within(c, s, b)
            /\ ReadsRem(Tracker(c, s, b), rice, Offset(P + 5, rice) + suffix, Tracker(code, s, b))
      <4>1. suffix < Power(15)
        BY <3>1, <3>2
      <4>2. EscapeReads(c, P + 5, rice, y, suffix, 15, s, b)
        <5> DEFINE n == 15
        <5>1. n \in 0..32 /\ n = Length(P + 5, rice) /\ suffix < Power(n)
          BY <3>1, <3>6, <4>1
        <5> HIDE DEF n, suffix
        <5>2. EscapeReads(c, P + 5, rice, y, suffix, n, s, b)
          BY <2>3, <2>7, <3>3, <5>1, EscapeRead
        <5> QED BY <5>2, Zenon DEF n
      <4> QED BY <3>5, <4>2, Zenon DEF EscapeReads
    <3>9. Offset(P + 5, rice) + suffix = bins
      BY <2>8, <3>6
    <3>10. Decodes(c, code, decodeRemAbsEP(Tracker(c, s, b), rice), bins, s, b)
      BY <3>8, <3>9, Zenon DEF Decodes, ReadsRem
    <3> QED BY <3>7, <3>10, Zenon DEF code
  <2> QED BY <2>3, <2>9, <2>10
<1> QED BY <1>5, <1>6

-----------------------------------------------------------------------------
(* Terminating bins that are 0, and alignment: the lower part is kept.     *)
Keeps(c, part, s, b) ==
    LET d == Tracker(c, s, b)
    IN  /\ [d EXCEPT !.range = part] = Tracker(Part(c, 0, part, 0), s, b)
        /\ b + Whole(c.bits + 1) <= Len(s) =>
              Consumed([d EXCEPT !.range = 2 * part], 1) = Tracker(Part(c, 0, part, 1), s, b)

LEMMA PartKept ==
    ASSUME NEW s \in Seq(Byte), NEW b \in Nat, NEW c \in Codes, NEW part \in Nat,
           b + Whole(c.bits) <= Len(s)
    PROVE  Keeps(c, part, s, b)
<1> DEFINE d == Tracker(c, s, b)
           q == c.bits + 7
           l == 128 * c.low
           double == 2 * part
<1>1. /\ c.range \in Nat /\ c.low \in Nat /\ c.bits \in Nat /\ l \in Int /\ double \in Nat
      /\ 0 \in Nat /\ 0 \in Int /\ 1 \in 0..8
  BY DEF Codes
<1>2. d = Reader(s, b, q, l, c.range)
  BY Zenon DEF Tracker
<1>3. Window(s, b, q) \in Int
  BY <1>1, TrackerCompares
<1>4. ASSUME NEW r PROVE [d EXCEPT !.range = r] = Reader(s, b, q, l, r)
  <2>1. Changes(s, b, q, l, c.range, 0, r)
    <3> HIDE DEF q, l
    <3> QED BY <1>1, <1>3, ReaderChanged
  <2> QED BY <1>2, <2>1, Zenon DEF Changes
<1>5. Reader(s, b, q, l, part) = Tracker(Part(c, 0, part, 0), s, b)
  <2>1. /\ 128 * ((c.low + 0) * Power(0)) = l /\ (c.bits + 0) + 7 = q
        /\ part * Power(0) = part
    <3> DEFINE y == c.low
               o == c.bits
    <3>1. y \in Nat /\ o \in Nat /\ Power(0) = 1
      BY <1>1, Powers
    <3> HIDE DEF y, o
    <3>2. 128 * ((y + 0) * 1) = 128 * y /\ (o + 0) + 7 = o + 7 /\ part * 1 = part
      BY <3>1
    <3> QED BY <3>1, <3>2, Zenon DEF y, o
  <2>2. Tracker(Part(c, 0, part, 0), s, b)
          = Reader(s, b, (c.bits + 0) + 7, 128 * ((c.low + 0) * Power(0)), part * Power(0))
    BY DEF Tracker, Part
  <2> QED BY <2>1, <2>2
<1>6. ASSUME b + Whole(c.bits + 1) <= Len(s)
      PROVE  Consumed(Reader(s, b, q, l, double), 1) = Tracker(Part(c, 0, part, 1), s, b)
  <2>1. Advances(c, 0, part, 1, s, b)
    BY <1>1, <1>6, PartTracked
  <2>2. l + 0 * 128 = l /\ part * Power(1) = double
    <3>1. Power(1) = 2
      BY Powers
    <3> HIDE DEF l
    <3> QED BY <1>1, <3>1
  <2>3. Consumed(Reader(s, b, q, l + 0 * 128, part * Power(1)), 1) = Tracker(Part(c, 0, part, 1), s, b)
    BY <2>1, Zenon DEF Advances
  <2> QED BY <2>2, <2>3, Zenon
<1> QED BY <1>4, <1>5, <1>6, Zenon DEF Keeps

TrmCode(c) == Part(c, 0, c.range - 2, IF c.range - 2 < 256 THEN 1 ELSE 0)

LEMMA TrmDecoded ==
    ASSUME NEW s \in Seq(Byte), NEW b \in Nat, NEW c, Ranged(c)
    PROVE  /\ Decodes(c, TrmCode(c), decodeBinTrm(Tracker(c, s, b)), 0, s, b)
           /\ Ranged(TrmCode(c))
<1> DEFINE rest == c.range - 2
           n == IF rest < 256 THEN 1 ELSE 0
           x == Part(c, 0, rest, n)
           d == Tracker(c, s, b)
           r == decodeBinTrm(d)
           less == d.value < rest * 128
<1>1. /\ c \in Codes /\ c.range \in Nat /\ 256 <= c.range /\ c.range <= 510
      /\ c.low \in Nat /\ c.bits \in Nat
      /\ rest \in Nat /\ 254 <= rest /\ rest <= 508 /\ 0 + rest <= c.range
      /\ n \in 0..32 /\ n \in 0..8 /\ 0 \in Nat
  BY DEF Codes, Ranged
<1>2. d.range = c.range
  BY DEF Tracker, Reader, Decoder
<1>3. Ranged(x)
  <2>1. x \in Codes
    <3> HIDE DEF rest, n
    <3> QED BY <1>1, PartType
  <2>2. x.range = rest * Power(n)
    BY DEF Part
  <2>3. Power(0) = 1 /\ Power(1) = 2
    BY Powers
  <2>4. rest * Power(n) \in Nat /\ 256 <= rest * Power(n) /\ rest * Power(n) <= 510
    <3>1. CASE rest < 256
      <4>1. Power(n) = 2
        BY <2>3, <3>1
      <4> HIDE DEF rest, n
      <4> QED BY <1>1, <3>1, <4>1
    <3>2. CASE ~(rest < 256)
      <4>1. Power(n) = 1
        BY <2>3, <3>2
      <4> HIDE DEF rest, n
      <4> QED BY <1>1, <3>2, <4>1
    <3> QED BY <3>1, <3>2
  <2> HIDE DEF x
  <2> QED BY <2>1, <2>2, <2>4 DEF Ranged
<1>4. ASSUME Within(x, s, b) PROVE Within(c, s, b) /\ r = Answer(0, Tracker(x, s, b))
  <2> DEFINE f == First(s, b, c.bits)
  <2>1. b + Whole(c.bits) <= Len(s) /\ f \in Nat /\ f < (c.low + 0) + rest /\ Within(c, s, b)
    <3>1. Within(Part(c, 0, rest, n), s, b)
      BY <1>4
    <3> HIDE DEF rest, n, x
    <3> QED BY <1>1, <3>1, PartWithin
  <2>2. d.value \in Int /\ (d.value >= rest * 128 <=> f >= c.low + rest)
    <3> HIDE DEF rest
    <3> QED BY <1>1, <2>1, TrackerCompares
  <2>3. ~(d.value >= rest * 128) /\ d.value < rest * 128
    <3> HIDE DEF d, rest
    <3> QED BY <1>1, <2>1, <2>2
  <2>4. Keeps(c, rest, s, b)
    <3> HIDE DEF rest
    <3> QED BY <1>1, <2>1, PartKept
  <2>5. r = CASE d.value >= rest * 128 -> Answer(1, [d EXCEPT !.range = rest])
              [] d.value < rest * 128 /\ rest < 256 -> Answer(0, Consumed([d EXCEPT !.range = 2 * rest], 1))
              [] OTHER -> Answer(0, [d EXCEPT !.range = rest])
    <3> HIDE DEF d
    <3> QED BY <1>2, Zenon DEF decodeBinTrm, Answer
  <2>6. CASE rest < 256
    <3>1. n = 1
      BY <2>6
    <3>2. b + Whole(c.bits + 1) <= Len(s)
      BY <1>4, <3>1 DEF Within, Part
    <3>3. Consumed([d EXCEPT !.range = 2 * rest], 1) = Tracker(Part(c, 0, rest, 1), s, b)
      BY <2>4, <3>2, Zenon DEF Keeps
    <3>4. r = Answer(0, Consumed([d EXCEPT !.range = 2 * rest], 1))
      <4> HIDE DEF d, r, rest
      <4> QED BY <2>3, <2>5, <2>6
    <3> QED BY <2>1, <3>1, <3>3, <3>4, Zenon
  <2>7. CASE ~(rest < 256)
    <3>1. n = 0
      BY <2>7
    <3>2. [d EXCEPT !.range = rest] = Tracker(Part(c, 0, rest, 0), s, b)
      BY <2>4, Zenon DEF Keeps
    <3>3. r = Answer(0, [d EXCEPT !.range = rest])
      <4> HIDE DEF d, r, rest
      <4> QED BY <2>3, <2>5, <2>7
    <3> QED BY <2>1, <3>1, <3>2, <3>3, Zenon
  <2> QED BY <2>6, <2>7
<1>5. TrmCode(c) = x
  BY Zenon DEF TrmCode
<1> QED BY <1>3, <1>4, <1>5, Zenon DEF Decodes

AlignCode(c) == Part(c, 0, 256, 0)

LEMMA AlignDecoded ==
    ASSUME NEW s \in Seq(Byte), NEW b \in Nat, NEW c, Ranged(c)
    PROVE  /\ Decodes(c, AlignCode(c), Answer(0, align(Tracker(c, s, b))), 0, s, b)
           /\ Ranged(AlignCode(c))
<1> DEFINE part == 256
           x == Part(c, 0, part, 0)
<1>1. /\ c \in Codes /\ part \in Nat /\ 0 \in Nat /\ 0 \in 0..32 /\ 0 + part <= c.range
      /\ c.low \in Nat /\ c.bits \in Nat /\ c.range \in Nat
  BY DEF Codes, Ranged
<1>2. Ranged(x)
  <2>1. x \in Codes
    <3> HIDE DEF part
    <3> QED BY <1>1, PartType
  <2>2. x.range = 256 * Power(0) /\ Power(0) = 1
    BY Powers DEF Part
  <2> HIDE DEF x
  <2> QED BY <2>1, <2>2 DEF Ranged
<1>3. align(Tracker(c, s, b)) = [Tracker(c, s, b) EXCEPT !.range = part]
  BY Zenon DEF align
<1>4. AlignCode(c) = x
  BY Zenon DEF AlignCode
<1>5. ASSUME Within(x, s, b) PROVE Within(c, s, b) /\ align(Tracker(c, s, b)) = Tracker(x, s, b)
  <2>1. Within(Part(c, 0, part, 0), s, b)
    BY <1>5
  <2> HIDE DEF part, x
  <2>2. b + Whole(c.bits) <= Len(s) /\ Within(c, s, b)
    BY <1>1, <2>1, PartWithin
  <2>3. Keeps(c, part, s, b)
    BY <1>1, <2>2, PartKept
  <2> QED BY <1>3, <2>2, <2>3, Zenon DEF Keeps, x
<1> HIDE DEF x, part
<1> QED BY <1>2, <1>4, <1>5, Zenon DEF Decodes

-----------------------------------------------------------------------------
(* A symbol, coded and decoded. *)
\* The code of a symbol.
SymbolCode(c, models, y) ==
    CASE y.kind = "ctx"   -> ContextCode(c, models[y.arg], y.bins)
      [] y.kind = "ep"    -> Bypass(c, y.bins, 1)
      [] y.kind = "eps"   -> Bypass(c, y.bins, y.arg)
      [] y.kind = "rem"   -> EscapeCode(c, y.bins, y.arg)
      [] y.kind = "trm"   -> TrmCode(c)
      [] y.kind = "align" -> AlignCode(c)

LEMMA SymbolDecoded ==
    ASSUME NEW s \in Seq(Byte), NEW b \in Nat, NEW c, Ranged(c),
           NEW models \in Models, NEW y \in Symbols
    PROVE  /\ Decodes(c, SymbolCode(c, models, y), Decoded(Tracker(c, s, b), models, y), y.bins, s, b)
           /\ Ranged(SymbolCode(c, models, y))
<1> DEFINE d == Tracker(c, s, b)
           x == SymbolCode(c, models, y)
           r == Decoded(d, models, y)
<1> HIDE DEF d
<1>0. y.kind \in Kinds /\ y.arg \in Nat /\ y.bins \in Nat
  BY SymbolTypes
<1>1. CASE y.kind = "ctx"
  <2>1. y.arg \in DOMAIN CtxModels /\ y.bins \in 0..1
    BY <1>1, ChannelAssumption
  <2>2. models[y.arg] \in ProbModel
    BY <2>1 DEF Models
  <2>3. r = decodeBin(d, models[y.arg]) /\ x = ContextCode(c, models[y.arg], y.bins)
    BY <1>1, Zenon DEF Decoded, SymbolCode
  <2> HIDE DEF r, x
  <2> QED BY <2>1, <2>2, <2>3, ContextDecoded DEF r, x, d
<1>2. CASE y.kind = "ep"
  <2>0. y.bins \in 0..1
    BY <1>2, ChannelAssumption
  <2>1. y.bins \in Nat /\ y.bins < Power(1) /\ 1 \in 0..8 /\ 1 \in 0..32
    <3>1. Power(1) = 2
      BY Powers
    <3> QED BY <2>0, <3>1
  <2>2. r = DecodeChunk(d, 1) /\ x = Bypass(c, y.bins, 1)
    BY <1>2 DEF Decoded, SymbolCode, decodeBinEP
  <2>3. Decodes(c, x, r, y.bins, s, b) /\ Ranged(x)
    <3> HIDE DEF r, x
    <3> QED BY <2>1, <2>2, ChunkDecoded, BypassType DEF d
  <2> QED BY <2>3 DEF d
<1>3. CASE y.kind = "eps"
  <2>1. y.bins \in Nat /\ y.arg \in 0..32 /\ y.bins < Power(y.arg)
    BY <1>0, <1>3, ChannelAssumption DEF Power
  <2>2. r = decodeBinsEP(d, y.arg) /\ x = Bypass(c, y.bins, y.arg)
    BY <1>3 DEF Decoded, SymbolCode
  <2>3. Decodes(c, x, r, y.bins, s, b) /\ Ranged(x)
    <3> HIDE DEF r, x
    <3> QED BY <2>1, <2>2, BinsDecoded, BypassType DEF d
  <2> QED BY <2>3 DEF d
<1>4. CASE y.kind = "rem"
  <2>1. y.bins \in Nat /\ y.arg \in 0..3 /\ y.bins <= Power(15)
    <3>1. Power(15) = 32768
      BY Powers
    <3>2. y.arg \in 0..3 /\ y.bins <= 32768
      BY <1>4, ChannelAssumption
    <3> QED BY <1>0, <3>1, <3>2
  <2>2. r = decodeRemAbsEP(d, y.arg) /\ x = EscapeCode(c, y.bins, y.arg)
    BY <1>4 DEF Decoded, SymbolCode
  <2>3. Decodes(c, x, r, y.bins, s, b) /\ Ranged(x)
    <3> HIDE DEF r, x
    <3> QED BY <2>1, <2>2, EscapeDecoded DEF d
  <2> QED BY <2>3 DEF d
<1>5. CASE y.kind = "trm"
  <2>1. y.bins = 0
    BY <1>5, ChannelAssumption
  <2>2. r = decodeBinTrm(d) /\ x = TrmCode(c)
    BY <1>5 DEF Decoded, SymbolCode
  <2>3. Decodes(c, x, r, y.bins, s, b) /\ Ranged(x)
    <3> HIDE DEF r, x
    <3> QED BY <2>1, <2>2, TrmDecoded DEF d
  <2> QED BY <2>3 DEF d
<1>6. CASE y.kind = "align"
  <2>1. y.bins = 0
    BY <1>6, ChannelAssumption
  <2>2. r = Answer(0, align(d)) /\ x = AlignCode(c)
    BY <1>6 DEF Decoded, SymbolCode, Answer
  <2>3. Decodes(c, x, r, y.bins, s, b) /\ Ranged(x)
    <3> HIDE DEF r, x
    <3> QED BY <2>1, <2>2, AlignDecoded DEF d
  <2> QED BY <2>3 DEF d
<1> QED BY <1>0, <1>1, <1>2, <1>3, <1>4, <1>5, <1>6 DEF Kinds

-----------------------------------------------------------------------------
(* The number that the encoder holds: bytes that are written, bytes that may *)
(* still get a carry, and low.                                              *)
Run(x, n) == [i \in 1..n |-> x]

LEMMA RunFacts ==
    ASSUME NEW x \in Byte, NEW n \in Nat
    PROVE  /\ Run(x, n) \in Seq(Byte) /\ Len(Run(x, n)) = n
           /\ Run(x, n + 1) = Append(Run(x, n), x)
<1>1. Run(x, n) \in [1..n -> Byte]
  BY DEF Run
<1>2. Run(x, n) \in Seq(Byte) /\ Len(Run(x, n)) = n
  BY <1>1
<1>3. Run(x, n + 1) = Append(Run(x, n), x)
  <2> DEFINE a == Append(Run(x, n), x)
             r == Run(x, n + 1)
  <2>1. a \in Seq(Byte) /\ Len(a) = n + 1 /\ \A i \in 1..(n + 1) : a[i] = x
    BY <1>2, AppendProperties DEF Run
  <2>2. r = [i \in 1..(n + 1) |-> x]
    BY Zenon DEF Run
  <2>3. a = [i \in 1..(n + 1) |-> a[i]]
    <3> HIDE DEF a
    <3> QED BY <2>1
  <2> HIDE DEF a, r
  <2>4. a = r
    BY <2>1, <2>2, <2>3
  <2> QED BY <2>4 DEF a, r
<1> QED BY <1>2, <1>3

Grows(s, x, n) == s \o Run(x, n + 1) = Append(s \o Run(x, n), x)

LEMMA AppendRun ==
    ASSUME NEW s \in Seq(Byte), NEW x \in Byte, NEW n \in Nat
    PROVE  Grows(s, x, n)
<1>1. Run(x, n) \in Seq(Byte) /\ Run(x, n + 1) = Append(Run(x, n), x)
  BY RunFacts
<1> DEFINE r == Run(x, n)
<1>2. s \o Append(r, x) = Append(s \o r, x)
  <2> HIDE DEF r
  <2> QED BY <1>1 DEF r
<1> QED BY <1>1, <1>2, Zenon DEF Grows

LEMMA NumberAppend ==
    ASSUME NEW s \in Seq(Byte), NEW x \in Byte
    PROVE  /\ Append(s, x) \in Seq(Byte) /\ Len(Append(s, x)) = Len(s) + 1
           /\ Number(s) \in Nat /\ Number(Append(s, x)) = 256 * Number(s) + x
<1>1. s \in Seq(Nat) /\ x \in Nat
  BY BytesAreNat, ByteValue
<1>2. Append(s, x) \in Seq(Byte) /\ Len(Append(s, x)) = Len(s) + 1
  OBVIOUS
<1> QED BY <1>1, <1>2, NumberFacts

\* A carry goes through a run of 0xff bytes and makes it a run of zeros.
Carries(s, x, n) ==
    Number(Append(s, x + 1) \o Run(0, n)) = Number(Append(s, x) \o Run(255, n)) + 1

LEMMA RunCarries ==
    ASSUME NEW s \in Seq(Byte), NEW x \in Byte, x + 1 \in Byte, NEW N \in Nat
    PROVE  Carries(s, x, N)
<1> DEFINE t == Append(s, x)
           u == Append(s, x + 1)
           S == {n \in 0..N : Carries(s, x, n)}
<1>1. t \in Seq(Byte) /\ u \in Seq(Byte) /\ 0 \in Byte /\ 255 \in Byte /\ x \in Nat
  BY ByteValue
<1>2. 0 \in S
  <2>1. Run(0, 0) = <<>> /\ Run(255, 0) = <<>>
    BY DEF Run
  <2>2. t \o <<>> = t /\ u \o <<>> = u
    <3> HIDE DEF t, u
    <3> QED BY <1>1
  <2>3. Number(t) = 256 * Number(s) + x /\ Number(u) = 256 * Number(s) + (x + 1) /\ Number(s) \in Nat
    <3> DEFINE y == x + 1
    <3> HIDE DEF y
    <3>1. Number(Append(s, y)) = 256 * Number(s) + y
      BY NumberAppend DEF y
    <3> QED BY <3>1, NumberAppend DEF y
  <2> HIDE DEF t, u
  <2>4. Number(u) = Number(t) + 1
    BY <1>1, <2>3
  <2>5. Carries(s, x, 0)
    BY <2>1, <2>2, <2>4, Zenon DEF Carries, t, u
  <2> QED BY <2>5
<1> HIDE DEF t, u
<1>3. ASSUME NEW n \in 1..N, n - 1 \in S PROVE n \in S
  <2> DEFINE k == n - 1
  <2>1. k \in Nat /\ k + 1 = n
    OBVIOUS
  <2> HIDE DEF k
  <2>2. u \o Run(0, k + 1) = Append(u \o Run(0, k), 0)
        /\ t \o Run(255, k + 1) = Append(t \o Run(255, k), 255)
    <3>1. Grows(u, 0, k) /\ Grows(t, 255, k)
      BY <1>1, <2>1, AppendRun
    <3> QED BY <3>1, Zenon DEF Grows
  <2> DEFINE a == u \o Run(0, k)
             z == t \o Run(255, k)
  <2>3. a \in Seq(Byte) /\ z \in Seq(Byte)
    <3>1. Run(0, k) \in Seq(Byte) /\ Run(255, k) \in Seq(Byte)
      BY <1>1, <2>1, RunFacts
    <3> QED BY <1>1, <3>1, ConcatProperties
  <2>4. Number(a) = Number(z) + 1
    <3>1. Carries(s, x, k)
      BY <1>3 DEF k
    <3> QED BY <3>1, Zenon DEF Carries, t, u
  <2> HIDE DEF a, z
  <2>5. /\ Number(Append(a, 0)) = 256 * Number(a) + 0 /\ Number(a) \in Nat
        /\ Number(Append(z, 255)) = 256 * Number(z) + 255 /\ Number(z) \in Nat
    BY <1>1, <2>3, NumberAppend
  <2>6. Number(Append(a, 0)) = Number(Append(z, 255)) + 1
    BY <2>4, <2>5
  <2>7. Carries(s, x, k + 1)
    BY <2>2, <2>6, Zenon DEF Carries, t, u, a, z
  <2> QED BY <2>1, <2>7
<1> HIDE DEF S
<1>4. 0..N \subseteq S
  BY <1>2, <1>3, InductionTo
<1>5. N \in 0..N
  OBVIOUS
<1> QED BY <1>4, <1>5 DEF S

\* A stream without an unfinished byte.
Whole8(s) == [fifo |-> s, held |-> 0, numHeld |-> 0]
AtByte(e) == e.stream = Whole8(e.stream.fifo)

WritesByte(s, x) == write(Whole8(s), x, 8) = Whole8(Append(s, x))

LEMMA ByteWritten ==
    ASSUME NEW s \in Seq(Byte), NEW x \in Byte
    PROVE  WritesByte(s, x)
<1>1. x \in Int /\ 0 <= x /\ x <= 255
  BY ByteValue
<1>2. Power(0) = 1 /\ (0 + 8) % 8 = 0 /\ (0 + 8) \div 8 = 1
  <2>1. Power(0) = 1
    BY Powers
  <2> QED BY <2>1
<1> DEFINE v == 0 * Power(8) + x
<1>3. v = x
  <2>1. Power(8) = 256
    BY Powers
  <2> QED BY <1>1, <2>1
<1>4. write(Whole8(s), x, 8)
        = [fifo |-> s \o Bytes(v \div Power((0 + 8) % 8), (0 + 8) \div 8),
           held |-> v % Power((0 + 8) % 8), numHeld |-> (0 + 8) % 8]
  BY DEF write, Power, Whole8
<1>5. x \div 1 = x /\ x % 1 = 0
  BY <1>1
<1>6. write(Whole8(s), x, 8) = [fifo |-> s \o Bytes(x, 1), held |-> 0, numHeld |-> 0]
  BY <1>2, <1>3, <1>4, <1>5, Zenon
<1>7. Bytes(x, 1) = <<x>>
  <2>1. 8 * (1 - 1) = 0
    OBVIOUS
  <2>2. Bytes(x, 1) = [i \in 1..1 |-> (x \div Power(8 * (1 - i))) % 256]
    BY Zenon DEF Bytes, Power
  <2>3. ASSUME NEW i \in 1..1 PROVE (x \div Power(8 * (1 - i))) % 256 = x
    <3>1. i = 1
      OBVIOUS
    <3>2. (x \div 1) % 256 = x
      BY <1>1
    <3> QED BY <1>2, <2>1, <3>1, <3>2, Zenon
  <2>4. Bytes(x, 1) = [i \in 1..1 |-> x]
    BY <2>2, <2>3
  <2> QED BY <2>4
<1>8. s \o <<x>> = Append(s, x)
  OBVIOUS
<1> QED BY <1>6, <1>7, <1>8, Zenon DEF WritesByte, Whole8

\* The bytes that have left low.
Pending(e) ==
    IF e.numBufferedBytes = 0 THEN e.stream.fifo
    ELSE Append(e.stream.fifo, e.bufferedByte) \o Run(255, e.numBufferedBytes - 1)

LEMMA PendingType == ASSUME NEW e \in Unsettled PROVE Pending(e) \in Seq(Byte)
<1>1. /\ e.stream.fifo \in Seq(Byte) /\ e.bufferedByte \in Byte /\ e.numBufferedBytes \in Nat
      /\ 255 \in Byte
  BY ByteValue DEF Unsettled, Registers, Writer
<1>2. CASE e.numBufferedBytes # 0
  <2>1. e.numBufferedBytes - 1 \in Nat
    BY <1>1, <1>2
  <2>2. Run(255, e.numBufferedBytes - 1) \in Seq(Byte)
    BY <1>1, <2>1, RunFacts
  <2>3. Append(e.stream.fifo, e.bufferedByte) \in Seq(Byte)
    BY <1>1
  <2> QED BY <1>2, <2>2, <2>3, ConcatProperties DEF Pending
<1> QED BY <1>1, <1>2 DEF Pending

\* The buffered bytes with their carry, in the stream.
Drains(e, carry) ==
    LET w == Drained(e, carry)
    IN  /\ w = Whole8(w.fifo) /\ w.fifo \in Seq(Byte)
        /\ Len(w.fifo) = Len(Pending(e)) /\ Number(w.fifo) = Number(Pending(e)) + carry

LEMMA DrainedNumber ==
    ASSUME NEW e \in Unsettled, AtByte(e), e.numBufferedBytes # 0, NEW carry \in 0..1,
           e.bufferedByte + carry <= 255
    PROVE  Drains(e, carry)
<1> DEFINE s == e.stream.fifo
           x == e.bufferedByte
           n == e.numBufferedBytes - 1
           y == (255 + carry) % 256
           w == Drained(e, carry)
           z == x + carry
<1>1. s \in Seq(Byte) /\ x \in Byte /\ n \in Nat /\ 255 \in Byte /\ 0 \in Byte /\ x \in Nat
  <2>1. s \in Seq(Byte)
    BY DEF Unsettled, Registers, Writer
  <2>2. x \in Byte /\ e.numBufferedBytes \in Nat
    BY DEF Unsettled, Registers
  <2> HIDE DEF s, x
  <2> QED BY <2>1, <2>2, ByteValue
<1>2. z \in Byte /\ y \in Byte /\ z \in Nat
  <2>1. z \in Int /\ 0 <= z /\ z <= 255 /\ y \in Int /\ 0 <= y /\ y <= 255
    BY <1>1
  <2> HIDE DEF y, z
  <2> QED BY <2>1, ByteValue
<1>3. w = [write(e.stream, z, 8) EXCEPT !.fifo = @ \o Run(y, n)]
  BY Zenon DEF Drained, Run
<1>4. e.stream = Whole8(s)
  BY DEF AtByte
<1> HIDE DEF w, s, x, n, y, z
<1>5. write(e.stream, z, 8) = Whole8(Append(s, z))
  <2>1. WritesByte(s, z)
    BY <1>1, <1>2, ByteWritten
  <2> QED BY <1>4, <2>1, Zenon DEF WritesByte
<1>6. w = Whole8(Append(s, z) \o Run(y, n))
  <2> DEFINE a == Append(s, z)
             r == Run(y, n)
  <2> HIDE DEF a, r
  <2>1. [Whole8(a) EXCEPT !.fifo = @ \o r] = Whole8(a \o r)
    <3> DEFINE q == a \o r
               v == Whole8(a)
    <3>1. v.fifo = a
      BY DEF Whole8
    <3>2. v.fifo \o r = q
      BY <3>1, Zenon
    <3> HIDE DEF q
    <3>3. [v EXCEPT !.fifo = q] = Whole8(q)
      BY DEF Whole8
    <3> HIDE DEF v
    <3>4. [v EXCEPT !.fifo = @ \o r] = [v EXCEPT !.fifo = q]
      BY <3>2, Zenon
    <3> QED BY <3>3, <3>4, Zenon DEF q, v
  <2> QED BY <1>3, <1>5, <2>1, Zenon DEF a, r
<1> DEFINE f == Append(s, z) \o Run(y, n)
           g == Append(s, x) \o Run(255, n)
<1>7. f \in Seq(Byte) /\ g \in Seq(Byte) /\ Len(f) = Len(g)
  <2>1. /\ Run(y, n) \in Seq(Byte) /\ Len(Run(y, n)) = n
        /\ Run(255, n) \in Seq(Byte) /\ Len(Run(255, n)) = n
    BY <1>1, <1>2, RunFacts
  <2>2. /\ Append(s, z) \in Seq(Byte) /\ Len(Append(s, z)) = Len(s) + 1
        /\ Append(s, x) \in Seq(Byte) /\ Len(Append(s, x)) = Len(s) + 1
    BY <1>1, <1>2
  <2> QED BY <2>1, <2>2, ConcatProperties
<1>8. Number(f) = Number(g) + carry
  <2>1. CASE carry = 0
    <3>1. z = x /\ y = 255
      BY <1>1, <2>1 DEF z, y
    <3>2. Number(g) \in Nat
      BY <1>7, BytesAreNat, NumberFacts
    <3>3. f = g
      BY <3>1, Zenon
    <3> HIDE DEF f, g
    <3> QED BY <2>1, <3>2, <3>3
  <2>2. CASE carry = 1
    <3>1. z = x + 1 /\ y = 0
      BY <2>2 DEF z, y
    <3>2. Carries(s, x, n)
      BY <1>1, <1>2, <3>1, RunCarries
    <3>3. Number(f) = Number(g) + 1
      BY <3>1, <3>2, Zenon DEF Carries
    <3> QED BY <2>2, <3>3, Zenon
  <2> QED BY <2>1, <2>2
<1>9. Pending(e) = g
  BY DEF Pending, s, x, n
<1>10. w.fifo = f
  BY <1>6 DEF Whole8
<1> HIDE DEF f, g
<1> QED BY <1>6, <1>7, <1>8, <1>9, <1>10, Zenon DEF Drains, w, f

\* What an encoder has coded.
Code(e) ==
    [low |-> Number(Pending(e)) * Power(32 - e.bitsLeft) + e.low,
     bits |-> 8 * Len(Pending(e)) + (32 - e.bitsLeft),
     range |-> e.range]
SameCode(e, f) == AtByte(f) /\ Code(f) = Code(e)

\* A byte, perhaps with a carry, that is added to those that are pending.
Adds(e, f, lead) ==
    /\ AtByte(f)
    /\ Len(Pending(f)) = Len(Pending(e)) + 1
    /\ Number(Pending(f)) = 256 * Number(Pending(e)) + lead

LEMMA CountedAdds ==
    ASSUME NEW e \in Unsettled, AtByte(e), e.numBufferedBytes = 0 => e.bufferedByte = 255,
           NEW f, f.stream = e.stream, f.bufferedByte = e.bufferedByte,
           f.numBufferedBytes = e.numBufferedBytes + 1
    PROVE  Adds(e, f, 255)
<1> DEFINE s == e.stream.fifo
           x == e.bufferedByte
           n == e.numBufferedBytes
           p == Pending(e)
<1>1. n \in Nat /\ s \in Seq(Byte) /\ x \in Byte /\ 255 \in Byte /\ p \in Seq(Byte)
  <2>1. s \in Seq(Byte)
    BY DEF Unsettled, Registers, Writer
  <2>2. n \in Nat /\ x \in Byte
    BY DEF Unsettled, Registers
  <2>3. 255 \in Byte
    BY ByteValue
  <2>4. p \in Seq(Byte)
    BY PendingType
  <2> QED BY <2>1, <2>2, <2>3, <2>4
<1>2. AtByte(f)
  BY DEF AtByte
<1> HIDE DEF p
<1>3. Pending(f) = Append(p, 255)
  <2>1. f.numBufferedBytes # 0 /\ f.numBufferedBytes - 1 = n
    BY <1>1
  <2>2. Pending(f) = Append(s, x) \o Run(255, n)
    <3>1. Pending(f) = Append(f.stream.fifo, f.bufferedByte) \o Run(255, f.numBufferedBytes - 1)
      BY <2>1, Zenon DEF Pending
    <3> QED BY <2>1, <3>1, Zenon
  <2>3. CASE n = 0
    <3>1. p = s /\ x = 255
      BY <2>3 DEF Pending, p
    <3>2. Run(255, n) = <<>>
      BY <2>3 DEF Run
    <3>3. Append(s, x) \o <<>> = Append(s, x)
      <4> DEFINE t == Append(s, x)
      <4>1. t \in Seq(Byte)
        BY <1>1
      <4> HIDE DEF t
      <4>2. t \o <<>> = t
        BY <4>1
      <4> QED BY <4>2 DEF t
    <3> QED BY <2>2, <3>1, <3>2, <3>3, Zenon
  <2>4. CASE n # 0
    <3> DEFINE k == n - 1
               t == Append(s, x)
    <3>1. k \in Nat /\ k + 1 = n /\ t \in Seq(Byte)
      BY <1>1, <2>4
    <3>2. p = t \o Run(255, k)
      BY <2>4, Zenon DEF Pending, p
    <3> HIDE DEF k, t
    <3>3. Grows(t, 255, k)
      BY <1>1, <3>1, AppendRun
    <3>4. t \o Run(255, k + 1) = Append(p, 255)
      BY <3>2, <3>3, Zenon DEF Grows
    <3> QED BY <2>2, <3>1, <3>4, Zenon DEF t
  <2> QED BY <2>3, <2>4
<1>4. Len(Append(p, 255)) = Len(p) + 1 /\ Number(Append(p, 255)) = 256 * Number(p) + 255
  BY <1>1, NumberAppend
<1> QED BY <1>2, <1>3, <1>4, Zenon DEF Adds, p

LEMMA BufferedAdds ==
    ASSUME NEW e \in Unsettled, NEW w, w = Whole8(w.fifo), w.fifo \in Seq(Byte),
           NEW carry \in Nat, Len(w.fifo) = Len(Pending(e)),
           Number(w.fifo) = Number(Pending(e)) + carry,
           NEW x \in Byte, NEW lead \in Nat, lead = 256 * carry + x,
           NEW f, f.stream = w, f.bufferedByte = x, f.numBufferedBytes = 1
    PROVE  Adds(e, f, lead)
<1> DEFINE s == w.fifo
           p == Pending(e)
<1>1. AtByte(f)
  BY DEF AtByte
<1>2. Pending(f) = Append(s, x)
  <2>1. Pending(f) = Append(s, x) \o Run(255, 1 - 1)
    BY DEF Pending
  <2>2. Run(255, 1 - 1) = <<>>
    BY DEF Run
  <2>3. Append(s, x) \o <<>> = Append(s, x)
    <3> DEFINE t == Append(s, x)
    <3>1. t \in Seq(Byte)
      OBVIOUS
    <3> HIDE DEF t
    <3>2. t \o <<>> = t
      BY <3>1
    <3> QED BY <3>2 DEF t
  <2> QED BY <2>1, <2>2, <2>3, Zenon
<1>3. Len(Append(s, x)) = Len(s) + 1 /\ Number(Append(s, x)) = 256 * Number(s) + x /\ x \in Nat
  <2>1. x \in Nat
    BY ByteValue
  <2> QED BY <2>1, NumberAppend
<1>4. Number(p) \in Nat /\ Number(s) = Number(p) + carry
  BY PendingType, BytesAreNat, NumberFacts
<1> DEFINE a == Number(s)
           b == Number(p)
<1> HIDE DEF a, b
<1>5. 256 * a + x = 256 * b + lead
  BY <1>3, <1>4 DEF a, b
<1> HIDE DEF s, p
<1>6. Number(Pending(f)) = 256 * b + lead
  BY <1>2, <1>3, <1>5, Zenon DEF a
<1>7. Len(Pending(f)) = Len(p) + 1
  BY <1>2, <1>3, Zenon DEF s, p
<1> QED BY <1>1, <1>6, <1>7, Zenon DEF Adds, b, p

LEMMA WriteOutCode ==
    ASSUME NEW e \in Unsettled, Contained(e), e.bitsLeft < 12, AtByte(e)
    PROVE  SameCode(e, writeOut(e))
<1> DEFINE u == Power(24 - e.bitsLeft)
           lead == e.low \div u
           r == e.low % u
           f == writeOut(e)
           more == e.bitsLeft + 8
           cut == [e EXCEPT !.bitsLeft = more, !.low = r]
<1>1. /\ u \in Nat /\ u > 510 /\ Power(32 - e.bitsLeft) = 256 * u
      /\ lead \in Nat /\ lead <= 511
      /\ e.bufferedByte = 255 => lead <= 255
      /\ r \in Nat /\ r < u
      /\ e.low = u * lead + r
  BY LeadBounds
<1>2. /\ e.bitsLeft \in 4..11 /\ e.low \in Nat /\ e.bufferedByte \in Nat /\ e.bufferedByte <= 255
      /\ e.numBufferedBytes \in Nat /\ e.stream \in Writer
  BY RegisterValues
<1>3. e.numBufferedBytes = 0 => e.bufferedByte = 255
  BY DEF Contained
<1>4. f = CASE lead = 255 -> [cut EXCEPT !.numBufferedBytes = @ + 1]
            [] lead # 255 /\ e.numBufferedBytes = 0 ->
                 [cut EXCEPT !.numBufferedBytes = 1, !.bufferedByte = lead]
            [] OTHER -> [cut EXCEPT !.stream = Drained(e, lead \div 256),
                                    !.numBufferedBytes = 1,
                                    !.bufferedByte = lead % 256]
  BY Zenon DEF writeOut, Power, more
<1> HIDE DEF u, lead, r, f
<1>a. more \in 12..23 /\ r \in Nat
  BY <1>1, <1>2
<1> HIDE DEF more
<1>b. cut \in Encoder
  BY <1>a, CutType
<1>5. /\ cut.low = r /\ cut.bitsLeft = more /\ cut.range = e.range /\ cut.stream = e.stream
      /\ cut.bufferedByte = e.bufferedByte /\ cut.numBufferedBytes = e.numBufferedBytes
  BY <1>a DEF Encoder, Unsettled, Registers
<1> HIDE DEF cut
<1>6. /\ f.low = r /\ f.bitsLeft = more /\ f.range = e.range
      /\ Adds(e, f, lead)
  <2>1. CASE lead = 255
    <3>1. f = [cut EXCEPT !.numBufferedBytes = @ + 1]
      BY <1>4, <2>1
    <3>2. /\ f.low = r /\ f.range = e.range /\ f.bitsLeft = more /\ f.stream = e.stream
          /\ f.bufferedByte = e.bufferedByte /\ f.numBufferedBytes = e.numBufferedBytes + 1
      BY <1>b, <1>5, <3>1 DEF Encoder, Registers
    <3>3. Adds(e, f, 255)
      BY <1>3, <3>2, CountedAdds
    <3> QED BY <2>1, <3>2, <3>3
  <2>2. CASE lead # 255 /\ e.numBufferedBytes = 0
    <3>1. f = [cut EXCEPT !.numBufferedBytes = 1, !.bufferedByte = lead]
      BY <1>4, <2>2
    <3>2. /\ f.low = r /\ f.range = e.range /\ f.bitsLeft = more /\ f.stream = e.stream
          /\ f.bufferedByte = lead /\ f.numBufferedBytes = 1
      BY <1>b, <1>5, <3>1 DEF Encoder, Registers
    <3>3. lead \in Byte
      BY <1>1, <1>3, <2>2, ByteValue
    <3> DEFINE w == e.stream
    <3>4. w = Whole8(w.fifo) /\ w.fifo \in Seq(Byte)
      BY <1>2 DEF AtByte, Writer
    <3>5. Pending(e) = w.fifo
      BY <2>2 DEF Pending
    <3>6. Number(w.fifo) = Number(Pending(e)) + 0 /\ Len(w.fifo) = Len(Pending(e))
          /\ lead = 256 * 0 + lead /\ 0 \in Nat
      <4>1. Number(w.fifo) \in Nat
        BY <3>4, BytesAreNat, NumberFacts
      <4> QED BY <1>1, <3>5, <4>1
    <3>7. f.stream = w
      BY <3>2
    <3> HIDE DEF w
    <3>8. Adds(e, f, lead)
      BY <1>1, <3>2, <3>3, <3>4, <3>6, <3>7, BufferedAdds
    <3> QED BY <3>2, <3>8
  <2>3. CASE lead # 255 /\ e.numBufferedBytes # 0
    <3> DEFINE carry == lead \div 256
               w == Drained(e, carry)
               x == lead % 256
    <3>1. f = [cut EXCEPT !.stream = w, !.numBufferedBytes = 1, !.bufferedByte = x]
      BY <1>4, <2>3
    <3>2. carry \in 0..1 /\ carry \in Nat /\ lead = 256 * carry + x /\ x \in Int /\ 0 <= x /\ x <= 255
          /\ (e.bufferedByte = 255 => carry = 0)
      BY <1>1
    <3>3. Drains(e, carry)
      <4> HIDE DEF carry
      <4>1. e.bufferedByte + carry <= 255
        BY <1>2, <3>2
      <4> QED BY <2>3, <3>2, <4>1, DrainedNumber
    <3> HIDE DEF carry, x
    <3>4. /\ w = Whole8(w.fifo) /\ w.fifo \in Seq(Byte)
          /\ Len(w.fifo) = Len(Pending(e)) /\ Number(w.fifo) = Number(Pending(e)) + carry
      BY <3>3, Zenon DEF Drains
    <3> HIDE DEF w
    <3>5. /\ f.low = r /\ f.range = e.range /\ f.bitsLeft = more /\ f.stream = w
          /\ f.bufferedByte = x /\ f.numBufferedBytes = 1
      BY <1>b, <1>5, <3>1 DEF Encoder, Registers
    <3>6. x \in Byte
      BY <3>2, ByteValue
    <3>7. Adds(e, f, lead)
      BY <1>1, <3>2, <3>4, <3>5, <3>6, BufferedAdds
    <3> QED BY <3>5, <3>7
  <2> QED BY <2>1, <2>2, <2>3
<1> DEFINE a == Number(Pending(e))
           k == Len(Pending(e))
<1>7. a \in Nat /\ k \in Nat
  <2>1. Pending(e) \in Seq(Byte)
    BY PendingType
  <2> QED BY <2>1, BytesAreNat, NumberFacts
<1>8. Number(Pending(f)) = 256 * a + lead /\ Len(Pending(f)) = k + 1 /\ AtByte(f)
  BY <1>6, Zenon DEF Adds
<1> HIDE DEF a, k
<1>9. (256 * a + lead) * u + r = a * (256 * u) + e.low
  <2>1. (256 * a + lead) * u = a * (256 * u) + u * lead
    BY <1>1, <1>7
  <2> DEFINE g == a * (256 * u)
             h == u * lead
  <2>2. g \in Int /\ h \in Int /\ e.low = h + r
    BY <1>1, <1>7
  <2> HIDE DEF g, h
  <2>3. (g + h) + r = g + e.low
    BY <1>1, <2>2
  <2> QED BY <2>1, <2>3, Zenon DEF g, h
<1>10. 8 * (k + 1) + (32 - more) = 8 * k + (32 - e.bitsLeft) /\ 32 - more = 24 - e.bitsLeft
  BY <1>2, <1>7 DEF more
<1>11. Code(f) = [low |-> (256 * a + lead) * u + r, bits |-> 8 * (k + 1) + (32 - more), range |-> e.range]
  BY <1>6, <1>8, <1>10, Zenon DEF Code, u
<1>12. Code(e) = [low |-> a * (256 * u) + e.low, bits |-> 8 * k + (32 - e.bitsLeft), range |-> e.range]
  BY <1>1, Zenon DEF Code, a, k
<1>13. Code(f) = Code(e)
  BY <1>9, <1>10, <1>11, <1>12, Zenon
<1> QED BY <1>8, <1>13, Zenon DEF SameCode, f

LEMMA RenormalisedCode ==
    ASSUME NEW e \in Unsettled, Contained(e), AtByte(e)
    PROVE  SameCode(e, Renormalised(e))
<1>1. CASE e.bitsLeft < 12
  BY <1>1, WriteOutCode DEF Renormalised
<1>2. CASE ~(e.bitsLeft < 12)
  BY <1>2 DEF Renormalised, SameCode
<1> QED BY <1>1, <1>2

\* n bits have been shifted into low, and more added to it.
Moved(c, n, more, range) == [low |-> c.low * Power(n) + more, bits |-> c.bits + n, range |-> range]
Moves(e, f, n, more) ==
    /\ f.stream = e.stream /\ f.bufferedByte = e.bufferedByte
    /\ f.numBufferedBytes = e.numBufferedBytes
    /\ f.bitsLeft = e.bitsLeft - n
    /\ f.low = e.low * Power(n) + more

MovesCode(e, f, n, more) == AtByte(f) /\ Code(f) = Moved(Code(e), n, more, f.range)

LEMMA CodeMoved ==
    ASSUME NEW e \in Encoder, AtByte(e), NEW n \in 0..8, NEW more \in Nat,
           NEW f, Moves(e, f, n, more)
    PROVE  MovesCode(e, f, n, more)
<1> DEFINE a == Number(Pending(e))
           k == Len(Pending(e))
           b == e.bitsLeft
           p == Power(n)
           u == Power(32 - b)
           l == e.low
<1>1. e \in Unsettled /\ b \in 12..23 /\ l \in Nat
  BY EncoderValues, RegisterValues
<1>2. AtByte(f) /\ Pending(f) = Pending(e)
  BY DEF Moves, AtByte, Pending
<1>3. a \in Nat /\ k \in Nat
  <2>1. Pending(e) \in Seq(Byte)
    BY <1>1, PendingType
  <2> QED BY <2>1, BytesAreNat, NumberFacts
<1>4. p \in Nat /\ u \in Nat /\ Power((32 - b) + n) = u * p /\ n \in Nat
  <2>1. 32 - b \in Nat /\ n \in Nat /\ (32 - b) + n <= 32 /\ 32 - b \in 0..32 /\ n \in 0..32
    BY <1>1
  <2>2. p \in Nat /\ u \in Nat
    BY <2>1, PowerType
  <2> DEFINE o == 32 - b
  <2> HIDE DEF o
  <2>3. Power(o + n) = Power(o) * Power(n)
    BY <2>1, PowerSum DEF o
  <2> QED BY <2>1, <2>2, <2>3 DEF o
<1>5. 32 - (b - n) = (32 - b) + n
  BY <1>1, <1>4
<1>6. f.low = l * p + more /\ f.bitsLeft = b - n
  BY DEF Moves
<1> HIDE DEF a, k, p, u, l, b
<1>7. Code(f) = [low |-> a * (u * p) + (l * p + more), bits |-> 8 * k + ((32 - b) + n), range |-> f.range]
  BY <1>2, <1>4, <1>5, <1>6, Zenon DEF Code, a, k
<1>8. Code(e) = [low |-> a * u + l, bits |-> 8 * k + (32 - b), range |-> e.range]
  BY Zenon DEF Code, a, k, b, u, l
<1>9. Moved(Code(e), n, more, f.range)
        = [low |-> (a * u + l) * p + more, bits |-> (8 * k + (32 - b)) + n, range |-> f.range]
  <2>1. Code(e).low = a * u + l /\ Code(e).bits = 8 * k + (32 - b)
    BY <1>8
  <2> QED BY <2>1, Zenon DEF Moved, p
<1>10. (a * u + l) * p + more = a * (u * p) + (l * p + more)
  <2>1. (a * u + l) * p = a * (u * p) + l * p
    BY <1>1, <1>3, <1>4
  <2> DEFINE g == a * (u * p)
             h == l * p
  <2>2. g \in Nat /\ h \in Nat
    BY <1>1, <1>3, <1>4
  <2> HIDE DEF g, h
  <2>3. (g + h) + more = g + (h + more)
    BY <2>2
  <2> QED BY <2>1, <2>3, Zenon DEF g, h
<1>11. (8 * k + (32 - b)) + n = 8 * k + ((32 - b) + n)
  BY <1>1, <1>3, <1>4
<1> QED BY <1>2, <1>7, <1>9, <1>10, <1>11, Zenon DEF MovesCode

\* The operations of the encoder, and those on its code.
Encodes(e, c) == AtByte(e) /\ Code(e) = c

LEMMA MovedRenormalised ==
    ASSUME NEW e, EncoderSound(e), AtByte(e), NEW n \in 0..8, NEW more \in Nat,
           NEW f, Moves(e, f, n, more), f \in Unsettled, Contained(f)
    PROVE  Encodes(Renormalised(f), Moved(Code(e), n, more, f.range))
<1>1. e \in Encoder
  BY DEF EncoderSound
<1>2. MovesCode(e, f, n, more)
  BY <1>1, CodeMoved
<1>3. AtByte(f) /\ Code(f) = Moved(Code(e), n, more, f.range)
  BY <1>2, Zenon DEF MovesCode
<1>4. SameCode(f, Renormalised(f))
  BY <1>3, RenormalisedCode
<1> QED BY <1>3, <1>4, Zenon DEF SameCode, Encodes

LEMMA CodeType ==
    ASSUME NEW e, EncoderSound(e)
    PROVE  Ranged(Code(e)) /\ Code(e).range = e.range
<1>1. e \in Unsettled /\ e.bitsLeft \in 12..23 /\ e.low \in Nat /\ e.range \in Nat
      /\ 256 <= e.range /\ e.range <= 510
  BY EncoderValues, RegisterValues DEF EncoderSound
<1> DEFINE a == Number(Pending(e))
           k == Len(Pending(e))
           u == Power(32 - e.bitsLeft)
<1>2. a \in Nat /\ k \in Nat
  <2>1. Pending(e) \in Seq(Byte)
    BY <1>1, PendingType
  <2> QED BY <2>1, BytesAreNat, NumberFacts
<1>3. u \in Nat
  <2>1. 32 - e.bitsLeft \in 0..32
    BY <1>1
  <2> QED BY <2>1, PowerType
<1> HIDE DEF a, k, u
<1>4. Code(e) = [low |-> a * u + e.low, bits |-> 8 * k + (32 - e.bitsLeft), range |-> e.range]
  BY Zenon DEF Code, a, k, u
<1> DEFINE x == a * u + e.low
           y == 8 * k + (32 - e.bitsLeft)
<1>5. x \in Nat /\ y \in Nat
  BY <1>1, <1>2, <1>3
<1> HIDE DEF x, y
<1>6. Code(e) \in Codes /\ Code(e).range = e.range
  BY <1>1, <1>4, <1>5 DEF Codes, x, y
<1> QED BY <1>1, <1>6 DEF Ranged

LEMMA ChunkCoded ==
    ASSUME NEW e, EncoderSound(e), AtByte(e), NEW n \in 0..8, NEW bins \in Nat, bins < Power(n)
    PROVE  Encodes(EncodeChunk(e, bins, n), Bypass(Code(e), bins, n))
<1> DEFINE factor == Power(n)
           more == e.range * bins
           low == e.low * factor + more
           left == e.bitsLeft - n
           f == [e EXCEPT !.low = low, !.bitsLeft = left]
<1>1. e \in Encoder
  BY DEF EncoderSound
<1>2. e.bitsLeft \in 12..23 /\ e.low \in Nat /\ e.range \in Nat /\ 256 <= e.range /\ e.range <= 510
  BY <1>1, EncoderValues, RegisterValues
<1>3. factor \in Nat /\ more \in Nat
  <2>1. n \in 0..32
    OBVIOUS
  <2> QED BY <1>2, <2>1, PowerType
<1>4. EncodeChunk(e, bins, n) = Renormalised(f)
  BY Zenon DEF EncodeChunk, Power
<1> HIDE DEF factor
<1>5. low \in Nat /\ left \in 4..23
  BY <1>2, <1>3
<1>6. low + e.range <= factor * (e.low + e.range)
  <2>1. bins + 1 <= factor
    BY <1>3 DEF factor
  <2>2. e.range * (bins + 1) <= e.range * factor
    BY <1>2, <1>3, <2>1, Monotonic
  <2>3. e.range * (bins + 1) = e.range * bins + e.range
    BY <1>2, Distribute
  <2>4. factor * (e.low + e.range) = factor * e.low + factor * e.range
    BY <1>2, <1>3, Distribute
  <2>5. e.low * factor = factor * e.low /\ e.range * factor = factor * e.range
    BY <1>2, <1>3
  <2>6. e.low * factor \in Int /\ e.range * factor \in Int /\ e.range * bins \in Int
    BY <1>2, <1>3
  <2> QED BY <1>2, <2>2, <2>3, <2>4, <2>5, <2>6
<1> HIDE DEF low, left
<1>7. f \in Unsettled
  BY <1>1, <1>5, ShiftType
<1>8. /\ f.low = low /\ f.bitsLeft = left /\ f.range = e.range /\ f.stream = e.stream
      /\ f.bufferedByte = e.bufferedByte /\ f.numBufferedBytes = e.numBufferedBytes
  BY <1>1 DEF Encoder, Registers
<1> HIDE DEF f, more
<1>9. Narrowed(e, f, n)
  BY <1>6, <1>7, <1>8 DEF Narrowed, factor, left
<1>10. Contained(f)
  BY <1>9, NarrowedSound
<1>11. Moves(e, f, n, more)
  BY <1>8 DEF Moves, low, left, factor
<1>12. Encodes(Renormalised(f), Moved(Code(e), n, more, f.range))
  BY <1>3, <1>7, <1>10, <1>11, MovedRenormalised
<1>13. Code(e).range = e.range
  BY CodeType
<1>14. Moved(Code(e), n, more, f.range) = Bypass(Code(e), bins, n)
  BY <1>8, <1>13, Zenon DEF Moved, Bypass, more
<1> QED BY <1>4, <1>12, <1>14, Zenon

LEMMA PartCoded ==
    ASSUME NEW e, EncoderSound(e), AtByte(e), NEW n, NEW add, NEW part, NEW range,
           PartOf(e, n, add, part, range)
    PROVE  Encodes(Renormalised([Shifted(e, add, n) EXCEPT !.range = range]),
                   Part(Code(e), add, part, n))
<1>0. /\ n \in 0..8 /\ add \in Nat /\ part \in Nat /\ add + part <= e.range
      /\ range \in Nat /\ 256 <= range /\ range <= 510 /\ range = part * Power(n)
      /\ range \in Between(256, 510)
  BY InBetween DEF PartOf
<1> DEFINE factor == Power(n)
           low == (e.low + add) * factor
           more == add * factor
           left == e.bitsLeft - n
           g == [e EXCEPT !.low = low, !.bitsLeft = left]
           f == [g EXCEPT !.range = range]
<1>1. e \in Encoder
  BY DEF EncoderSound
<1>2. e.bitsLeft \in 12..23 /\ e.low \in Nat /\ e.range \in Nat /\ 256 <= e.range /\ e.range <= 510
  BY <1>1, EncoderValues, RegisterValues
<1>3. factor \in Nat
  <2>1. n \in 0..32
    BY <1>0
  <2> QED BY <2>1, PowerType
<1>4. Shifted(e, add, n) = g
  BY Zenon DEF Shifted, Power
<1> HIDE DEF factor
<1>5. low \in Nat /\ left \in 4..23 /\ more \in Nat /\ low = e.low * factor + more
  BY <1>0, <1>2, <1>3
<1>6. low + range <= factor * (e.low + e.range)
  <2>1. (e.low + add) + part <= e.low + e.range
    BY <1>0, <1>2
  <2>2. factor * ((e.low + add) + part) <= factor * (e.low + e.range)
    BY <1>0, <1>2, <1>3, <2>1, Monotonic
  <2>3. factor * ((e.low + add) + part) = factor * (e.low + add) + factor * part
    BY <1>0, <1>2, <1>3, Distribute
  <2>4. low = factor * (e.low + add) /\ range = factor * part
    BY <1>0, <1>2, <1>3 DEF factor
  <2> QED BY <2>2, <2>3, <2>4
<1> HIDE DEF low, left, more
<1>7. g \in Unsettled
  BY <1>1, <1>5, ShiftType
<1>8. /\ g.low = low /\ g.bitsLeft = left /\ g.stream = e.stream
      /\ g.bufferedByte = e.bufferedByte /\ g.numBufferedBytes = e.numBufferedBytes
  BY <1>1 DEF Encoder, Registers
<1> HIDE DEF g
<1>9. f \in Unsettled
  BY <1>0, <1>7, ResizeType
<1>10. /\ f.low = low /\ f.bitsLeft = left /\ f.range = range /\ f.stream = e.stream
       /\ f.bufferedByte = e.bufferedByte /\ f.numBufferedBytes = e.numBufferedBytes
  BY <1>7, <1>8 DEF Unsettled, Registers
<1> HIDE DEF f
<1>11. Narrowed(e, f, n)
  BY <1>6, <1>9, <1>10 DEF Narrowed, factor, left
<1>12. Contained(f)
  BY <1>0, <1>11, NarrowedSound
<1>13. Moves(e, f, n, more)
  BY <1>5, <1>10 DEF Moves, left, factor
<1>14. Encodes(Renormalised(f), Moved(Code(e), n, more, f.range))
  BY <1>0, <1>5, <1>9, <1>12, <1>13, MovedRenormalised
<1>15. Moved(Code(e), n, more, f.range) = Part(Code(e), add, part, n)
  <2> DEFINE c == Code(e)
             l == c.low
  <2>1. l \in Nat
    BY CodeType DEF Ranged, Codes
  <2>2. l * factor + more = (l + add) * factor
    <3> HIDE DEF l
    <3> QED BY <1>0, <1>3, <2>1 DEF more
  <2> HIDE DEF c
  <2>3. Moved(c, n, more, f.range) = [low |-> l * factor + more, bits |-> c.bits + n, range |-> f.range]
    BY Zenon DEF Moved, factor
  <2>4. Part(c, add, part, n) = [low |-> (l + add) * factor, bits |-> c.bits + n, range |-> part * factor]
    BY Zenon DEF Part, factor
  <2>5. f.range = part * factor
    BY <1>0, <1>10 DEF factor
  <2> QED BY <2>2, <2>3, <2>4, <2>5, Zenon DEF c
<1> QED BY <1>4, <1>14, <1>15, Zenon DEF f

LEMMA ShorterCoded ==
    ASSUME NEW e, EncoderSound(e), AtByte(e), NEW range \in Nat
    PROVE  Encodes([e EXCEPT !.range = range], Part(Code(e), 0, range, 0))
<1> DEFINE f == [e EXCEPT !.range = range]
           c == Code(e)
<1>1. e \in Encoder
  BY DEF EncoderSound
<1>2. /\ f.low = e.low /\ f.bitsLeft = e.bitsLeft /\ f.range = range /\ f.stream = e.stream
      /\ f.bufferedByte = e.bufferedByte /\ f.numBufferedBytes = e.numBufferedBytes
  BY <1>1 DEF Encoder, Registers
<1> HIDE DEF f
<1>3. Pending(f) = Pending(e) /\ AtByte(f)
  BY <1>2 DEF Pending, AtByte
<1>4. Code(f) = [low |-> c.low, bits |-> c.bits, range |-> range]
  BY <1>2, <1>3 DEF Code
<1>5. c.low \in Nat /\ c.bits \in Nat
  BY CodeType DEF Ranged, Codes
<1> HIDE DEF c
<1>6. Part(c, 0, range, 0) = [low |-> c.low, bits |-> c.bits, range |-> range]
  <2> DEFINE l == c.low
             b == c.bits
  <2>1. Power(0) = 1
    BY Powers
  <2> HIDE DEF l, b
  <2>2. l \in Nat /\ b \in Nat
    BY <1>5 DEF l, b
  <2>3. (l + 0) * 1 = l /\ b + 0 = b /\ range * 1 = range
    BY <2>2
  <2> QED BY <2>1, <2>3, Zenon DEF Part, l, b
<1> QED BY <1>3, <1>4, <1>6, Zenon DEF Encodes, f, c

LEMMA ContextBinCoded ==
    ASSUME NEW e, EncoderSound(e), AtByte(e), NEW m \in ProbModel, NEW bin \in 0..1
    PROVE  Encodes(encodeBin(e, m, bin), ContextCode(Code(e), m, bin))
<1> DEFINE lps == getLPS(m, e.range)
           rest == e.range - lps
           n == getRenormBitsLPS(lps)
           small == lps * Power(n)
           double == rest * Power(1)
           c == Code(e)
<1>1. e.range \in Nat /\ 256 <= e.range /\ e.range <= 510
  BY EncoderValues, RegisterValues DEF EncoderSound
<1>2. lps \in Nat /\ 4 <= lps /\ lps <= 236 /\ rest >= 128
  BY <1>1, LpsBounds
<1>c. ContextCode(c, m, bin) =
        CASE bin # mps(m) -> Part(c, rest, lps, n)
          [] bin = mps(m) /\ rest < 256 -> Part(c, 0, rest, 1)
          [] OTHER -> Part(c, 0, rest, 0)
  <2>1. c.range = e.range
    BY CodeType
  <2> HIDE DEF c
  <2> QED BY <2>1, Zenon DEF ContextCode
<1> HIDE DEF lps, c
<1>3. n \in 1..6 /\ small \in Nat /\ 256 <= small /\ small <= 510
  BY <1>2, RenormBits
<1> HIDE DEF n
<1>4. encodeBin(e, m, bin) =
        CASE bin # mps(m) -> Renormalised([Shifted(e, rest, n) EXCEPT !.range = small])
          [] bin = mps(m) /\ rest < 256 ->
                Renormalised([Shifted(e, 0, 1) EXCEPT !.range = double])
          [] OTHER -> [e EXCEPT !.range = rest]
  BY Zenon DEF encodeBin, getRenormBitsRange, Power, lps, n
<1> HIDE DEF small, double
<1>5. CASE bin # mps(m)
  <2>1. encodeBin(e, m, bin) = Renormalised([Shifted(e, rest, n) EXCEPT !.range = small])
    BY <1>4, <1>5
  <2>2. PartOf(e, n, rest, lps, small)
    BY <1>1, <1>2, <1>3 DEF PartOf, small
  <2>3. ContextCode(c, m, bin) = Part(c, rest, lps, n)
    BY <1>c, <1>5
  <2> HIDE DEF rest
  <2> QED BY <2>1, <2>2, <2>3, PartCoded DEF c
<1>6. CASE bin = mps(m) /\ rest < 256
  <2>1. encodeBin(e, m, bin) = Renormalised([Shifted(e, 0, 1) EXCEPT !.range = double])
    BY <1>4, <1>6
  <2>2. rest < 256
    BY <1>6
  <2>3. PartOf(e, 1, 0, rest, double)
    BY <1>1, <1>2, <2>2, Powers DEF PartOf, double
  <2>4. ContextCode(c, m, bin) = Part(c, 0, rest, 1)
    BY <1>c, <1>6
  <2> HIDE DEF rest
  <2> QED BY <2>1, <2>3, <2>4, PartCoded DEF c
<1>7. CASE bin = mps(m) /\ ~(rest < 256)
  <2>1. encodeBin(e, m, bin) = [e EXCEPT !.range = rest]
    BY <1>4, <1>7
  <2>2. rest \in Nat
    BY <1>1, <1>2
  <2>4. ContextCode(c, m, bin) = Part(c, 0, rest, 0)
    BY <1>c, <1>7
  <2> HIDE DEF rest
  <2> QED BY <2>1, <2>2, <2>4, ShorterCoded DEF c
<1> QED BY <1>5, <1>6, <1>7

LEMMA TrmCoded ==
    ASSUME NEW e, EncoderSound(e), AtByte(e)
    PROVE  /\ Encodes(encodeBinTrm(e, 0), TrmCode(Code(e)))
           /\ Encodes(encodeBinTrm(e, 1), Part(Code(e), e.range - 2, 2, 7))
<1> DEFINE rest == e.range - 2
           c == Code(e)
<1>1. e.range \in Nat /\ 256 <= e.range /\ e.range <= 510 /\ rest \in Nat
  BY EncoderValues, RegisterValues DEF EncoderSound
<1>2. TrmCode(c) = Part(c, 0, rest, IF rest < 256 THEN 1 ELSE 0)
  <2>1. c.range = e.range
    BY CodeType
  <2> HIDE DEF c
  <2> QED BY <2>1, Zenon DEF TrmCode
<1> HIDE DEF c
<1>3. Encodes(encodeBinTrm(e, 1), Part(c, rest, 2, 7))
  <2>1. encodeBinTrm(e, 1) = Renormalised([Shifted(e, rest, 7) EXCEPT !.range = 256])
    BY DEF encodeBinTrm
  <2>2. PartOf(e, 7, rest, 2, 256)
    BY <1>1, Powers DEF PartOf
  <2> HIDE DEF rest
  <2> QED BY <2>1, <2>2, PartCoded DEF c
<1>4. CASE rest < 256
  <2> DEFINE range == 2 * rest
  <2>1. encodeBinTrm(e, 0) = Renormalised([Shifted(e, 0, 1) EXCEPT !.range = range])
    BY <1>4 DEF encodeBinTrm
  <2>2. rest < 256
    BY <1>4
  <2>3. PartOf(e, 1, 0, rest, range)
    BY <1>1, <2>2, Powers DEF PartOf
  <2>4. TrmCode(c) = Part(c, 0, rest, 1)
    BY <1>2, <2>2
  <2> HIDE DEF rest, range
  <2> QED BY <1>3, <2>1, <2>3, <2>4, PartCoded DEF c, rest
<1>5. CASE ~(rest < 256)
  <2>1. encodeBinTrm(e, 0) = [e EXCEPT !.range = rest]
    BY <1>5 DEF encodeBinTrm
  <2>2. TrmCode(c) = Part(c, 0, rest, 0)
    BY <1>2, <1>5
  <2> HIDE DEF rest
  <2> QED BY <1>1, <1>3, <2>1, <2>2, ShorterCoded DEF c, rest
<1> QED BY <1>4, <1>5

LEMMA AlignCoded ==
    ASSUME NEW e, EncoderSound(e), AtByte(e)
    PROVE  Encodes(align(e), AlignCode(Code(e)))
<1> DEFINE range == 256
<1>1. range \in Nat
  OBVIOUS
<1> HIDE DEF range
<1>2. Encodes([e EXCEPT !.range = range], Part(Code(e), 0, range, 0))
  BY <1>1, ShorterCoded
<1> QED BY <1>2, Zenon DEF align, AlignCode, range

\* The encoder between the parts that a value is cut into.
BinsSteps(f, e, bins, numBins) ==
    LET widths == Widths(numBins)
        N == Len(widths)
    IN  /\ f[0] = e /\ encodeBinsEP(e, bins, numBins) = f[N]
        /\ \A i \in 0..N : EncoderSound(f[i])
        /\ \A i \in 1..N :
              f[i] = EncodeChunk(f[i - 1], Lower(bins, Left(numBins, i), widths[i]), widths[i])

LEMMA BinsStepwise ==
    ASSUME NEW e, EncoderSound(e), NEW bins \in Nat, NEW numBins \in 0..32
    PROVE  \E f : BinsSteps(f, e, bins, numBins)
<1> DEFINE widths == Widths(numBins)
           N == Len(widths)
           L(i) == Left(numBins, i)
           P(i) == Lower(bins, L(i), widths[i])
           X == {x \in Encoder : Contained(x)}
           step == [xn \in X \X (1..N) |-> EncodeChunk(xn[1], P(xn[2]), widths[xn[2]])]
           after[i \in 0..N] ==
               IF i = 0 THEN e ELSE EncodeChunk(after[i - 1], P(i), widths[i])
<1>1. N \in Nat /\ \A i \in 1..N : widths[i] \in 0..8 /\ L(i) \in 0..32
  <2>1. widths \in Seq(0..8) /\ \A i \in 1..N : (IF i < N THEN numBins - 8 * i ELSE 0) \in 0..32
    BY WidthsType, Zenon
  <2>2. \A i \in 1..N : L(i) \in 0..32
    BY <2>1, Zenon DEF Left
  <2> HIDE DEF widths, L
  <2>3. N \in Nat /\ \A i \in 1..N : widths[i] \in 0..8
    BY <2>1
  <2> QED BY <2>2, <2>3
<1>2. encodeBinsEP(e, bins, numBins) = after[N]
  BY Zenon DEF encodeBinsEP, Power, Left, Lower, Upper
<1> HIDE DEF widths, N, L
<1>3. ASSUME NEW i \in 1..N PROVE P(i) \in Nat /\ P(i) < Power(widths[i]) /\ widths[i] \in 0..8
  <2>1. widths[i] \in 0..8 /\ L(i) \in 0..32
    BY <1>1
  <2> QED BY <2>1, BinsOf DEF Lower, Upper
<1> HIDE DEF P
<1>4. \A x : x \in X <=> EncoderSound(x)
  BY DEF EncoderSound
<1> HIDE DEF X
<1>5. ASSUME NEW x \in X, NEW i \in 1..N PROVE EncodeChunk(x, P(i), widths[i]) \in X
  <2>1. P(i) \in Nat /\ P(i) < Power(widths[i]) /\ widths[i] \in 0..8
    BY <1>3
  <2>2. EncoderSound(x)
    BY <1>4
  <2>3. EncoderSound(EncodeChunk(x, P(i), widths[i]))
    BY <2>1, <2>2, ChunkSound
  <2> QED BY <1>4, <2>3
<1>6. step \in [X \X (1..N) -> X]
  BY <1>5
<1>7. PICK f \in [0..N -> X] : f[0] = e /\ \A n \in 1..N : f[n] = step[<<f[n - 1], n>>]
  <2>1. e \in X
    BY <1>4
  <2> HIDE DEF step
  <2>2. Steppable(N, X, e, step)
    BY <1>1, <1>6, <2>1 DEF Steppable
  <2>3. \E f : Steps(f, N, X, e, step)
    BY <2>2, StepsExist
  <2> QED BY <2>3 DEF Steps
<1>8. ASSUME NEW n \in 1..N PROVE f[n] = EncodeChunk(f[n - 1], P(n), widths[n])
  <2>1. n - 1 \in 0..N
    BY <1>1
  <2>2. <<f[n - 1], n>> \in X \X (1..N)
    BY <1>7, <2>1
  <2> QED BY <1>7, <2>2
<1>9. f = [n \in 0..N |-> IF n = 0 THEN e ELSE EncodeChunk(f[n - 1], P(n), widths[n])]
  <2>1. \A n \in 0..N : n = 0 \/ n \in 1..N
    BY <1>1
  <2>2. \A n \in 0..N :
            f[n] = IF n = 0 THEN e ELSE EncodeChunk(f[n - 1], P(n), widths[n])
    BY <1>1, <1>7, <1>8, <2>1
  <2> QED BY <1>7, <2>2
<1>10. after = [n \in 0..N |-> IF n = 0 THEN e ELSE EncodeChunk(after[n - 1], P(n), widths[n])]
  BY <1>9
<1> HIDE DEF after, step
<1>11. 0 \in 0..N /\ N \in 0..N /\ \A n \in 1..N : n \in 0..N /\ n - 1 \in 0..N /\ n # 0
  BY <1>1
<1>12. after[0] = e
  BY <1>10, <1>11
<1>13. ASSUME NEW n \in 1..N PROVE after[n] = EncodeChunk(after[n - 1], P(n), widths[n])
  <2>1. n \in 0..N /\ n # 0
    BY <1>11
  <2> QED BY <1>10, <2>1
<1> DEFINE S == {n \in 0..N : after[n] \in X}
<1>14. 0 \in S
  BY <1>4, <1>11, <1>12
<1>15. ASSUME NEW n \in 1..N, n - 1 \in S PROVE n \in S
  <2>1. n \in 0..N /\ after[n - 1] \in X
    BY <1>11, <1>15
  <2> QED BY <1>5, <1>13, <2>1
<1> HIDE DEF S
<1>16. 0..N \subseteq S
  BY <1>1, <1>14, <1>15, InductionTo
<1>17. \A n \in 0..N : EncoderSound(after[n])
  BY <1>4, <1>16 DEF S
<1>18. BinsSteps(after, e, bins, numBins)
  BY <1>2, <1>12, <1>13, <1>17, Zenon DEF BinsSteps, N, widths, P, L
<1> QED BY <1>18, Zenon

LEMMA BinsCoded ==
    ASSUME NEW e, EncoderSound(e), AtByte(e), NEW numBins \in 0..32,
           NEW bins \in Nat, bins < Power(numBins)
    PROVE  Encodes(encodeBinsEP(e, bins, numBins), Bypass(Code(e), bins, numBins))
<1> DEFINE widths == Widths(numBins)
           N == Len(widths)
           L(i) == Left(numBins, i)
           c == Code(e)
           x(i) == Prefix(c, bins, numBins, L(i))
<1>1. PICK f : BinsSteps(f, e, bins, numBins)
  BY BinsStepwise
<1>2. /\ f[0] = e /\ encodeBinsEP(e, bins, numBins) = f[N]
      /\ \A i \in 0..N : EncoderSound(f[i])
      /\ \A i \in 1..N : f[i] = EncodeChunk(f[i - 1], Lower(bins, L(i), widths[i]), widths[i])
  BY <1>1, Zenon DEF BinsSteps
<1>3. /\ N \in Nat /\ L(0) = numBins /\ L(N) = 0
      /\ \A i \in 1..N : /\ widths[i] \in 0..8 /\ L(i) \in Nat
                         /\ L(i - 1) = L(i) + widths[i] /\ L(i) + widths[i] <= numBins
  BY LeftFacts
<1>4. x(N) = Bypass(c, bins, numBins) /\ x(0) = c
  <2>1. Prefix(c, bins, numBins, 0) = Bypass(c, bins, numBins) /\ Prefix(c, bins, numBins, numBins) = c
    BY CodeType, PrefixEnds
  <2> QED BY <1>3, <2>1, Zenon
<1> HIDE DEF widths, N, L
<1> DEFINE S == {i \in 0..N : Encodes(f[i], x(i))}
<1>5. 0 \in S
  <2>1. Encodes(f[0], x(0))
    BY <1>2, <1>4, Zenon DEF Encodes
  <2> QED BY <1>3, <2>1
<1>6. ASSUME NEW i \in 1..N, i - 1 \in S PROVE i \in S
  <2> DEFINE l == L(i)
             n == widths[i]
             o == f[i - 1]
             v == Lower(bins, l, n)
  <2>1. l \in Nat /\ n \in 0..8 /\ n \in Nat /\ L(i - 1) = l + n /\ l + n <= numBins /\ l + n <= 32
        /\ i \in 0..N /\ i - 1 \in 0..N
    <3>1. l \in Nat /\ n \in 0..8 /\ L(i - 1) = l + n /\ l + n <= numBins
      BY <1>3, Zenon
    <3> HIDE DEF l, n
    <3>2. n \in Nat /\ l + n <= 32 /\ i \in 0..N /\ i - 1 \in 0..N
      BY <1>3, <3>1
    <3> QED BY <3>1, <3>2
  <2>2. EncoderSound(o) /\ f[i] = EncodeChunk(o, v, n)
    BY <1>2, <2>1
  <2>3. AtByte(o) /\ Code(o) = Prefix(c, bins, numBins, l + n)
    <3>1. Encodes(o, x(i - 1))
      BY <1>6
    <3> QED BY <2>1, <3>1, Zenon DEF Encodes
  <2> HIDE DEF l, n
  <2>4. v \in Nat /\ v < Power(n)
    BY <2>1, UpperFacts
  <2> HIDE DEF o, v
  <2>5. Encodes(EncodeChunk(o, v, n), Bypass(Code(o), v, n))
    BY <2>1, <2>2, <2>3, <2>4, ChunkCoded
  <2>6. Bypass(Prefix(c, bins, numBins, l + n), v, n) = Prefix(c, bins, numBins, l)
    <3>1. Continues(c, bins, numBins, l, n)
      <4>1. Ranged(c) /\ numBins \in Nat /\ numBins <= 32
        BY CodeType
      <4> HIDE DEF c
      <4> QED BY <2>1, <4>1, PrefixNext
    <3> QED BY <3>1, Zenon DEF Continues, v
  <2>7. Encodes(f[i], x(i))
    BY <2>2, <2>3, <2>5, <2>6, Zenon DEF l
  <2> QED BY <2>1, <2>7
<1> HIDE DEF S
<1>7. 0..N \subseteq S
  BY <1>3, <1>5, <1>6, InductionTo
<1>8. N \in 0..N
  BY <1>3
<1>9. Encodes(f[N], x(N))
  BY <1>7, <1>8 DEF S
<1> QED BY <1>2, <1>4, <1>9, Zenon

-----------------------------------------------------------------------------
(* Escape codes as bypass bins.                                            *)

\* The two values that an escape code is made of, with their lengths.
EscapeParts(a, k, v, n) ==
    /\ a \in Nat /\ k \in 0..32 /\ a < Power(k)
    /\ v \in Nat /\ n \in 0..32 /\ v < Power(n)
EscapeTo(bins, rice, a, k, v, n) ==
    /\ \A e : encodeRemAbsEP(e, bins, rice) = encodeBinsEP(encodeBinsEP(e, a, k), v, n)
    /\ \A c : EscapeCode(c, bins, rice) = Bypass(Bypass(c, a, k), v, n)

LEMMA EscapeSplit ==
    ASSUME NEW rice \in 0..3, NEW bins \in Nat, bins <= Power(15)
    PROVE  \E a, k, v, n : EscapeParts(a, k, v, n) /\ EscapeTo(bins, rice, a, k, v, n)
<1> DEFINE m == Power(rice)
           q == bins \div m
           low == bins % m
           cv == q - 5
           P == PrefixLength(cv)
           x == cv - (Power(P) - 1)
           suffix == x * m + low
           length == IF P = 12 THEN 15 ELSE P + rice + 1
<1>0. Cutoff = 5 /\ MaxLog2TrDynamicRange = 15 /\ MaxPrefixLength = 12
      /\ rice \in 0..32 /\ rice \in Nat
  <2>1. MaxPrefixLength = 32 - 5 - 15
    BY Zenon DEF MaxLog2TrDynamicRange, MaxPrefixLength, Cutoff
  <2>2. Cutoff = 5 /\ MaxLog2TrDynamicRange = 15
    BY Zenon DEF MaxLog2TrDynamicRange, Cutoff
  <2>3. 32 - 5 - 15 = 12
    OBVIOUS
  <2> QED BY <2>1, <2>2, <2>3
<1>1. m \in Nat \ {0} /\ m <= 8
  <2>1. rice = 0 \/ rice = 1 \/ rice = 2 \/ rice = 3
    OBVIOUS
  <2>2. Power(0) = 1 /\ Power(1) = 2 /\ Power(2) = 4 /\ Power(3) = 8
    BY Powers
  <2>3. m = 1 \/ m = 2 \/ m = 4 \/ m = 8
    BY <2>1, <2>2, Zenon
  <2> HIDE DEF m
  <2> QED BY <2>3
<1>2. bins < 5 * m => EscapeTo(bins, rice, Power(q + 1) - 2, q + 1, low, rice)
  BY <1>0, Zenon DEF EscapeTo, encodeRemAbsEP, EscapeCode, Power
<1>3. ~(bins < 5 * m) => EscapeTo(bins, rice, Power(P + 5) - 1, P + 5, suffix, length)
  BY <1>0, Zenon DEF EscapeTo, encodeRemAbsEP, EscapeCode, Power
<1> HIDE DEF m
<1>4. low \in 0..(m - 1) /\ bins = m * q + low /\ q \in Int
  <2>1. bins \in Int
    OBVIOUS
  <2>2. /\ bins % m \in 0..(m - 1) /\ bins = m * (bins \div m) + (bins % m)
        /\ bins \div m \in Int
    BY ONLY <1>1, <2>1, Division
  <2> QED BY <2>2
<1> HIDE DEF low, q
<1>5. q \in Nat /\ low \in Nat /\ low < m
  <2>1. low \in Nat /\ low < m
    BY <1>1, <1>4
  <2>2. CASE q <= -1
    <3> DEFINE h == m * q
    <3>1. h <= m * (-1)
      BY <1>1, <1>4, <2>2, Monotonic
    <3>2. m * (-1) = -m
      BY <1>1
    <3>3. h \in Int /\ bins = h + low
      BY <1>1, <1>4
    <3> HIDE DEF h
    <3> QED BY <1>1, <2>1, <3>1, <3>2, <3>3
  <2> QED BY <1>4, <2>1, <2>2
<1>6. low < Power(rice)
  BY <1>5 DEF m
<1>7. CASE bins < 5 * m
  <2>1. q < 5
    <3>1. CASE q >= 5
      <4>1. m * 5 <= m * q
        BY <1>1, <1>5, <3>1, Monotonic
      <4> DEFINE h == m * q
      <4>2. m * 5 = 5 * m /\ h \in Nat /\ bins = h + low /\ m * 5 <= h
        BY <1>1, <1>4, <1>5, <4>1
      <4> HIDE DEF h
      <4> QED BY <1>1, <1>5, <1>7, <4>2
    <3> QED BY <1>5, <3>1
  <2>2. q \in 0..31 /\ q + 1 \in 0..32
    BY <1>5, <2>1
  <2>3. Power(q + 1) = 2 * Power(q) /\ Power(q) \in Nat \ {0} /\ Power(q + 1) \in Nat \ {0}
    BY <2>2, PowerNext
  <2>4. Power(q + 1) - 2 \in Nat /\ Power(q + 1) - 2 < Power(q + 1)
    BY <2>3
  <2>5. EscapeParts(Power(q + 1) - 2, q + 1, low, rice)
    BY <1>0, <1>5, <1>6, <2>2, <2>4, Zenon DEF EscapeParts
  <2> QED BY <1>2, <1>7, <2>5, Zenon
<1>8. CASE ~(bins < 5 * m)
  <2>1. cv \in Nat
    <3>1. CASE q <= 4
      <4>1. m * q <= m * 4
        BY <1>1, <1>5, <3>1, Monotonic
      <4> DEFINE h == m * q
      <4>2. m * 4 = 4 * m /\ h \in Nat /\ bins = h + low /\ h <= m * 4
        BY <1>1, <1>4, <1>5, <4>1
      <4> HIDE DEF h
      <4> QED BY <1>1, <1>5, <1>8, <4>2
    <3> QED BY <1>5, <3>1
  <2>2. P \in 0..12 /\ Power(P) - 1 <= cv /\ (P < 12 => cv <= 2 * Power(P) - 2)
    BY <2>1, PrefixSound
  <2>3. P \in Nat /\ P <= 12 /\ P \in 0..32 /\ P + 5 \in 0..32
    BY <2>2
  <2>4. Power(P) \in Nat \ {0}
    BY <2>3, PowerType
  <2> HIDE DEF P
  <2>5. x \in Nat /\ (P < 12 => x < Power(P)) /\ (cv = x + Power(P) - 1)
    <3> HIDE DEF cv
    <3> QED BY <2>1, <2>2, <2>4
  <2>6. q = x + Power(P) + 4
    <3>1. cv = q - 5
      OBVIOUS
    <3> HIDE DEF cv, x
    <3> QED BY <1>5, <2>1, <2>4, <2>5, <3>1
  <2> HIDE DEF x
  <2>7. suffix \in Nat
    BY <1>1, <1>5, <2>5
  <2>8. bins = (Power(P) + 4) * m + suffix
    <3> DEFINE w == Power(P)
    <3>1. w \in Nat
      BY <2>4
    <3> HIDE DEF w
    <3>2. m * ((x + w) + 4) = (w + 4) * m + x * m
      BY <1>1, <2>5, <3>1
    <3>3. m * q = m * ((x + w) + 4)
      BY <2>6, <2>5, <3>1 DEF w
    <3> DEFINE g == (w + 4) * m
               h == x * m
               k == m * q
    <3>4. g \in Nat /\ h \in Nat /\ k \in Nat /\ k = g + h /\ suffix = h + low /\ bins = k + low
      BY <1>1, <1>4, <1>5, <2>5, <3>1, <3>2, <3>3
    <3> HIDE DEF g, h, k, suffix
    <3>5. bins = g + suffix
      BY <1>5, <3>4
    <3> QED BY <3>5 DEF g, w
  <2>9. length \in 0..32 /\ suffix < Power(length)
    <3>1. CASE P < 12
      <4> DEFINE n == P + rice
      <4>1. n \in 0..31 /\ n \in Nat /\ P + rice <= 32 /\ P # 12
        BY <1>0, <2>3, <3>1
      <4>2. Power(n) = Power(P) * Power(rice)
        BY <1>0, <2>3, <4>1, PowerSum
      <4>3. m * (x + 1) <= m * Power(P)
        BY <1>1, <2>4, <2>5, <3>1, Monotonic
      <4> DEFINE w == Power(P)
                 h == x * m
                 k == w * m
      <4>4. w \in Nat /\ Power(n) = k
        BY <2>4, <4>2 DEF m
      <4>5. m * (x + 1) = h + m /\ m * w = k /\ h \in Nat /\ k \in Nat
        BY <1>1, <2>4, <2>5
      <4>6. h + m <= k
        BY <4>3, <4>5
      <4>7. suffix = h + low
        OBVIOUS
      <4> HIDE DEF h, k, suffix, n
      <4>8. suffix < Power(n)
        BY <1>1, <1>5, <4>4, <4>5, <4>6, <4>7
      <4>9. Power(n + 1) = 2 * Power(n) /\ Power(n) \in Nat \ {0}
        BY <4>1, PowerNext
      <4>10. length = n + 1 /\ length \in 0..32
        BY <1>0, <2>3, <4>1 DEF n
      <4> HIDE DEF length
      <4>11. suffix < Power(n + 1)
        BY <2>7, <4>8, <4>9
      <4> QED BY <4>10, <4>11
    <3>2. CASE P = 12
      <4>1. Power(P) = 4096 /\ Power(15) = 32768 /\ length = 15
        BY <3>2, Powers
      <4>2. (Power(P) + 4) * m = 4100 * m
        BY <1>1, <4>1
      <4> DEFINE k == (Power(P) + 4) * m
      <4>3. k = 4100 * m /\ bins = k + suffix
        BY <2>8, <4>2
      <4> HIDE DEF k, suffix
      <4>4. suffix < 32768
        BY <1>1, <2>7, <4>1, <4>3
      <4> QED BY <4>1, <4>4
    <3> QED BY <2>3, <3>1, <3>2
  <2>10. Power(P + 5) - 1 \in Nat /\ Power(P + 5) - 1 < Power(P + 5)
    <3>1. Power(P + 5) \in Nat \ {0}
      BY <2>3, PowerType
    <3> QED BY <3>1
  <2> HIDE DEF suffix, length
  <2>11. EscapeParts(Power(P + 5) - 1, P + 5, suffix, length)
    BY <2>3, <2>7, <2>9, <2>10, Zenon DEF EscapeParts
  <2> QED BY <1>3, <1>8, <2>11, Zenon DEF P, x, suffix, length
<1> QED BY <1>7, <1>8

LEMMA EscapeCoded ==
    ASSUME NEW e, EncoderSound(e), AtByte(e), NEW rice \in 0..3, NEW bins \in Nat, bins <= Power(15)
    PROVE  Encodes(encodeRemAbsEP(e, bins, rice), EscapeCode(Code(e), bins, rice))
<1>1. PICK a, k, v, n : EscapeParts(a, k, v, n) /\ EscapeTo(bins, rice, a, k, v, n)
  BY EscapeSplit
<1>2. a \in Nat /\ k \in 0..32 /\ a < Power(k) /\ v \in Nat /\ n \in 0..32 /\ v < Power(n)
  BY <1>1, Zenon DEF EscapeParts
<1> DEFINE f == encodeBinsEP(e, a, k)
<1>3. EncoderSound(f) /\ Encodes(f, Bypass(Code(e), a, k))
  BY <1>2, BinsSound, BinsCoded
<1>4. AtByte(f) /\ Code(f) = Bypass(Code(e), a, k)
  BY <1>3, Zenon DEF Encodes
<1> HIDE DEF f
<1>5. Encodes(encodeBinsEP(f, v, n), Bypass(Code(f), v, n))
  BY <1>2, <1>3, <1>4, BinsCoded
<1>6. encodeRemAbsEP(e, bins, rice) = encodeBinsEP(f, v, n)
  BY <1>1, Zenon DEF EscapeTo, f
<1>7. EscapeCode(Code(e), bins, rice) = Bypass(Bypass(Code(e), a, k), v, n)
  BY <1>1, Zenon DEF EscapeTo
<1> QED BY <1>4, <1>5, <1>6, <1>7, Zenon

LEMMA SymbolCoded ==
    ASSUME NEW e, EncoderSound(e), AtByte(e), NEW models \in Models, NEW y \in Symbols
    PROVE  Encodes(Coded(e, models, y), SymbolCode(Code(e), models, y))
<1> DEFINE c == Code(e)
           x == SymbolCode(c, models, y)
           f == Coded(e, models, y)
<1> HIDE DEF c
<1>0. y.kind \in Kinds /\ y.arg \in Nat /\ y.bins \in Nat
  BY SymbolTypes
<1>1. CASE y.kind = "ctx"
  <2>1. y.arg \in DOMAIN CtxModels /\ y.bins \in 0..1
    BY <1>1, ChannelAssumption
  <2>2. models[y.arg] \in ProbModel
    BY <2>1 DEF Models
  <2>3. f = encodeBin(e, models[y.arg], y.bins) /\ x = ContextCode(c, models[y.arg], y.bins)
    BY <1>1, Zenon DEF Coded, SymbolCode
  <2> HIDE DEF f, x
  <2> QED BY <2>1, <2>2, <2>3, ContextBinCoded DEF f, x, c
<1>2. CASE y.kind = "ep"
  <2>0. y.bins \in 0..1
    BY <1>2, ChannelAssumption
  <2>1. y.bins \in Nat /\ y.bins < Power(1) /\ 1 \in 0..8
    <3>1. Power(1) = 2
      BY Powers
    <3> QED BY <2>0, <3>1
  <2>2. f = EncodeChunk(e, y.bins, 1) /\ x = Bypass(c, y.bins, 1)
    BY <1>2 DEF Coded, SymbolCode, encodeBinEP
  <2>3. Encodes(f, x)
    <3> HIDE DEF f, x
    <3> QED BY <2>1, <2>2, ChunkCoded DEF c
  <2> QED BY <2>3 DEF c
<1>3. CASE y.kind = "eps"
  <2>1. y.bins \in Nat /\ y.arg \in 0..32 /\ y.bins < Power(y.arg)
    BY <1>0, <1>3, ChannelAssumption DEF Power
  <2>2. f = encodeBinsEP(e, y.bins, y.arg) /\ x = Bypass(c, y.bins, y.arg)
    BY <1>3 DEF Coded, SymbolCode
  <2>3. Encodes(f, x)
    <3> HIDE DEF f, x
    <3> QED BY <2>1, <2>2, BinsCoded DEF c
  <2> QED BY <2>3 DEF c
<1>4. CASE y.kind = "rem"
  <2>1. y.bins \in Nat /\ y.arg \in 0..3 /\ y.bins <= Power(15)
    <3>1. Power(15) = 32768
      BY Powers
    <3>2. y.arg \in 0..3 /\ y.bins <= 32768
      BY <1>4, ChannelAssumption
    <3> QED BY <1>0, <3>1, <3>2
  <2>2. f = encodeRemAbsEP(e, y.bins, y.arg) /\ x = EscapeCode(c, y.bins, y.arg)
    BY <1>4 DEF Coded, SymbolCode
  <2>3. Encodes(f, x)
    <3> HIDE DEF f, x
    <3> QED BY <2>1, <2>2, EscapeCoded DEF c
  <2> QED BY <2>3 DEF c
<1>5. CASE y.kind = "trm"
  <2>2. f = encodeBinTrm(e, 0) /\ x = TrmCode(c)
    BY <1>5 DEF Coded, SymbolCode
  <2>3. Encodes(f, x)
    <3> HIDE DEF f, x
    <3> QED BY <2>2, TrmCoded DEF c
  <2> QED BY <2>3 DEF c
<1>6. CASE y.kind = "align"
  <2>2. f = align(e) /\ x = AlignCode(c)
    BY <1>6 DEF Coded, SymbolCode
  <2>3. Encodes(f, x)
    <3> HIDE DEF f, x
    <3> QED BY <2>2, AlignCoded DEF c
  <2> QED BY <2>3 DEF c
<1> QED BY <1>0, <1>1, <1>2, <1>3, <1>4, <1>5, <1>6 DEF Kinds

\* Both sides at the start of a substream.
StartCode == [low |-> 0, bits |-> 9, range |-> 510]

LEMMA StartCoded == Encodes(StartEncoder, StartCode) /\ Ranged(StartCode)
<1> DEFINE e == StartEncoder
<1>1. /\ e.numBufferedBytes = 0 /\ e.stream = Whole8(<<>>) /\ e.low = 0 /\ e.bitsLeft = 23 /\ e.range = 510
  BY DEF StartEncoder, EmptyWriter, Whole8
<1> HIDE DEF e
<1>2. e.stream.fifo = <<>> /\ AtByte(e)
  BY <1>1 DEF Whole8, AtByte
<1>3. Pending(e) = <<>>
  BY <1>1, <1>2 DEF Pending
<1>4. Number(<<>>) = 0 /\ Len(<<>>) = 0
  BY NumberFacts
<1>5. 32 - e.bitsLeft = 9 /\ Power(9) \in Nat
  <2>1. 9 \in 0..32
    OBVIOUS
  <2> QED BY <1>1, <2>1, PowerType
<1>6. Number(Pending(e)) * Power(32 - e.bitsLeft) + e.low = 0
  BY <1>1, <1>3, <1>4, <1>5
<1>7. 8 * Len(Pending(e)) + (32 - e.bitsLeft) = 9
  BY <1>3, <1>4, <1>5
<1>8. Code(e) = StartCode
  BY <1>1, <1>6, <1>7 DEF Code, StartCode
<1>9. Ranged(StartCode)
  BY DEF Ranged, Codes, StartCode
<1> QED BY <1>2, <1>8, <1>9 DEF Encodes, e

Starts(s, b) == StartDecoder(s, b) = Tracker(StartCode, s, b)

LEMMA StartTracked ==
    ASSUME NEW s \in Seq(Byte), NEW b \in Nat, b + 2 <= Len(s)
    PROVE  Starts(s, b)
<1> DEFINE x == s[b + 1]
           y == s[b + 2]
<1>1. Len(s) \in Nat /\ 0 \in Nat /\ 1 \in Nat
  OBVIOUS
<1>2. ByteAt(s, b) = x /\ ByteAt(s, b + 1) = y
  <2>1. b < Len(s) /\ b + 1 < Len(s) /\ (b + 1) + 1 = b + 2
    BY <1>1
  <2> QED BY <2>1, Zenon DEF ByteAt
<1>3. x \in Nat /\ y \in Nat /\ Leading(s, b, 2) = 256 * x + y
  <2>1. Leading(s, b, 0) = 0
    BY LeadingFacts
  <2>2. /\ s[b + 0 + 1] \in Nat /\ Leading(s, b, 0 + 1) = 256 * Leading(s, b, 0) + s[b + 0 + 1]
        /\ s[b + 1 + 1] \in Nat /\ Leading(s, b, 1 + 1) = 256 * Leading(s, b, 1) + s[b + 1 + 1]
    <3>1. b + 0 + 1 <= Len(s) /\ b + 1 + 1 <= Len(s)
      BY <1>1
    <3>2. \A i \in Nat : b + i + 1 <= Len(s) =>
              s[b + i + 1] \in Nat /\ Leading(s, b, i + 1) = 256 * Leading(s, b, i) + s[b + i + 1]
      BY LeadingFacts
    <3> QED BY <1>1, <3>1, <3>2, Zenon
  <2>3. b + 0 + 1 = b + 1 /\ b + 1 + 1 = b + 2 /\ 0 + 1 = 1 /\ 1 + 1 = 2
    BY <1>1
  <2>4. x \in Nat /\ y \in Nat /\ Leading(s, b, 1) = 256 * Leading(s, b, 0) + x
        /\ Leading(s, b, 2) = 256 * Leading(s, b, 1) + y
    BY <2>2, <2>3
  <2> HIDE DEF x, y
  <2> QED BY <2>1, <2>4
<1> HIDE DEF x, y
<1>4. StartDecoder(s, b) = Decoder(256 * x + y, 510, -8, s, b + 2)
  BY <1>2, Zenon DEF StartDecoder, Decoder
<1>5. Tracker(StartCode, s, b) = Reader(s, b, 9 + 7, 128 * 0, 510)
  BY Zenon DEF Tracker, StartCode
<1>6. 9 + 7 = 16 /\ 128 * 0 = 0 /\ 16 % 8 = 0 /\ 0 - 8 = -8 /\ 16 \div 8 = 2
  OBVIOUS
<1>7. Reader(s, b, 16, 0, 510) = Decoder(Window(s, b, 16) - 0, 510, -8, s, b + 2)
  BY <1>6 DEF Reader
<1>8. Window(s, b, 16) - 0 = 256 * x + y
  <2>1. Power(0) = 1
    BY Powers
  <2>2. Window(s, b, 16) = Leading(s, b, 2) * Power(0)
    BY <1>6 DEF Window
  <2> QED BY <1>3, <2>1, <2>2
<1>9. Tracker(StartCode, s, b) = Reader(s, b, 16, 0, 510)
  BY <1>5, <1>6
<1>10. Reader(s, b, 16, 0, 510) = Decoder(256 * x + y, 510, -8, s, b + 2)
  BY <1>7, <1>8
<1> QED BY <1>4, <1>9, <1>10 DEF Starts

-----------------------------------------------------------------------------
(* The end of a substream.                                                 *)

\* What has been written, with the bits of the unfinished byte.
Proper(w) ==
    /\ w.fifo \in Seq(Byte) /\ w.numHeld \in 0..7
    /\ w.held \in Nat /\ w.held < Power(w.numHeld)
WrittenNumber(w) == Number(w.fifo) * Power(w.numHeld) + w.held
WrittenBits(w) == 8 * Len(w.fifo) + w.numHeld
Writes(w, x, bits, n) ==
    /\ Proper(x)
    /\ WrittenNumber(x) = WrittenNumber(w) * Power(n) + bits
    /\ WrittenBits(x) = WrittenBits(w) + n

OneByte(x) == Bytes(x, 1) = <<x>>
LEMMA ByteAlone == ASSUME NEW x \in Byte PROVE OneByte(x)
<1>1. x \in Int /\ 0 <= x /\ x <= 255
  BY ByteValue
<1>2. Power(0) = 1
  BY Powers
<1>3. 8 * (1 - 1) = 0
  OBVIOUS
<1>4. Bytes(x, 1) = [i \in 1..1 |-> (x \div Power(8 * (1 - i))) % 256]
  BY Zenon DEF Bytes, Power
<1>5. ASSUME NEW i \in 1..1 PROVE (x \div Power(8 * (1 - i))) % 256 = x
  <2>1. i = 1
    OBVIOUS
  <2>2. (x \div 1) % 256 = x
    BY <1>1
  <2> QED BY <1>2, <1>3, <2>1, <2>2, Zenon
<1>6. Bytes(x, 1) = [i \in 1..1 |-> x]
  BY <1>4, <1>5
<1> QED BY <1>6 DEF OneByte

LEMMA WriteNumber ==
    ASSUME NEW w, Proper(w), NEW n \in 0..12, w.numHeld + n <= 15,
           NEW bits \in Nat, bits < Power(n)
    PROVE  Writes(w, write(w, bits, n), bits, n)
<1> DEFINE s == w.fifo
           k == w.numHeld
           g == w.held
           t == k + n
           rest == t % 8
           p == Power(k)
           r == Power(n)
           u == Power(rest)
           value == g * r + bits
           N == Number(s)
           x == write(w, bits, n)
<1>1. s \in Seq(Byte) /\ k \in 0..7 /\ g \in Nat /\ g < p
  BY DEF Proper
<1>2. x = [fifo |-> s \o Bytes(value \div u, t \div 8), held |-> value % u, numHeld |-> rest]
  BY Zenon DEF write, Power
<1>3. WrittenNumber(w) = N * p + g /\ WrittenBits(w) = 8 * Len(s) + k
  BY Zenon DEF WrittenNumber, WrittenBits
<1>4. N \in Nat /\ Len(s) \in Nat
  <2>1. s \in Seq(Byte)
    BY <1>1
  <2> HIDE DEF s, p, r, u, x
  <2>2. s \in Seq(Nat)
    BY <2>1, BytesAreNat
  <2> QED BY <2>2, NumberFacts
<1>a. s \in Seq(Byte)
  BY <1>1
<1>b. k \in 0..7 /\ k + n <= 15
  BY <1>1
<1> HIDE DEF s, g, k, x, N
<1>5. k \in Nat /\ n \in Nat /\ k \in 0..32 /\ n \in 0..32 /\ t <= 32 /\ t \in 0..15 /\ rest \in 0..32
  <2>1. k \in Nat /\ n \in Nat /\ k \in 0..32 /\ n \in 0..32 /\ t <= 32 /\ t \in 0..15
    BY <1>b
  <2> HIDE DEF t
  <2>2. rest \in 0..32
    BY <2>1
  <2> QED BY <2>1, <2>2
<1>6. p \in Nat \ {0} /\ r \in Nat \ {0} /\ u \in Nat \ {0} /\ Power(t) = p * r
  BY <1>5, PowerType, PowerSum
<1> HIDE DEF p, r
<1>7. value \in Nat /\ value < p * r
  <2>1. r * (g + 1) <= r * p
    BY <1>1, <1>6, Monotonic
  <2>2. r * (g + 1) = g * r + r /\ r * p = p * r /\ g * r \in Nat /\ p * r \in Nat
    BY <1>1, <1>6
  <2> DEFINE a == g * r
             b == p * r
  <2>3. a + r <= b /\ a \in Nat /\ b \in Nat /\ value = a + bits
    BY <2>1, <2>2
  <2>4. bits < r
    BY DEF r
  <2> HIDE DEF a, b, value
  <2>5. value \in Nat /\ value < b
    BY <1>6, <2>3, <2>4
  <2> QED BY <2>5 DEF b
<1>8. (N * p + g) * r + bits = N * (p * r) + value
  <2>1. (N * p + g) * r = N * (p * r) + g * r
    BY <1>1, <1>4, <1>6
  <2> DEFINE a == g * r
             b == N * (p * r)
             c == (N * p + g) * r
  <2>2. a \in Nat /\ b \in Nat /\ c = b + a /\ value = a + bits
    BY <1>1, <1>4, <1>6, <2>1
  <2> HIDE DEF a, b, c, value
  <2>3. c + bits = b + value
    BY <2>2
  <2> QED BY <2>3 DEF b, c
<1> HIDE DEF value, u, t, rest
<1> DEFINE Fits(z, y) == /\ x = [fifo |-> z, held |-> y, numHeld |-> rest]
                         /\ z \in Seq(Byte) /\ rest \in 0..7 /\ y \in Nat /\ y < u
                         /\ Number(z) * u + y = N * (p * r) + value
                         /\ 8 * Len(z) + rest = 8 * Len(s) + t
<1>9. ASSUME NEW z, NEW y, Fits(z, y)
      PROVE  Writes(w, x, bits, n)
  <2>1. x.fifo = z /\ x.held = y /\ x.numHeld = rest
    BY <1>9
  <2>2. Proper(x)
    BY <1>9, <2>1, Zenon DEF Proper, u
  <2>3. WrittenNumber(x) = WrittenNumber(w) * Power(n) + bits
    BY <1>3, <1>8, <1>9, <2>1, Zenon DEF WrittenNumber, u, r
  <2>4. WrittenBits(x) = 8 * Len(z) + rest
    BY <2>1, Zenon DEF WrittenBits
  <2>5. (8 * Len(s) + k) + n = 8 * Len(s) + t
    BY <1>4, <1>5 DEF t
  <2>6. WrittenBits(x) = WrittenBits(w) + n
    BY <1>3, <1>9, <2>4, <2>5, Zenon
  <2> QED BY <2>2, <2>3, <2>6, Zenon DEF Writes
<1> HIDE DEF Fits
<1>10. CASE t < 8
  <2>1. rest = t /\ t \div 8 = 0 /\ rest \in 0..7
    BY <1>5, <1>10 DEF rest
  <2>2. s \o Bytes(value \div u, 0) = s
    <3>1. Bytes(value \div u, 0) = <<>>
      BY DEF Bytes
    <3>2. s \o <<>> = s
      BY <1>a
    <3> QED BY <3>1, <3>2, Zenon
  <2>3. value < u /\ value % u = value /\ u = p * r
    <3>1. u = p * r
      BY <1>6, <2>1, Zenon DEF u
    <3>2. value < u
      BY <1>7, <3>1
    <3>3. value \in 0..(u - 1)
      BY <1>6, <1>7, <3>2
    <3>4. value % u = value
      BY ONLY <1>6, <3>3
    <3> QED BY <3>1, <3>2, <3>4
  <2>4. x = [fifo |-> s, held |-> value, numHeld |-> rest]
    BY <1>2, <2>1, <2>2, <2>3, Zenon
  <2>5. Number(s) * u + value = N * (p * r) + value
    BY <2>3, Zenon DEF N
  <2>6. 8 * Len(s) + rest = 8 * Len(s) + t
    BY <2>1
  <2>7. s \in Seq(Byte)
    BY <1>a
  <2>8. value \in Nat
    BY <1>7
  <2>9. Fits(s, value)
    BY <2>1, <2>3, <2>4, <2>5, <2>6, <2>7, <2>8, Zenon DEF Fits
  <2> QED BY <1>9, <2>9 DEF x
<1>11. CASE ~(t < 8)
  <2>1. rest = t - 8 /\ t \div 8 = 1 /\ rest \in 0..7 /\ rest + 8 = t
    BY <1>5, <1>11 DEF rest
  <2> DEFINE v == value \div u
             y == value % u
             z == Append(s, v)
  <2>2. p * r = 256 * u
    <3>1. Power(rest + 8) = Power(rest) * Power(8)
      <4>1. rest \in Nat /\ 8 \in Nat /\ rest + 8 <= 32
        BY <2>1
      <4> QED BY <4>1, PowerSum
    <3>2. Power(8) = 256
      BY Powers
    <3>3. Power(t) = u * 256
      BY <2>1, <3>1, <3>2 DEF u
    <3> QED BY <1>6, <3>3
  <2>3. v \in Int /\ value = u * v + y /\ y \in 0..(u - 1)
    <3>1. value \in Int
      BY <1>7
    <3> QED BY ONLY <1>6, <3>1, Division
  <2>4. y \in Nat /\ y < u
    BY <1>6, <2>3
  <2> HIDE DEF v, y
  <2>5. v >= 0
    <3>1. CASE v <= -1
      <4>1. u * v <= u * (-1)
        BY <1>6, <2>3, <3>1, Monotonic
      <4> DEFINE h == u * v
      <4>2. h \in Int /\ h <= -u /\ value = h + y
        BY <1>6, <2>3, <4>1
      <4> HIDE DEF h
      <4> QED BY <1>6, <1>7, <2>4, <4>2
    <3> QED BY <2>3, <3>1
  <2>6. v <= 255
    <3>1. CASE v >= 256
      <4>1. u * 256 <= u * v
        BY <1>6, <2>3, <3>1, Monotonic
      <4> DEFINE h == u * v
      <4>2. h \in Int /\ 256 * u <= h /\ value = h + y /\ value < 256 * u
        BY <1>6, <1>7, <2>2, <2>3, <4>1
      <4> HIDE DEF h
      <4> QED BY <1>6, <2>4, <4>2
    <3> QED BY <2>3, <3>1
  <2>7. v \in Byte
    BY <2>3, <2>5, <2>6, ByteValue
  <2>8. s \o Bytes(v, 1) = z
    <3>1. Bytes(v, 1) = <<v>>
      <4>1. OneByte(v)
        BY <2>7, ByteAlone
      <4> QED BY <4>1, Zenon DEF OneByte
    <3>2. s \o <<v>> = Append(s, v)
      BY <1>1 DEF s
    <3> QED BY <3>1, <3>2, Zenon
  <2>9. z \in Seq(Byte) /\ Len(z) = Len(s) + 1 /\ Number(z) = 256 * N + v
    BY <1>1, <2>7, NumberAppend DEF s, N
  <2>10. x = [fifo |-> z, held |-> y, numHeld |-> rest]
    BY <1>2, <2>1, <2>8, Zenon DEF v, y
  <2>11. Number(z) * u + y = N * (p * r) + value
    <3>1. (256 * N + v) * u = N * (256 * u) + u * v
      BY <1>4, <1>6, <2>3
    <3> DEFINE h == u * v
               i == N * (256 * u)
               j == (256 * N + v) * u
    <3>2. h \in Int /\ i \in Int /\ j = i + h /\ value = h + y
      BY <1>4, <1>6, <2>3, <3>1
    <3> HIDE DEF h, i, j
    <3>3. j + y = i + value
      BY <2>4, <3>2
    <3> QED BY <2>2, <2>9, <3>3 DEF i, j
  <2>12. 8 * Len(z) + rest = 8 * Len(s) + t
    BY <1>4, <1>5, <2>1, <2>9
  <2> HIDE DEF z
  <2>13. z \in Seq(Byte)
    BY <2>9 DEF z
  <2>14. Fits(z, y)
    BY <2>1, <2>4, <2>10, <2>11, <2>12, <2>13, Zenon DEF Fits
  <2> QED BY <1>9, <2>14 DEF x
<1> QED BY <1>5, <1>10, <1>11

\* finish leaves out the lowest eight bits.
Finishes(e, x) ==
    /\ Proper(x)
    /\ WrittenNumber(x) = Code(e).low \div 256
    /\ WrittenBits(x) = Code(e).bits - 8

\* The last carry.
LastCarry(e) == e.low \div Power(32 - e.bitsLeft)

LEMMA CarryBounds ==
    ASSUME NEW e, EncoderSound(e)
    PROVE  /\ LastCarry(e) \in 0..1 /\ e.bufferedByte + LastCarry(e) <= 255
           /\ e.numBufferedBytes = 0 => LastCarry(e) = 0
<1> DEFINE unit == Power(32 - e.bitsLeft)
           carry == e.low \div unit
           rest == e.low % unit
           R == Reach(e)
<1>1. /\ e \in Unsettled /\ e.bitsLeft \in 12..23 /\ e.low \in Nat /\ e.range \in Nat
      /\ 256 <= e.range /\ e.bufferedByte \in Nat /\ e.bufferedByte <= 255
  BY EncoderValues, RegisterValues DEF EncoderSound
<1>2. unit \in Nat \ {0}
  <2>1. 32 - e.bitsLeft \in 0..32
    BY <1>1
  <2> QED BY <2>1, PowerType
<1>3. /\ e.low + e.range <= R * unit /\ R \in {1, 2} /\ (e.bufferedByte = 255 => R = 1)
      /\ (e.numBufferedBytes = 0 => e.bufferedByte = 255)
  BY DEF EncoderSound, Contained, Reach
<1>4. carry = LastCarry(e)
  BY DEF LastCarry
<1> HIDE DEF unit, R
<1>5. e.low = unit * carry + rest /\ rest \in 0..(unit - 1) /\ carry \in Int
  <2>1. e.low \in Int
    BY <1>1
  <2> QED BY <1>2, <2>1, Division
<1> HIDE DEF carry, rest
<1> DEFINE h == unit * carry
           k == R * unit
<1>6. h \in Int /\ k \in Int /\ e.low = h + rest /\ e.low + e.range <= k /\ rest \in Nat /\ rest < unit
  BY <1>2, <1>3, <1>5
<1>7. carry < R
  <2> SUFFICES ASSUME carry >= R PROVE FALSE
    BY <1>3, <1>5
  <2>1. unit * R <= unit * carry
    BY <1>2, <1>3, <1>5, Monotonic
  <2>2. k <= h
    BY <1>2, <1>3, <2>1
  <2> HIDE DEF h, k
  <2> QED BY <1>1, <1>6, <2>2
<1>8. carry >= 0
  <2> SUFFICES ASSUME carry <= -1 PROVE FALSE
    BY <1>5
  <2>1. unit * carry <= unit * (-1)
    BY <1>2, <1>5, Monotonic
  <2>2. h <= -unit
    BY <1>2, <2>1
  <2> HIDE DEF h, k
  <2> QED BY <1>1, <1>2, <1>6, <2>2
<1>9. carry \in 0..1 /\ (R = 1 => carry = 0)
  BY <1>3, <1>5, <1>7, <1>8
<1> QED BY <1>1, <1>3, <1>4, <1>9

LEMMA FinishNumber ==
    ASSUME NEW e, EncoderSound(e), AtByte(e)
    PROVE  Finishes(e, finish(e))
<1> DEFINE unit == Power(32 - e.bitsLeft)
           carry == LastCarry(e)
           before == IF e.numBufferedBytes = 0 THEN e.stream ELSE Drained(e, carry)
           rest == e.low % unit
           bits == rest \div 256
           n == 24 - e.bitsLeft
           p == Power(n)
           N == Number(Pending(e))
           L == Len(Pending(e))
           w == before.fifo
           x == finish(e)
           C == Code(e)
<1>1. e \in Unsettled /\ e.bitsLeft \in 12..23 /\ e.low \in Nat
  BY EncoderValues, RegisterValues DEF EncoderSound
<1>2. x = write(before, bits, n)
  BY Zenon DEF finish, Power, LastCarry
<1>3. C.low = N * unit + e.low /\ C.bits = 8 * L + (32 - e.bitsLeft)
  BY DEF Code
<1>4. N \in Nat /\ L \in Nat
  <2>1. Pending(e) \in Seq(Byte)
    BY <1>1, PendingType
  <2>2. Pending(e) \in Seq(Nat)
    BY <2>1, BytesAreNat
  <2> HIDE DEF unit, carry, before, rest, bits, n, p, x, C
  <2> QED BY <2>2, NumberFacts
<1>5. carry \in 0..1 /\ e.bufferedByte + carry <= 255 /\ (e.numBufferedBytes = 0 => carry = 0)
  BY CarryBounds
<1>6. before = Whole8(w) /\ w \in Seq(Byte) /\ Len(w) = L /\ Number(w) = N + carry
  <2>1. CASE e.numBufferedBytes = 0
    <3>1. before = e.stream /\ w = Pending(e)
      BY <2>1, Zenon DEF Pending
    <3>2. e.stream = Whole8(e.stream.fifo)
      BY Zenon DEF AtByte
    <3>3. w \in Seq(Byte)
      BY <1>1, <3>1, PendingType
    <3>4. N + carry = N
      BY <1>4, <1>5, <2>1
    <3> QED BY <3>1, <3>2, <3>3, <3>4, Zenon
  <2>2. CASE e.numBufferedBytes # 0
    <3>1. Drains(e, carry)
      <4> HIDE DEF carry
      <4> QED BY <1>1, <1>5, <2>2, DrainedNumber
    <3>2. before = Drained(e, carry)
      BY <2>2, Zenon
    <3> QED BY <3>1, <3>2, Zenon DEF Drains
  <2> QED BY <2>1, <2>2, Zenon
<1>7. e.low = unit * carry + rest /\ rest \in Nat /\ rest < unit /\ unit \in Nat \ {0}
  <2>1. 32 - e.bitsLeft \in 0..32 /\ e.low \in Int
    BY <1>1
  <2>2. unit \in Nat \ {0}
    BY <2>1, PowerType
  <2>3. carry = e.low \div unit
    BY Zenon DEF LastCarry
  <2> HIDE DEF unit, carry, n, before, C
  <2>4. e.low = unit * (e.low \div unit) + rest /\ rest \in 0..(unit - 1)
    BY <2>1, <2>2, Division
  <2> HIDE DEF rest
  <2>5. rest \in Nat /\ rest < unit
    BY <2>2, <2>4
  <2> QED BY <2>2, <2>3, <2>4, <2>5, Zenon
<1>8. n \in 0..12 /\ p \in Nat \ {0} /\ unit = 256 * p
  <2>1. n \in 0..12 /\ n \in Nat /\ n \in 0..32 /\ n + 8 <= 32 /\ n + 8 = 32 - e.bitsLeft /\ 8 \in Nat
    BY <1>1
  <2>2. Power(n + 8) = Power(n) * Power(8)
    BY <2>1, PowerSum
  <2>3. Power(8) = 256
    BY Powers
  <2>4. p \in Nat \ {0}
    BY <2>1, PowerType
  <2>5. unit = p * 256
    BY <2>1, <2>2, <2>3, Zenon
  <2> HIDE DEF unit, p, n
  <2> QED BY <2>1, <2>4, <2>5
<1> HIDE DEF unit, carry, before, w, N, L, C
<1>9. rest = 256 * bits + (rest % 256) /\ rest % 256 \in 0..255 /\ bits \in Nat
  <2> HIDE DEF rest
  <2> QED BY <1>7
<1> HIDE DEF rest, bits
<1>10. bits < p
  BY <1>7, <1>8, <1>9
<1>11. Proper(before) /\ before.numHeld = 0 /\ WrittenNumber(before) = N + carry
       /\ WrittenBits(before) = 8 * L
  <2>1. before.fifo = w /\ before.held = 0 /\ before.numHeld = 0
    BY <1>6 DEF Whole8
  <2>2. Power(0) = 1
    BY Powers
  <2>3. Proper(before)
    BY <1>6, <2>1, <2>2 DEF Proper
  <2>4. WrittenNumber(before) = (N + carry) * 1 + 0
    BY <1>6, <2>1, <2>2, Zenon DEF WrittenNumber
  <2>5. WrittenBits(before) = 8 * L + 0
    BY <1>6, <2>1, Zenon DEF WrittenBits
  <2> QED BY <1>4, <1>5, <2>1, <2>3, <2>4, <2>5
<1>12. before.numHeld + n <= 15
  BY <1>8, <1>11
<1> HIDE DEF n
<1>13. Writes(before, x, bits, n)
  <2>1. bits < Power(n)
    BY <1>10 DEF p
  <2> HIDE DEF p, x
  <2>2. Writes(before, write(before, bits, n), bits, n)
    BY <1>8, <1>9, <1>11, <1>12, <2>1, WriteNumber
  <2> QED BY <1>2, <2>2, Zenon
<1> HIDE DEF x, p
<1>14. /\ Proper(x) /\ WrittenNumber(x) = (N + carry) * p + bits
       /\ WrittenBits(x) = 8 * L + n
  BY <1>11, <1>13, Zenon DEF Writes, p
<1>15. C.low \div 256 = (N + carry) * p + bits
  <2> DEFINE q == (N + carry) * p + bits
             r == rest % 256
  <2>1. q \in Int /\ r \in 0..(256 - 1) /\ 256 \in Nat \ {0}
    BY <1>4, <1>5, <1>8, <1>9
  <2>2. C.low = 256 * q + r
    <3> DEFINE a == N * p
               b == carry * p
    <3>1. N * unit = 256 * a /\ unit * carry = 256 * b /\ (N + carry) * p = a + b
          /\ a \in Int /\ b \in Int
      BY <1>4, <1>5, <1>8
    <3> HIDE DEF a, b
    <3>2. q = (a + b) + bits
      BY <3>1
    <3> HIDE DEF q
    <3> QED BY <1>3, <1>7, <1>9, <3>1, <3>2
  <2> HIDE DEF q, r
  <2>3. (256 * q + r) \div 256 = q
    BY <2>1, DivisionUnique
  <2> QED BY <2>2, <2>3 DEF q
<1>16. C.bits - 8 = 8 * L + n
  BY <1>1, <1>3, <1>4 DEF n
<1> QED BY <1>14, <1>15, <1>16, Zenon DEF Finishes, C, x

\* The alignment fills the last byte with zeros.
Aligns(y, s) ==
    /\ s \in Seq(Byte) /\ Len(s) = Whole(WrittenBits(y))
    /\ Number(s) = WrittenNumber(y) * Power(8 * Whole(WrittenBits(y)) - WrittenBits(y))

LEMMA AlignNumber ==
    ASSUME NEW y, Proper(y)
    PROVE  Aligns(y, writeAlignZero(y).fifo)
<1> DEFINE s == y.fifo
           k == y.numHeld
           g == y.held
           N == Number(s)
           L == Len(s)
           q == 8 * L + k
           F == writeAlignZero(y).fifo
<1>1. s \in Seq(Byte) /\ k \in 0..7 /\ g \in Nat /\ g < Power(k)
  BY DEF Proper
<1>2. F = IF k = 0 THEN s ELSE Append(s, g * Power(8 - k))
  BY DEF writeAlignZero, Power
<1>3. WrittenNumber(y) = N * Power(k) + g /\ WrittenBits(y) = q
  BY Zenon DEF WrittenNumber, WrittenBits
<1> HIDE DEF s, k, g, F
<1>a. s \in Seq(Byte)
  BY <1>1
<1>4. N \in Nat /\ L \in Nat
  <2>1. s \in Seq(Nat)
    BY <1>a, BytesAreNat
  <2> QED BY <2>1, NumberFacts
<1> HIDE DEF N, L
<1>5. CASE k = 0
  <2>1. F = s
    BY <1>2, <1>5
  <2>2. Power(0) = 1
    BY Powers
  <2>3. g = 0
    BY <1>1, <1>5, <2>2
  <2>4. Whole(q) = L /\ 8 * Whole(q) - q = 0
    BY <1>4, <1>5 DEF Whole
  <2>5. N = (N * Power(k) + g) * Power(8 * Whole(q) - q)
    <3>1. N = (N * 1 + 0) * 1
      BY <1>4
    <3> QED BY <1>5, <2>2, <2>3, <2>4, <3>1, Zenon
  <2> QED BY <1>3, <1>a, <2>1, <2>4, <2>5, Zenon DEF Aligns, F, N, L
<1>6. CASE k # 0
  <2> DEFINE p == Power(k)
             r == Power(8 - k)
             b == g * r
  <2>1. k \in 1..7 /\ k \in Nat /\ 8 - k \in Nat /\ k + (8 - k) = 8 /\ 8 <= 32 /\ k \in 0..32 /\ 8 - k \in 0..32
    BY <1>1, <1>6
  <2>2. p \in Nat \ {0} /\ r \in Nat \ {0} /\ p * r = 256
    <3>1. Power(k + (8 - k)) = p * r
      BY <2>1, PowerSum
    <3>2. Power(8) = 256
      BY Powers
    <3>3. p \in Nat \ {0} /\ r \in Nat \ {0}
      BY <2>1, PowerType
    <3> HIDE DEF p, r
    <3>4. Power(k + (8 - k)) = Power(8)
      BY <2>1
    <3> QED BY <3>1, <3>2, <3>3, <3>4
  <2>3. g < p
    BY <1>1
  <2> HIDE DEF p, r
  <2>4. b \in Nat /\ b < 256
    <3>1. r * (g + 1) <= r * p
      BY <1>1, <2>2, <2>3, Monotonic
    <3>2. r * (g + 1) = b + r /\ r * p = p * r /\ b \in Nat
      BY <1>1, <2>2
    <3> HIDE DEF b
    <3> QED BY <2>2, <3>1, <3>2
  <2>5. F = Append(s, b)
    BY <1>2, <1>6, Zenon DEF b, r
  <2>6. b \in Byte
    <3> HIDE DEF b
    <3> QED BY <2>4, ByteValue
  <2> HIDE DEF b
  <2>7. F \in Seq(Byte) /\ Len(F) = L + 1 /\ Number(F) = 256 * N + b
    BY <1>a, <2>5, <2>6, NumberAppend DEF L, N
  <2>8. Whole(q) = L + 1 /\ 8 * Whole(q) - q = 8 - k
    <3>1. Whole(q) = L + 1
      BY <1>4, <2>1 DEF Whole
    <3> QED BY <1>4, <2>1, <3>1
  <2>9. 256 * N + b = (N * p + g) * r
    <3>1. (N * p + g) * r = (p * r) * N + b
      BY <1>1, <1>4, <2>2 DEF b
    <3> QED BY <2>2, <3>1
  <2>10. Number(F) = WrittenNumber(y) * Power(8 * Whole(q) - q)
    BY <1>3, <2>7, <2>8, <2>9, Zenon DEF p, r
  <2> QED BY <1>3, <2>7, <2>8, <2>10, Zenon DEF Aligns, F
<1> QED BY <1>5, <1>6

\* What a substream ends with: the interval of the terminating bin, halved, and
\* the stop bit.
Stopped(c) == 2 * ((c.low + (c.range - 2)) \div 2) + 1
Ends(s, c) ==
    /\ s \in Seq(Byte) /\ Len(s) = Whole(c.bits)
    /\ Number(s) = Stopped(c) * Power(8 * Whole(c.bits) - c.bits)

LEMMA SubstreamNumber ==
    ASSUME NEW e, EncoderSound(e), AtByte(e)
    PROVE  Ends(Substream(e), Code(e))
<1> DEFINE c == Code(e)
           f == encodeBinTrm(e, 1)
           x == finish(f)
           y == write(x, 1, 1)
           A == c.low + (c.range - 2)
           z == Part(c, e.range - 2, 2, 7)
<1>1. Ranged(c) /\ c.range = e.range
  BY CodeType
<1>2. EncoderSound(f) /\ Encodes(f, z)
  <2>1. 1 \in 0..1
    OBVIOUS
  <2> QED BY <2>1, TerminatingSound, TrmCoded
<1>3. AtByte(f) /\ Code(f) = z
  BY <1>2, Zenon DEF Encodes
<1>4. Finishes(f, x)
  <2> HIDE DEF f
  <2> QED BY <1>2, <1>3, FinishNumber
<1> HIDE DEF c, f
<1>5. c.low \in Nat /\ c.bits \in Nat /\ c.range \in Nat /\ A \in Nat
  BY <1>1 DEF Ranged, Codes
<1>6. z.low = A * 128 /\ z.bits = c.bits + 7
  <2>1. Power(7) = 128
    BY Powers
  <2>2. z.low = (c.low + (e.range - 2)) * Power(7) /\ z.bits = c.bits + 7
    BY Zenon DEF Part
  <2> QED BY <1>1, <2>1, <2>2
<1> HIDE DEF x, z, A
<1>7. Proper(x) /\ WrittenNumber(x) = (A * 128) \div 256 /\ WrittenBits(x) = (c.bits + 7) - 8
  BY <1>3, <1>4, <1>6, Zenon DEF Finishes
<1>8. Writes(x, y, 1, 1)
  <2> DEFINE n == 1
             bits == 1
  <2>1. n \in 0..12 /\ x.numHeld + n <= 15
    BY <1>7 DEF Proper
  <2>2. bits \in Nat /\ bits < Power(n)
    <3>1. Power(1) = 2
      BY Powers
    <3> QED BY <3>1
  <2> HIDE DEF n, bits, y
  <2>3. Writes(x, write(x, bits, n), bits, n)
    BY <1>7, <2>1, <2>2, WriteNumber
  <2> QED BY <2>3, Zenon DEF n, bits, y
<1>9. Proper(y) /\ WrittenNumber(y) = ((A * 128) \div 256) * Power(1) + 1
      /\ WrittenBits(y) = ((c.bits + 7) - 8) + 1
  BY <1>7, <1>8, Zenon DEF Writes
<1> HIDE DEF y
<1>10. WrittenNumber(y) = Stopped(c) /\ WrittenBits(y) = c.bits
  <2>1. Power(1) = 2
    BY Powers
  <2>2. (A * 128) \div 256 = A \div 2 /\ A \div 2 \in Int
    BY <1>5
  <2>3. Stopped(c) = 2 * (A \div 2) + 1
    BY DEF Stopped, A
  <2>4. (A \div 2) * 2 + 1 = 2 * (A \div 2) + 1
    BY <2>2
  <2>5. ((c.bits + 7) - 8) + 1 = c.bits
    BY <1>5
  <2> QED BY <1>9, <2>1, <2>2, <2>3, <2>4, <2>5, Zenon
<1>11. Aligns(y, writeAlignZero(y).fifo)
  BY <1>9, AlignNumber
<1>12. Substream(e) = writeAlignZero(y).fifo
  BY Zenon DEF Substream, writeByteAlignment, y, x, f
<1> QED BY <1>10, <1>11, <1>12, Zenon DEF Aligns, Ends, c

-----------------------------------------------------------------------------
(* A substream in the slice, and the decoder at its end.                   *)

\* The bytes f follow the first b of s.
Placed(s, b, f) ==
    /\ b + Len(f) <= Len(s)
    /\ \A i \in 1..Len(f) : s[b + i] = f[i]

LEMMA PlacedNumber ==
    ASSUME NEW s \in Seq(Byte), NEW b \in Nat, NEW f \in Seq(Byte), Placed(s, b, f)
    PROVE  Leading(s, b, Len(f)) = Number(f)
<1> DEFINE n == Len(f)
           g == SubSeq(s, b + 1, b + n)
<1>1. n \in Nat /\ Len(s) \in Nat /\ b + n <= Len(s)
  BY DEF Placed
<1>2. f \in Seq(Nat) /\ s \in Seq(Nat)
  BY BytesAreNat
<1>3. g \in Seq(Nat) /\ Len(g) = n /\ \A i \in 1..n : g[i] = s[b + i]
  BY <1>1, <1>2
<1>4. \A i \in 1..n : s[b + i] = f[i]
  BY DEF Placed
<1> HIDE DEF g
<1>5. \A i \in 1..n : g[i] = f[i]
  BY <1>3, <1>4
<1>6. g = f
  BY <1>2, <1>3, <1>5, SeqEqual
<1> QED BY <1>6, Zenon DEF Leading, g

\* The decoder meets the terminating bin, the stop bit, and the end at i.
Terminates(c, s, b, i) ==
    LET r == decodeBinTrm(Tracker(c, s, b))
    IN  r.bins = 1 /\ StopPatternPresent(r.dec) /\ r.dec.idx = i

LEMMA StoppedBounds ==
    ASSUME NEW c, Ranged(c)
    PROVE  /\ Stopped(c) \in Nat
           /\ c.low + (c.range - 2) <= Stopped(c) /\ Stopped(c) < c.low + c.range
           /\ \E h \in Nat : Stopped(c) = 2 * h + 1
<1> DEFINE A == c.low + (c.range - 2)
           h == A \div 2
<1>1. c.low \in Nat /\ c.range \in Nat /\ 256 <= c.range /\ A \in Nat
  BY DEF Ranged, Codes
<1>2. A = c.low + (c.range - 2)
  OBVIOUS
<1>3. Stopped(c) = 2 * h + 1
  BY DEF Stopped
<1> HIDE DEF A
<1>4. h \in Nat /\ A <= 2 * h + 1 /\ 2 * h <= A
  BY <1>1
<1> HIDE DEF h
<1>5. Stopped(c) < c.low + c.range
  BY <1>1, <1>2, <1>3, <1>4
<1> QED BY <1>1, <1>2, <1>3, <1>4, <1>5

LEMMA EndPlaced ==
    ASSUME NEW s \in Seq(Byte), NEW b \in Nat, NEW f, NEW c, Ranged(c), 1 <= c.bits,
           Ends(f, c), Placed(s, b, f)
    PROVE  Within(c, s, b) /\ Terminates(c, s, b, b + Len(f))
<1> DEFINE q == c.bits
           W == Whole(q)
           z == 8 * W - q
           p == Power(z)
           V == Stopped(c)
           d == Tracker(c, s, b)
           rest == c.range - 2
<1>1. q \in Nat /\ 1 <= q /\ c \in Codes /\ c.range \in Nat /\ 256 <= c.range /\ c.low \in Nat
  BY DEF Ranged, Codes
<1>2. f \in Seq(Byte) /\ Len(f) = W /\ Number(f) = V * p
  BY Zenon DEF Ends
<1>3. W \in Nat /\ z \in 0..7 /\ 1 <= W /\ z \in 0..32 /\ W = (q + 7) \div 8
  <2> HIDE DEF q, W
  <2>1. W \in Nat /\ 8 * W - q \in 0..7
    BY <1>1, WholeFacts DEF W
  <2>2. W = (q + 7) \div 8
    BY DEF W, Whole
  <2> QED BY <1>1, <2>1, <2>2
<1>4. Leading(s, b, W) = V * p
  <2>1. Leading(s, b, Len(f)) = Number(f)
    BY <1>2, PlacedNumber
  <2> QED BY <1>2, <2>1, Zenon
<1>5. p \in Nat \ {0}
  BY <1>3, PowerType
<1>6. V \in Nat /\ c.low + rest <= V /\ V < c.low + c.range
  BY StoppedBounds
<1>7. PICK h \in Nat : V = 2 * h + 1
  BY StoppedBounds
<1>8. b + W <= Len(s)
  BY <1>2 DEF Placed
<1>9. First(s, b, q) = V
  <2>1. First(s, b, q) = (V * p) \div p
    BY <1>4, Zenon DEF First
  <2> HIDE DEF V, p
  <2>2. V \in Int /\ 0 \in 0..(p - 1)
    BY <1>5, <1>6
  <2>3. (p * V + 0) \div p = V
    BY <1>5, <2>2, DivisionUnique
  <2>4. p * V + 0 = V * p
    BY <1>5, <1>6
  <2> QED BY <2>1, <2>3, <2>4
<1> HIDE DEF V
<1>10. Within(c, s, b)
  <2>1. c.low <= V
    BY <1>1, <1>6
  <2> QED BY <1>6, <1>8, <1>9, <2>1, Zenon DEF Within
<1>11. d.value >= rest * 128 /\ d.range = c.range
  <2>1. rest \in Nat /\ b + Whole(c.bits) <= Len(s)
    BY <1>1, <1>8
  <2> HIDE DEF d, rest, q, W
  <2>2. d.value >= rest * 128 <=> First(s, b, q) >= c.low + rest
    BY <1>1, <2>1, TrackerCompares DEF d, q
  <2>3. First(s, b, q) >= c.low + rest
    <3>1. c.low + rest \in Int
      BY <1>1, <2>1
    <3> QED BY <1>6, <1>9, <3>1
  <2>4. d.range = c.range
    BY <1>1, <2>1, TrackerCompares DEF d
  <2> QED BY <2>2, <2>3, <2>4
<1> DEFINE r == decodeBinTrm(d)
<1>12. r = [bins |-> 1, dec |-> [d EXCEPT !.range = rest]]
  <2>1. d.range - 2 = rest
    BY <1>11
  <2>2. ~(d.value < rest * 128)
    <3>1. rest * 128 \in Int /\ d.value \in Int
      <4>1. b + Whole(c.bits) <= Len(s) /\ 0 \in Nat
        BY <1>8
      <4> HIDE DEF rest
      <4>2. d.value \in Int
        BY <1>1, <4>1, TrackerCompares
      <4>3. rest \in Int
        BY <1>1 DEF rest
      <4> QED BY <4>2, <4>3
    <3> HIDE DEF d, rest
    <3> QED BY <1>11, <3>1
  <2> HIDE DEF d, rest
  <2> QED BY <1>11, <2>1, <2>2, Zenon DEF decodeBinTrm
<1>13. /\ r.dec.idx = b + (q + 7) \div 8 /\ r.dec.fifo = s
       /\ r.dec.bitsNeeded = ((q + 7) % 8) - 8
  <2>1. d = [value |-> Window(s, b, q + 7) - 128 * c.low, range |-> c.range,
             bitsNeeded |-> ((q + 7) % 8) - 8, fifo |-> s, idx |-> b + (q + 7) \div 8]
    BY Zenon DEF Tracker, Reader, Decoder
  <2> HIDE DEF q, rest
  <2> QED BY <1>12, <2>1
<1>14. r.bins = 1
  BY <1>12
<1> HIDE DEF r, d, q, W
<1>15. r.dec.idx = b + Len(f)
  BY <1>2, <1>3, <1>13
<1> DEFINE x == s[b + W]
           H == Leading(s, b, W - 1)
           y == Power(7 - z)
<1>16. ByteAt(r.dec.fifo, r.dec.idx - 1) = x
  <2>1. r.dec.idx - 1 < Len(s) /\ (r.dec.idx - 1) + 1 = b + W
    BY <1>2, <1>3, <1>8, <1>15
  <2> QED BY <1>13, <2>1, Zenon DEF ByteAt
<1>17. H \in Nat /\ x \in Nat /\ 256 * H + x = V * p
  <2> DEFINE i == W - 1
  <2>1. i \in Nat /\ b + i + 1 <= Len(s) /\ b + i <= Len(s) /\ i + 1 = W /\ b + i + 1 = b + W
    BY <1>3, <1>8
  <2>2. Leading(s, b, i) \in Nat /\ s[b + i + 1] \in Nat
        /\ Leading(s, b, i + 1) = 256 * Leading(s, b, i) + s[b + i + 1]
    <3> HIDE DEF i
    <3>1. \A j \in Nat : b + j <= Len(s) => Leading(s, b, j) \in Nat
      BY LeadingFacts
    <3>2. \A j \in Nat : b + j + 1 <= Len(s) =>
              s[b + j + 1] \in Nat /\ Leading(s, b, j + 1) = 256 * Leading(s, b, j) + s[b + j + 1]
      BY LeadingFacts
    <3> QED BY <2>1, <3>1, <3>2, Zenon
  <2> QED BY <1>4, <2>1, <2>2
<1>18. y \in Nat \ {0} /\ p * y = 128 /\ 8 + r.dec.bitsNeeded = 7 - z
  <2>1. 7 - z \in Nat /\ z \in Nat /\ z + (7 - z) = 7 /\ 7 <= 32 /\ 7 - z \in 0..32
    BY <1>3
  <2>2. Power(z + (7 - z)) = p * y
    <3> HIDE DEF z
    <3> QED BY <2>1, PowerSum
  <2>3. Power(7) = 128
    BY Powers
  <2>4. y \in Nat \ {0}
    BY <2>1, PowerType
  <2>5. (q + 7) % 8 = 7 - z
    BY <1>1, <1>3
  <2>6. 8 + (((q + 7) % 8) - 8) = 7 - z
    BY <1>3, <2>5
  <2>7. p * y = 128
    <3> HIDE DEF p, y, z
    <3> QED BY <2>1, <2>2, <2>3
  <2> QED BY <1>13, <2>4, <2>6, <2>7
<1> HIDE DEF x, H, y, p, z
<1>19. (x * y) % 256 = 128
  <2> DEFINE k == h - H * y
  <2>1. x * y = 256 * k + 128
    <3> DEFINE a == x * y
               g == H * y
    <3>1. (256 * H + x) * y = 256 * g + a
      BY <1>17, <1>18
    <3>2. (V * p) * y = 128 * V
      <4>1. (V * p) * y = V * (p * y)
        BY <1>5, <1>6, <1>18
      <4>2. V * (p * y) = V * 128
        BY <1>18
      <4> QED BY <1>6, <4>1, <4>2
    <3>3. a \in Int /\ g \in Int
      BY <1>17, <1>18
    <3>4. 256 * g + a = 128 * V
      BY <1>17, <3>1, <3>2
    <3> HIDE DEF a, g
    <3>5. a = 256 * (h - g) + 128
      BY <1>7, <3>3, <3>4
    <3> QED BY <3>5 DEF a, g
  <2>2. k \in Int /\ 128 \in 0..(256 - 1) /\ 256 \in Nat \ {0}
    BY <1>17, <1>18
  <2> HIDE DEF k
  <2>3. (256 * k + 128) % 256 = 128
    BY <2>2, DivisionUnique
  <2> QED BY <2>1, <2>3
<1>20. StopPatternPresent(r.dec)
  <2>1. ByteAt(r.dec.fifo, r.dec.idx - 1) * Power(8 + r.dec.bitsNeeded) = x * y
    BY <1>16, <1>18, Zenon DEF y
  <2> QED BY <1>19, <2>1 DEF StopPatternPresent, Power
<1> QED BY <1>10, <1>14, <1>15, <1>20, Zenon DEF Terminates, r, d

-----------------------------------------------------------------------------
(* What both sides have in common, after each symbol of the slice: the code, *)
(* the models, and the substream it belongs to.                             *)
Stage(h) ==
    /\ Ranged(h.code) /\ 9 <= h.code.bits
    /\ h.models \in Models /\ h.start \in Nat /\ h.ends \in Nat
At(code, models, start, ends) ==
    [code |-> code, models |-> models, start |-> start, ends |-> ends]
Fresh(start, ends) == At(StartCode, CtxModels, start, ends)

\* A symbol, or the end of a substream, between two stages.
Continued(g, y, h) ==
    /\ y \in Symbols
    /\ h = At(SymbolCode(g.code, g.models, y), Learned(g.models, y, y.bins), g.start, g.ends)
Restarted(g, h, s, ends) ==
    \E f : /\ Ends(f, g.code) /\ Placed(s, g.start, f)
           /\ g.ends + 1 <= Len(ends) /\ ends[g.ends + 1] = g.start + Len(f)
           /\ h = Fresh(g.start + Len(f), g.ends + 1)
Follows(g, y, h, s, ends) ==
    \/ Continued(g, y, h)
    \/ y = End /\ Restarted(g, h, s, ends)

History(h, y, s, ends) ==
    /\ h[0] = Fresh(0, 0)
    /\ \A k \in 0..Len(y) : Stage(h[k])
    /\ \A k \in 1..Len(y) : Follows(h[k - 1], y[k], h[k], s, ends)

Extends(s, t) == Len(s) <= Len(t) /\ \A i \in 1..Len(s) : t[i] = s[i]

LEMMA EndNotSymbol == End \notin Symbols
<1>1. End.kind \notin Kinds
  BY DEF End, Kinds
<1> QED BY <1>1, SymbolTypes

LEMMA ExtendsPlaced ==
    ASSUME NEW s, NEW t, Len(s) \in Nat, Len(t) \in Nat, Extends(s, t),
           NEW b \in Nat, NEW f, Len(f) \in Nat, Placed(s, b, f)
    PROVE  Placed(t, b, f)
<1>1. Len(s) <= Len(t) /\ \A i \in 1..Len(s) : t[i] = s[i]
  BY DEF Extends
<1>2. b + Len(f) <= Len(s) /\ \A i \in 1..Len(f) : s[b + i] = f[i]
  BY DEF Placed
<1>3. b + Len(f) <= Len(t)
  BY <1>1, <1>2
<1>4. ASSUME NEW i \in 1..Len(f) PROVE t[b + i] = f[i]
  <2>1. b + i \in 1..Len(s)
    BY <1>2
  <2> QED BY <1>1, <1>2, <2>1
<1> QED BY <1>3, <1>4 DEF Placed

LEMMA ExtendsFollows ==
    ASSUME NEW s, NEW t, Len(s) \in Nat, Len(t) \in Nat, Extends(s, t),
           NEW p, NEW q, Len(p) \in Nat, Len(q) \in Nat, Extends(p, q),
           NEW g, Stage(g), NEW y, NEW h, Follows(g, y, h, s, p)
    PROVE  Follows(g, y, h, t, q)
<1>1. CASE Continued(g, y, h)
  BY <1>1, Zenon DEF Follows
<1>2. CASE y = End /\ Restarted(g, h, s, p)
  <2>1. PICK f : /\ Ends(f, g.code) /\ Placed(s, g.start, f)
                 /\ g.ends + 1 <= Len(p) /\ p[g.ends + 1] = g.start + Len(f)
                 /\ h = Fresh(g.start + Len(f), g.ends + 1)
    BY <1>2, Zenon DEF Restarted
  <2>2. g.start \in Nat /\ g.ends \in Nat
    BY Zenon DEF Stage
  <2>3. Len(f) \in Nat
    <3>1. f \in Seq(Byte)
      BY <2>1, Zenon DEF Ends
    <3> QED BY <3>1
  <2>4. Placed(t, g.start, f)
    BY <2>1, <2>2, <2>3, ExtendsPlaced
  <2>5. g.ends + 1 <= Len(q) /\ q[g.ends + 1] = g.start + Len(f)
    <3>1. g.ends + 1 \in 1..Len(p)
      BY <2>1, <2>2
    <3>2. Len(p) <= Len(q) /\ q[g.ends + 1] = p[g.ends + 1]
      BY <3>1 DEF Extends
    <3> QED BY <2>1, <2>2, <3>2
  <2>6. Restarted(g, h, t, q)
    BY <2>1, <2>4, <2>5, Zenon DEF Restarted
  <2> QED BY <1>2, <2>6, Zenon DEF Follows
<1> QED BY <1>1, <1>2, Zenon DEF Follows

LEMMA HistoryExtended ==
    ASSUME NEW s, NEW t, Len(s) \in Nat, Len(t) \in Nat, Extends(s, t),
           NEW p, NEW q, Len(p) \in Nat, Len(q) \in Nat, Extends(p, q),
           NEW S, NEW y \in Seq(S), NEW x \in S,
           NEW h, History(h, y, s, p),
           NEW g, Stage(g), Follows(h[Len(y)], x, g, t, q)
    PROVE  \E k : History(k, Append(y, x), t, q) /\ k[Len(y) + 1] = g
<1> DEFINE n == Len(y)
           z == Append(y, x)
           k == [i \in 0..(n + 1) |-> IF i = n + 1 THEN g ELSE h[i]]
<1>1. n \in Nat /\ Len(z) = n + 1 /\ (\A i \in 1..n : z[i] = y[i]) /\ z[n + 1] = x
  OBVIOUS
<1>2. /\ h[0] = Fresh(0, 0)
      /\ \A i \in 0..n : Stage(h[i])
      /\ \A i \in 1..n : Follows(h[i - 1], y[i], h[i], s, p)
  BY Zenon DEF History
<1>3. k[n + 1] = g /\ \A i \in 0..n : k[i] = h[i]
  BY <1>1
<1> HIDE DEF k, z, n
<1>4. k[0] = Fresh(0, 0)
  BY <1>1, <1>2, <1>3
<1>5. \A i \in 0..(n + 1) : Stage(k[i])
  BY <1>1, <1>2, <1>3
<1>6. ASSUME NEW i \in 1..(n + 1) PROVE Follows(k[i - 1], z[i], k[i], t, q)
  <2>1. CASE i = n + 1
    <3>1. k[i - 1] = h[n]
      BY <1>1, <1>3, <2>1
    <3>2. z[i] = x /\ k[i] = g
      BY <1>1, <1>3, <2>1
    <3> QED BY <3>1, <3>2 DEF n
  <2>2. CASE i # n + 1
    <3>1. i \in 1..n /\ i \in 0..n /\ i - 1 \in 0..n
      BY <1>1, <2>2
    <3>2. k[i - 1] = h[i - 1] /\ k[i] = h[i] /\ z[i] = y[i]
      BY <1>1, <1>3, <3>1
    <3>3. Follows(h[i - 1], y[i], h[i], s, p) /\ Stage(h[i - 1])
      BY <1>2, <3>1
    <3>4. Follows(h[i - 1], y[i], h[i], t, q)
      BY <3>3, ExtendsFollows
    <3> QED BY <3>2, <3>4
  <2> QED BY <2>1, <2>2
<1>7. History(k, z, t, q)
  BY <1>1, <1>4, <1>5, <1>6, Zenon DEF History
<1> QED BY <1>3, <1>7, Zenon DEF n, z

\* In a slice that ends with the end of a substream, every stage's number lies
\* in its interval.
LEMMA HistoryWithin ==
    ASSUME NEW s \in Seq(Byte), NEW p, NEW N \in Nat, NEW y, Len(y) = N + 1, y[N + 1] = End,
           NEW h, History(h, y, s, p)
    PROVE  \A k \in 0..N : Within(h[k].code, s, h[k].start)
<1>0. /\ \A i \in 0..(N + 1) : Stage(h[i])
      /\ \A i \in 1..(N + 1) : Follows(h[i - 1], y[i], h[i], s, p)
  BY Zenon DEF History
<1> DEFINE In(k) == Within(h[k].code, s, h[k].start)
           T == {n \in 0..N : In(N - n)}
<1>1. ASSUME NEW k \in 0..N, y[k + 1] = End PROVE In(k)
  <2>1. k + 1 \in 1..(N + 1) /\ (k + 1) - 1 = k /\ k \in 0..(N + 1)
    OBVIOUS
  <2>2. Follows(h[k], End, h[k + 1], s, p) /\ Stage(h[k])
    BY <1>0, <1>1, <2>1
  <2>3. ~Continued(h[k], End, h[k + 1])
    BY EndNotSymbol, Zenon DEF Continued
  <2>4. PICK f : Ends(f, h[k].code) /\ Placed(s, h[k].start, f)
    BY <2>2, <2>3, Zenon DEF Follows, Restarted
  <2>5. Ranged(h[k].code) /\ h[k].start \in Nat /\ 1 <= h[k].code.bits
    <3>1. Ranged(h[k].code) /\ h[k].start \in Nat /\ 9 <= h[k].code.bits
      BY <2>2 DEF Stage
    <3>2. h[k].code.bits \in Nat
      BY <3>1 DEF Ranged, Codes
    <3> QED BY <3>1, <3>2
  <2> QED BY <2>4, <2>5, EndPlaced
<1>2. 0 \in T
  <2>1. N \in 0..N /\ N - 0 = N /\ 0 \in 0..N
    OBVIOUS
  <2>2. In(N)
    BY <1>1, <2>1
  <2> HIDE DEF In
  <2> QED BY <2>1, <2>2
<1>3. ASSUME NEW n \in 1..N, n - 1 \in T PROVE n \in T
  <2> DEFINE k == N - n
  <2>1. k \in 0..N /\ k + 1 \in 0..N /\ k + 1 = N - (n - 1) /\ n \in 0..N
        /\ k + 1 \in 1..(N + 1) /\ (k + 1) - 1 = k /\ k \in 0..(N + 1)
    OBVIOUS
  <2>2. In(k + 1)
    <3> HIDE DEF In, k
    <3>1. In(N - (n - 1))
      BY <1>3
    <3> QED BY <2>1, <3>1
  <2> HIDE DEF k
  <2>3. ASSUME y[k + 1] = End PROVE In(k)
    BY <1>1, <2>1, <2>3
  <2>4. ASSUME y[k + 1] # End PROVE In(k)
    <3> DEFINE g == h[k]
               x == y[k + 1]
    <3>1. Follows(g, x, h[k + 1], s, p) /\ Stage(g)
      BY <1>0, <2>1
    <3>2. Continued(g, x, h[k + 1])
      BY <2>4, <3>1, Zenon DEF Follows
    <3>3. x \in Symbols /\ h[k + 1] = At(SymbolCode(g.code, g.models, x), Learned(g.models, x, x.bins), g.start, g.ends)
      BY <3>2, Zenon DEF Continued
    <3>4. h[k + 1].code = SymbolCode(g.code, g.models, x) /\ h[k + 1].start = g.start
      BY <3>3 DEF At
    <3>5. Ranged(g.code) /\ g.models \in Models /\ g.start \in Nat
      BY <3>1, Zenon DEF Stage
    <3>6. Within(SymbolCode(g.code, g.models, x), s, g.start)
      BY <2>2, <3>4, Zenon
    <3> HIDE DEF g, x
    <3>7. Decodes(g.code, SymbolCode(g.code, g.models, x),
                  Decoded(Tracker(g.code, s, g.start), g.models, x), x.bins, s, g.start)
      BY <3>3, <3>5, SymbolDecoded
    <3>8. Within(g.code, s, g.start)
      BY <3>6, <3>7, Zenon DEF Decodes
    <3> QED BY <3>8 DEF g
  <2>5. In(k)
    BY <2>3, <2>4
  <2> HIDE DEF In
  <2> QED BY <2>1, <2>5 DEF k
<1> HIDE DEF T, In
<1>4. 0..N \subseteq T
  BY <1>2, <1>3, InductionTo
<1>5. ASSUME NEW k \in 0..N PROVE In(k)
  <2>1. N - k \in 0..N /\ N - (N - k) = k
    OBVIOUS
  <2>2. N - k \in T
    BY <1>4, <2>1
  <2> QED BY <2>1, <2>2 DEF T
<1> QED BY <1>5 DEF In

-----------------------------------------------------------------------------
(* The decoder at a stage.                                                 *)
DecoderAt(g, s) == Tracker(g.code, s, g.start)
Inside(d, s) ==
    /\ d.value < d.range * 128 /\ d.idx <= Len(s)
    /\ d.range \in 256..510 /\ d.bitsNeeded \in -8..-1

LEMMA InsideAt ==
    ASSUME NEW s \in Seq(Byte), NEW g, Stage(g), Within(g.code, s, g.start)
    PROVE  Inside(DecoderAt(g, s), s)
<1> DEFINE c == g.code
           b == g.start
           d == DecoderAt(g, s)
           q == c.bits + 7
<1>1. Ranged(c) /\ c \in Codes /\ b \in Nat
  BY DEF Stage, Ranged
<1>2. c.low \in Nat /\ c.bits \in Nat /\ c.range \in Nat /\ 256 <= c.range /\ c.range <= 510
  BY <1>1 DEF Ranged, Codes
<1>3. /\ b + Whole(c.bits) <= Len(s)
      /\ First(s, b, c.bits) < c.low + c.range
  BY Zenon DEF Within
<1>4. d = Tracker(c, s, b)
  BY Zenon DEF DecoderAt
<1>5. d = [value |-> Window(s, b, q) - 128 * c.low, range |-> c.range,
           bitsNeeded |-> (q % 8) - 8, fifo |-> s, idx |-> b + q \div 8]
  BY <1>4, Zenon DEF Tracker, Reader, Decoder
<1> HIDE DEF c, b, d
<1>6. /\ First(s, b, c.bits) \in Nat /\ d.value \in Int
      /\ d.value >= c.range * 128 <=> First(s, b, c.bits) >= c.low + c.range
  BY <1>1, <1>2, <1>3, <1>4, TrackerCompares
<1>7. d.range = c.range /\ d.bitsNeeded = (q % 8) - 8 /\ d.idx = b + q \div 8
  BY <1>5
<1>8. d.value < d.range * 128
  <2>1. ~(d.value >= c.range * 128)
    BY <1>2, <1>3, <1>6
  <2>2. c.range * 128 \in Int
    BY <1>2
  <2> HIDE DEF q
  <2> QED BY <1>6, <1>7, <2>1, <2>2
<1>9. d.idx <= Len(s)
  <2>1. q \div 8 = Whole(c.bits)
    BY <1>2 DEF Whole
  <2> QED BY <1>3, <1>7, <2>1
<1>10. d.range \in 256..510 /\ d.bitsNeeded \in -8..-1
  <2>1. d.range \in 256..510
    <3>1. d.range \in Int /\ 256 <= d.range /\ d.range <= 510 /\ 256 \in Int /\ 510 \in Int
      BY <1>2, <1>7
    <3>2. d.range \in Between(256, 510)
      BY ONLY <3>1, InBetween
    <3> QED BY <3>2, Zenon DEF Between
  <2>2. q % 8 \in 0..7
    <3>1. q \in Int /\ 8 \in Nat \ {0}
      BY <1>2
    <3>2. q % 8 \in 0..(8 - 1)
      BY ONLY <3>1, Division
    <3> QED BY <3>2
  <2> DEFINE m == q % 8
  <2> HIDE DEF m
  <2>3. m \in 0..7 /\ d.bitsNeeded = m - 8
    BY <1>7, <2>2 DEF m
  <2>4. d.bitsNeeded \in -8..-1
    BY <2>3
  <2> QED BY <2>1, <2>4
<1> QED BY <1>8, <1>9, <1>10 DEF Inside, d

\* The decoder reads the next symbol.
ReadsSymbol(g, x, h, s) ==
    /\ x \in Symbols
    /\ Decoded(DecoderAt(g, s), g.models, x) = Answer(x.bins, DecoderAt(h, s))
    /\ h.models = Learned(g.models, x, x.bins) /\ h.ends = g.ends

LEMMA SymbolRead ==
    ASSUME NEW s \in Seq(Byte), NEW g, Stage(g), NEW x, NEW h, Continued(g, x, h),
           Within(h.code, s, h.start)
    PROVE  ReadsSymbol(g, x, h, s)
<1>1. x \in Symbols /\ h = At(SymbolCode(g.code, g.models, x), Learned(g.models, x, x.bins), g.start, g.ends)
  BY Zenon DEF Continued
<1>2. /\ h.code = SymbolCode(g.code, g.models, x) /\ h.models = Learned(g.models, x, x.bins)
      /\ h.start = g.start /\ h.ends = g.ends
  BY <1>1 DEF At
<1>3. Ranged(g.code) /\ g.models \in Models /\ g.start \in Nat
  BY Zenon DEF Stage
<1>4. Decodes(g.code, SymbolCode(g.code, g.models, x),
              Decoded(Tracker(g.code, s, g.start), g.models, x), x.bins, s, g.start)
  BY <1>1, <1>3, SymbolDecoded
<1>5. Within(SymbolCode(g.code, g.models, x), s, g.start)
  BY <1>2, Zenon
<1>6. Decoded(Tracker(g.code, s, g.start), g.models, x)
        = Answer(x.bins, Tracker(SymbolCode(g.code, g.models, x), s, g.start))
  BY <1>4, <1>5, Zenon DEF Decodes
<1> QED BY <1>1, <1>2, <1>6, Zenon DEF ReadsSymbol, DecoderAt

\* The decoder reads the end of a substream.
ReadsEnd(g, h, s, p) ==
    LET r == Decoded(DecoderAt(g, s), g.models, End)
    IN  /\ r.bins = 1 /\ StopPatternPresent(r.dec)
        /\ r.dec.idx = h.start /\ p[g.ends + 1] = h.start /\ h.start <= Len(s)
        /\ r.dec.range \in 254..510 /\ r.dec.bitsNeeded \in -8..-1
        /\ h.models = CtxModels /\ h.ends = g.ends + 1

LEMMA EndRead ==
    ASSUME NEW s \in Seq(Byte), NEW g, Stage(g), NEW h, NEW p, Restarted(g, h, s, p)
    PROVE  ReadsEnd(g, h, s, p)
<1>1. PICK f : /\ Ends(f, g.code) /\ Placed(s, g.start, f)
               /\ p[g.ends + 1] = g.start + Len(f)
               /\ h = Fresh(g.start + Len(f), g.ends + 1)
  BY Zenon DEF Restarted
<1>2. Ranged(g.code) /\ g.start \in Nat /\ 1 <= g.code.bits
  <2>1. Ranged(g.code) /\ g.start \in Nat /\ 9 <= g.code.bits
    BY DEF Stage
  <2>2. g.code.bits \in Nat
    BY <2>1 DEF Ranged, Codes
  <2> QED BY <2>1, <2>2
<1> DEFINE d == DecoderAt(g, s)
           r == decodeBinTrm(d)
<1>3. Within(g.code, s, g.start) /\ Terminates(g.code, s, g.start, g.start + Len(f))
  BY <1>1, <1>2, EndPlaced
<1>4. r.bins = 1 /\ StopPatternPresent(r.dec) /\ r.dec.idx = g.start + Len(f)
  BY <1>3, Zenon DEF Terminates, DecoderAt
<1>5. Inside(d, s)
  BY <1>3, InsideAt
<1>6. h.start = g.start + Len(f) /\ h.models = CtxModels /\ h.ends = g.ends + 1
  BY <1>1 DEF Fresh, At
<1>7. g.start + Len(f) <= Len(s)
  BY <1>1 DEF Placed
<1>8. Decoded(d, g.models, End) = r
  BY DEF Decoded, End
<1> HIDE DEF d
<1>9. r.dec.range \in 254..510 /\ r.dec.bitsNeeded \in -8..-1
  <2> DEFINE rest == d.range - 2
  <2>1. d.range \in 256..510 /\ d.bitsNeeded \in -8..-1
    BY <1>5, Zenon DEF Inside
  <2>2. r = [bins |-> 1, dec |-> [d EXCEPT !.range = rest]]
    <3>1. \/ r = [bins |-> 1, dec |-> [d EXCEPT !.range = rest]]
          \/ r.bins = 0
      BY DEF decodeBinTrm
    <3>2. r.bins # 0
      BY <1>4
    <3> QED BY <3>1, <3>2, Zenon
  <2>3. d = [value |-> d.value, range |-> d.range, bitsNeeded |-> d.bitsNeeded,
             fifo |-> d.fifo, idx |-> d.idx]
    BY DEF d, DecoderAt, Tracker, Reader, Decoder
  <2>4. r.dec.range = rest /\ r.dec.bitsNeeded = d.bitsNeeded
    <3> HIDE DEF rest, r
    <3> QED BY <2>2, <2>3
  <2> HIDE DEF r
  <2> QED BY <2>1, <2>4
<1> QED BY <1>1, <1>4, <1>6, <1>7, <1>8, <1>9, Zenon DEF ReadsEnd, d

\* The next substream, where the last one ended.
LEMMA RestartRead ==
    ASSUME NEW s \in Seq(Byte), NEW b \in Nat, NEW n, Within(StartCode, s, b)
    PROVE  StartDecoder(s, b) = DecoderAt(Fresh(b, n), s)
<1>1. b + Whole(9) <= Len(s)
  BY Zenon DEF Within, StartCode
<1>2. Whole(9) = 2
  BY DEF Whole
<1>3. Starts(s, b)
  <2>1. b + 2 <= Len(s)
    BY <1>1, <1>2
  <2> QED BY <2>1, StartTracked
<1>4. DecoderAt(Fresh(b, n), s) = Tracker(StartCode, s, b)
  BY DEF DecoderAt, Fresh, At
<1> QED BY <1>3, <1>4, Zenon DEF Starts

-----------------------------------------------------------------------------
(* The channel, with both sides.                                           *)
EndCount(r) == Cardinality({i \in DOMAIN r : r[i] = End})

LEMMA EndCountStart == EndCount(<<>>) = 0
<1>1. {i \in DOMAIN <<>> : <<>>[i] = End} = {}
  OBVIOUS
<1> QED BY <1>1, FS_EmptySet, Zenon DEF EndCount

EndCountAfter(r, x) == EndCount(Append(r, x)) = IF x = End THEN EndCount(r) + 1 ELSE EndCount(r)

LEMMA EndCountNext ==
    ASSUME NEW S, NEW r \in Seq(S), NEW x \in S
    PROVE  EndCountAfter(r, x)
<1> DEFINE n == Len(r)
           z == Append(r, x)
           T == {i \in DOMAIN r : r[i] = End}
           U == {i \in DOMAIN z : z[i] = End}
<1>1. n \in Nat /\ DOMAIN r = 1..n /\ DOMAIN z = 1..(n + 1)
      /\ (\A i \in 1..n : z[i] = r[i]) /\ z[n + 1] = x
  OBVIOUS
<1>2. IsFiniteSet(T)
  <2>1. IsFiniteSet(1..n)
    <3>1. 1 \in Int /\ n \in Int
      BY <1>1
    <3> QED BY <3>1, FS_Interval
  <2>2. T \subseteq 1..n
    BY <1>1
  <2> QED BY <2>1, <2>2, FS_Subset
<1> HIDE DEF z
<1>3. CASE x = End
  <2>1. U = T \cup {n + 1} /\ n + 1 \notin T
    BY <1>1, <1>3
  <2> HIDE DEF U, T
  <2>2. Cardinality(U) = Cardinality(T) + 1
    BY <1>2, <2>1, FS_AddElement
  <2> QED BY <1>3, <2>2, Zenon DEF EndCountAfter, EndCount, U, T, z
<1>4. CASE x # End
  <2>1. U = T
    BY <1>1, <1>4
  <2> HIDE DEF U, T
  <2> QED BY <1>4, <2>1, Zenon DEF EndCountAfter, EndCount, U, T, z
<1> QED BY <1>3, <1>4

LEMMA CodeBits == ASSUME NEW e, EncoderSound(e) PROVE 9 <= Code(e).bits
<1>1. e \in Unsettled /\ e.bitsLeft \in 12..23
  BY EncoderValues DEF EncoderSound
<1>2. Pending(e) \in Seq(Byte)
  BY <1>1, PendingType
<1>3. Len(Pending(e)) \in Nat
  BY <1>2
<1>4. Code(e).bits = 8 * Len(Pending(e)) + (32 - e.bitsLeft)
  BY DEF Code
<1> QED BY <1>1, <1>3, <1>4

LEMMA AppendExtends ==
    ASSUME NEW S, NEW s \in Seq(S), NEW f \in Seq(S)
    PROVE  /\ s \o f \in Seq(S) /\ Len(s \o f) = Len(s) + Len(f)
           /\ Extends(s, s \o f) /\ Placed(s \o f, Len(s), f)
<1> DEFINE t == s \o f
<1>1. Len(s) \in Nat /\ Len(f) \in Nat
  OBVIOUS
<1>2. /\ t \in Seq(S) /\ Len(t) = Len(s) + Len(f)
      /\ \A i \in 1..(Len(s) + Len(f)) : t[i] = IF i <= Len(s) THEN s[i] ELSE f[i - Len(s)]
  BY ConcatProperties
<1> HIDE DEF t
<1>3. ASSUME NEW i \in 1..Len(s) PROVE t[i] = s[i]
  BY <1>1, <1>2
<1>4. ASSUME NEW i \in 1..Len(f) PROVE t[Len(s) + i] = f[i]
  <2>1. Len(s) + i \in 1..(Len(s) + Len(f)) /\ ~(Len(s) + i <= Len(s)) /\ (Len(s) + i) - Len(s) = i
    BY <1>1
  <2> QED BY <1>2, <2>1
<1>5. Extends(s, t)
  BY <1>1, <1>2, <1>3 DEF Extends
<1>6. Placed(t, Len(s), f)
  BY <1>1, <1>2, <1>4 DEF Placed
<1> QED BY <1>2, <1>5, <1>6 DEF t

Sendable == Symbols \cup {End}

Coding(h) ==
    LET g == h[Len(sent)]
    IN  /\ Code(enc) = g.code /\ encModels = g.models
        /\ g.start = Len(slice) /\ g.ends = Len(sizes)
        /\ received = <<>> /\ decModels = CtxModels
        /\ dec.range \in 254..510 /\ dec.bitsNeeded \in -8..-1
Decoding(h) ==
    LET n == Len(received)
        g == h[n]
    IN  /\ sent # <<>> /\ sent[Len(sent)] = End
        /\ received \in Seq(Sendable) /\ n <= Len(sent)
        /\ decModels = g.models /\ EndCount(received) = g.ends
        /\ dec.idx <= Len(slice)
        /\ dec.range \in 254..510 /\ dec.bitsNeeded \in -8..-1
        /\ n < Len(sent) => dec = DecoderAt(g, slice)

ChannelInv ==
    /\ CodingInv /\ AtByte(enc)
    /\ sizes \in Seq(Nat) /\ sent \in Seq(Sendable) /\ phase \in {"code", "decode"}
    /\ \E h : /\ History(h, sent, slice, sizes)
              /\ phase = "code" => Coding(h)
              /\ phase = "decode" => Decoding(h)

LEMMA ChannelStart == Init => ChannelInv
<1> SUFFICES ASSUME Init PROVE ChannelInv
  OBVIOUS
<1>1. CodingInv
  BY CodingStart
<1>2. /\ enc = StartEncoder /\ encModels = CtxModels /\ slice = <<>> /\ sizes = <<>>
      /\ dec = StartDecoder(<<>>, 0) /\ decModels = CtxModels
      /\ phase = "code" /\ sent = <<>> /\ received = <<>>
  BY DEF Init
<1>3. AtByte(enc) /\ Code(enc) = StartCode /\ Ranged(StartCode)
  BY <1>2, StartCoded, Zenon DEF Encodes
<1> DEFINE h == [k \in 0..0 |-> Fresh(0, 0)]
<1>4. Len(<<>>) = 0 /\ h[0] = Fresh(0, 0)
  OBVIOUS
<1>5. Stage(Fresh(0, 0))
  BY <1>3, StartModels DEF Stage, Fresh, At, StartCode
<1> HIDE DEF h
<1>6. History(h, sent, slice, sizes)
  BY <1>2, <1>4, <1>5 DEF History
<1>7. Coding(h)
  <2>1. dec.range = 510 /\ dec.bitsNeeded = -8
    BY <1>2 DEF StartDecoder
  <2>2. h[Len(sent)].code = StartCode /\ h[Len(sent)].models = CtxModels
        /\ h[Len(sent)].start = 0 /\ h[Len(sent)].ends = 0
    BY <1>2, <1>4 DEF Fresh, At
  <2>3. dec.range \in 254..510 /\ dec.bitsNeeded \in -8..-1
    BY <2>1
  <2> QED BY <1>2, <1>3, <1>4, <2>2, <2>3, Zenon DEF Coding
<1>8. sizes \in Seq(Nat) /\ sent \in Seq(Sendable)
  BY <1>2
<1>9. phase = "code" /\ phase # "decode" /\ phase \in {"code", "decode"}
  BY <1>2
<1> QED BY <1>1, <1>3, <1>6, <1>7, <1>8, <1>9, Zenon DEF ChannelInv

LEMMA EncodeKeeps == ASSUME ChannelInv, NEW y \in Symbols, Encode(y) PROVE ChannelInv'
<1>1. /\ CodingInv /\ AtByte(enc)
      /\ sizes \in Seq(Nat) /\ sent \in Seq(Sendable)
  BY Zenon DEF ChannelInv
<1>2. /\ phase = "code" /\ phase' = phase
      /\ enc' = Coded(enc, encModels, y) /\ encModels' = Learned(encModels, y, y.bins)
      /\ sent' = Append(sent, y) /\ slice' = slice /\ sizes' = sizes
      /\ dec' = dec /\ decModels' = decModels /\ received' = received
  BY Zenon DEF Encode
<1>3. PICK h : History(h, sent, slice, sizes) /\ Coding(h)
  BY <1>2, Zenon DEF ChannelInv
<1>4. CodingInv'
  <2>1. [Next]_vars
    BY Zenon DEF Next
  <2> QED BY <1>1, <2>1, CodingStep, Zenon
<1>5. EncoderSound(enc) /\ encModels \in Models /\ slice \in Seq(Byte) /\ EncoderSound(enc')
  BY <1>1, <1>4, Zenon DEF CodingInv
<1> DEFINE n == Len(sent)
           g == h[n]
           e == enc'
           k == At(SymbolCode(g.code, g.models, y), Learned(g.models, y, y.bins), g.start, g.ends)
<1>6. /\ Code(enc) = g.code /\ encModels = g.models /\ g.start = Len(slice) /\ g.ends = Len(sizes)
      /\ received = <<>> /\ decModels = CtxModels
      /\ dec.range \in 254..510 /\ dec.bitsNeeded \in -8..-1
  BY <1>3, Zenon DEF Coding
<1>7. AtByte(e) /\ Code(e) = k.code
  <2>1. Encodes(Coded(enc, encModels, y), SymbolCode(Code(enc), encModels, y))
    BY <1>1, <1>5, SymbolCoded
  <2>2. k.code = SymbolCode(g.code, g.models, y)
    BY DEF At
  <2> QED BY <1>2, <1>6, <2>1, <2>2, Zenon DEF Encodes
<1>8. k.models = Learned(g.models, y, y.bins) /\ k.start = g.start /\ k.ends = g.ends
  BY DEF At
<1>9. Follows(g, y, k, slice, sizes)
  BY Zenon DEF Follows, Continued
<1> HIDE DEF k
<1>10. Stage(k)
  <2>1. Ranged(k.code) /\ 9 <= k.code.bits
    <3>1. EncoderSound(e)
      BY <1>5
    <3> HIDE DEF e
    <3>2. Ranged(Code(e)) /\ 9 <= Code(e).bits
      BY <3>1, CodeType, CodeBits
    <3> QED BY <1>7, <3>2
  <2>2. k.models \in Models
    BY <1>5, <1>6, <1>8, LearnedType
  <2>3. k.start \in Nat /\ k.ends \in Nat
    BY <1>1, <1>5, <1>6, <1>8
  <2> QED BY <2>1, <2>2, <2>3, Zenon DEF Stage
<1>11. PICK x : History(x, Append(sent, y), slice, sizes) /\ x[n + 1] = k
  <2>1. Len(slice) \in Nat /\ Len(sizes) \in Nat
    BY <1>1, <1>5
  <2>2. Extends(slice, slice) /\ Extends(sizes, sizes)
    BY <2>1 DEF Extends
  <2>3. y \in Sendable
    BY DEF Sendable
  <2> HIDE DEF g
  <2> QED BY <1>1, <1>3, <1>9, <1>10, <2>1, <2>2, <2>3, HistoryExtended DEF g
<1>12. Len(sent') = n + 1 /\ sent' \in Seq(Sendable)
  BY <1>1, <1>2 DEF Sendable
<1>13. History(x, sent', slice', sizes')
  BY <1>2, <1>11, Zenon
<1>14. Coding(x)'
  <2>1. x[Len(sent')] = k
    BY <1>11, <1>12, Zenon
  <2> HIDE DEF g
  <2>2. Code(enc') = x[Len(sent')].code /\ encModels' = x[Len(sent')].models
    BY <1>2, <1>6, <1>7, <1>8, <2>1, Zenon
  <2>3. x[Len(sent')].start = Len(slice') /\ x[Len(sent')].ends = Len(sizes')
    BY <1>2, <1>6, <1>8, <2>1, Zenon
  <2> QED BY <1>2, <1>6, <2>2, <2>3, Zenon DEF Coding
<1>15. phase' = "code" /\ phase' # "decode" /\ phase' \in {"code", "decode"}
  BY <1>2
<1>16. sizes' \in Seq(Nat) /\ AtByte(enc')
  BY <1>1, <1>2, <1>7
<1> QED BY <1>4, <1>12, <1>13, <1>14, <1>15, <1>16, Zenon DEF ChannelInv

\* The decoder at the start of the slice.
LEMMA SliceStart ==
    ASSUME NEW s \in Seq(Byte), NEW S, NEW y \in Seq(S), y # <<>>, y[Len(y)] = End,
           NEW p, NEW h, History(h, y, s, p)
    PROVE  /\ StartDecoder(s, 0) = DecoderAt(h[0], s) /\ Inside(DecoderAt(h[0], s), s)
           /\ h[0] = Fresh(0, 0)
<1> DEFINE N == Len(y) - 1
<1>1. N \in Nat /\ Len(y) = N + 1 /\ 0 \in 0..N /\ 0 \in 0..Len(y)
  OBVIOUS
<1>2. h[0] = Fresh(0, 0) /\ Stage(h[0])
  BY <1>1, Zenon DEF History
<1>3. Within(h[0].code, s, h[0].start)
  <2> HIDE DEF N
  <2>1. y[N + 1] = End
    BY <1>1
  <2>2. \A k \in 0..N : Within(h[k].code, s, h[k].start)
    BY <1>1, <2>1, HistoryWithin
  <2> QED BY <1>1, <2>2
<1>4. Inside(DecoderAt(h[0], s), s)
  BY <1>2, <1>3, InsideAt
<1>5. h[0].code = StartCode /\ h[0].start = 0
  BY <1>2 DEF Fresh, At
<1>6. StartDecoder(s, 0) = DecoderAt(Fresh(0, 0), s)
  <2>1. 0 \in Nat /\ Within(StartCode, s, 0)
    BY <1>3, <1>5
  <2> QED BY <2>1, RestartRead
<1> QED BY <1>2, <1>4, <1>6, Zenon

LEMMA EndSubstreamKeeps == ASSUME ChannelInv, EndSubstream PROVE ChannelInv'
<1>1. /\ CodingInv /\ AtByte(enc)
      /\ sizes \in Seq(Nat) /\ sent \in Seq(Sendable)
  BY Zenon DEF ChannelInv
<1>2. /\ phase = "code"
      /\ slice' = slice \o Substream(enc) /\ sizes' = Append(sizes, Len(slice'))
      /\ enc' = StartEncoder /\ encModels' = CtxModels
      /\ sent' = Append(sent, End)
      /\ \/ phase' = "code" /\ dec' = dec
         \/ phase' = "decode" /\ dec' = StartDecoder(slice', 0)
      /\ decModels' = decModels /\ received' = received
  BY Zenon DEF EndSubstream
<1>3. PICK h : History(h, sent, slice, sizes) /\ Coding(h)
  BY <1>2, Zenon DEF ChannelInv
<1>4. CodingInv'
  <2>1. [Next]_vars
    BY Zenon DEF Next
  <2> QED BY <1>1, <2>1, CodingStep, Zenon
<1>5. EncoderSound(enc) /\ encModels \in Models /\ slice \in Seq(Byte)
  BY <1>1, Zenon DEF CodingInv
<1> DEFINE n == Len(sent)
           g == h[n]
           f == Substream(enc)
           t == slice \o f
           q == Append(sizes, Len(t))
           k == Fresh(g.start + Len(f), g.ends + 1)
<1>6. /\ Code(enc) = g.code /\ g.start = Len(slice) /\ g.ends = Len(sizes)
      /\ received = <<>> /\ decModels = CtxModels
      /\ dec.range \in 254..510 /\ dec.bitsNeeded \in -8..-1
  BY <1>3, Zenon DEF Coding
<1>7. Ends(f, g.code)
  <2>1. Ends(f, Code(enc))
    BY <1>1, <1>5, SubstreamNumber
  <2> QED BY <1>6, <2>1, Zenon
<1>8. f \in Seq(Byte)
  BY <1>7, Zenon DEF Ends
<1>9. n \in Nat /\ Len(slice) \in Nat /\ Len(sizes) \in Nat /\ Len(f) \in Nat
  <2> HIDE DEF f
  <2> QED BY <1>1, <1>5, <1>8
<1> HIDE DEF f, g
<1>10. /\ t \in Seq(Byte) /\ Len(t) = Len(slice) + Len(f) /\ Extends(slice, t)
       /\ Placed(t, Len(slice), f)
  BY <1>5, <1>8, AppendExtends
<1> HIDE DEF t
<1>11. q \in Seq(Nat) /\ Len(q) = Len(sizes) + 1 /\ q[Len(sizes) + 1] = Len(t)
       /\ \A i \in 1..Len(sizes) : q[i] = sizes[i]
  <2>1. Len(t) \in Nat
    BY <1>9, <1>10
  <2> QED BY <1>1, <2>1
<1> HIDE DEF q
<1>12. Extends(sizes, q)
  BY <1>9, <1>11 DEF Extends
<1>13. Restarted(g, k, t, q)
  <2>1. g.ends + 1 <= Len(q) /\ q[g.ends + 1] = g.start + Len(f)
    BY <1>6, <1>9, <1>10, <1>11
  <2>2. Placed(t, g.start, f)
    BY <1>6, <1>10
  <2> QED BY <1>7, <2>1, <2>2, Zenon DEF Restarted
<1>14. k.code = StartCode /\ k.models = CtxModels /\ k.start = g.start + Len(f) /\ k.ends = g.ends + 1
  BY DEF Fresh, At
<1> HIDE DEF k
<1>15. k.start = Len(t) /\ k.ends = Len(q) /\ k.start \in Nat /\ k.ends \in Nat
  BY <1>6, <1>9, <1>10, <1>11, <1>14
<1>16. Stage(k)
  <2>1. Ranged(StartCode) /\ 9 <= StartCode.bits
    BY StartCoded DEF StartCode
  <2> QED BY <1>14, <1>15, <2>1, StartModels DEF Stage
<1>17. PICK x : History(x, Append(sent, End), t, q) /\ x[n + 1] = k
  <2>1. Len(t) \in Nat /\ Len(q) \in Nat
    BY <1>9, <1>10, <1>11
  <2>2. Follows(g, End, k, t, q)
    BY <1>13, Zenon DEF Follows
  <2>3. End \in Sendable
    BY DEF Sendable
  <2> HIDE DEF n
  <2>4. Follows(h[Len(sent)], End, k, t, q)
    BY <2>2 DEF g, n
  <2> QED BY <1>1, <1>3, <1>9, <1>10, <1>12, <1>16, <2>1, <2>3, <2>4, HistoryExtended DEF n
<1> DEFINE y == Append(sent, End)
<1>18. y \in Seq(Sendable) /\ Len(y) = n + 1 /\ y # <<>> /\ y[Len(y)] = End
  <2>1. End \in Sendable
    BY DEF Sendable
  <2> HIDE DEF n
  <2> QED BY <1>1, <2>1 DEF n
<1> HIDE DEF n
<1>19. slice' = t /\ sizes' = q /\ sent' = y
  BY <1>2, Zenon DEF t, q, f
<1> HIDE DEF y
<1>20. History(x, sent', slice', sizes')
  BY <1>17, <1>19, Zenon DEF y
<1>21. AtByte(enc') /\ Code(enc') = StartCode
  BY <1>2, StartCoded, Zenon DEF Encodes
<1>22. x[Len(sent')] = k
  BY <1>17, <1>18, <1>19, Zenon
<1>23. CASE phase' = "code" /\ dec' = dec
  <2>1. Coding(x)'
    <3>1. Code(enc') = x[Len(sent')].code /\ encModels' = x[Len(sent')].models
      BY <1>2, <1>14, <1>21, <1>22, Zenon
    <3>2. x[Len(sent')].start = Len(slice') /\ x[Len(sent')].ends = Len(sizes')
      BY <1>15, <1>19, <1>22, Zenon
    <3> QED BY <1>2, <1>6, <1>23, <3>1, <3>2, Zenon DEF Coding
  <2>2. phase' # "decode" /\ phase' \in {"code", "decode"} /\ sizes' \in Seq(Nat) /\ sent' \in Seq(Sendable)
    BY <1>11, <1>18, <1>19, <1>23
  <2> QED BY <1>4, <1>20, <1>21, <2>1, <2>2, Zenon DEF ChannelInv
<1>24. CASE phase' = "decode" /\ dec' = StartDecoder(slice', 0)
  <2>1. /\ StartDecoder(t, 0) = DecoderAt(x[0], t) /\ Inside(DecoderAt(x[0], t), t)
        /\ x[0] = Fresh(0, 0)
    <3>1. History(x, y, t, q)
      BY <1>17 DEF y
    <3> QED BY <1>10, <1>18, <3>1, SliceStart
  <2>2. dec' = DecoderAt(x[0], slice') /\ Inside(dec', slice')
    BY <1>19, <1>24, <2>1, Zenon
  <2>3. x[0].models = CtxModels /\ x[0].ends = 0
    BY <2>1 DEF Fresh, At
  <2>4. Len(<<>>) = 0 /\ <<>> \in Seq(Sendable) /\ received' = <<>>
    BY <1>2, <1>6
  <2>5. dec'.idx <= Len(slice') /\ dec'.range \in 254..510 /\ dec'.bitsNeeded \in -8..-1
    <3>1. dec'.idx <= Len(slice') /\ dec'.range \in 256..510 /\ dec'.bitsNeeded \in -8..-1
      BY <2>2, Zenon DEF Inside
    <3> QED BY <3>1
  <2>6. Len(received') = 0 /\ 0 <= Len(sent') /\ received' \in Seq(Sendable)
    <3>1. Len(sent') \in Nat
      BY <1>18, <1>19
    <3> QED BY <2>4, <3>1
  <2>7. decModels' = x[Len(received')].models /\ EndCount(received') = x[Len(received')].ends
    <3>1. EndCount(received') = 0
      BY <2>4, EndCountStart, Zenon
    <3>2. decModels' = CtxModels
      BY <1>2, <1>6, Zenon
    <3> QED BY <2>3, <2>6, <3>1, <3>2, Zenon
  <2>8. sent' # <<>> /\ sent'[Len(sent')] = End
    BY <1>18, <1>19, Zenon
  <2>9. Decoding(x)'
    BY <2>2, <2>5, <2>6, <2>7, <2>8, Zenon DEF Decoding
  <2>10. phase' # "code" /\ phase' \in {"code", "decode"} /\ sizes' \in Seq(Nat) /\ sent' \in Seq(Sendable)
    BY <1>11, <1>18, <1>19, <1>24
  <2> QED BY <1>4, <1>20, <1>21, <1>24, <2>9, <2>10, Zenon DEF ChannelInv
<1> QED BY <1>2, <1>23, <1>24, Zenon

\* The decoder before a symbol.
Awaits(h, n) ==
    LET g == h[n]
    IN  /\ n \in Nat /\ n < Len(sent) /\ n = Len(received)
        /\ dec = DecoderAt(g, slice) /\ decModels = g.models /\ EndCount(received) = g.ends
        /\ Stage(g) /\ Stage(h[n + 1]) /\ Within(g.code, slice, g.start)
        /\ n + 1 < Len(sent) => Within(h[n + 1].code, slice, h[n + 1].start)
        /\ Follows(g, sent[n + 1], h[n + 1], slice, sizes)
        /\ sent[n + 1] \in Sendable /\ (n + 1 < Len(sent) \/ sent[n + 1] = End)
        /\ Syntax = sent[n + 1]

LEMMA Expects ==
    ASSUME ChannelInv, Expecting
    PROVE  \E h : /\ History(h, sent, slice, sizes) /\ Decoding(h) /\ Awaits(h, Len(received))
<1>1. /\ slice \in Seq(Byte) /\ sent \in Seq(Sendable)
      /\ phase = "decode" /\ Len(received) < Len(sent)
  BY Zenon DEF ChannelInv, CodingInv, Expecting
<1>2. PICK h : History(h, sent, slice, sizes) /\ Decoding(h)
  BY <1>1, Zenon DEF ChannelInv
<1> DEFINE n == Len(received)
           N == Len(sent) - 1
<1>3. /\ sent # <<>> /\ sent[Len(sent)] = End
      /\ received \in Seq(Sendable)
      /\ decModels = h[n].models /\ EndCount(received) = h[n].ends
      /\ dec = DecoderAt(h[n], slice)
  BY <1>1, <1>2, Zenon DEF Decoding
<1>4. n \in Nat /\ n < Len(sent) /\ N \in Nat /\ Len(sent) = N + 1 /\ n \in 0..N
      /\ n \in 0..Len(sent) /\ n + 1 \in 0..Len(sent) /\ n + 1 \in 1..Len(sent) /\ (n + 1) - 1 = n
      /\ (n + 1 < Len(sent) => n + 1 \in 0..N) /\ (n + 1 < Len(sent) \/ n + 1 = Len(sent))
  <2>1. n \in Nat /\ Len(sent) \in Nat
    BY <1>1, <1>3
  <2> HIDE DEF n
  <2>2. n < Len(sent)
    BY <1>1 DEF n
  <2> QED BY <2>1, <2>2
<1>5. Stage(h[n]) /\ Stage(h[n + 1]) /\ Follows(h[n], sent[n + 1], h[n + 1], slice, sizes)
  <2>1. /\ \A k \in 0..Len(sent) : Stage(h[k])
        /\ \A k \in 1..Len(sent) : Follows(h[k - 1], sent[k], h[k], slice, sizes)
    BY <1>2, Zenon DEF History
  <2> HIDE DEF n
  <2>2. Follows(h[(n + 1) - 1], sent[n + 1], h[n + 1], slice, sizes)
    BY <1>4, <2>1
  <2> QED BY <1>4, <2>1, <2>2
<1> HIDE DEF n, N
<1>6. \A k \in 0..N : Within(h[k].code, slice, h[k].start)
  <2>1. sent[N + 1] = End
    BY <1>3, <1>4
  <2> QED BY <1>1, <1>2, <1>4, <2>1, HistoryWithin
<1>7. /\ Within(h[n].code, slice, h[n].start)
      /\ n + 1 < Len(sent) => Within(h[n + 1].code, slice, h[n + 1].start)
  BY <1>4, <1>6
<1>8. sent[n + 1] \in Sendable
  BY <1>1, <1>4
<1>9. n + 1 < Len(sent) \/ sent[n + 1] = End
  BY <1>3, <1>4
<1>10. Syntax = sent[n + 1]
  BY Zenon DEF Syntax, n
<1>11. Awaits(h, n)
  BY <1>3, <1>4, <1>5, <1>7, <1>8, <1>9, <1>10, Zenon DEF Awaits, n
<1> QED BY <1>2, <1>11, Zenon DEF n

\* A symbol that is not an end is read as it was sent.
LEMMA DecodeReads ==
    ASSUME ChannelInv, Expecting, Syntax # End, NEW h, Awaits(h, Len(received))
    PROVE  /\ Len(received) + 1 < Len(sent) /\ Syntax \in Symbols
           /\ ReadsSymbol(h[Len(received)], Syntax, h[Len(received) + 1], slice)
           /\ Inside(DecoderAt(h[Len(received) + 1], slice), slice)
<1> DEFINE n == Len(received)
           g == h[n]
           k == h[n + 1]
<1>1. /\ Stage(g) /\ Stage(k) /\ (n + 1 < Len(sent) => Within(k.code, slice, k.start))
      /\ Follows(g, Syntax, k, slice, sizes) /\ (n + 1 < Len(sent) \/ Syntax = End)
  BY Zenon DEF Awaits
<1>2. slice \in Seq(Byte)
  BY Zenon DEF ChannelInv, CodingInv
<1>3. n + 1 < Len(sent) /\ Within(k.code, slice, k.start)
  BY <1>1, Zenon
<1>4. Continued(g, Syntax, k)
  BY <1>1, Zenon DEF Follows
<1>5. Syntax \in Symbols
  BY <1>4, Zenon DEF Continued
<1> HIDE DEF g, k
<1>6. ReadsSymbol(g, Syntax, k, slice)
  BY <1>1, <1>2, <1>3, <1>4, SymbolRead
<1>7. Inside(DecoderAt(k, slice), slice)
  BY <1>1, <1>2, <1>3, InsideAt
<1> QED BY <1>3, <1>5, <1>6, <1>7, Zenon DEF g, k

\* The end of a substream is read as such, where it is.
LEMMA DecodeEndReads ==
    ASSUME ChannelInv, Expecting, Syntax = End, NEW h, Awaits(h, Len(received))
    PROVE  /\ ReadsEnd(h[Len(received)], h[Len(received) + 1], slice, sizes)
           /\ Len(received) + 1 < Len(sent) =>
                 /\ StartDecoder(slice, h[Len(received) + 1].start)
                      = DecoderAt(h[Len(received) + 1], slice)
                 /\ Inside(DecoderAt(h[Len(received) + 1], slice), slice)
<1> DEFINE n == Len(received)
           g == h[n]
           k == h[n + 1]
<1>1. /\ Stage(g) /\ Stage(k) /\ (n + 1 < Len(sent) => Within(k.code, slice, k.start))
      /\ Follows(g, Syntax, k, slice, sizes)
  BY Zenon DEF Awaits
<1>2. slice \in Seq(Byte)
  BY Zenon DEF ChannelInv, CodingInv
<1>3. Restarted(g, k, slice, sizes)
  <2>1. ~Continued(g, Syntax, k)
    BY EndNotSymbol, Zenon DEF Continued
  <2> QED BY <1>1, <2>1, Zenon DEF Follows
<1>4. k.code = StartCode /\ k.start \in Nat /\ k = Fresh(k.start, k.ends)
  <2>1. PICK f : k = Fresh(g.start + Len(f), g.ends + 1)
    BY <1>3, Zenon DEF Restarted
  <2> HIDE DEF k
  <2>2. k.code = StartCode /\ k.start = g.start + Len(f) /\ k.ends = g.ends + 1
    BY <2>1 DEF Fresh, At
  <2>3. k = Fresh(k.start, k.ends)
    BY <2>1, <2>2, Zenon
  <2>4. k.start \in Nat
    BY <1>1, Zenon DEF Stage
  <2> QED BY <2>2, <2>3, <2>4
<1> HIDE DEF g, k
<1>5. ReadsEnd(g, k, slice, sizes)
  BY <1>1, <1>2, <1>3, EndRead
<1>6. ASSUME n + 1 < Len(sent)
      PROVE  StartDecoder(slice, k.start) = DecoderAt(k, slice) /\ Inside(DecoderAt(k, slice), slice)
  <2>1. Within(k.code, slice, k.start)
    BY <1>1, <1>6, Zenon
  <2>2. Within(StartCode, slice, k.start)
    BY <1>4, <2>1, Zenon
  <2>3. StartDecoder(slice, k.start) = DecoderAt(Fresh(k.start, k.ends), slice)
    BY <1>2, <1>4, <2>2, RestartRead
  <2>4. Inside(DecoderAt(k, slice), slice)
    BY <1>1, <1>2, <2>1, InsideAt
  <2> QED BY <1>4, <2>3, <2>4, Zenon
<1> QED BY <1>5, <1>6, Zenon DEF g, k

\* What a step of the decoder leaves.
Reached(h, n) ==
    /\ received' = Append(received, Syntax)
    /\ UNCHANGED <<enc, encModels, slice, sizes, phase, sent>>
    /\ decModels' = h[n + 1].models
    /\ h[n + 1].ends = IF Syntax = End THEN h[n].ends + 1 ELSE h[n].ends
    /\ dec'.idx <= Len(slice) /\ dec'.range \in 254..510 /\ dec'.bitsNeeded \in -8..-1
    /\ n + 1 < Len(sent) => dec' = DecoderAt(h[n + 1], slice)

LEMMA ReachedKeeps ==
    ASSUME ChannelInv, Expecting, [Next]_vars, NEW h, History(h, sent, slice, sizes), Decoding(h),
           Awaits(h, Len(received)), Reached(h, Len(received))
    PROVE  ChannelInv' /\ received' = Append(received, sent[Len(received) + 1]) /\ sent' = sent
<1> DEFINE n == Len(received)
           x == Syntax
<1>1. /\ CodingInv /\ AtByte(enc) /\ phase = "decode"
      /\ sizes \in Seq(Nat) /\ sent \in Seq(Sendable)
  BY Zenon DEF ChannelInv, Expecting
<1>2. CodingInv'
  BY <1>1, CodingStep, Zenon
<1>3. /\ received' = Append(received, x)
      /\ enc' = enc /\ slice' = slice /\ sizes' = sizes /\ phase' = phase /\ sent' = sent
      /\ decModels' = h[n + 1].models
      /\ h[n + 1].ends = IF x = End THEN h[n].ends + 1 ELSE h[n].ends
      /\ dec'.idx <= Len(slice) /\ dec'.range \in 254..510 /\ dec'.bitsNeeded \in -8..-1
      /\ n + 1 < Len(sent) => dec' = DecoderAt(h[n + 1], slice)
  BY Zenon DEF Reached
<1>4. /\ n \in Nat /\ n < Len(sent) /\ EndCount(received) = h[n].ends
      /\ sent[n + 1] \in Sendable /\ x = sent[n + 1]
  BY Zenon DEF Awaits
<1>5. sent # <<>> /\ sent[Len(sent)] = End /\ received \in Seq(Sendable)
  BY Zenon DEF Decoding
<1> HIDE DEF x
<1>6. Len(received') = n + 1 /\ received' \in Seq(Sendable) /\ n + 1 <= Len(sent)
  <2>1. x \in Sendable
    BY <1>4
  <2>2. Len(Append(received, x)) = n + 1 /\ Append(received, x) \in Seq(Sendable)
    BY <1>5, <2>1
  <2>3. Len(sent) \in Nat
    BY <1>1
  <2> HIDE DEF n
  <2> QED BY <1>3, <1>4, <2>2, <2>3
<1>7. EndCount(received') = h[n + 1].ends
  <2>1. x \in Sendable
    BY <1>4
  <2>2. EndCountAfter(received, x)
    BY <1>5, <2>1, EndCountNext
  <2>3. EndCount(Append(received, x)) = IF x = End THEN EndCount(received) + 1 ELSE EndCount(received)
    BY <2>2, Zenon DEF EndCountAfter
  <2> HIDE DEF n
  <2> QED BY <1>3, <1>4, <2>3, Zenon
<1> HIDE DEF n
<1>8. Decoding(h)'
  <2>1. sent' # <<>> /\ sent'[Len(sent')] = End
    BY <1>3, <1>5, Zenon
  <2>2. received' \in Seq(Sendable) /\ Len(received') <= Len(sent')
    BY <1>3, <1>6, Zenon
  <2>3. decModels' = h[Len(received')].models /\ EndCount(received') = h[Len(received')].ends
    BY <1>3, <1>6, <1>7, Zenon
  <2>4. dec'.idx <= Len(slice') /\ dec'.range \in 254..510 /\ dec'.bitsNeeded \in -8..-1
    BY <1>3, Zenon
  <2>5. Len(received') < Len(sent') => dec' = DecoderAt(h[Len(received')], slice')
    BY <1>3, <1>6, Zenon
  <2> QED BY <2>1, <2>2, <2>3, <2>4, <2>5, Zenon DEF Decoding
<1>9. History(h, sent', slice', sizes')
  BY <1>3, Zenon
<1>10. phase' # "code" /\ phase' \in {"code", "decode"} /\ sizes' \in Seq(Nat) /\ sent' \in Seq(Sendable)
       /\ AtByte(enc')
  BY <1>1, <1>3
<1>11. ChannelInv'
  BY <1>2, <1>8, <1>9, <1>10, Zenon DEF ChannelInv
<1> QED BY <1>3, <1>4, <1>11, Zenon DEF n

LEMMA DecodeKeeps ==
    ASSUME ChannelInv, Decode
    PROVE  /\ ChannelInv' /\ sent' = sent /\ Len(received) < Len(sent)
           /\ received' = Append(received, sent[Len(received) + 1])
<1> DEFINE n == Len(received)
           r == Decoded(dec, decModels, Syntax)
<1>1. /\ Expecting /\ Syntax # End
      /\ dec' = r.dec /\ decModels' = Learned(decModels, Syntax, r.bins)
      /\ received' = Append(received, [Syntax EXCEPT !.bins = r.bins])
      /\ UNCHANGED <<enc, encModels, slice, sizes, phase, sent>>
  BY Zenon DEF Decode
<1>2. PICK h : History(h, sent, slice, sizes) /\ Decoding(h) /\ Awaits(h, n)
  BY <1>1, Expects
<1>3. /\ n + 1 < Len(sent) /\ Syntax \in Symbols
      /\ ReadsSymbol(h[n], Syntax, h[n + 1], slice)
      /\ Inside(DecoderAt(h[n + 1], slice), slice)
  <2> HIDE DEF r
  <2> QED BY <1>1, <1>2, DecodeReads
<1>4. dec = DecoderAt(h[n], slice) /\ decModels = h[n].models /\ n < Len(sent)
  BY <1>2, Zenon DEF Awaits
<1>5. /\ r = Answer(Syntax.bins, DecoderAt(h[n + 1], slice))
      /\ h[n + 1].models = Learned(h[n].models, Syntax, Syntax.bins) /\ h[n + 1].ends = h[n].ends
  BY <1>3, <1>4, Zenon DEF ReadsSymbol
<1> HIDE DEF n, r
<1>6. r.bins = Syntax.bins /\ r.dec = DecoderAt(h[n + 1], slice)
  BY <1>5 DEF Answer
<1>7. [Syntax EXCEPT !.bins = r.bins] = Syntax
  <2>1. Syntax \in [kind : Kinds, arg : Nat, bins : Nat]
    BY <1>3, SymbolTypes
  <2> DEFINE y == Syntax
             v == r.bins
  <2>2. y \in [kind : Kinds, arg : Nat, bins : Nat] /\ v = y.bins
    BY <1>6, <2>1
  <2> HIDE DEF y, v
  <2>3. [y EXCEPT !.bins = v] = y
    BY <2>2
  <2> QED BY <2>3, Zenon DEF y, v
<1>8. dec'.idx <= Len(slice) /\ dec'.range \in 254..510 /\ dec'.bitsNeeded \in -8..-1
  <2>1. dec'.idx <= Len(slice) /\ dec'.range \in 256..510 /\ dec'.bitsNeeded \in -8..-1
    BY <1>1, <1>3, <1>6, Zenon DEF Inside
  <2> QED BY <2>1
<1>9. Reached(h, n)
  <2>1. received' = Append(received, Syntax)
    BY <1>1, <1>7, Zenon
  <2>2. decModels' = h[n + 1].models
    BY <1>1, <1>4, <1>5, <1>6, Zenon
  <2>3. h[n + 1].ends = IF Syntax = End THEN h[n].ends + 1 ELSE h[n].ends
    BY <1>1, <1>5, Zenon
  <2>4. dec' = DecoderAt(h[n + 1], slice)
    BY <1>1, <1>6, Zenon
  <2> QED BY <1>1, <1>8, <2>1, <2>2, <2>3, <2>4, Zenon DEF Reached
<1>10. [Next]_vars
  BY Zenon DEF Next
<1> QED BY <1>1, <1>2, <1>4, <1>9, <1>10, ReachedKeeps DEF n

LEMMA DecodeEndKeeps ==
    ASSUME ChannelInv, DecodeEnd
    PROVE  /\ ChannelInv' /\ sent' = sent /\ Len(received) < Len(sent)
           /\ received' = Append(received, sent[Len(received) + 1])
<1> DEFINE n == Len(received)
           r == Decoded(dec, decModels, Syntax)
<1>1. /\ Expecting /\ Syntax = End
      /\ received' = Append(received, End)
      /\ dec' = IF Len(received') = Len(sent) THEN r.dec ELSE StartDecoder(slice, r.dec.idx)
      /\ decModels' = CtxModels
      /\ UNCHANGED <<enc, encModels, slice, sizes, phase, sent>>
  BY Zenon DEF DecodeEnd
<1>2. PICK h : History(h, sent, slice, sizes) /\ Decoding(h) /\ Awaits(h, n)
  BY <1>1, Expects
<1>3. /\ ReadsEnd(h[n], h[n + 1], slice, sizes)
      /\ n + 1 < Len(sent) =>
            /\ StartDecoder(slice, h[n + 1].start) = DecoderAt(h[n + 1], slice)
            /\ Inside(DecoderAt(h[n + 1], slice), slice)
  <2> HIDE DEF r
  <2> QED BY <1>1, <1>2, DecodeEndReads
<1>4. dec = DecoderAt(h[n], slice) /\ decModels = h[n].models /\ n \in Nat /\ n < Len(sent)
  BY <1>2, Zenon DEF Awaits
<1>5. /\ r.dec.idx = h[n + 1].start /\ h[n + 1].start <= Len(slice)
      /\ r.dec.range \in 254..510 /\ r.dec.bitsNeeded \in -8..-1
      /\ h[n + 1].models = CtxModels /\ h[n + 1].ends = h[n].ends + 1
  BY <1>1, <1>3, <1>4, Zenon DEF ReadsEnd
<1>6. Len(received') = n + 1 /\ Len(sent) \in Nat
  <2>1. received \in Seq(Sendable)
    BY <1>2, Zenon DEF Decoding
  <2>2. sent \in Seq(Sendable)
    BY Zenon DEF ChannelInv
  <2>3. End \in Sendable
    BY DEF Sendable
  <2>4. Len(Append(received, End)) = n + 1
    BY <2>1, <2>3
  <2>5. Len(sent) \in Nat
    BY <2>2
  <2> QED BY <1>1, <2>4, <2>5, Zenon
<1> HIDE DEF n, r
<1>7. n + 1 < Len(sent) => dec' = DecoderAt(h[n + 1], slice) /\ Inside(dec', slice)
  <2>1. n + 1 < Len(sent) => Len(received') # Len(sent)
    BY <1>4, <1>6
  <2> QED BY <1>1, <1>3, <1>5, <2>1, Zenon
<1>8. dec'.idx <= Len(slice) /\ dec'.range \in 254..510 /\ dec'.bitsNeeded \in -8..-1
  <2>1. CASE n + 1 < Len(sent)
    <3>1. dec'.idx <= Len(slice) /\ dec'.range \in 256..510 /\ dec'.bitsNeeded \in -8..-1
      BY <1>7, <2>1, Zenon DEF Inside
    <3> QED BY <3>1
  <2>2. CASE ~(n + 1 < Len(sent))
    <3>1. Len(received') = Len(sent)
      BY <1>4, <1>6, <2>2
    <3>2. dec' = r.dec
      BY <1>1, <3>1, Zenon
    <3> QED BY <1>5, <3>2, Zenon
  <2> QED BY <2>1, <2>2
<1>9. Reached(h, n)
  <2>1. h[n + 1].ends = IF Syntax = End THEN h[n].ends + 1 ELSE h[n].ends
    BY <1>1, <1>5, Zenon
  <2>2. decModels' = h[n + 1].models /\ received' = Append(received, Syntax)
    BY <1>1, <1>5, Zenon
  <2> QED BY <1>1, <1>7, <1>8, <2>1, <2>2, Zenon DEF Reached
<1>10. [Next]_vars
  BY Zenon DEF Next
<1> QED BY <1>1, <1>2, <1>4, <1>9, <1>10, ReachedKeeps DEF n

LEMMA ChannelStep == ChannelInv /\ [Next]_vars => ChannelInv'
<1> SUFFICES ASSUME ChannelInv, [Next]_vars PROVE ChannelInv'
  OBVIOUS
<1>1. ASSUME NEW s \in Symbols, Encode(s) PROVE ChannelInv'
  BY <1>1, EncodeKeeps
<1>2. CASE EndSubstream
  BY <1>2, EndSubstreamKeeps
<1>3. CASE Decode
  BY <1>3, DecodeKeeps
<1>4. CASE DecodeEnd
  BY <1>4, DecodeEndKeeps
<1>5. CASE UNCHANGED vars
  <2>1. /\ enc' = enc /\ encModels' = encModels /\ slice' = slice /\ sizes' = sizes
        /\ dec' = dec /\ decModels' = decModels /\ phase' = phase /\ sent' = sent
        /\ received' = received
    BY <1>5 DEF vars
  <2>2. CodingInv'
    BY CodingStep, Zenon DEF ChannelInv
  <2>3. PICK h : /\ History(h, sent, slice, sizes)
                 /\ phase = "code" => Coding(h)
                 /\ phase = "decode" => Decoding(h)
    BY Zenon DEF ChannelInv
  <2>4. phase' = "code" => Coding(h)'
    BY <2>1, <2>3, Zenon DEF Coding
  <2>5. ASSUME phase' = "decode" PROVE Decoding(h)'
    <3> DEFINE n == Len(received)
    <3>1. /\ sent # <<>> /\ sent[Len(sent)] = End
          /\ received \in Seq(Sendable) /\ n <= Len(sent)
          /\ decModels = h[n].models /\ EndCount(received) = h[n].ends
          /\ dec.idx <= Len(slice)
          /\ dec.range \in 254..510 /\ dec.bitsNeeded \in -8..-1
          /\ n < Len(sent) => dec = DecoderAt(h[n], slice)
      BY <2>1, <2>3, <2>5, Zenon DEF Decoding
    <3>2. n < Len(sent) => dec' = DecoderAt(h[n], slice')
      BY <2>1, <3>1, Zenon
    <3>3. Len(received') = n /\ EndCount(received') = EndCount(received) /\ Len(sent') = Len(sent)
      BY <2>1, Zenon
    <3> HIDE DEF n
    <3>4. dec'.idx <= Len(slice') /\ dec'.range \in 254..510 /\ dec'.bitsNeeded \in -8..-1
      BY <2>1, <3>1, Zenon
    <3>5. sent' # <<>> /\ sent'[Len(sent')] = End /\ received' \in Seq(Sendable)
      BY <2>1, <3>1, Zenon
    <3> QED BY <2>1, <3>1, <3>2, <3>3, <3>4, <3>5, Zenon DEF Decoding
  <2>6. /\ History(h, sent', slice', sizes') /\ AtByte(enc')
        /\ sizes' \in Seq(Nat) /\ sent' \in Seq(Sendable) /\ phase' \in {"code", "decode"}
    BY <2>1, <2>3, Zenon DEF ChannelInv
  <2> QED BY <2>2, <2>4, <2>5, <2>6, Zenon DEF ChannelInv
<1> QED BY <1>1, <1>2, <1>3, <1>4, <1>5 DEF Next

LEMMA ChannelAlways == Spec => []ChannelInv
BY ChannelStart, ChannelStep, PTL DEF Spec

LEMMA ChannelTypes == ChannelInv => TypeOK
<1> SUFFICES ASSUME ChannelInv PROVE TypeOK
  OBVIOUS
<1>1. EncoderSound(enc) /\ encModels \in Models /\ slice \in Seq(Byte)
      /\ sent \in Seq(Sendable) /\ phase \in {"code", "decode"}
  BY Zenon DEF ChannelInv, CodingInv
<1>2. /\ enc.range \in 256..510 /\ enc.bitsLeft \in 12..23 /\ enc.stream.fifo \in Seq(Byte)
  <2>1. enc \in Encoder
    BY <1>1, Zenon DEF EncoderSound
  <2>2. enc.range \in Between(256, 510) /\ enc.bitsLeft \in 12..23 /\ enc.stream \in Writer
    BY <2>1 DEF Encoder, Registers
  <2>3. enc.stream.fifo \in Seq(Byte)
    BY <2>2 DEF Writer
  <2> QED BY <2>2, <2>3, Zenon DEF Between
<1>3. PICK h : /\ History(h, sent, slice, sizes)
               /\ phase = "code" => Coding(h)
               /\ phase = "decode" => Decoding(h)
  BY Zenon DEF ChannelInv
<1>4. dec.range \in 254..510 /\ dec.bitsNeeded \in -8..-1 /\ decModels \in Models
  <2>1. CASE phase = "code"
    <3>1. Coding(h)
      BY <1>3, <2>1, Zenon
    <3> QED BY <3>1, StartModels, Zenon DEF Coding
  <2>2. CASE phase = "decode"
    <3> DEFINE n == Len(received)
    <3>1. /\ received \in Seq(Sendable) /\ n <= Len(sent) /\ decModels = h[n].models
          /\ dec.range \in 254..510 /\ dec.bitsNeeded \in -8..-1
      BY <1>3, <2>2, Zenon DEF Decoding
    <3>2. n \in 0..Len(sent)
      <4>1. n \in Nat /\ Len(sent) \in Nat
        BY <1>1, <3>1
      <4> QED BY <3>1, <4>1
    <3>3. h[n].models \in Models
      <4>1. Stage(h[n])
        BY <1>3, <3>2, Zenon DEF History
      <4> QED BY <4>1, Zenon DEF Stage
    <3> QED BY <3>1, <3>3, Zenon
  <2> QED BY <1>1, <2>1, <2>2
<1> QED BY <1>1, <1>2, <1>4, Zenon DEF TypeOK, Models

LEMMA ChannelInside == ChannelInv => WindowInside
<1> SUFFICES ASSUME ChannelInv PROVE WindowInside
  OBVIOUS
<1>1. ASSUME Expecting PROVE dec.value < dec.range * 128
  <2>1. PICK h : Awaits(h, Len(received))
    BY <1>1, Expects, Zenon
  <2> DEFINE g == h[Len(received)]
  <2>2. dec = DecoderAt(g, slice) /\ Stage(g) /\ Within(g.code, slice, g.start)
    BY <2>1, Zenon DEF Awaits
  <2>3. slice \in Seq(Byte)
    BY Zenon DEF ChannelInv, CodingInv
  <2> HIDE DEF g
  <2>4. Inside(DecoderAt(g, slice), slice)
    BY <2>2, <2>3, InsideAt
  <2> QED BY <2>2, <2>4, Zenon DEF Inside
<1>2. ASSUME phase = "decode" PROVE dec.idx <= Len(slice)
  <2>1. PICK h : Decoding(h)
    BY <1>2, Zenon DEF ChannelInv
  <2> QED BY <2>1, Zenon DEF Decoding
<1> QED BY <1>1, <1>2, Zenon DEF WindowInside

LEMMA ChannelStops == ChannelInv => StopsAtEnd
<1> SUFFICES ASSUME ChannelInv, Expecting, Syntax = End
             PROVE  /\ Decoded(dec, decModels, End).bins = 1
                    /\ StopPatternPresent(Decoded(dec, decModels, End).dec)
                    /\ Decoded(dec, decModels, End).dec.idx = sizes[EndsReceived + 1]
  BY Zenon DEF StopsAtEnd
<1> DEFINE n == Len(received)
<1>1. PICK h : Awaits(h, n)
  BY Expects, Zenon
<1>2. dec = DecoderAt(h[n], slice) /\ decModels = h[n].models /\ EndCount(received) = h[n].ends
  BY <1>1, Zenon DEF Awaits
<1>3. ReadsEnd(h[n], h[n + 1], slice, sizes)
  BY <1>1, DecodeEndReads
<1>4. EndsReceived = h[n].ends
  BY <1>2, Zenon DEF EndsReceived, EndCount
<1> HIDE DEF n
<1> QED BY <1>2, <1>3, <1>4, Zenon DEF ReadsEnd

\* One step of the channel as the abstract channel sees it.
LEMMA ChannelSteps == ChannelInv /\ [Next]_vars => [Channel!Next]_<<sent, received>>
<1> SUFFICES ASSUME ChannelInv, [Next]_vars PROVE [Channel!Next]_<<sent, received>>
  OBVIOUS
<1>0. sent \in Seq(Sendable)
  BY Zenon DEF ChannelInv
<1>1. ASSUME NEW x \in Sendable, sent' = Append(sent, x), received' = received
      PROVE  Channel!Next
  <2> DEFINE z == Append(sent, x)
  <2>1. Len(z) = Len(sent) + 1 /\ SubSeq(z, 1, Len(sent)) = sent
    <3>1. z \in Seq(Sendable) /\ Len(z) = Len(sent) + 1 /\ Len(sent) \in Nat
          /\ \A i \in 1..Len(sent) : z[i] = sent[i]
      BY <1>0, <1>1
    <3> HIDE DEF z
    <3> DEFINE w == SubSeq(z, 1, Len(sent))
    <3>2. w \in Seq(Sendable) /\ Len(w) = Len(sent) /\ \A i \in 1..Len(sent) : w[i] = z[i]
      BY <3>1
    <3> HIDE DEF w
    <3>3. Len(w) = Len(sent) /\ \A i \in 1..Len(w) : w[i] = sent[i]
      BY <3>1, <3>2
    <3>4. w = sent
      BY <1>0, <3>2, <3>3, SeqEqual
    <3> QED BY <3>1, <3>4 DEF w
  <2>2. Channel!Send
    BY <1>1, <2>1, Zenon DEF Channel!Send
  <2> QED BY <2>2, Zenon DEF Channel!Next
<1>2. ASSUME NEW s \in Symbols, Encode(s) PROVE Channel!Next
  <2>1. sent' = Append(sent, s) /\ received' = received /\ s \in Sendable
    BY <1>2 DEF Encode, Sendable
  <2> QED BY <1>1, <2>1
<1>3. CASE EndSubstream
  <2>1. sent' = Append(sent, End) /\ received' = received /\ End \in Sendable
    BY <1>3 DEF EndSubstream, Sendable
  <2> QED BY <1>1, <2>1
<1>4. CASE Decode \/ DecodeEnd
  <2>1. /\ sent' = sent /\ Len(received) < Len(sent)
        /\ received' = Append(received, sent[Len(received) + 1])
    BY <1>4, DecodeKeeps, DecodeEndKeeps
  <2>2. Channel!Receive
    BY <2>1, Zenon DEF Channel!Receive
  <2> QED BY <2>2, Zenon DEF Channel!Next
<1>5. CASE UNCHANGED vars
  BY <1>5 DEF vars
<1> QED BY <1>2, <1>3, <1>4, <1>5 DEF Next

\* The registers of both sides keep their ranges, and the contexts stay
\* probabilities (BinEncoder.cpp, BinDecoder.cpp, Contexts.h).
THEOREM CabacTypes == Spec => []TypeOK
<1>1. []ChannelInv => []TypeOK
  BY ChannelTypes, PTL
<1> QED BY <1>1, ChannelAlways, PTL

\* The decoder's value lies inside its interval while symbols remain, and it
\* never reads behind the slice (BinDecoder::start, readByte's CHECK).
THEOREM WindowCorrect == Spec => []WindowInside
<1>1. []ChannelInv => []WindowInside
  BY ChannelInside, PTL
<1> QED BY <1>1, ChannelAlways, PTL

\* The decoder finds the end of every substream, the stop bit where finish
\* checks it, and the first byte of the next substream (DecSlice, finish).
THEOREM StopsCorrect == Spec => []StopsAtEnd
<1>1. []ChannelInv => []StopsAtEnd
  BY ChannelStops, PTL
<1> QED BY <1>1, ChannelAlways, PTL

\* The arithmetic decoder inverts the arithmetic encoder: the symbols of a
\* slice arrive in order and unchanged (BinEncoder.cpp, BinDecoder.cpp).
THEOREM CabacLossless == Spec => Lossless
<1>1. Init => Channel!Init
  BY DEF Init, Channel!Init
<1>2. Spec => Init /\ [][Next]_vars
  BY PTL DEF Spec
<1>3. []ChannelInv /\ [][Next]_vars => [][Channel!Next]_<<sent, received>>
  BY ChannelSteps, PTL
<1>4. Spec => Channel!Init /\ [][Channel!Next]_<<sent, received>>
  BY <1>1, <1>2, <1>3, ChannelAlways, PTL
<1> QED BY <1>4 DEF Lossless, Channel!Safe
=============================================================================
